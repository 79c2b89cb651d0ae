SPECIFICATION LiveSpec
CONSTANTS
    Releases = {old, bad}
    Broken = {bad}
    Seeded = "none"
    Embedded = old
    Threshold = 2
    MaxApplies = 1
    MaxFaults = 0
    MaxCuts = 0
PROPERTIES AutomaticRollback
CHECK_DEADLOCK FALSE
