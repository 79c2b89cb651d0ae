SPECIFICATION LiveSpec
CONSTANTS
    Releases = {old, good, bad}
    Broken = {bad}
    Seeded = old
    Embedded = "none"
    Threshold = 2
    MaxApplies = 3
    MaxFaults = 2
    MaxCuts = 1
INVARIANTS TypeOK WindowIsBootable
PROPERTIES CurrentIsKept ComesBack WindowCloses
CHECK_DEADLOCK FALSE
