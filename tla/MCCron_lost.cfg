SPECIFICATION CronSpec
CONSTANTS
    N = 2
    Old = {1, 2}
    Period <- Periods
    QueueJobs = {2}
    RunOnceJobs = {1}
    MaxDelay = 9
    MaxTime = 4
    MaxRequests = 0
    MaxRestarts = 0
INVARIANTS NoLostTimer
CHECK_DEADLOCK FALSE
