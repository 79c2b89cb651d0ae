SPECIFICATION LiveSpec
CONSTANTS
    Main = Main
    N = 2
    MaxConcurrent = 1
    MaxChildren = 3
    MaxDepth = 1
    Cancellable = {}
    Callers = {Main}
    MaxRequests = 3
    MaxSweeps = 1
    MaxRestarts = 0
PROPERTIES QueueDrains RunningEnds
CHECK_DEADLOCK FALSE
