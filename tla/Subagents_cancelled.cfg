SPECIFICATION Spec
CONSTANTS
    Main = Main
    N = 2
    MaxConcurrent = 1
    MaxChildren = 2
    MaxDepth = 1
    Cancellable = {2}
    Callers = {Main}
    MaxRequests = 2
    MaxSweeps = 0
    MaxRestarts = 0
PROPERTIES CancelledStaysCancelled
CHECK_DEADLOCK FALSE
