SPECIFICATION Spec
CONSTANTS
    Main = Main
    N = 3
    MaxConcurrent = 1
    MaxChildren = 2
    MaxDepth = 2
    Cancellable = {2}
    Callers = {Main, 1}
    MaxRequests = 3
    MaxSweeps = 0
    MaxRestarts = 1
INVARIANTS TypeOK WithinCapacity TreeBounds SlotsAccounted
PROPERTIES OutcomeIsFinal PumpIsFifo
CHECK_DEADLOCK FALSE
