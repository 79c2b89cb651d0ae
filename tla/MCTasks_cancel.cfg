SPECIFICATION Spec
CONSTANTS
    t1 = t1
    t2 = t2
    t3 = t3
    w1 = w1
    w2 = w2
    NoTask = NoTask
    Tasks = {t1}
    Workers = {w1}
    Kind <- KindEcho
    Cancellable = {t1}
    MaxStarts = 1
    MaxExtCalls = 0
INVARIANTS CancelEndsTask
CHECK_DEADLOCK FALSE
