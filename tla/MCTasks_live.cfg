SPECIFICATION CastSpec
CONSTANTS
    t1 = t1
    t2 = t2
    t3 = t3
    w1 = w1
    w2 = w2
    NoTask = NoTask
    Tasks = {t1, t2, t3}
    Workers = {w1}
    Kind <- KindAll
    Cancellable = {t3}
    MaxStarts = 2
    MaxExtCalls = 1
PROPERTIES RunningEnds InFlightEnds PoolDrains
CHECK_DEADLOCK FALSE
