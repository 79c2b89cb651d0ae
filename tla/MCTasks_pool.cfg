SPECIFICATION Spec
CONSTANTS
    t1 = t1
    t2 = t2
    t3 = t3
    w1 = w1
    w2 = w2
    NoTask = NoTask
    Tasks = {t1, t2, t3}
    Workers = {w1}
    Kind <- KindAll
    Cancellable = {t1, t3}
    MaxStarts = 1
    MaxExtCalls = 1
INVARIANTS TypeOK OneSettler PoolWorkConserving NoOrphan
PROPERTIES ImplementsLifecycle
CONSTRAINT OneParty
CHECK_DEADLOCK FALSE
