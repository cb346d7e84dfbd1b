SPECIFICATION Spec
CONSTANTS
    Workers = {w1, w2}
    Producers = {p1, p2}
    Capacity = 2
    MaxTasks = 5
    NoTask = NoTask
INVARIANTS
    TypeOK
    WaitedForAll
PROPERTIES
    KeepsPromise
\* A pool that was waited for is done with.
CHECK_DEADLOCK FALSE
