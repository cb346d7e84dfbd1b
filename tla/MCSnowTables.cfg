SPECIFICATION TablesSpec
CONSTANTS
    Goroutines = {c1, c2, c3}
    Tables = {t1, t2}
    NoGoroutine = NoGoroutine
    NoTable = NoTable
INVARIANTS
    TablesTypeOK
    OneWorkerPerTable
PROPERTIES
    CallsEnd
\* The process may be killed by the runtime, or all its callers panic.
CHECK_DEADLOCK FALSE
