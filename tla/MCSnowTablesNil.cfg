SPECIFICATION TablesSpec
CONSTANTS
    Goroutines = {c1, c2}
    Tables = {t1}
    NoGoroutine = NoGoroutine
    NoTable = NoTable
INVARIANTS
    NoNilWorker
CHECK_DEADLOCK FALSE
