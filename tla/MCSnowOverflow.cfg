SPECIFICATION Spec
CONSTANTS
    Callers = {c1, c2}
    Workers = {3}
    NumberMax = 1
    MaxClock = 2
    MaxEpoch = 0
    NoCaller = NoCaller
INVARIANTS
    UniqueInEpoch
