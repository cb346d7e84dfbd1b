SPECIFICATION Spec
CONSTANTS
    Callers = {c1, c2}
    Workers = {2, 4}
    NumberMax = 1
    MaxClock = 2
    MaxEpoch = 1
    NoCaller = NoCaller
SYMMETRY CallerSymmetry
INVARIANTS
    TypeOK
    UniqueInEpoch
    TimeOrdered
