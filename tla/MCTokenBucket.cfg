SPECIFICATION Spec
CONSTANTS
    Callers = {c1, c2}
    Capacity = 3
    Quantum = 2
    FillInterval = 2
    Counts = {1, 2, 4}
    MaxWaits = {1, 99}
    MaxGrants = 4
    MaxTick = 3
SYMMETRY CallerSymmetry
INVARIANTS
    TypeOK
    RateBound
    ServedInOrder
PROPERTIES
    FillsEagerly
