SPECIFICATION Spec
CONSTANTS
    Procs = {p1, p2}
    Users = {u1}
    Duration = 2
    Grace = 1
    MaxTokens = 3
    MaxTime = 2
SYMMETRY ProcSymmetry
INVARIANTS
    TypeOK
    CurrentSessionAlive
    OneSessionUnlessDisturbed
