SPECIFICATION Spec
CONSTANTS
    Runs = {r1, r2}
    Files = {1, 2}
    Texts <- SomeTexts
    Dirs <- SomeDirs
    Unnamed = {"."}
INVARIANTS
    TypeOK
    OutputWhole
    TempsRemoved
    AllOrNothing
    AloneIsComplete
SYMMETRY Alike
CHECK_DEADLOCK FALSE
