SPECIFICATION Spec
CONSTANTS
    Sizes = {0, 2}
    RangeHeaders <- SomeHeaders
    MaxVersions = 2
    MaxTime = 2
INVARIANTS
    TypeOK
    CopyPure
    NotModifiedCurrent
    AnswerAsDeclared
PROPERTIES
    RequestEnds
