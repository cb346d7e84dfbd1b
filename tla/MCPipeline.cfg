SPECIFICATION Spec
CONSTANTS
    Routes <- SomeRoutes
INVARIANTS
    TypeOK
    FiltersPassed
    TokenFresh
    AnsweredOnce
    PanicContained
