SPECIFICATION Spec
CONSTANTS
    MaxStarts = 2
    Main = Main
    NoOne = NoOne
INVARIANTS
    TypeOK
    StoppedStopsServing
    StoppedStopsProxy
    CleanWhenSettled
PROPERTIES
    StartServes
    NothingLeft
\* The service may end, and its process die.
CHECK_DEADLOCK FALSE
