SPECIFICATION StoreSpec
CONSTANTS
    Procs = {p1}
    Users = {u1}
    Duration = 1
    Grace = 1
    MaxTokens = 1
    MaxTime = 1
    MaxCrashes = 2
    Unreadable = Unreadable
PROPERTIES
    SnapshotOfThisSave
    EventuallySaved
    RestartRestoresUnlessTorn
