SPECIFICATION RefreshSpec
CONSTANTS
    Snapshots = {"s1", "s2", "s3"}
    Users = {"readme", "testdata"}
    MaxRuns = 4
INVARIANTS
    EveryFileIsMoved
CHECK_DEADLOCK FALSE
