SPECIFICATION FairSpec
CONSTANTS
    Progress <- OneStep
    ShutdownMarkers = {"poweroff", "down"}
    OtherMarkers = {}
    Modes = {"shutdown", "stop", "failure"}
    QmpTimeout = 2
    BootTimeout = 2
    ShutdownTimeout = 1
    StopTimeout = 1
    CleanupMargin = 5
    Limit = 3
    MaxSerial = 4
INVARIANTS
    VerdictIsProven
    QemuIsGone
    FitsTestTimeout
PROPERTY
    DriverEnds
