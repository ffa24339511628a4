SPECIFICATION Spec
CONSTANTS
    Progress <- OneStep
    ShutdownMarkers = {"poweroff", "down"}
    OtherMarkers = {}
    Modes = {"shutdown"}
    QmpTimeout = 2
    BootTimeout = 2
    ShutdownTimeout = 1
    StopTimeout = 1
    CleanupMargin = 5
    Limit = 3
    MaxSerial = 4
INVARIANT
    OneMarkerIsEnough
