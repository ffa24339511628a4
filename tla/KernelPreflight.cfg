SPECIFICATION FairSpec
CONSTANTS
    Killable = {"parent", "child", "probe"}
    Dispositions = {"default", "ignored"}
INVARIANTS
    ReportIsTrue
    NothingLeftRunning
PROPERTY
    EveryProcessEnds
CHECK_DEADLOCK FALSE
