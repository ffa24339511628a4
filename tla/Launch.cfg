\* Launchers are told apart in the liveness property, so there is no symmetry.
SPECIFICATION LaunchSpec
CONSTANTS
    Launchers = {l1, l2}
    NoOne = NoOne
    TypedMounts <- OneOfEach
    Killable = {"mapper", "middle", "init"}
    ToolCodes = {0, 3, 137}
    MaxSwaps = 2
INVARIANTS
    ScratchIsSound
    Confinement
    StatusIsTheTools
    NothingLeftBehind
PROPERTIES
    OnlyOwnPartial
    Termination
    ImplementsScratchClaim
    EveryProcessEnds
CHECK_DEADLOCK FALSE
