SPECIFICATION Spec
CONSTANTS
    NameOrder <- SmallOrder
    BelowSlash <- SlashLow
    Stale <- SmallStale
    Cases <- LowCases
    MkosiCodes <- SmallCodes
INVARIANTS
    CollisionsAreRejected
CHECK_DEADLOCK FALSE
