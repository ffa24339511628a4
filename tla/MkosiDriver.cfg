SPECIFICATION Spec
CONSTANTS
    NameOrder <- SmallOrder
    BelowSlash <- NoLow
    Stale <- SmallStale
    Cases <- SmallCases
    MkosiCodes <- SmallCodes
INVARIANTS
    StagedIsDeclared
    ConfigurationIsDeclared
    ReleaseIsValidated
    StatusIsHonest
PROPERTIES
    ValidatedBeforeWriting
CHECK_DEADLOCK FALSE
