SPECIFICATION RepositorySpec
CONSTANTS
    Archives <- MCArchives
    Suite = "trixie"
    Components <- MCComponents
    PoolPaths <- MCPoolPaths
    SafePaths <- MCSafePaths
    Escaped <- MCEscaped
    Identifiers = {"trixie", "forky", "main", "contrib"}
    MaxAttempts = 2
    MaxChanges = 1
    Edits <- MCEdits
INVARIANTS
    LockIsUsable
    StagedIsAuthentic
CHECK_DEADLOCK FALSE
