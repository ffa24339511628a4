SPECIFICATION CommandSpec
CONSTANTS
    Universes <- SmallUniverses
    Requests <- SmallRequests
    FragmentCharacters = {"~", "0", "1", "a", "+"}
    VersionCharacters = {"~", "1", "-", ":"}
    MaxCharacters = 3
    Snapshots = {"s1", "s2", "s3"}
    Users = {"readme", "testdata"}
    MaxRuns = 4
    PackageLists <- SmallLists
    Manifests <- SmallManifests
    AllowedDangling <- SmallAllowed
    EmptyTargets <- SmallEmptyTargets
    Certificates <- SmallCertificates
    Bundle <- SmallBundle
    RuntimeTargets <- SmallRuntimeTargets
    MountRoots <- SmallMountRoots
    ResolvConf <- SmallResolvConf
    LegacyLinks <- SmallLegacy
INVARIANTS
    LockIsClosed
    LockIsNeeded
    VersionOrder
    PinsAgree
    FailuresAreRepeatable
    LinksLead
    TreeIsThePackages
PROPERTIES
    ResolutionEnds
CHECK_DEADLOCK FALSE
