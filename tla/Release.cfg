SPECIFICATION FairSpec
CONSTANTS
    Disks <- SmallDisks
    Options <- SmallOptions
    Fixtures <- SmallFixtures
    Cases <- SmallCases
    WellFormed <- SmallWellFormed
    Volumes <- SmallVolumes
    PacketLengths <- LengthsOfPackets
    Upper <- SmallUpper
    MaxLongNameSlots = 2
    MaxDirectoryBytes = 2097152
    MaxSpool = 5
    MaxArtifact = 5
    MaxSignatures = 2
    MaxLevels = 3
INVARIANTS
    DiskIsUnambiguous
    VerifiedIsMerkle
    UpdateIsTheImage
    FixtureIsSound
    EspIsRead
PROPERTIES
    EspReadingEnds
CHECK_DEADLOCK FALSE
