SPECIFICATION Spec
CONSTANTS
    Manifest <- SmallManifest
    PathOf <- SmallPathOf
    Ukis <- SmallUkis
    Cases <- SmallCases
    Certificates <- SmallCertificates
    Options <- SmallOptions
    Lower <- SmallLower
    EfiNames <- SmallEfi
    KeySets <- SmallKeySets
    KeyPath <- SmallKeyPath
    LoaderConf = "loader.conf"
    EspManifest = "manifest.json"
INVARIANTS
    SignaturesAreReadOneWay
    ImportIsExact
    ImageIsTrusted
PROPERTIES
    SigningIsWhole
CHECK_DEADLOCK FALSE
