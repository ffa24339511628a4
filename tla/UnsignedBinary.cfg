SPECIFICATION Spec
CONSTANTS
    Manifest <- SmallManifest
    PathOf <- SmallPathOf
    Ukis <- SmallUkis
    Cases <- SmallCases
    Certificates <- SmallCertificates
    Options <- SmallOptions
    Lower <- SmallLower
    EfiNames <- SmallEfi
    KeySets <- SmallKeySets
    KeyPath <- SmallKeyPath
    LoaderConf = "loader.conf"
    EspManifest = "manifest.json"
INVARIANT
    NothingUnsigned
CHECK_DEADLOCK FALSE
