SPECIFICATION VSpec
CONSTANTS
    Text <- MCText
    GavVersion <- MCGavVersion
    ConfigDigests = {none, c1}
    NoConfigDigest = none
    Conditions <- CalmCluster
    VDBs = {v1}
    UserSpecs <- TwoDdls
    NoVdb = NoVdb
    MaxEdits = 3
    MaxReplaces = 0
    MaxFaults = 1
    MaxCrashes = 1
    MaxRelists = 0
INVARIANTS
    TypeOK
    NoLostWakeup
    ConsoleLinkRemoved
    VersionNamesOneSource
PROPERTY ImplementsLifecycle
CHECK_DEADLOCK FALSE
