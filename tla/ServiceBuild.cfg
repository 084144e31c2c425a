SPECIFICATION SBFairSpec
CONSTANTS
    Text <- MCText
    GavVersion <- MCGavVersion
    ConfigDigests = {none, c1}
    NoConfigDigest = none
    Conditions <- CalmCluster
    VDBs = {v1}
    UserSpecs <- ThreeDdls
    NoVdb = NoVdb
    NoBC = NoBC
    BadSources <- Ddl3Bad
    TagMayVanish = TRUE
    MaxCallFaults = 1
    MaxEdits = 3
    MaxReplaces = 0
    MaxFaults = 0
    MaxCrashes = 1
    MaxRelists = 0
CONSTRAINTS OneDisturbance UpToImage
INVARIANTS
    SBTypeOK
    UndisturbedImageMatchesDigest
    BuildRequestedOnce
PROPERTIES
    BuildPhaseEnds
    ImplementsReconciler
CHECK_DEADLOCK FALSE
