SPECIFICATION SBSpec
CONSTANTS
    Text <- MCText
    GavVersion <- MCGavVersion
    ConfigDigests = {none, c1}
    NoConfigDigest = none
    Conditions <- CalmCluster
    VDBs = {v1}
    UserSpecs <- TwoDdls
    NoVdb = NoVdb
    NoBC = NoBC
    BadSources <- NoneBad
    TagMayVanish = FALSE
    MaxCallFaults = 0
    MaxEdits = 2
    MaxReplaces = 0
    MaxFaults = 0
    MaxCrashes = 1
    MaxRelists = 0
INVARIANT ImageMatchesDigest
CHECK_DEADLOCK FALSE
