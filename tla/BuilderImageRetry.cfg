SPECIFICATION BISpec
CONSTANTS
    Text <- MCText
    GavVersion <- MCGavVersion
    ConfigDigests = {none, c1}
    NoConfigDigest = none
    Conditions <- CalmCluster
    VDBs = {v1}
    UserSpecs <- TwoDdls
    NoVdb = NoVdb
    MaxBuilds = 3
    MaxBuilderFaults = 0
    MaxEdits = 2
    MaxReplaces = 0
    MaxFaults = 0
    MaxCrashes = 0
    MaxRelists = 0
PROPERTY RetryDecides
CHECK_DEADLOCK FALSE
