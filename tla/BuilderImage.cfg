SPECIFICATION BISpec
CONSTANTS
    Text <- MCText
    GavVersion <- MCGavVersion
    ConfigDigests = {none, c1}
    NoConfigDigest = none
    Conditions <- CalmCluster
    VDBs = {v1, v2}
    UserSpecs <- OneDdl
    NoVdb = NoVdb
    MaxBuilds = 2
    MaxBuilderFaults = 1
    MaxEdits = 3
    MaxReplaces = 0
    MaxFaults = 0
    MaxCrashes = 1
    MaxRelists = 0
CONSTRAINT UpToBuilder
INVARIANTS
    BuilderImageExists
    BuilderBuiltOnce
PROPERTY BuilderImplementsReconciler
CHECK_DEADLOCK FALSE
