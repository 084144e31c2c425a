SPECIFICATION Spec
CONSTANTS
    Text <- MCText
    GavVersion <- MCGavVersion
    ConfigDigests = {none, c1}
    NoConfigDigest = none
    Conditions <- CalmCluster
    VDBs = {v1}
    UserSpecs <- OneDdl
    NoVdb = NoVdb
    MaxEdits = 3
    MaxReplaces = 0
    MaxFaults = 0
    MaxCrashes = 0
    MaxRelists = 1
INVARIANT NoLostWakeup
CHECK_DEADLOCK FALSE
