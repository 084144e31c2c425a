SPECIFICATION FairSpec
CONSTANTS
    Text <- MCText
    GavVersion <- MCGavVersion
    ConfigDigests = {none, c1}
    NoConfigDigest = none
    Conditions <- RoughCluster
    VDBs = {v1}
    UserSpecs <- SomeSpecs
    NoVdb = NoVdb
    MaxEdits = 2
    MaxReplaces = 1
    MaxFaults = 1
    MaxCrashes = 1
    MaxRelists = 1
CONSTRAINT OneDisturbance
PROPERTY ImplementsLifecycle
PROPERTY DigestConverges
PROPERTY OperatorStaysUp
CHECK_DEADLOCK FALSE
