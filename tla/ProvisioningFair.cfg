SPECIFICATION PFairSpec
CONSTANTS
    Text <- MCText
    GavVersion <- MCGavVersion
    ConfigDigests = {none, c1}
    NoConfigDigest = none
    Conditions <- BareCluster
    VDBs = {v1}
    UserSpecs <- TwoScaled
    NoVdb = NoVdb
    NoObject = NoObject
    Lagging <- ServiceLags
    UserProvides <- NothingProvided
    CachingOff <- None
    HasPrometheus = TRUE
    MaxBuilds = 2
    MaxBuilderFaults = 1
    MaxOwnedFaults = 1
    MaxEdits = 3
    MaxReplaces = 0
    MaxFaults = 0
    MaxCrashes = 0
    MaxRelists = 0
INVARIANT ServiceOrFailure
PROPERTIES
    BuilderPhaseEnds
    CertificateWaitEnds
    MonitorStays
CONSTRAINTS NoDeadEnds OneDisturbance ThenRecreated
ACTION_CONSTRAINTS NoOwnedEvents CollectedFromTheEnds
CHECK_DEADLOCK FALSE
