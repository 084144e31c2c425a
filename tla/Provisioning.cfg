SPECIFICATION PSpec
CONSTANTS
    Text <- MCText
    GavVersion <- MCGavVersion
    ConfigDigests = {none, c1}
    NoConfigDigest = none
    Conditions <- FullCluster
    VDBs = {v1}
    UserSpecs <- OneDdl
    NoVdb = NoVdb
    NoObject = NoObject
    Lagging <- None
    UserProvides <- Provided
    CachingOff <- None
    HasPrometheus = TRUE
    MaxBuilds = 1
    MaxBuilderFaults = 0
    MaxOwnedFaults = 1
    MaxEdits = 3
    MaxReplaces = 0
    MaxFaults = 0
    MaxCrashes = 1
    MaxRelists = 0
INVARIANTS
    OwnedTypeOK
    PasswordsAgree
    RecordedStoreExists
    ServiceOrFailure
    RecordedRouteExists
    MountedKeystoreExists
PROPERTIES
    ProvisioningImplementsReconciler
CONSTRAINTS NoDeadEnds OneDisturbance InfinispanFirst
ACTION_CONSTRAINTS NoOwnedEvents CollectedFromTheEnds
CHECK_DEADLOCK FALSE
