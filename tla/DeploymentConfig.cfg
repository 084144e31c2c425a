SPECIFICATION DFairSpec
CONSTANTS
    Text <- MCText
    GavVersion <- MCGavVersion
    r1 = r1
    r2 = r2
    Revisions <- MCRevisions
    ConfigDigests <- MCConfigDigests
    NoConfigDigest <- MCNoDigest
    Conditions <- CalmCluster
    VDBs = {v1}
    UserSpecs <- OneDdl
    NoVdb = NoVdb
    NoDeployment = NoDeployment
    UserEnv <- MCUserEnv
    SourcesIn <- MCSourcesIn
    DataSources <- MCDataSources
    HasJaeger = TRUE
    TrustedGeneration = 2
    Words <- MCWords
    ProxyUrls <- NoUrls
    ClusterProxy <- MCClusterProxy
    MaxConfigEdits = 1
    MaxDeployFaults = 0
    MaxEdits = 1
    MaxReplaces = 0
    MaxFaults = 0
    MaxCrashes = 0
    MaxRelists = 0
PROPERTY ConfigReachesPods
CHECK_DEADLOCK FALSE
