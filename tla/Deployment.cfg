SPECIFICATION DFairSpec
CONSTANTS
    Text <- MCText
    GavVersion <- MCGavVersion
    r1 = r1
    r2 = r2
    Revisions <- MCRevisions
    ConfigDigests <- MCConfigDigests
    NoConfigDigest <- MCNoDigest
    Conditions <- CalmCluster
    VDBs = {v1}
    UserSpecs <- EditedSpecs
    NoVdb = NoVdb
    NoDeployment = NoDeployment
    UserEnv <- MCUserEnv
    SourcesIn <- MCSourcesIn
    DataSources <- MCDataSources
    HasJaeger = TRUE
    TrustedGeneration = 2
    Words <- MCWords
    ProxyUrls <- NoUrls
    ClusterProxy <- MCClusterProxy
    MaxConfigEdits = 1
    MaxDeployFaults = 1
    MaxEdits = 2
    MaxReplaces = 1
    MaxFaults = 0
    MaxCrashes = 1
    MaxRelists = 0
CONSTRAINT TwoDisturbances
INVARIANT DTypeOK
INVARIANT DeploymentOfTheImage
PROPERTY EnvironmentAsAsked
PROPERTY DeploymentImplementsReconciler
PROPERTY SpecReachesDeployment
PROPERTY ImageReachesPods
PROPERTY DeploymentSettles
CHECK_DEADLOCK FALSE
