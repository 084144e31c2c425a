SPECIFICATION PayloadSpec
CONSTANTS
    ConnectionFactories <- MCFactories
    FactoryOrder <- MCOrder
    Urls <- MCUrls
    Coordinates <- MCCoordinates
    Contents <- MCContents
    SnapshotVersions <- MCSnapshots
    Stamps <- MCStamps
    Ddls <- MCDdls
    NoDdl = "none"
    SourceTypes <- MCSourceTypes
    BadNames <- Nothing
    Materialized <- Ddl2Only
    Specs <- MCSpecs
    Given <- SomeSettings
    NoImage = NoImage
    MaxEdits = 1
    MaxOutages = 1
    MaxRestarts = 1
CONSTRAINT OneDisturbance
ACTION_CONSTRAINT WhileInUse
INVARIANTS
    ImageOfTheArtifactNamed
    NoSpuriousFailure
    PodsFitImage
    UserVersionsWin
    BuilderHasAll
    SettingsObeyed
CHECK_DEADLOCK FALSE
