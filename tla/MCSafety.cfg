CONSTANTS
    t1 = t1
    t2 = t2
    t3 = t3
    home = home
    away = away
    Threads = {t1, t2, t3}
    NoThread = NoThread
    Processes = {home, away}
    ProcessOf <- MCProcessOf
    Root = 2
    Depth = 3
    NumFiles = 1
    RootMounted = FALSE
    Others = TRUE
    Faults = TRUE
    MaxCrashes = 1

    Ids = {a, b, c}
    CancelledMax = 3
    MaxGeneration = 6

    Rooms = {1, 2, 3}
    NoRoom = 0
    MaxMessages = 3
    StoreLimit = 1
    SessionPendingLimit = 2
    Concurrency = 1
    QueueLimit = 1
    MaxRestarts = 1

    Statics = {3}
    Dynamics = {1, 2}
    CatalogLocales = {"d", "e"}
    DefaultOf <- MCDefault
    ComposedDefault = "d"
    StrategyOf <- MCStrategy
    Compositions <- MCCompositions
    LocaleRequests <- MCLocaleRequests
    Readers = {reader}
    Reloaders = {reloader}
    MaxSources = 2
    MaxLoads = 3

    LocaleTags = {"zh", "tw", "hant", "x"}
    LanguageTags = {"zh", "tw"}
    RegionTags = {"zh", "tw"}
    ScriptTags = {"hant"}
    MaxTags = 3
    EnabledSets <- MCEnabledSets
    DefaultLocales <- MCDefaultLocales
    MaxArgs = 4
    MaxTokens = 4

    TreeRoot = 1
    TreeDirs = {1, 2}
    TreeFiles = {3, 4}
    BytesOf <- MCBytesOf
    TreeNames = {1, 2}
    IdentityOf <- MCIdentityOf
    Symlink = 9
    OutsideFile = 8
    ScanLimits <- MCScanLimits
    WantedPaths <- MCWantedPaths
    MaxFileBytes = 1
    MaxTreeBytes = 2
    RootRequests <- MCRootRequests
    MaxTreeEdits = 1

SPECIFICATION SafetySpec
CONSTRAINT Explored
INVARIANTS
    SafetyTypeOK
    AttemptsAreWhole
    ChatsAreInOrder
    ReadsAreTrue
    AnswersAreExact
PROPERTIES
    RollbackSparesLoads
    RecentIdsSpec
CHECK_DEADLOCK FALSE
