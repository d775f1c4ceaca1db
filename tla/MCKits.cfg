CONSTANTS
    Events = {1, 2, 3}
    NumSinks = 2
    BadIdentity = {2}
    MaxInflight = 2
    MaxParallel = 1

    Uploads = {1, 2, 3}
    NoUpload = NoUpload
    RuntimeStops = FALSE

    Rooms = {1, 2, 3}
    NoRoom = 0
    MaxMessages = 3
    StoreLimit = 1
    SessionPendingLimit = 2
    Concurrency = 1
    QueueLimit = 1
    MaxRestarts = 0

    Chats = {c1, c2}
    EntryLimits = {1, 2}
    MaxEdits = 3

    Helpers = {h1, h2}
    SpawnRetries = 2
    CleanupRetries = 2

    k1 = k1
    k2 = k2
    Lookups = {1, 2}
    CacheKeys = {k1, k2}
    HintsOf <- MCHints
    KeysOf <- MCKeys
    NoKey = NoKey
    MaxEntries = 1
    Ttl = 1
    MaxClock = 2

    MaxConnections = 3

    Asks = {1, 2}
    Notices = {3}
    HandlerConcurrency = 2
    HandlerTimeout = TRUE
    MaxTakes = 1

    MaxConcurrent = 2
    MaxEvents = 3
    MaxRounds = 2

SPECIFICATION KitsSpec
INVARIANTS
    KitsTypeOK
    CallsAreAccountedFor
    RefreshHasItsFetch
    ChangesAreKept
    CommandIsInHand
    CacheServesItsKeys
    ConnectionsAreTracked
    HandlersServeAll
    LoopServesItsRound
PROPERTIES
    NoStepBack
    KitCallsEnd
CHECK_DEADLOCK FALSE
