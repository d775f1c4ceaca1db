CONSTANTS
    Parts = {"batch", "http", "spawner", "lazy"}

    Reader = 1
    Requests = {2, 3}
    Owners = {4, 5, 6}
    RequestOf <- MCRequestOf

    PostIds = {1}
    AskIds = {1}
    MaxPostNotes = 0
    MaxSession = 2
    MaxPushes = 0
    WaitsForAnswer = FALSE

    Jobs = {1, 2}
    ParentOf <- Flat
    MaxWorkers = 3
    MaxDeaths = 1

    Threads = {1, 2, 3}
    Lazies = {a, b}
    NoThread = NoThread
    NoLazy = NoLazy
    MaxDepth = 2
    MaxCalls = 3
    Panics = TRUE

SPECIFICATION TransportSpec
INVARIANTS
    TransportTypeOK
    BatchIsWhole
    OutcomeIsTrue
    InitializersServeWaiters
PROPERTIES
    WorkEnds
CHECK_DEADLOCK FALSE
