CONSTANTS
    Parts = {"spawner"}

    Reader = 1
    Requests = {2, 3}
    Owners = {4, 5, 6}
    RequestOf <- MCRequestOf

    PostIds = {1}
    AskIds = {1}
    MaxPostNotes = 0
    MaxSession = 2
    MaxPushes = 0
    WaitsForAnswer = FALSE

    Jobs = {1, 2}
    ParentOf <- Nest
    MaxWorkers = 2
    MaxDeaths = 0

    Threads = {1, 2, 3}
    Lazies = {a, b}
    NoThread = NoThread
    NoLazy = NoLazy
    MaxDepth = 2
    MaxCalls = 3
    Panics = TRUE

SPECIFICATION TransportSpec
PROPERTY SpawnCallsReturn
CHECK_DEADLOCK FALSE
