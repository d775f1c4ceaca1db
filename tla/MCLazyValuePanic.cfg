CONSTANTS
    Threads = {t1, t2, t3}
    Lazies = {a}
    NoThread = NoThread
    NoLazy = NoLazy
    MaxDepth = 1
    MaxCalls = 4
    Panics = TRUE

SPECIFICATION LazySpec
CHECK_DEADLOCK FALSE
PROPERTY FailureReachesItsWaiters
