CONSTANTS
    t1 = t1
    t2 = t2
    t3 = t3
    p = p
    q = q
    Threads = {t1, t2, t3}
    NoThread = NoThread
    Processes = {p, q}
    ProcessOf <- MCProcessOf
    Root = 2
    Depth = 3
    NumFiles = 1
    RootMounted = FALSE
    Others = TRUE
    Faults = FALSE
    MaxCrashes = 0

SPECIFICATION BootstrapSpec
INVARIANT OneAttemptAtATime
CHECK_DEADLOCK FALSE
