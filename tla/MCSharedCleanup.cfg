CONSTANTS
    Callers = {a, b, c}
    Configs = {d}
    NoConfig = NoConfig
    MaxConns = 1

SPECIFICATION SharedSpec
INVARIANT DeferredCleanupDisconnects
CHECK_DEADLOCK FALSE
