CONSTANTS
    Callers = {a, b, c}
    Configs = {d, e}
    NoConfig = NoConfig
    MaxConns = 2

SPECIFICATION SharedSpec
SYMMETRY Symmetric
INVARIANTS
    SharedTypeOK
    OneConnectionAsAsked
    CallsGoOn
PROPERTY LiveConnectionsGoUnborrowed
CHECK_DEADLOCK FALSE
