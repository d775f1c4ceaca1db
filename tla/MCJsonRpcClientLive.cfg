CONSTANTS
    Reader = Reader
    User = User
    Nobody = Nobody
    Callers = {timed, plain}
    Timed = {timed}
    Ids = {1}
    MaxPending = 1
    CancelledMax = 1
    MaxGeneration = 1

SPECIFICATION FairClientSpec
PROPERTIES
    TimedRequestReturns
    CloseEndsWhatRuns
CHECK_DEADLOCK FALSE
