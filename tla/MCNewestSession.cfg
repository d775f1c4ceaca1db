CONSTANTS
    PostIds = {1}
    AskIds = {1}
    MaxPostNotes = 1
    MaxSession = 2
    MaxPushes = 0
    WaitsForAnswer = FALSE

SPECIFICATION HttpSpec
INVARIANT NewestSessionIsFollowed
CHECK_DEADLOCK FALSE
