CONSTANTS
    Reader = Reader
    User = User
    Nobody = Nobody
    Callers = {timed, plain}
    Timed = {timed}
    Ids = {1, 2}
    MaxPending = 1
    CancelledMax = 1
    MaxGeneration = 2

    PostIds = {1}
    AskIds = {1}
    MaxPostNotes = 1
    MaxSession = 2
    MaxPushes = 1
    WaitsForAnswer = FALSE

    MaxBytes = 5
    MaxLineBytes = 3
    MaxEventBytes = 1

    PartBytes = 2
    MaxParts = 2
    MaxWritten = 8
    MaxLine = 3

    Hosts = {"api.example", "localhost", "printer.local", "10.0.0.1", "127.0.0.1"}
    KindOfHost <- MCKindOfHost
    LiteralOf <- MCLiteralOf
    Under <- MCUnder

    Managers <- MCManagers
    Servers <- MCServers
    MaxEnvEdits = 1
    MaxSends = 2

    MaxChunk = 3
    MaxSent = 8
    BodyLimits = {0, 1, 3}
    DrainLimit = 3

    TrustedHosts = {"api.example", "10.0.0.1"}
    MaxRedirects = 2
    Fetches <- MCFetches

    ClipLimits <- MCClipLimits
    NoticeQuestions <- MCNoticeQuestions

    Deliveries <- MCDeliveries

    Nonces = {"x"}
    EnvelopeFaults = {"none", "receiver"}
    Window = 1
    KeepFor = 2
    CleanEvery = 1
    MaxRemembered = 2
    Ahead = 1
    MaxMail = 3
    MaxClock = 5

    Jobs <- MCJobs
    ContextLimit = 12
    PartLimit = 6
    CommentLimit = 8
    Mark = 2
    CommentMargin = 3

    Bots <- MCBots
    PostsOf <- MCPostsOf
    None = "none"
    MaxPosts = 3
    PendingLimit = 2
    MaxReboots = 1

SPECIFICATION PeersSpec
CONSTRAINT NoteOrPush
INVARIANTS
    PeersTypeOK
    ClientTypeOK
    NoStrandedRequest
    AwaitedSenderIsSafe
    RequestsAreOwned
    MessagesAreKept
    StreamFollowsSession
    InputIsTakenOnce
    OutboundIsKept
    TextsSayTheirSource
    PushedChatsAnswered
CHECK_DEADLOCK FALSE
