------------------------------ MODULE BotSessions ------------------------------
(*****************************************************************************)
(* A chat bot of notify-kit/bots, after opencode-telegram/src/index.mjs: its *)
(* poll loop, the chain of messages of each chat, the limiter of             *)
(* _shared/limiter.mjs, and the session of each chat.  The other bots have   *)
(* the same code and are pushed their messages.                              *)
(*                                                                           *)
(* Messages are numbered as the server numbers them.  JavaScript runs one    *)
(* callback at a time: an action is what happens between two awaits.  Calls  *)
(* of the opencode server end by withTimeout, calls of the chat server by    *)
(* their own timeout, and both may fail.                                     *)
(*****************************************************************************)
EXTENDS Naturals, Sequences, FiniteSets, SequencesExt

CONSTANTS Rooms,               \* the chats
          NoRoom,
          MaxMessages,         \* bound on the messages that are sent
          StoreLimit,          \* entryLimit of the session store
          SessionPendingLimit, \* sessionPendingLimit
          Concurrency,         \* maxInflight of the limiter
          QueueLimit,          \* maxQueue of the limiter
          MaxRestarts           \* bound on the restarts

ASSUME BotSessionsAssumption ==
    /\ NoRoom \notin Rooms
    /\ MaxMessages \in Nat /\ MaxRestarts \in Nat
    /\ {StoreLimit, SessionPendingLimit, Concurrency, QueueLimit} \subseteq Nat \ {0}

Messages == 1..MaxMessages
Sessions == 1..MaxMessages

VARIABLES
    roomOf,        \* the chat of each message; NoRoom: it has no text, or is of a bot
    arrived,       \* messages the server has
    confirmed,     \* history: the server's own view of `offset`
    offset,
    batch,         \* messages of the answer that the loop has not gone through
    messagePc,
    follows,       \* the message whose promise a message is chained to, or 0
    lastOf,        \* chatMessageInflight
    pendingCounts, \* chatPendingCounts
    jobsInflight,  \* the limiter's `inflight`
    limiterQueue,
    store,         \* chatToSession: <<chat, session>>, oldest first
    storedOnDisk,  \* what a restart loads
    sessionToChat,
    sessionOf,     \* the session a message runs in, or 0
    sessionsMade,          \* sessions created
    accepted,      \* history: how often the process took each message
    restarts

botVars == <<roomOf, arrived, confirmed, offset, batch, messagePc, follows, lastOf,
             pendingCounts, jobsInflight, limiterQueue, store, storedOnDisk, sessionToChat,
             sessionOf, sessionsMade, accepted, restarts>>

pollVars == <<roomOf, arrived, confirmed, offset, batch, accepted, restarts>>
chainVars == <<follows, lastOf, pendingCounts>>
limiterVars == <<jobsInflight, limiterQueue>>
roomVars == <<store, storedOnDisk, sessionToChat, sessionOf, sessionsMade>>

\* a message whose handler has a slot of the limiter
Slotted == {"starting", "creating", "sharing", "prompting", "replying"}
Handling == Slotted \cup {"queued", "answering"}
Unfinished == Handling \cup {"chained"}

\* the loop over the loaded map
SessionsOf(entries) ==
    [s \in Sessions |-> IF \E c \in Rooms : Contains(entries, <<c, s>>)
                          THEN CHOOSE c \in Rooms : Contains(entries, <<c, s>>)
                          ELSE NoRoom]

\* What a process starts with, given the file.
Fresh(entries) ==
    /\ offset = 0 /\ batch = {}
    /\ messagePc = [u \in Messages |-> "out"]
    /\ follows = [u \in Messages |-> 0]
    /\ lastOf = [c \in Rooms |-> 0] /\ pendingCounts = [c \in Rooms |-> 0]
    /\ jobsInflight = 0 /\ limiterQueue = <<>>
    /\ store = entries /\ sessionToChat = SessionsOf(entries)
    /\ sessionOf = [u \in Messages |-> 0]
    /\ accepted = [u \in Messages |-> 0]

BotSessionsInit ==
    /\ roomOf \in [Messages -> Rooms \cup {NoRoom}]
    /\ arrived = 0 /\ confirmed = 0 /\ sessionsMade = 0 /\ restarts = 0
    /\ storedOnDisk = <<>>
    /\ Fresh(<<>>)

(*****************************************************************************)
(* The poll loop.  Asking with an offset tells the server that all before it *)
(* is done with; the answer may be lost.                                     *)
(*****************************************************************************)
Sends ==
    /\ arrived < MaxMessages
    /\ arrived' = arrived + 1
    /\ UNCHANGED <<roomOf, confirmed, offset, batch, messagePc, accepted, restarts, chainVars,
                   limiterVars, roomVars>>

Larger(a, b) == IF a > b THEN a ELSE b

\* getUpdates: what the server still has, from `offset` on
PollAnswered ==
    /\ batch = {}
    /\ confirmed' = Larger(confirmed, offset)
    /\ batch' = {u \in 1..arrived : u >= offset /\ u >= confirmed'}
    /\ batch' # {}
    /\ UNCHANGED <<roomOf, arrived, offset, messagePc, accepted, restarts, chainVars, limiterVars,
                   roomVars>>

\* the answer is lost, and the loop sleeps for a second
PollLost ==
    /\ batch = {} /\ confirmed < offset
    /\ confirmed' = offset
    /\ UNCHANGED <<roomOf, arrived, offset, batch, messagePc, accepted, restarts, chainVars,
                   limiterVars, roomVars>>

NextOffset(u) == Larger(offset, u + 1)

(****************************************************************************)
(* enqueueChatMessage: at most SessionPendingLimit messages of a chat, each *)
(* chained to the one before if that is still in chatMessageInflight.  (A   *)
(* refusal is told to the chat, and nobody waits for that.)                 *)
(****************************************************************************)
Enqueue(c, u) ==
    IF pendingCounts[c] >= SessionPendingLimit
      THEN /\ messagePc' = [messagePc EXCEPT ![u] = "refused"]
           /\ UNCHANGED chainVars
      ELSE /\ messagePc' = [messagePc EXCEPT ![u] = "chained"]
           /\ pendingCounts' = [pendingCounts EXCEPT ![c] = @ + 1]
           /\ follows' = [follows EXCEPT ![u] = lastOf[c]]
           /\ lastOf' = [lastOf EXCEPT ![c] = u]

\* one turn of the loop over `updates`
TakesUpdate(u) ==
    /\ u \in batch /\ \A v \in batch : u <= v
    /\ batch' = batch \ {u}
    /\ offset' = NextOffset(u)
    /\ accepted' = [accepted EXCEPT ![u] = @ + 1]
    /\ IF roomOf[u] = NoRoom
         THEN messagePc' = [messagePc EXCEPT ![u] = "over"] /\ UNCHANGED chainVars
         ELSE Enqueue(roomOf[u], u)
    /\ UNCHANGED <<roomOf, arrived, confirmed, restarts, limiterVars, roomVars>>

(***************************************************************************)
(* The limiter: `run` refuses when QueueLimit jobs wait, and `pump` starts *)
(* jobs while there are free slots.                                        *)
(***************************************************************************)
Started(n, q) == SubSeq(q, 1, IF Len(q) < Concurrency - n THEN Len(q) ELSE Concurrency - n)

\* pump with n jobs running and the queue q; pcs are the messages' states
Pump(n, q, pcs) ==
    LET jobs == Started(n, q)
    IN /\ jobsInflight' = n + Len(jobs)
       /\ limiterQueue' = SubSeq(q, Len(jobs) + 1, Len(q))
       /\ messagePc' = [u \in Messages |-> IF Contains(jobs, u) THEN "starting" ELSE pcs[u]]

\* What a bug would do: forget the chat's chain, whoever is its last.
LeavesChainForAll(u) ==
    LET c == roomOf[u]
    IN /\ pendingCounts' = [pendingCounts EXCEPT ![c] = IF @ = 0 THEN 0 ELSE @ - 1]
       /\ lastOf' = [lastOf EXCEPT ![c] = 0]
       /\ UNCHANGED follows

\* The promise of a message settles: the finally of enqueueChatMessage.
LeavesChain(u) ==
    LET c == roomOf[u]
    IN /\ pendingCounts' = [pendingCounts EXCEPT ![c] = IF @ = 0 THEN 0 ELSE @ - 1]
       /\ lastOf' = [lastOf EXCEPT ![c] = IF @ = u THEN 0 ELSE @]
       /\ UNCHANGED follows

(***************************************************************************)
(* handleUserText begins when the message before is through: most messages *)
(* go to the limiter, "/test" is answered at once, and blanks are dropped. *)
(***************************************************************************)
Runs(u) ==
    messagePc[u] = "chained" /\ follows[u] \in {0} \cup {v \in Messages : messagePc[v] = "over"}

AsksLimiter(u) ==
    /\ Runs(u)
    /\ IF Len(limiterQueue) >= QueueLimit
         THEN /\ messagePc' = [messagePc EXCEPT ![u] = "answering"]
              /\ UNCHANGED limiterVars
         ELSE Pump(jobsInflight, Append(limiterQueue, u), [messagePc EXCEPT ![u] = "queued"])
    /\ UNCHANGED <<pollVars, chainVars, roomVars>>

AnswersAtOnce(u) ==
    /\ Runs(u)
    /\ messagePc' = [messagePc EXCEPT ![u] = "answering"]
    /\ UNCHANGED <<pollVars, chainVars, limiterVars, roomVars>>

\* a blank text, or the reply that is sent without a slot
EndsWithoutSlot(u) ==
    /\ Runs(u) \/ messagePc[u] = "answering"
    /\ messagePc' = [messagePc EXCEPT ![u] = "over"]
    /\ LeavesChain(u)
    /\ UNCHANGED <<pollVars, limiterVars, roomVars>>

(****************************************************************************)
(* ensureSession.  The session of a chat that has one is used as it is, and *)
(* its place in the eviction order stays.  sessionCreateInflight is never   *)
(* found: see OneAtATime.                                                   *)
(****************************************************************************)
StoredSession(c) == {s \in Sessions : Contains(store, <<c, s>>)}

EnsuresSession(u) ==
    LET c == roomOf[u]
    IN /\ messagePc[u] = "starting"
       /\ IF StoredSession(c) = {}
            THEN /\ messagePc' = [messagePc EXCEPT ![u] = "creating"]
                 /\ UNCHANGED <<sessionOf, sessionToChat>>
            ELSE \E s \in StoredSession(c) :
                    /\ messagePc' = [messagePc EXCEPT ![u] = "prompting"]
                    /\ sessionOf' = [sessionOf EXCEPT ![u] = s]
                    /\ sessionToChat' = [sessionToChat EXCEPT ![s] = c]
       /\ UNCHANGED <<store, storedOnDisk, sessionsMade, pollVars, chainVars, limiterVars>>

\* store.set of session_store.mjs, and what falls out of it
Put(entries, c, s) ==
    LET at == {i \in DOMAIN entries : entries[i][1] = c}
    IN Append(IF at = {} THEN entries ELSE RemoveAt(entries, CHOOSE i \in at : TRUE), <<c, s>>)
Overflow(entries) == IF Len(entries) > StoreLimit THEN Len(entries) - StoreLimit ELSE 0

\* What a bug would do: keep the sessions that were evicted.
ForgetNothing(byId, gone) == byId

\* applyStoreEvictions
Forget(byId, gone) == [s \in Sessions |-> IF \E e \in gone : e[2] = s THEN NoRoom ELSE byId[s]]

SetStoredSession(c, s) ==
    LET all == Put(store, c, s)
        n == Overflow(all)
        evicted == {all[i] : i \in 1..n}
        previous == {e \in ToSet(store) : e[1] = c /\ e[2] # s}
    IN /\ store' = SubSeq(all, n + 1, Len(all))
       /\ sessionToChat' = Forget([Forget(sessionToChat, previous) EXCEPT ![s] = c], evicted)

\* session.create answers; the share link comes after
SessionCreated(u) ==
    /\ messagePc[u] = "creating"
    /\ sessionsMade < MaxMessages /\ sessionsMade' = sessionsMade + 1
    /\ SetStoredSession(roomOf[u], sessionsMade + 1)
    /\ sessionOf' = [sessionOf EXCEPT ![u] = sessionsMade + 1]
    /\ messagePc' = [messagePc EXCEPT ![u] = "sharing"]
    /\ UNCHANGED <<storedOnDisk, pollVars, chainVars, limiterVars>>

\* it fails or times out, whether or not the server made the session
SessionFails(u) ==
    /\ messagePc[u] = "creating"
    /\ messagePc' = [messagePc EXCEPT ![u] = "replying"]
    /\ UNCHANGED <<pollVars, chainVars, limiterVars, roomVars>>

\* session.share and the message with the link: failures are logged
ShareEnds(u) ==
    /\ messagePc[u] = "sharing"
    /\ messagePc' = [messagePc EXCEPT ![u] = "prompting"]
    /\ UNCHANGED <<pollVars, chainVars, limiterVars, roomVars>>

\* an answer or an error: either is sent to the chat
PromptEnds(u) ==
    /\ messagePc[u] = "prompting"
    /\ messagePc' = [messagePc EXCEPT ![u] = "replying"]
    /\ UNCHANGED <<pollVars, chainVars, limiterVars, roomVars>>

\* the reply is sent or has failed: the slot goes to the next job
ReplyEnds(u) ==
    /\ messagePc[u] = "replying"
    /\ Pump(jobsInflight - 1, limiterQueue, [messagePc EXCEPT ![u] = "over"])
    /\ LeavesChain(u)
    /\ UNCHANGED <<pollVars, roomVars>>

\* handleToolUpdate: where the tools of session s report to
ToolUpdateGoesTo(s) == sessionToChat[s]

\* SessionStore's flush, while a restart may follow
StoreFlushed ==
    /\ storedOnDisk # store /\ restarts < MaxRestarts
    /\ storedOnDisk' = store
    /\ UNCHANGED <<messagePc, store, sessionToChat, sessionOf, sessionsMade, pollVars, chainVars,
                   limiterVars>>

BotRestarts ==
    /\ restarts < MaxRestarts /\ restarts' = restarts + 1
    /\ offset' = 0 /\ batch' = {}
    /\ messagePc' = [u \in Messages |-> "out"]
    /\ follows' = [u \in Messages |-> 0]
    /\ lastOf' = [c \in Rooms |-> 0] /\ pendingCounts' = [c \in Rooms |-> 0]
    /\ jobsInflight' = 0 /\ limiterQueue' = <<>>
    /\ store' = storedOnDisk /\ sessionToChat' = SessionsOf(storedOnDisk)
    /\ sessionOf' = [u \in Messages |-> 0]
    /\ accepted' = [u \in Messages |-> 0]
    /\ UNCHANGED <<roomOf, arrived, confirmed, storedOnDisk, sessionsMade>>

\* what the event loop, the timeouts and the poll loop bring about
BotSteps ==
    \/ PollAnswered
    \/ \E u \in Messages :
          \/ TakesUpdate(u) \/ AsksLimiter(u) \/ EndsWithoutSlot(u) \/ EnsuresSession(u)
          \/ SessionCreated(u) \/ SessionFails(u) \/ ShareEnds(u) \/ PromptEnds(u)
          \/ ReplyEnds(u)

BotSessionsNext ==
    \/ Sends \/ PollLost \/ StoreFlushed \/ BotRestarts
    \/ \E u \in Messages : AnswersAtOnce(u)
    \/ BotSteps

BotSessionsSpec == BotSessionsInit /\ [][BotSessionsNext]_botVars

FairBotSessionsSpec == BotSessionsSpec /\ WF_botVars(BotSteps)

-----------------------------------------------------------------------------
BotTypeOK ==
    /\ roomOf \in [Messages -> Rooms \cup {NoRoom}]
    /\ {arrived, sessionsMade} \subseteq 0..MaxMessages
    /\ {offset, confirmed} \subseteq 0..MaxMessages + 1
    /\ batch \subseteq Messages /\ accepted \in [Messages -> Nat]
    /\ messagePc \in [Messages -> Unfinished \cup {"out", "refused", "over"}]
    /\ follows \in [Messages -> 0..MaxMessages] /\ lastOf \in [Rooms -> 0..MaxMessages]
    /\ pendingCounts \in [Rooms -> 0..SessionPendingLimit]
    /\ jobsInflight \in 0..Concurrency /\ limiterQueue \in Seq(Messages)
    /\ Len(limiterQueue) <= QueueLimit
    /\ sessionToChat \in [Sessions -> Rooms \cup {NoRoom}]
    /\ sessionOf \in [Messages -> 0..MaxMessages] /\ restarts \in 0..MaxRestarts

InRoom(c) == {u \in Messages : roomOf[u] = c /\ messagePc[u] \in Unfinished}

\* The messages of a chat are handled one at a time and in the order they came,
\* whatever became of those before them.
OneAtATime ==
    \A c \in Rooms : \A u \in InRoom(c) :
        messagePc[u] \in Handling => \A v \in InRoom(c) : u <= v

\* The counters the limits are tested with are true: of the chats and of the
\* limiter, which leaves no slot free while a job waits.
CountsAreTrue ==
    /\ \A c \in Rooms : pendingCounts[c] = Cardinality(InRoom(c))
    /\ jobsInflight = Cardinality({u \in Messages : messagePc[u] \in Slotted})
    /\ limiterQueue # <<>> => jobsInflight = Concurrency

\* sessionToChat is the inverse of the stored map, through evictions and
\* restarts: no report goes to a chat that has another session now, and none is
\* lost while the chat has this one.
MapsAgree ==
    \A s \in Sessions, c \in Rooms : ToolUpdateGoesTo(s) = c <=> Contains(store, <<c, s>>)

\* A process takes each message once, although it asks again after lost answers.
TakenOnce == \A u \in Messages : accepted[u] <= 1

\* Every message of a chat has its turn, once, and only within the limits.
ChatsTakeTurns == OneAtATime /\ CountsAreTrue /\ TakenOnce

\* The chats of a bot take turns and its maps agree.
ChatsAreInOrder == ChatsTakeTurns /\ MapsAgree

Waiting(u) ==
    \/ messagePc[u] \in Unfinished
    \/ messagePc[u] = "out" /\ confirmed <= u /\ u <= arrived

\* A message the server has not been told of is taken, and one that is taken comes
\* to its end.
MessagesEnd == \A u \in Messages : Waiting(u) ~> ~Waiting(u)

-----------------------------------------------------------------------------
(***************************************************************************)
(* The inductive invariant.                                                *)
(***************************************************************************)

\* What is still to be taken lies before the loop, in the order of the offset.
UpdatesAreNew ==
    /\ \A u \in batch : u >= offset
    /\ \A u \in Messages : messagePc[u] # "out" \/ accepted[u] # 0 => u < offset
    /\ \A u \in Messages : messagePc[u] \in Unfinished => roomOf[u] \in Rooms

\* The entry of a chat is its newest unfinished message, and a message is
\* chained to the one before it, if that was not through by then.
ChainsFit ==
    /\ \A c \in Rooms : IF lastOf[c] = 0
                         THEN InRoom(c) = {}
                         ELSE lastOf[c] \in InRoom(c) /\ \A v \in InRoom(c) : v <= lastOf[c]
    /\ \A u \in Messages : messagePc[u] = "chained" =>
          /\ \A v \in InRoom(roomOf[u]) : v < u => v <= follows[u]
          /\ follows[u] # 0 => follows[u] < u /\ roomOf[follows[u]] = roomOf[u]

\* The messages of a chat end in their order.
EndsInOrder ==
    \A c \in Rooms, v \in Messages : roomOf[v] = c /\ messagePc[v] = "over" =>
        \A u \in InRoom(c) : v < u

\* What waits in the limiter waits there once.
QueueIsOfWaiters ==
    \A i \in DOMAIN limiterQueue :
        /\ messagePc[limiterQueue[i]] = "queued"
        /\ \A j \in DOMAIN limiterQueue : limiterQueue[j] = limiterQueue[i] => j = i

\* A stored map has a chat and a session once, and sessions that were made.
EntriesFit(entries) ==
    /\ entries \in Seq(Rooms \X Sessions) /\ Len(entries) <= StoreLimit
    /\ \A i \in DOMAIN entries :
          /\ entries[i][2] <= sessionsMade
          /\ \A j \in DOMAIN entries :
                entries[j][1] = entries[i][1] \/ entries[j][2] = entries[i][2] => j = i

\* A session is made for a chat that has none.
MadeForNone ==
    \A u \in Messages : messagePc[u] = "creating" => StoredSession(roomOf[u]) = {}

\* The poll loop and the chains, the limiter, and the maps.
ChainsInv ==
    /\ UpdatesAreNew /\ ChainsFit /\ EndsInOrder /\ OneAtATime /\ TakenOnce
    /\ \A c \in Rooms : pendingCounts[c] = Cardinality(InRoom(c))

LimiterInv ==
    /\ QueueIsOfWaiters
    /\ jobsInflight = Cardinality({u \in Messages : messagePc[u] \in Slotted})
    /\ limiterQueue # <<>> => jobsInflight = Concurrency

EntriesInv == EntriesFit(store) /\ EntriesFit(storedOnDisk) /\ MadeForNone /\ MapsAgree

BotsInv == BotTypeOK /\ ChainsInv /\ LimiterInv /\ EntriesInv
=============================================================================
