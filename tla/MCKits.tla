-------------------------------- MODULE MCKits --------------------------------
(***************************************************************************)
(* The parts of the kits that share nothing with one another, checked      *)
(* together: a behaviour runs the one `part` chosen at the start, and the  *)
(* others rest in their initial states.                                    *)
(*   hub, token: three events, three uploads;                              *)
(*   bots: three messages of up to three chats, and no restart;            *)
(*   store: three changes of two chats;                                    *)
(*   command, cache: two helpers, two lookups of two keys;                 *)
(*   connection: three connections of one server, one after the other;     *)
(*   handlers: two requests and a notification of the server;              *)
(*   loop: two rounds of three events.                                     *)
(***************************************************************************)
EXTENDS NotifyHub, TenantToken, BotSessions, SessionStore,
        SecretCommand, SecretCache, ServerConnection, ServerHandlers, EventLoop

CONSTANTS k1, k2

VARIABLE part

MCHints == <<{k1, NoKey}, {k1, k2}>>
MCKeys == <<{k1, k2}, {k2, k1, NoKey}>>

Kits == {"hub", "token", "bots", "store", "command", "cache", "connection",
         "handlers", "loop"}

On(p) == part = p

kitVars == <<part, hubVars, tokenVars, botVars, storeVars, secretVars, cacheVars,
             manVars, handlersVars, loopVars>>

\* the agents of the parts that may wait for something, by number
Slots == Events \cup Uploads \cup Messages \cup Lookups \cup ConnIds \cup Items
         \cup {1, 2}

\* Chats are interchangeable: the first message has text of chat 1 or none, and
\* a chat follows the one before it.
RoomsInOrder ==
    \A u \in Messages : \A c \in 1..roomOf[u] :
        c < roomOf[u] => \E v \in 1..u : v < u /\ roomOf[v] = c

KitsInit ==
    /\ part \in Kits
    /\ On("bots") \/ roomOf = [u \in Messages |-> NoRoom]
    /\ On("store") \/ (onDisk = NoStoreFile /\ entryLimit = 1)
    /\ HubInit /\ TenantTokenInit
    /\ BotSessionsInit /\ RoomsInOrder
    /\ SessionStoreInit
    /\ SecretCommandInit /\ SecretCacheInit /\ ServerConnectionInit
    /\ ServerHandlersInit /\ EventLoopInit

\* A step of one part, the others at rest.
HubOnly ==
    /\ On("hub")
    /\ UNCHANGED <<part, tokenVars, botVars, storeVars, secretVars, cacheVars, manVars,
                   handlersVars, loopVars>>
TokenOnly ==
    /\ On("token")
    /\ UNCHANGED <<part, hubVars, botVars, storeVars, secretVars, cacheVars, manVars,
                   handlersVars, loopVars>>
BotsOnly ==
    /\ On("bots")
    /\ UNCHANGED <<part, hubVars, tokenVars, storeVars, secretVars, cacheVars, manVars,
                   handlersVars, loopVars>>
StoreOnly ==
    /\ On("store")
    /\ UNCHANGED <<part, hubVars, tokenVars, botVars, secretVars, cacheVars, manVars,
                   handlersVars, loopVars>>
CommandOnly ==
    /\ On("command")
    /\ UNCHANGED <<part, hubVars, tokenVars, botVars, storeVars, cacheVars, manVars,
                   handlersVars, loopVars>>
CacheOnly ==
    /\ On("cache")
    /\ UNCHANGED <<part, hubVars, tokenVars, botVars, storeVars, secretVars, manVars,
                   handlersVars, loopVars>>
ConnectionOnly ==
    /\ On("connection")
    /\ UNCHANGED <<part, hubVars, tokenVars, botVars, storeVars, secretVars, cacheVars,
                   handlersVars, loopVars>>
HandlersOnly ==
    /\ On("handlers")
    /\ UNCHANGED <<part, hubVars, tokenVars, botVars, storeVars, secretVars, cacheVars, manVars,
                   loopVars>>
LoopOnly ==
    /\ On("loop")
    /\ UNCHANGED <<part, hubVars, tokenVars, botVars, storeVars, secretVars, cacheVars, manVars,
                   handlersVars>>

KitsNext ==
    \/ HubOnly /\ HubNext
    \/ TokenOnly /\ TenantTokenNext
    \/ BotsOnly /\ BotSessionsNext
    \/ StoreOnly /\ SessionStoreNext
    \/ CommandOnly /\ SecretCommandNext
    \/ CacheOnly /\ SecretCacheNext
    \/ ConnectionOnly /\ ServerConnectionNext
    \/ HandlersOnly /\ ServerHandlersNext
    \/ LoopOnly /\ EventLoopNext

\* The fairness of the modules: only one part takes steps.
KitsSteps ==
    \/ HubOnly /\ HubSteps
    \/ TokenOnly /\ TenantTokenSteps
    \/ BotsOnly /\ BotSteps
    \/ StoreOnly /\ FlushGoesOn
    \/ CommandOnly /\ SecretCommandSteps
    \/ CacheOnly /\ SecretCacheSteps
    \/ ConnectionOnly /\ ServerConnectionSteps
    \/ HandlersOnly /\ HandlersSteps
    \/ LoopOnly /\ EventLoopSteps

KitsSpec ==
    /\ KitsInit /\ [][KitsNext]_kitVars
    /\ WF_kitVars(KitsSteps)

\* Types, each looked at while its part runs.
KitsTypeOK ==
    /\ On("hub") => HubTypeOK
    /\ On("token") => TenantTokenTypeOK
    /\ On("bots") => BotTypeOK
    /\ On("store") => SessionStoreTypeOK
    /\ On("command") => SecretCommandTypeOK
    /\ On("cache") => SecretCacheTypeOK
    /\ On("connection") => ServerConnectionTypeOK
    /\ On("handlers") => ServerHandlersTypeOK
    /\ On("loop") => EventLoopTypeOK

\* What the parts promise to end, in one: an event is settled, an upload has
\* its token, a message is done with, a change is saved, a command and its pipes
\* end, a lookup is answered, the child of a connection let go is reaped, what a
\* server asks is handled, and a failed handler ends its round of the event loop.
MustEnd(i) ==
    \/ On("hub") /\ i \in Events /\ Pending(i)
    \/ On("token") /\ i \in Uploads /\ WaitsForToken(i)
    \/ On("bots") /\ i \in Messages /\ Waiting(i)
    \/ On("store") /\ Unsaved
    \/ On("command") /\ ((i = 1 /\ Watching) \/ (i = 2 /\ PipesToEnd))
    \/ On("cache") /\ i \in Lookups /\ Listening(i)
    \/ On("connection") /\ i \in ConnIds /\ LetGo(i)
    \/ On("handlers") /\ i \in Items /\ Unhandled(i)
    \/ On("loop") /\ FailureWaits

\* A part that is over may be over in more ways than by not having to end.
Ended(i) ==
    CASE On("command") -> IF i = 1 THEN secretCall \in Over ELSE ~PipesToEnd
      [] On("cache") -> i \in Lookups /\ lookupPc[i] = "done"
      [] On("token") -> i \in Uploads /\ uploadPc[i] = "done"
      [] On("connection") -> i \in ConnIds /\ kid[i] \in {"none", "reaped"}
      [] OTHER -> ~MustEnd(i)

\* What no step may undo: the file of the bots' sessions, and that a sink which
\* panicked is left alone.
NoStepBack == FileNeverGoesBack /\ PanickedSinkIsLeftAlone

\* Whatever has to end does.
KitCallsEnd == \A i \in Slots : MustEnd(i) ~> Ended(i)
===============================================================================
