----------------------------- MODULE ServerHandlers -----------------------------
(*****************************************************************************)
(* What a server asks of the client: the handler tasks that mcp-kit attaches *)
(* to a connection (manager/handlers.rs), and the count of those that timed  *)
(* out (ServerHandlerTimeoutCounts of manager/mod.rs).                       *)
(*                                                                           *)
(* Requests and notifications have a driver each, with its own queue and set *)
(* of tasks.  A handler is the user's code: it returns, panics or hangs.     *)
(*****************************************************************************)
EXTENDS Naturals, Sequences, FiniteSets, SequencesExt

CONSTANTS Asks,               \* requests of the server
          Notices,              \* its notifications
          HandlerConcurrency,
          HandlerTimeout,     \* whether handlers have a timeout
          MaxTakes            \* bound on take_server_handler_timeout_counts

ASSUME ServerHandlersAssumption ==
    /\ Asks \cap Notices = {}
    /\ HandlerConcurrency \in Nat \ {0} /\ HandlerTimeout \in BOOLEAN /\ MaxTakes \in Nat

Items == Asks \cup Notices
Drivers == {"asks", "tells"}
DriverOf(i) == IF i \in Asks THEN "asks" ELSE "tells"

VARIABLES
    itemPc,        \* where a request or notification is
    reply,         \* of a request: what became of its answer
    itemQueue,     \* the channel to each driver
    driverPc,      \* "running" or "over"
    clientOpen,    \* the reader may still put into the channels
    connDropped,   \* Connection::drop, or a wait that ran into its deadline
    handlerScopes, \* active_handler_scopes
    timeoutCount,  \* the shared counter ...
    tracked,       \* ... and whether it is in the map
    timedOut,      \* history: handlers that timed out
    timeoutsTaken, \* history: the sum of what was taken
    takePc, loaded, \* where take_and_reset is, and what it has read
    lookedAt,      \* history: how many had timed out when it read that
    takes,
    forgotten      \* history: remove() dropped the counter with the connection

handlersVars == <<itemPc, reply, itemQueue, driverPc, clientOpen, connDropped, handlerScopes,
                  timeoutCount, tracked, timedOut, timeoutsTaken, takePc, loaded, lookedAt, takes,
                  forgotten>>

taskVars == <<itemPc, reply, itemQueue, driverPc, handlerScopes>>
timeoutVars ==
    <<timeoutCount, tracked, timedOut, timeoutsTaken, takePc, loaded, lookedAt, takes, forgotten>>

ServerHandlersInit ==
    /\ itemPc = [i \in Items |-> "away"] /\ reply = [i \in Items |-> "none"]
    /\ itemQueue = [d \in Drivers |-> <<>>] /\ driverPc = [d \in Drivers |-> "running"]
    /\ clientOpen = TRUE /\ connDropped = FALSE
    /\ handlerScopes = 0
    /\ timeoutCount = 0 /\ tracked = HandlerTimeout /\ timedOut = 0 /\ timeoutsTaken = 0
    /\ takePc = "idle" /\ loaded = 0 /\ lookedAt = 0 /\ takes = 0 /\ forgotten = FALSE

\* the JoinSet: tasks that have ended are in it until they are joined
InFlight(d) ==
    {i \in Items : DriverOf(i) = d
                     /\ itemPc[i] \in {"handling", "answering", "finished", "panicked"}}

\* The reader passes on what the server sends; a closed channel drops it (a
\* request is then answered by its Drop).
Arrives(i) ==
    LET d == DriverOf(i)
    IN /\ itemPc[i] = "away" /\ clientOpen
       /\ IF driverPc[d] = "running"
            THEN /\ itemPc' = [itemPc EXCEPT ![i] = "queued"]
                 /\ itemQueue' = [itemQueue EXCEPT ![d] = Append(@, i)]
                 /\ UNCHANGED reply
            ELSE /\ itemPc' = [itemPc EXCEPT ![i] = "over"]
                 /\ reply' = [reply EXCEPT ![i] = "dropped"]
                 /\ UNCHANGED itemQueue
       /\ UNCHANGED <<driverPc, handlerScopes, clientOpen, connDropped, timeoutVars>>

(***************************************************************************)
(* drive_handler_tasks: at most HandlerConcurrency tasks, and the scope    *)
(* counter goes up when the handler is first polled.                       *)
(***************************************************************************)
MayTake(d) == Cardinality(InFlight(d)) < HandlerConcurrency

TakesItem(d) ==
    /\ driverPc[d] = "running" /\ itemQueue[d] # <<>> /\ MayTake(d)
    /\ itemPc' = [itemPc EXCEPT ![Head(itemQueue[d])] = "handling"]
    /\ itemQueue' = [itemQueue EXCEPT ![d] = Tail(@)]
    /\ handlerScopes' = handlerScopes + 1
    /\ UNCHANGED <<reply, driverPc, clientOpen, connDropped, timeoutVars>>

\* run_handler_with_timeout is through: a request is answered, a notification
\* is done with.  The scope's guard is dropped in every case.
HandlerLeft(i) ==
    /\ itemPc' = [itemPc EXCEPT ![i] = IF i \in Asks THEN "answering" ELSE "finished"]
    /\ handlerScopes' = handlerScopes - 1
    /\ UNCHANGED <<reply, itemQueue, driverPc, clientOpen, connDropped>>

\* It returned, or panicked and the panic was caught.
HandlerReturns(i) ==
    /\ itemPc[i] = "handling"
    /\ HandlerLeft(i)
    /\ UNCHANGED timeoutVars

HandlerIsCutOff(i) ==
    /\ itemPc[i] = "handling" /\ HandlerTimeout
    /\ HandlerLeft(i)
    /\ timeoutCount' = timeoutCount + 1 /\ timedOut' = timedOut + 1
    /\ UNCHANGED <<tracked, timeoutsTaken, takePc, loaded, lookedAt, takes, forgotten>>

\* respond_ok or respond_error, whatever it returns
RespondsTo(i) ==
    /\ itemPc[i] = "answering"
    /\ itemPc' = [itemPc EXCEPT ![i] = "finished"]
    /\ reply' = [reply EXCEPT ![i] = "sent"]
    /\ UNCHANGED <<itemQueue, driverPc, handlerScopes, clientOpen, connDropped, timeoutVars>>

\* a panic outside the handler, as in a value's Serialize: the request is dropped
AnswerPanics(i) ==
    /\ itemPc[i] = "answering"
    /\ itemPc' = [itemPc EXCEPT ![i] = "panicked"]
    /\ reply' = [reply EXCEPT ![i] = "dropped"]
    /\ UNCHANGED <<itemQueue, driverPc, handlerScopes, clientOpen, connDropped, timeoutVars>>

Joins(i) ==
    /\ itemPc[i] = "finished" /\ driverPc[DriverOf(i)] = "running"
    /\ itemPc' = [itemPc EXCEPT ![i] = "over"]
    /\ UNCHANGED <<reply, itemQueue, driverPc, handlerScopes, clientOpen, connDropped, timeoutVars>>

(***************************************************************************)
(* A driver that goes takes its tasks with it, by the JoinSet's drop, and  *)
(* what is in its channel.  A request that has no answer yet is dropped,   *)
(* which answers it; one whose answer is being written has been cut.       *)
(***************************************************************************)
GoesWith(d) == InFlight(d) \cup ToSet(itemQueue[d])

ReplyOfDropped(i) ==
    IF reply[i] # "none" THEN reply[i] ELSE IF itemPc[i] = "answering" THEN "cut" ELSE "dropped"

\* the scopes that its tasks leave, by their guards' drop
ScopesLeft(d) == Cardinality({i \in InFlight(d) : itemPc[i] = "handling"})

DriverGoes(d) ==
    /\ driverPc' = [driverPc EXCEPT ![d] = "over"]
    /\ itemPc' = [i \in Items |-> IF i \in GoesWith(d) THEN "over" ELSE itemPc[i]]
    /\ reply' = [i \in Items |-> IF i \in GoesWith(d) THEN ReplyOfDropped(i) ELSE reply[i]]
    /\ itemQueue' = [itemQueue EXCEPT ![d] = <<>>]
    /\ handlerScopes' = handlerScopes - ScopesLeft(d)
    /\ UNCHANGED <<clientOpen, connDropped, timeoutVars>>

JoinsPanicked(i) == itemPc[i] = "panicked" /\ DriverGoes(DriverOf(i))

\* the channel is closed and empty, and no task is left
DriverEnds(d) ==
    /\ driverPc[d] = "running" /\ ~clientOpen /\ itemQueue[d] = <<>> /\ InFlight(d) = {}
    /\ DriverGoes(d)

Aborted(d) == connDropped /\ driverPc[d] = "running" /\ DriverGoes(d)

\* the reader ends
ClientCloses ==
    /\ clientOpen /\ clientOpen' = FALSE
    /\ UNCHANGED <<taskVars, connDropped, timeoutVars>>

\* the drop of the connection or session closes the client too; a disconnect
\* by the manager also forgets the counter
ConnectionGoes ==
    /\ ~connDropped /\ connDropped' = TRUE /\ clientOpen' = FALSE
    /\ \/ UNCHANGED timeoutVars
       \/ /\ tracked /\ takePc = "idle"
          /\ tracked' = FALSE /\ forgotten' = TRUE
          /\ UNCHANGED <<timeoutCount, timedOut, timeoutsTaken, takePc, loaded, lookedAt, takes>>
    /\ UNCHANGED taskVars

(*****************************************************************************)
(* take_and_reset, under the map's lock, which the handlers do not take: the *)
(* swap, then for `retain` the load, and the number of owners when that was  *)
(* zero.  A driver owns the counter until it is over.                        *)
(*****************************************************************************)
CounterIsShared == \E d \in Drivers : driverPc[d] = "running"

TakeSwaps ==
    /\ takePc = "idle" /\ tracked /\ takes < MaxTakes
    /\ takes' = takes + 1
    /\ timeoutsTaken' = timeoutsTaken + timeoutCount /\ timeoutCount' = 0
    /\ takePc' = "loads"
    /\ UNCHANGED <<tracked, timedOut, loaded, lookedAt, forgotten, taskVars, clientOpen, connDropped>>

TakeLoads ==
    /\ takePc = "loads"
    /\ loaded' = timeoutCount /\ lookedAt' = timedOut /\ takePc' = "counts"
    /\ UNCHANGED <<timeoutCount, tracked, timedOut, timeoutsTaken, takes, forgotten, taskVars,
                   clientOpen, connDropped>>

\* What a bug would do: let the counter go without a look at it.
TakeCountsOwners ==
    /\ takePc = "counts"
    /\ tracked' = CounterIsShared
    /\ takePc' = "idle" /\ loaded' = 0
    /\ UNCHANGED <<timeoutCount, timedOut, timeoutsTaken, lookedAt, takes, forgotten, taskVars,
                   clientOpen, connDropped>>

TakeCounts ==
    /\ takePc = "counts"
    /\ tracked' = (loaded > 0 \/ CounterIsShared)
    /\ takePc' = "idle" /\ loaded' = 0
    /\ UNCHANGED <<timeoutCount, timedOut, timeoutsTaken, lookedAt, takes, forgotten, taskVars,
                   clientOpen, connDropped>>

\* what the runtime and the timeouts bring about
HandlersSteps ==
    \/ \E d \in Drivers : TakesItem(d) \/ DriverEnds(d) \/ Aborted(d)
    \/ \E i \in Items : HandlerIsCutOff(i) \/ RespondsTo(i) \/ Joins(i) \/ JoinsPanicked(i)

ServerHandlersNext ==
    \/ \E i \in Items : Arrives(i) \/ HandlerReturns(i) \/ AnswerPanics(i)
    \/ ClientCloses \/ ConnectionGoes
    \/ TakeSwaps \/ TakeLoads \/ TakeCounts
    \/ HandlersSteps

FairServerHandlersSpec ==
    ServerHandlersInit /\ [][ServerHandlersNext]_handlersVars /\ WF_handlersVars(HandlersSteps)

ServerHandlersSpec == ServerHandlersInit /\ [][ServerHandlersNext]_handlersVars

-----------------------------------------------------------------------------
ServerHandlersTypeOK ==
    /\ itemPc \in [Items -> {"away", "queued", "handling", "answering", "finished", "panicked",
                             "over"}]
    /\ reply \in [Items -> {"none", "sent", "dropped", "cut"}]
    /\ itemQueue \in [Drivers -> Seq(Items)] /\ driverPc \in [Drivers -> {"running", "over"}]
    /\ {clientOpen, connDropped, tracked, forgotten} \subseteq BOOLEAN
    /\ {handlerScopes, timeoutCount, timedOut, timeoutsTaken, loaded, lookedAt}
          \subseteq 0..Cardinality(Items)
    /\ takePc \in {"idle", "loads", "counts"} /\ takes \in 0..MaxTakes

\* The counter that tells whether a handler of this manager is running is true,
\* and no driver runs more than it may, through timeouts, panics and aborts.
HandlersAreCounted ==
    /\ handlerScopes = Cardinality({i \in Items : itemPc[i] = "handling"})
    /\ \A d \in Drivers : Cardinality(InFlight(d)) <= HandlerConcurrency
    /\ \A d \in Drivers : driverPc[d] = "over" => InFlight(d) = {} /\ itemQueue[d] = <<>>

\* No request is done with and unanswered: by the handler, by the error for one
\* that timed out or panicked, or by the Drop of the request.  Only the end of
\* the connection, or a panic beside it, may cut an answer that is being written.
RequestsAreAnswered ==
    \A i \in Asks : itemPc[i] = "over" =>
        /\ reply[i] # "none"
        /\ reply[i] = "cut" =>
              connDropped \/ \E j \in Asks \ {i} : itemPc[j] = "over" /\ reply[j] = "dropped"

\* No timeout is taken twice.  None is lost but to a disconnect, and to a take that lets the
\* counter go when its drivers are over: then those, and only those, that timed out between its
\* look at the counter and its look at the owners.
TimeoutsAreCounted ==
    /\ timeoutsTaken + timeoutCount = timedOut
    /\ HandlerTimeout /\ ~tracked /\ ~forgotten =>
          /\ takes > 0 /\ \A d \in Drivers : driverPc[d] = "over"
          /\ timeoutCount = timedOut - lookedAt

\* The counters of the handlers, of those that run and of those that timed out.
HandlerCountsAreTrue == HandlersAreCounted /\ TimeoutsAreCounted

\* What the server asks is answered and counted, whichever way its handler ends.
HandlersServeAll == HandlerCountsAreTrue /\ RequestsAreAnswered

Unhandled(i) == itemPc[i] \notin {"away", "over"}

\* What arrives is done with, also behind handlers that hang.
HandlersFinish == \A i \in Items : Unhandled(i) ~> ~Unhandled(i)

-----------------------------------------------------------------------------
(***************************************************************************)
(* The inductive invariant.                                                *)
(***************************************************************************)
BeingHandled == {i \in Items : itemPc[i] = "handling"}

HandlersTyped ==
    /\ itemPc \in [Items -> {"away", "queued", "handling", "answering", "finished", "panicked",
                             "over"}]
    /\ reply \in [Items -> {"none", "sent", "dropped", "cut"}]
    /\ driverPc \in [Drivers -> {"running", "over"}]
    /\ itemQueue \in [Drivers -> Seq(Items)]
    /\ timeoutCount \in Nat /\ timedOut \in Nat /\ timeoutsTaken \in Nat /\ takes \in Nat
    /\ \A d \in Drivers : IsFiniteSet(InFlight(d))

\* What is in a driver's channel is the driver's, is there once and waits.
QueuesFit ==
    \A d \in Drivers : \A n \in DOMAIN itemQueue[d] :
        /\ DriverOf(itemQueue[d][n]) = d /\ itemPc[itemQueue[d][n]] = "queued"
        /\ \A m \in DOMAIN itemQueue[d] : itemQueue[d][m] = itemQueue[d][n] => m = n

\* Only requests are answered, a handler that ended has answered its own, and
\* one that panicked beside it has dropped it.
RepliesFit ==
    \A i \in Items :
        /\ itemPc[i] \in {"away", "queued", "handling", "answering"} => reply[i] = "none"
        /\ itemPc[i] \in {"answering", "panicked"} => i \in Asks
        /\ itemPc[i] = "finished" /\ i \in Asks => reply[i] = "sent"
        /\ itemPc[i] = "panicked" => reply[i] = "dropped"

\* A take holds the map, and what it read is what had not been taken when it looked.
TakeFits ==
    /\ loaded \in Nat /\ lookedAt \in 0..timedOut
    /\ takePc # "idle" => takes > 0 /\ tracked
    /\ takePc = "counts" => timeoutCount = loaded + (timedOut - lookedAt)

HandlersInv ==
    /\ HandlersTyped /\ QueuesFit /\ RepliesFit
    /\ HandlersAreCounted /\ RequestsAreAnswered /\ TimeoutsAreCounted /\ TakeFits
=============================================================================
