----------------------------- MODULE JsonRpcClient -----------------------------
(***************************************************************************)
(* The requesting side of the JSON-RPC client (ClientHandle, the reader    *)
(* task and Client): callers register a sender in the pending map, write   *)
(* their line under the write lock and wait; the reader routes answers     *)
(* back; anybody may close the client, and everything a caller awaits can  *)
(* also end by its timeout or by the caller's future being dropped.        *)
(*                                                                         *)
(* A step is what runs between two awaits or two acquisitions of a shared  *)
(* lock.  Removing a sender from the map and sending on it is one step:    *)
(* nobody else can reach a removed sender.                                 *)
(***************************************************************************)
EXTENDS CancelledIds, FiniteSets

CONSTANTS Callers,     \* tasks holding a ClientHandle
          Timed,       \* the callers that use request_optional_with_timeout
          Reader,      \* the reader task
          User,        \* the owner of the Client
          Nobody,
          MaxPending   \* max_pending_requests

Agents == Callers \cup {Reader, User}

NoId == 0              \* a caller that has no request of its own

ASSUME ClientAssumption ==
    /\ Ids \subseteq Nat \ {NoId}
    /\ Timed \subseteq Callers
    /\ Reader \notin Callers /\ User \notin Callers /\ Reader # User
    /\ Nobody \notin Agents
    /\ MaxPending \in Nat \ {0}
    /\ IsFiniteSet(Ids)

VARIABLES
    pc,         \* where each agent stands
    then,       \* where a closing agent goes on afterwards
    req,        \* the id of the caller's request
    nextId,     \* next_id
    pending,    \* the ids the pending map holds a sender for
    answer,     \* what was sent on the oneshot channel of an id
    closedBy,   \* who recorded close_reason and set `closed`, if anybody
    writeLock,  \* who holds the write mutex
    writer,     \* the transport, until it is replaced by a sink
    cleanup,    \* the detached "client close" task
    aborted     \* abort() was called on the reader task

stateVars == <<pc, then, req, nextId, pending, answer, closedBy, writeLock,
               writer, cleanup, aborted>>
vars == <<stateVars, cancelledVars>>

closed == closedBy # Nobody

\* Points where a caller of write_line can be dropped or time out.
InWrite == {"lockwait", "writing"}

ClientInit ==
    /\ pc = [x \in Agents |-> IF x = Reader THEN "reading"
                              ELSE IF x = User THEN "ready" ELSE "idle"]
    /\ then = [x \in Agents |-> "none"]
    /\ req = [c \in Callers |-> NoId]
    /\ nextId = 1
    /\ pending = {}
    /\ answer = [id \in Ids |-> "none"]
    /\ closedBy = Nobody
    /\ writeLock = Nobody
    /\ writer = "open"
    /\ cleanup = "none"
    /\ aborted = FALSE
    /\ CancelledInit

Goto(x, label) == pc' = [pc EXCEPT ![x] = label]

\* A caller leaves the call it made, and the channel of its request goes.
Return(c) ==
    /\ Goto(c, "idle")
    /\ req' = [req EXCEPT ![c] = NoId]
    /\ answer' = [answer EXCEPT ![req[c]] = "none"]

Release(x) == writeLock' = IF writeLock = x THEN Nobody ELSE writeLock

\* x has run its close path.
GoOn(x) == Goto(x, then[x]) /\ then' = [then EXCEPT ![x] = "none"]

\* x will run a close path and go on at `label` afterwards.
CloseThen(x, label) ==
    /\ Goto(x, "closing")
    /\ then' = [then EXCEPT ![x] = label]

-----------------------------------------------------------------------------
\* request_optional_inner

\* check_closed, then the next id; the bound on Ids ends the numbering.
Start(c) ==
    /\ pc[c] = "idle"
    /\ ~closed
    /\ nextId \in Ids
    /\ req' = [req EXCEPT ![c] = nextId]
    /\ nextId' = nextId + 1
    /\ Goto(c, "opened")
    /\ UNCHANGED <<then, pending, answer, closedBy, writeLock, writer, cleanup,
                   aborted, cancelledVars>>

\* What a bug would do: register beyond max_pending_requests.
RegisterUnlimited(c) ==
    /\ pc[c] = "opened"
    /\ pending' = pending \cup {req[c]}
    /\ Goto(c, "registered")
    /\ UNCHANGED <<then, req, nextId, answer, closedBy, writeLock, writer, cleanup,
                   aborted, cancelledVars>>

\* The limit is checked and the sender inserted under one lock of the map.
Register(c) ==
    /\ pc[c] = "opened"
    /\ IF Cardinality(pending) >= MaxPending
       THEN Return(c) /\ UNCHANGED pending
       ELSE /\ pending' = pending \cup {req[c]}
            /\ Goto(c, "registered")
            /\ UNCHANGED <<req, answer>>
    /\ UNCHANGED <<then, nextId, closedBy, writeLock, writer, cleanup,
                   aborted, cancelledVars>>

\* What a bug would do: write without the second look at `closed`.
WriteUnchecked(c) ==
    /\ pc[c] = "registered"
    /\ Goto(c, "lockwait")
    /\ UNCHANGED <<then, req, nextId, pending, answer, closedBy, writeLock, writer,
                   cleanup, aborted, cancelledVars>>

\* write_line looks at `closed` again, after the sender is in the map; a line
\* beyond max_message_bytes fails here too.
WriteCheck(c) ==
    /\ pc[c] = "registered"
    /\ \/ ~closed /\ Goto(c, "lockwait")
       \/ Goto(c, "failing")
    /\ UNCHANGED <<then, req, nextId, pending, answer, closedBy, writeLock, writer,
                   cleanup, aborted, cancelledVars>>

\* notify, respond_ok and respond_error: a line without a pending request.
Notify(c) ==
    /\ pc[c] = "idle"
    /\ c \notin Timed
    /\ ~closed
    /\ Goto(c, "lockwait")
    /\ UNCHANGED <<then, req, nextId, pending, answer, closedBy, writeLock, writer,
                   cleanup, aborted, cancelledVars>>

AcquireWrite(x) ==
    /\ pc[x] = "lockwait"
    /\ writeLock = Nobody
    /\ writeLock' = x
    /\ Goto(x, "writing")
    /\ UNCHANGED <<then, req, nextId, pending, answer, closedBy, writer, cleanup,
                   aborted, cancelledVars>>

\* Where x is after its line: only a request has anything left to do.
AfterWrite(x, label) ==
    IF x = Reader THEN "answered" ELSE IF req[x] = NoId THEN "idle" ELSE label

\* write_all and flush returned; on an open transport only the peer's reading
\* makes them return.
WriteDone(x) ==
    /\ pc[x] = "writing"
    /\ Release(x)
    /\ Goto(x, AfterWrite(x, "waiting"))
    /\ UNCHANGED <<then, req, nextId, pending, answer, closedBy, writer, cleanup,
                   aborted, cancelledVars>>

\* The transport failed: the lock is released before schedule_close_once runs.
WriteFail(x) ==
    /\ pc[x] = "writing"
    /\ writer = "open"
    /\ Release(x)
    /\ CloseThen(x, AfterWrite(x, "failing"))
    /\ UNCHANGED <<req, nextId, pending, answer, closedBy, writer, cleanup, aborted,
                   cancelledVars>>

\* A request whose line was not written takes its sender back, and leaves no
\* trace among the cancelled ids.
Fail(c) ==
    /\ pc[c] = "failing"
    /\ pending' = pending \ {req[c]}
    /\ Return(c)
    /\ UNCHANGED <<then, nextId, closedBy, writeLock, writer, cleanup,
                   aborted, cancelledVars>>

\* What a bug would do: bound the write, not the wait for its lock.
ExpireOnlyWhileWriting(c) ==
    /\ c \in Timed
    /\ pc[c] = "writing"
    /\ req[c] # NoId
    /\ Release(c)
    /\ CloseThen(c, "dropping")
    /\ UNCHANGED <<req, nextId, pending, answer, closedBy, writer, cleanup, aborted,
                   cancelledVars>>

\* The deadline passed before the line was out: the write is abandoned, maybe
\* in the middle of the line, so the client must be closed.
ExpireWrite(c) ==
    /\ c \in Timed
    /\ pc[c] \in InWrite
    /\ req[c] # NoId
    /\ Release(c)
    /\ CloseThen(c, "dropping")
    /\ UNCHANGED <<req, nextId, pending, answer, closedBy, writer, cleanup, aborted,
                   cancelledVars>>

\* The deadline passed without an answer on the channel.
ExpireWait(c) ==
    /\ c \in Timed
    /\ pc[c] = "waiting"
    /\ answer[req[c]] = "none"
    /\ Goto(c, "dropping")
    /\ UNCHANGED <<then, req, nextId, pending, answer, closedBy, writeLock, writer,
                   cleanup, aborted, cancelledVars>>

\* The caller's future is dropped at one of its awaits.
Cancel(c) ==
    /\ pc[c] \in InWrite \cup {"waiting"}
    /\ Release(c)
    /\ Goto(c, IF req[c] = NoId THEN "idle" ELSE "dropping")
    /\ UNCHANGED <<then, req, nextId, pending, answer, closedBy, writer, cleanup,
                   aborted, cancelledVars>>

\* The receiver yields what was sent: an answer, or the drain's error.
TakeAnswer(c) ==
    /\ pc[c] = "waiting"
    /\ answer[req[c]] # "none"
    /\ Return(c)
    /\ UNCHANGED <<then, nextId, pending, closedBy, writeLock, writer,
                   cleanup, aborted, cancelledVars>>

\* What a bug would do: leave the request in the pending map.
GuardRemovesNothing(c) ==
    /\ pc[c] = "dropping"
    /\ Goto(c, "forgetting")
    /\ UNCHANGED <<then, req, nextId, pending, answer, closedBy, writeLock, writer,
                   cleanup, aborted, cancelledVars>>

\* PendingRequestGuard::drop: out of the pending map, then, under another
\* lock, into the cancelled ids.
GuardRemoves(c) ==
    /\ pc[c] = "dropping"
    /\ pending' = pending \ {req[c]}
    /\ Goto(c, "forgetting")
    /\ UNCHANGED <<then, req, nextId, answer, closedBy, writeLock, writer, cleanup,
                   aborted, cancelledVars>>

GuardRemembers(c) ==
    /\ pc[c] = "forgetting"
    /\ Remember(req[c])
    /\ Return(c)
    /\ UNCHANGED <<then, nextId, pending, closedBy, writeLock, writer,
                   cleanup, aborted>>

-----------------------------------------------------------------------------
\* The reader task

\* After each message the reader looks at `closed`.
AfterMessage == Goto(Reader, IF closed THEN "stopped" ELSE "reading")

Send(id, what) ==
    /\ answer' = [answer EXCEPT ![id] = what]
    /\ pending' = pending \ {id}

\* handle_response for an id this client handed out, spelled as it was sent.
ReceiveAnswer(id) ==
    /\ pc[Reader] = "reading"
    /\ id < nextId
    /\ \/ id \in pending /\ Send(id, "reply") /\ UNCHANGED cancelledVars
       \/ id \notin pending /\ Take(id) /\ UNCHANGED <<pending, answer>>
    /\ AfterMessage
    /\ UNCHANGED <<then, req, nextId, closedBy, writeLock, writer, cleanup, aborted>>

\* handle_response for the same id spelled as a string: the cancelled ids are
\* asked first, then the request fails with a type mismatch.
ReceiveMistyped(id) ==
    /\ pc[Reader] = "reading"
    /\ id < nextId
    /\ \/ latest[id] # Absent /\ Take(id) /\ UNCHANGED <<pending, answer>>
       \/ /\ latest[id] = Absent /\ id \in pending
          /\ Send(id, "mismatch") /\ UNCHANGED cancelledVars
       \/ /\ latest[id] = Absent /\ id \notin pending
          /\ UNCHANGED <<pending, answer, cancelledVars>>
    /\ AfterMessage
    /\ UNCHANGED <<then, req, nextId, closedBy, writeLock, writer, cleanup, aborted>>

\* An invalid frame is answered on the spot (respond_error_raw_id) before the
\* reader closes the client; on a closed client the answer fails at once.
ReaderAnswers ==
    /\ pc[Reader] = "reading"
    /\ Goto(Reader, IF closed THEN "answered" ELSE "lockwait")
    /\ UNCHANGED <<then, req, nextId, pending, answer, closedBy, writeLock, writer,
                   cleanup, aborted, cancelledVars>>

\* End of input, an input error, invalid JSON, an overfull notification queue,
\* or the frame just answered: close_with_error.
ReaderCloses ==
    /\ pc[Reader] \in {"reading", "answered"}
    /\ CloseThen(Reader, "finishing")
    /\ UNCHANGED <<req, nextId, pending, answer, closedBy, writeLock, writer,
                   cleanup, aborted, cancelledVars>>

\* An aborted task stops at its next await, and its futures are dropped there.
ReaderStops ==
    /\ aborted
    /\ pc[Reader] \in InWrite \cup {"reading", "finishing", "firstFinishing"}
    /\ Release(Reader)
    /\ Goto(Reader, "stopped")
    /\ UNCHANGED <<then, req, nextId, pending, answer, closedBy, writer, cleanup,
                   aborted, cancelledVars>>

\* A batch whose responses were all there was flushed by the reader itself.
ReaderFlushed ==
    /\ pc[Reader] = "answered"
    /\ AfterMessage
    /\ UNCHANGED <<then, req, nextId, pending, answer, closedBy, writeLock, writer,
                   cleanup, aborted, cancelledVars>>

-----------------------------------------------------------------------------
\* Closing

\* begin_close_with_error, first half: reason and flag under one lock, only the
\* first closer goes on to drain.
Claim(x) ==
    IF closed THEN GoOn(x) /\ UNCHANGED closedBy
              ELSE closedBy' = x /\ Goto(x, "draining") /\ UNCHANGED then

BeginClose(x) ==
    /\ pc[x] = "closing"
    /\ Claim(x)
    /\ UNCHANGED <<req, nextId, pending, answer, writeLock, writer, cleanup, aborted,
                   cancelledVars>>

\* These closers run schedule_close_once and leave the rest to a detached task;
\* the others finish the close themselves.
Schedules(x) == then[x] \notin {"finishing", "dropClient"}

\* What a bug would do: close and tell no request.
DrainNothing == UNCHANGED <<pending, answer>>

\* What a bug would do: drop the senders without an error.
DrainDropping == pending' = {} /\ UNCHANGED answer

\* drain_pending: every sender still in the map gets the close error.
DrainPending ==
    /\ pending' = {}
    /\ answer' = [id \in Ids |-> IF id \in pending THEN "closed" ELSE answer[id]]

\* The detached task is spawned with the drain; if neither it nor a fallback
\* thread can be started the closer does its work inline.
DrainAndSchedule(x) ==
    /\ pc[x] = "draining"
    /\ Schedules(x)
    /\ DrainPending
    /\ cleanup' = "spawned"
    /\ GoOn(x) \/ (Goto(x, "inline") /\ UNCHANGED then)
    /\ UNCHANGED <<req, nextId, closedBy, writeLock, writer, aborted, cancelledVars>>

DrainAndFinish(x) ==
    /\ pc[x] = "draining"
    /\ ~Schedules(x)
    /\ DrainPending
    /\ Goto(x, IF then[x] = "finishing" THEN "firstFinishing" ELSE then[x])
    /\ then' = [then EXCEPT ![x] = "none"]
    /\ UNCHANGED <<req, nextId, closedBy, writeLock, writer, cleanup, aborted,
                   cancelledVars>>

InlineDone(x) ==
    /\ pc[x] = "inline"
    /\ cleanup = "done"
    /\ GoOn(x)
    /\ UNCHANGED <<req, nextId, pending, answer, closedBy, writeLock, writer, cleanup,
                   aborted, cancelledVars>>

CleanupAborts ==
    /\ cleanup = "spawned"
    /\ cleanup' = "aborted"
    /\ aborted' = TRUE
    /\ UNCHANGED <<pc, then, req, nextId, pending, answer, closedBy, writeLock,
                   writer, cancelledVars>>

\* finish_close_write: the writer is replaced under the write lock, or the lock
\* stays taken for CLOSE_LOCK_ACQUIRE_TIMEOUT and the writer stays.
SinkIfFree == writer' = IF writeLock = Nobody THEN "sink" ELSE writer

CleanupFinishes ==
    /\ cleanup = "aborted"
    /\ cleanup' = "done"
    /\ SinkIfFree
    /\ UNCHANGED <<pc, then, req, nextId, pending, answer, closedBy, writeLock,
                   aborted, cancelledVars>>

\* close_with_error after its drain: only the first closer aborts the tasks.
FinishClose(x) ==
    /\ pc[x] \in {"finishing", "firstFinishing"}
    /\ SinkIfFree
    /\ Goto(x, IF pc[x] = "firstFinishing" THEN "lastTry" ELSE "stopped")
    /\ UNCHANGED <<then, req, nextId, pending, answer, closedBy, writeLock, cleanup,
                   aborted, cancelledVars>>

\* abort_background_tasks, then close_write_if_uncontended; also the end of
\* Drop for Client.
LastTry(x) ==
    /\ pc[x] \in {"lastTry", "dropClient"}
    /\ aborted' = TRUE
    /\ SinkIfFree
    /\ Goto(x, "stopped")
    /\ UNCHANGED <<then, req, nextId, pending, answer, closedBy, writeLock, cleanup,
                   cancelledVars>>

\* ClientHandle::close; Client::close and wait abort the reader first.
UserCloses(abortFirst) ==
    /\ pc[User] = "ready"
    /\ CloseThen(User, "finishing")
    /\ aborted' = (aborted \/ abortFirst)
    /\ UNCHANGED <<req, nextId, pending, answer, closedBy, writeLock, writer, cleanup,
                   cancelledVars>>

\* close_in_background_once
UserClosesInBackground ==
    /\ pc[User] = "ready"
    /\ CloseThen(User, "stopped")
    /\ aborted' = TRUE
    /\ UNCHANGED <<req, nextId, pending, answer, closedBy, writeLock, writer, cleanup,
                   cancelledVars>>

UserDropsClient ==
    /\ pc[User] = "ready"
    /\ CloseThen(User, "dropClient")
    /\ UNCHANGED <<req, nextId, pending, answer, closedBy, writeLock, writer, cleanup,
                   aborted, cancelledVars>>

\* The deadline of wait_with_timeout passed, or the close future was dropped.
UserGivesUp ==
    /\ pc[User] \in {"finishing", "firstFinishing"}
    /\ Goto(User, "abandoned")
    /\ UNCHANGED <<then, req, nextId, pending, answer, closedBy, writeLock, writer,
                   cleanup, aborted, cancelledVars>>

-----------------------------------------------------------------------------
CloseStep(x) ==
    \/ BeginClose(x) \/ DrainAndSchedule(x) \/ DrainAndFinish(x)
    \/ InlineDone(x) \/ FinishClose(x) \/ LastTry(x)

CallerStep(c) ==
    \/ Start(c) \/ Register(c) \/ WriteCheck(c) \/ Notify(c)
    \/ AcquireWrite(c) \/ WriteDone(c) \/ WriteFail(c) \/ Fail(c)
    \/ ExpireWrite(c) \/ ExpireWait(c) \/ Cancel(c) \/ TakeAnswer(c)
    \/ GuardRemoves(c) \/ GuardRemembers(c)

ReaderStep ==
    \/ \E id \in Ids : ReceiveAnswer(id) \/ ReceiveMistyped(id)
    \/ ReaderAnswers \/ ReaderFlushed \/ ReaderCloses \/ ReaderStops
    \/ AcquireWrite(Reader) \/ WriteDone(Reader) \/ WriteFail(Reader)

UserStep ==
    \/ \E abortFirst \in BOOLEAN : UserCloses(abortFirst)
    \/ UserClosesInBackground \/ UserDropsClient \/ UserGivesUp

CleanupStep == CleanupAborts \/ CleanupFinishes

ClientNext ==
    \/ \E c \in Callers : CallerStep(c)
    \/ ReaderStep
    \/ UserStep
    \/ \E x \in Agents : CloseStep(x)
    \/ CleanupStep

ClientSpec == ClientInit /\ [][ClientNext]_vars

\* What a caller does by itself, and what ends its wait.
CallerGoesOn(c) ==
    \/ Register(c) \/ WriteCheck(c) \/ Fail(c) \/ TakeAnswer(c)
    \/ ExpireWait(c) \/ GuardRemoves(c) \/ GuardRemembers(c)

ReaderGoesOn == pc[Reader] = "answered" /\ (ReaderCloses \/ ReaderFlushed)

\* Tasks that can run do run, timers fire, and a sink swallows what is written
\* to it.  The peer owes nothing: it may never answer, never read what is
\* written, and never close its end; nobody has to start or close anything.
ClientFairness ==
    /\ \A c \in Callers :
          /\ WF_vars(CallerGoesOn(c))
          /\ WF_vars(ExpireWrite(c))
          /\ WF_vars(AcquireWrite(c))
          /\ WF_vars(writer = "sink" /\ WriteDone(c))
    /\ WF_vars(AcquireWrite(Reader))
    /\ WF_vars(writer = "sink" /\ WriteDone(Reader))
    /\ WF_vars(ReaderGoesOn)
    /\ WF_vars(ReaderStops)
    /\ \A x \in Agents : WF_vars(CloseStep(x))
    /\ WF_vars(CleanupStep)

FairClientSpec == ClientSpec /\ ClientFairness

-----------------------------------------------------------------------------
\* The caller's request has (or had) a sender, and is still to be settled.
Registered == {"registered", "lockwait", "writing", "waiting", "failing", "closing",
               "draining", "inline", "dropping"}

\* The callers that own a request the map may hold.
Owner(c) == req[c] # NoId /\ pc[c] \in Registered

Labels == {"idle", "opened", "forgetting", "reading", "answered", "finishing",
           "firstFinishing", "lastTry", "dropClient", "ready", "abandoned", "stopped"}
          \cup Registered

\* Types, and the limit on the map: however the callers interleave, it never
\* holds more senders than max_pending_requests.
ClientTypeOK ==
    /\ pc \in [Agents -> Labels]
    /\ then \in [Agents -> {"none", "idle", "failing", "dropping", "answered",
                            "finishing", "stopped", "dropClient"}]
    /\ req \in [Callers -> Ids \cup {NoId}]
    /\ nextId \in Nat \ {0}
    /\ pending \in SUBSET Ids
    /\ Cardinality(pending) <= MaxPending
    /\ answer \in [Ids -> {"none", "reply", "mismatch", "closed"}]
    /\ closedBy \in Agents \cup {Nobody}
    /\ writeLock \in Agents \cup {Nobody}
    /\ writer \in {"open", "sink"}
    /\ cleanup \in {"none", "spawned", "aborted", "done"}
    /\ aborted \in BOOLEAN

\* No request is left behind by the drain: once the closer has drained the map,
\* an id can be in it only while its caller has yet to meet write_line's own
\* look at `closed`, which takes it out again.  A caller past that look would
\* wait for an answer nobody can send.
Drained == closed /\ pc[closedBy] # "draining"

NoStrandedRequest ==
    Drained =>
        \A c \in Callers :
            Owner(c) /\ req[c] \in pending => pc[c] \in {"registered", "failing"}

\* Whoever awaits an answer can still get one: its sender is in the map or was
\* used, never dropped unused ("response channel closed" cannot be returned).
AwaitedSenderIsSafe ==
    \A c \in Callers :
        pc[c] \in {"registered", "lockwait", "writing", "waiting"} /\ req[c] # NoId =>
            req[c] \in pending \/ answer[req[c]] # "none"

\* Nothing leaks in the map: each sender in it belongs to exactly one caller
\* that will still settle it, so the limit counts live requests only.
PendingHasOneOwner ==
    \A id \in pending : \E c \in Callers :
        /\ Owner(c) /\ req[c] = id
        /\ \A d \in Callers : req[d] = id => d = c

\* A sender is in the map or has been used, never both; an id that counts as
\* cancelled has no request any more that its answer could still reach.
SettledIdsAreGone ==
    \A id \in Ids : (answer[id] # "none" \/ latest[id] # Absent) => id \notin pending

\* The two in one: the map and the channels together hold every live request
\* once.
RequestsAreOwned == PendingHasOneOwner /\ SettledIdsAreGone

\* A request with a timeout returns, whatever the peer, the other callers and
\* the closers do or fail to do.
TimedRequestReturns ==
    \A c \in Timed : pc[c] # "idle" ~> pc[c] = "idle"

\* Closing wakes up every caller that waits for an answer.
CloseWakesWaiters ==
    \A c \in Callers : closed /\ pc[c] = "waiting" ~> pc[c] # "waiting"

\* Every way to close also ends the reader task, unless the closing future was
\* abandoned before it came to that.
CloseStopsReader ==
    closed ~> pc[Reader] = "stopped" \/ pc[User] = "abandoned"

\* A close ends what it finds: waits for an answer, and the reader.
CloseEndsWhatRuns == CloseWakesWaiters /\ CloseStopsReader

-----------------------------------------------------------------------------
\* What makes the safety properties inductive.

\* Ids are handed out once: live requests have different ids, all below nextId.
RequestsDiffer ==
    \A c \in Callers : req[c] # NoId =>
        /\ req[c] < nextId
        /\ \A d \in Callers : req[d] = req[c] => d = c

\* Which callers have a request, label by label.
CallersFollowTheirCode ==
    \A c \in Callers :
        /\ pc[c] \in {"opened", "registered", "waiting", "failing", "dropping",
                      "forgetting"} => req[c] # NoId
        /\ pc[c] = "idle" => req[c] = NoId
        /\ pc[c] \in {"closing", "draining", "inline"} =>
              IF req[c] = NoId THEN then[c] = "idle"
                               ELSE then[c] \in {"failing", "dropping"}
        /\ pc[c] \in Registered \cup {"idle", "opened", "forgetting"}

\* An id that is not in use yet was neither answered nor cancelled, and one
\* that its guard has removed does not come back.
UnusedIdsAreClean ==
    /\ \A id \in Ids : id >= nextId => answer[id] = "none" /\ latest[id] = Absent
    /\ \A c \in Callers : pc[c] = "opened" =>
          answer[req[c]] = "none" /\ latest[req[c]] = Absent
    /\ \A c \in Callers : pc[c] = "forgetting" => req[c] \notin pending

\* The agents outside Callers keep to their own labels.
OthersFollowTheirCode ==
    /\ pc[Reader] \in {"reading", "lockwait", "writing", "answered", "closing",
                       "draining", "inline", "firstFinishing", "finishing",
                       "lastTry", "stopped"}
    /\ pc[User] \in {"ready", "closing", "draining", "inline", "firstFinishing",
                     "finishing", "lastTry", "dropClient", "stopped", "abandoned"}
    /\ pc[Reader] \in {"closing", "draining", "inline"} =>
          then[Reader] \in {"answered", "finishing"}
    /\ pc[User] \in {"closing", "draining", "inline"} =>
          then[User] \in {"finishing", "stopped", "dropClient"}

ClientInv ==
    /\ ClientTypeOK
    /\ CancelledInv
    /\ RequestsDiffer
    /\ CallersFollowTheirCode
    /\ OthersFollowTheirCode
    /\ UnusedIdsAreClean
    /\ PendingHasOneOwner
    /\ AwaitedSenderIsSafe
    /\ SettledIdsAreGone
    /\ NoStrandedRequest
=============================================================================
