---------------------------- MODULE BatchResponse ----------------------------
(***************************************************************************)
(* The answering side of the JSON-RPC client: how the requests of one      *)
(* incoming batch are handed out, answered and collected into one line     *)
(* (handle_incoming_value, IncomingRequest, RequestResponder and           *)
(* BatchResponseWriter).                                                   *)
(*                                                                         *)
(* Each request reserves a slot of the batch.  Its answer comes from one   *)
(* of its owners, the clones of IncomingRequest the application holds, or  *)
(* from a detached task, when the request could not be dispatched or was   *)
(* dropped unanswered.  Whoever completes the last slot of a finished      *)
(* batch writes the line; the reader does, if all were complete before.    *)
(*                                                                         *)
(* A step is one atomic operation or what runs under one lock.  A detached *)
(* task and its replacement without a runtime end the same way, an answer  *)
(* or a close, and are one agent here, named by its request.               *)
(***************************************************************************)
EXTENDS Integers, Sequences, FiniteSets

CONSTANTS Requests,   \* the requests of the batch, and their detached tasks
          Owners,     \* the clones of IncomingRequest there may be
          RequestOf,  \* the request an owner is a clone of
          Reader      \* the reader task

Agents == Owners \cup Requests \cup {Reader}

ASSUME BatchAssumption ==
    /\ IsFiniteSet(Requests)
    /\ RequestOf \in [Owners -> Requests]
    /\ Requests \cap Owners = {}
    /\ Reader \notin Requests \cup Owners

VARIABLES
    pc,         \* where each agent stands
    todo,       \* the requests the reader has not come to yet
    responded,  \* the CAS of send_response or of the last drop was won
    pending,    \* completion_state & PENDING_MASK
    finished,   \* completion_state & FINISHED_BIT
    flushed,
    responses,  \* the answers collected; Reader stands for an error of its own
    line,       \* the batch a flusher took out to write
    wire,       \* what was written
    abandoned,  \* an owner's respond future was dropped before it ended
    invalid,    \* the reader met an item it must close the client for
    closed      \* of the ClientHandle

batchVars == <<pc, todo, responded, pending, finished, flushed, responses, line, wire,
          abandoned, invalid, closed>>

BatchInit ==
    /\ pc = [x \in Agents |-> IF x = Reader THEN "reading" ELSE "none"]
    /\ todo = Requests
    /\ responded = [r \in Requests |-> FALSE]
    /\ pending = 0
    /\ finished = FALSE
    /\ flushed = FALSE
    /\ responses = <<>>
    /\ line = <<>>
    /\ wire = <<>>
    /\ abandoned = FALSE
    /\ invalid = FALSE
    /\ closed = FALSE

Goto(x, label) == pc' = [pc EXCEPT ![x] = label]

\* The request an agent answers.
Req(x) == IF x \in Owners THEN RequestOf[x] ELSE x

\* Where an agent goes on after its part of the answer: an owner is handed back
\* to the application, the reader and a detached task are through.
Through(x) == IF x \in Owners THEN "held" ELSE "done"

-----------------------------------------------------------------------------
\* The reader

\* A request is queued for the application: one owner.
Dispatch(r) ==
    /\ pc[Reader] = "reading" /\ ~closed
    /\ r \in todo
    /\ todo' = todo \ {r}
    /\ pending' = pending + 1
    /\ \E o \in Owners : RequestOf[o] = r /\ Goto(o, "held")
    /\ UNCHANGED <<responded, finished, flushed, responses, line, wire, abandoned,
                   invalid, closed>>

\* The queue is full or has no receiver: a detached task answers, and the
\* reader's own IncomingRequest, dropped beside it, sees by the count of
\* `responded` that it must not.  If the task cannot be started the client is
\* closed, and the drop tries once more.
RefuseRequest(r) ==
    /\ pc[Reader] = "reading" /\ ~closed
    /\ r \in todo
    /\ todo' = todo \ {r}
    /\ pending' = pending + 1
    /\ \/ Goto(r, "respond") /\ UNCHANGED <<closed, responded>>
       \/ /\ closed' = TRUE
          /\ responded' = [responded EXCEPT ![r] = TRUE]
          /\ Goto(r, "push") \/ UNCHANGED pc
    /\ UNCHANGED <<finished, flushed, responses, line, wire, abandoned, invalid>>

\* An invalid item: its error goes into the batch directly, then the batch is
\* finished with what it has and the client closed.
RefuseItem ==
    /\ pc[Reader] = "reading" /\ ~closed
    /\ responses' = Append(responses, Reader)
    /\ invalid' = TRUE
    /\ Goto(Reader, "finish")
    /\ UNCHANGED <<todo, responded, pending, finished, flushed, line, wire, abandoned,
                   closed>>

EndOfBatch ==
    /\ pc[Reader] = "reading" /\ ~closed
    /\ todo = {}
    /\ Goto(Reader, "finish")
    /\ UNCHANGED <<todo, responded, pending, finished, flushed, responses, line, wire,
                   abandoned, invalid, closed>>

\* finish(): one fetch_or sets the bit and tells whether any slot is open.
Finish ==
    /\ pc[Reader] = "finish"
    /\ finished' = TRUE
    /\ Goto(Reader, IF pending = 0 THEN "flush" ELSE "done")
    /\ UNCHANGED <<todo, responded, pending, flushed, responses, line, wire,
                   abandoned, invalid, closed>>

\* handle_incoming_value returned the invalid item's error: the client closes.
CloseForInvalid ==
    /\ pc[Reader] = "done" /\ invalid
    /\ closed' = TRUE
    /\ UNCHANGED <<pc, todo, responded, pending, finished, flushed, responses, line,
                   wire, abandoned, invalid>>

\* The client is closed: the reader leaves the batch as it is.
ReaderLeaves ==
    /\ closed
    /\ pc[Reader] # "done"
    /\ Goto(Reader, "done")
    /\ UNCHANGED <<todo, responded, pending, finished, flushed, responses, line, wire,
                   abandoned, invalid, closed>>

-----------------------------------------------------------------------------
\* Answering: send_response and push_reserved_response

\* What a bug would do: answer without a look at `responded`.
RespondAgain(x) ==
    /\ pc[x] = (IF x \in Owners THEN "held" ELSE "respond")
    /\ x # Reader
    /\ responded' = [responded EXCEPT ![Req(x)] = TRUE]
    /\ Goto(x, "push")
    /\ UNCHANGED <<todo, pending, finished, flushed, responses, line, wire, abandoned,
                   invalid, closed>>

\* Only the first to set `responded` goes on; an owner may also just try.
Respond(x) ==
    /\ pc[x] = (IF x \in Owners THEN "held" ELSE "respond")
    /\ x # Reader
    /\ IF responded[Req(x)]
       THEN Goto(x, Through(x)) /\ UNCHANGED responded
       ELSE responded' = [responded EXCEPT ![Req(x)] = TRUE] /\ Goto(x, "push")
    /\ UNCHANGED <<todo, pending, finished, flushed, responses, line, wire, abandoned,
                   invalid, closed>>

\* On a closed client the slot is given back and nothing else happens.
PushCheck(x) ==
    /\ pc[x] = "push"
    /\ IF closed THEN pending' = pending - 1 /\ Goto(x, Through(x))
                 ELSE Goto(x, "locking") /\ UNCHANGED pending
    /\ UNCHANGED <<todo, responded, finished, flushed, responses, line, wire,
                   abandoned, invalid, closed>>

Push(x) ==
    /\ pc[x] = "locking"
    /\ responses' = Append(responses, Req(x))
    /\ Goto(x, "complete")
    /\ UNCHANGED <<todo, responded, pending, finished, flushed, line, wire, abandoned,
                   invalid, closed>>

\* What a bug would do: leave the flush of the last slot to nobody.
CompleteQuietly(x) ==
    /\ pc[x] = "complete"
    /\ pending' = pending - 1
    /\ Goto(x, Through(x))
    /\ UNCHANGED <<todo, responded, finished, flushed, responses, line, wire,
                   abandoned, invalid, closed>>

\* complete_reserved_slot: one fetch_sub gives the slot back and tells whether
\* it was the last one of a finished batch.
Complete(x) ==
    /\ pc[x] = "complete"
    /\ pending' = pending - 1
    /\ Goto(x, IF pending = 1 /\ finished THEN "flush" ELSE Through(x))
    /\ UNCHANGED <<todo, responded, finished, flushed, responses, line, wire,
                   abandoned, invalid, closed>>

-----------------------------------------------------------------------------
\* flush_once

FlushOnce(x) ==
    /\ pc[x] = "flush"
    /\ flushed' = TRUE
    /\ Goto(x, IF flushed THEN Through(x) ELSE "taking")
    /\ UNCHANGED <<todo, responded, pending, finished, responses, line, wire,
                   abandoned, invalid, closed>>

TakeBatch(x) ==
    /\ pc[x] = "taking"
    /\ line' = responses
    /\ responses' = <<>>
    /\ Goto(x, IF responses = <<>> THEN Through(x) ELSE "writing")
    /\ UNCHANGED <<todo, responded, pending, finished, flushed, wire, abandoned,
                   invalid, closed>>

WriteBatch(x) ==
    /\ pc[x] = "writing"
    /\ wire' = line
    /\ line' = <<>>
    /\ Goto(x, Through(x))
    /\ UNCHANGED <<todo, responded, pending, finished, flushed, responses, abandoned,
                   invalid, closed>>

\* The line is too long, the client is closed, or the transport fails; the last
\* closes the client at once, the others when the reader or a task sees them.
\* An owner only gets the error.
WriteFails(x) ==
    /\ pc[x] = "writing"
    /\ line' = <<>>
    /\ closed' \in IF x \in Owners THEN {closed, TRUE} ELSE {TRUE}
    /\ abandoned' = (abandoned \/ x \in Owners)
    /\ Goto(x, Through(x))
    /\ UNCHANGED <<todo, responded, pending, finished, flushed, responses, wire,
                   invalid>>

\* An owner's respond future is dropped, a task's deadline passes: a slot still
\* reserved is given back without a look at the flush, a line taken out is
\* gone.  The task then closes the client.
GiveUp(x) ==
    /\ x # Reader
    /\ pc[x] \in {"locking", "taking", "writing"}
    /\ pending' = IF pc[x] = "locking" THEN pending - 1 ELSE pending
    /\ line' = IF pc[x] = "writing" THEN <<>> ELSE line
    /\ closed' = (closed \/ x \notin Owners)
    /\ abandoned' = (abandoned \/ x \in Owners)
    /\ Goto(x, Through(x))
    /\ UNCHANGED <<todo, responded, finished, flushed, responses, wire, invalid>>

-----------------------------------------------------------------------------
\* Cloning and dropping an IncomingRequest

\* owner_count counts the first set, the strong count of `responded` also the
\* owners inside or just behind their drop, and a task that holds a clone.
Counted(r) == {o \in Owners : RequestOf[o] = r /\
                  pc[o] \notin {"none", "last", "releasing", "gone"}}
Strong(r) == {o \in Owners : RequestOf[o] = r /\ pc[o] \notin {"none", "gone"}}
                \cup {t \in {r} : pc[t] \notin {"none", "done"}}

Clone(o, copy) ==
    /\ pc[o] = "held"
    /\ pc[copy] = "none"
    /\ RequestOf[copy] = RequestOf[o]
    /\ Goto(copy, "held")
    /\ UNCHANGED <<todo, responded, pending, finished, flushed, responses, line, wire,
                   abandoned, invalid, closed>>

\* Drop for IncomingRequest: one fetch_sub on owner_count.
DropOwner(o) ==
    /\ pc[o] = "held"
    /\ Goto(o, IF Counted(RequestOf[o]) = {o} THEN "last" ELSE "releasing")
    /\ UNCHANGED <<todo, responded, pending, finished, flushed, responses, line, wire,
                   abandoned, invalid, closed>>

\* The fields of the dropped owner go, its Arc of `responded` with them.
ReleaseFields(o) ==
    /\ pc[o] = "releasing"
    /\ Goto(o, "gone")
    /\ UNCHANGED <<todo, responded, pending, finished, flushed, responses, line, wire,
                   abandoned, invalid, closed>>

\* The last owner: begin_drop_without_response, then the internal error is left
\* to a detached task, or the client closed if none can be started.
AnswerDropped(o) ==
    LET r == RequestOf[o] IN
    /\ pc[o] = "last"
    /\ IF Strong(r) = {o} /\ ~responded[r]
       THEN /\ responded' = [responded EXCEPT ![r] = TRUE]
            /\ \/ /\ pc' = [pc EXCEPT ![o] = "releasing", ![r] = "push"]
                  /\ UNCHANGED closed
               \/ Goto(o, "releasing") /\ closed' = TRUE
       ELSE Goto(o, "releasing") /\ UNCHANGED <<responded, closed>>
    /\ UNCHANGED <<todo, pending, finished, flushed, responses, line, wire, abandoned,
                   invalid>>

-----------------------------------------------------------------------------
\* Anybody else closes the client.
CloseElsewhere ==
    /\ closed' = TRUE
    /\ UNCHANGED <<pc, todo, responded, pending, finished, flushed, responses, line,
                   wire, abandoned, invalid>>

ReaderStep ==
    \/ \E r \in Requests : Dispatch(r) \/ RefuseRequest(r)
    \/ RefuseItem \/ EndOfBatch \/ Finish \/ CloseForInvalid \/ ReaderLeaves

AnswerStep(x) ==
    PushCheck(x) \/ Push(x) \/ Complete(x) \/ FlushOnce(x) \/ TakeBatch(x)

OwnerStep(o) ==
    \/ \E copy \in Owners : Clone(o, copy)
    \/ DropOwner(o) \/ ReleaseFields(o) \/ AnswerDropped(o)

BatchNext ==
    \/ ReaderStep
    \/ \E x \in Owners \cup Requests : Respond(x) \/ GiveUp(x)
    \/ \E x \in Agents : AnswerStep(x) \/ WriteBatch(x) \/ WriteFails(x)
    \/ \E o \in Owners : OwnerStep(o)
    \/ CloseElsewhere

BatchSpec == BatchInit /\ [][BatchNext]_batchVars

\* Tasks that can run do run, what is called is polled, and a task meets its
\* deadline.  The application need not answer or drop what it holds, though a
\* drop that has begun ends; the peer need not read, so a write need not end.
\* Nobody comes back to where it was, so it is enough that of those who can go
\* on somebody always does.
BatchSteps ==
    \/ EndOfBatch \/ Finish
    \/ \E x \in Agents : AnswerStep(x)
    \/ \E r \in Requests : Respond(r) \/ GiveUp(r)
    \/ \E o \in Owners : ReleaseFields(o) \/ AnswerDropped(o)

FairBatchSpec == BatchSpec /\ WF_batchVars(BatchSteps)

-----------------------------------------------------------------------------
Labels == {"none", "reading", "finish", "respond", "push", "locking", "complete",
           "flush", "taking", "writing", "held", "last", "releasing", "gone", "done"}

BatchTypeOK ==
    /\ pc \in [Agents -> Labels]
    /\ todo \in SUBSET Requests
    /\ responded \in [Requests -> BOOLEAN]
    /\ pending \in Nat
    /\ {finished, flushed, abandoned, invalid, closed} \subseteq BOOLEAN
    /\ {responses, line, wire} \subseteq Seq(Requests \cup {Reader})

Answers(q, r) == {i \in DOMAIN q : q[i] = r}

\* However many clones a request has, and whoever else answers for it, the peer
\* gets at most one answer to it.
AnsweredAtMostOnce ==
    \A r \in Requests : Cardinality(Answers(responses \o line \o wire, r)) <= 1

\* The batch is written once all its requests are answered or given up, and
\* nothing is collected after that: no answer misses the line.
FlushedWhenComplete ==
    flushed =>
        /\ finished /\ pending = 0
        /\ \A x \in Agents : pc[x] \notin {"push", "locking", "complete"}

\* The open slots are the requests dispatched and not completed: a slot is
\* neither leaked nor given back twice.  (A refused or dropped request nobody
\* can answer keeps its slot, on a closed client.)
OpenSlots == {x \in Agents : pc[x] \in {"push", "locking", "complete"}}
Unanswered == {r \in Requests \ todo : ~responded[r]}

SlotsMatchRequests ==
    LET open == Cardinality(OpenSlots) + Cardinality(Unanswered) IN
    IF closed THEN pending >= open ELSE pending = open

\* The batch goes out whole: one answer for each request, no slot left over and
\* none missing.
BatchIsWhole == AnsweredAtMostOnce /\ FlushedWhenComplete /\ SlotsMatchRequests

Clones(r) == {o \in Owners : RequestOf[o] = r /\ pc[o] # "none"}

\* Dropping the last unanswered clone answers the request, however the drops of
\* the clones interleave.
DroppedRequestIsAnswered ==
    \A r \in Requests :
        (Clones(r) # {} /\ \A o \in Clones(r) : pc[o] = "gone") => responded[r]

\* Once every request is spoken for and the batch is finished, its line goes to
\* the writer: finish() and the last answer cannot both leave it to the other.
\* (An owner whose respond future is dropped, or whose write fails, may lose it.)
BatchComplete == finished /\ todo = {} /\ \A r \in Requests : responded[r]
BatchOut == line # <<>> \/ wire # <<>> \/ closed \/ abandoned

CompleteBatchIsFlushed == BatchComplete ~> BatchOut
-----------------------------------------------------------------------------
(***************************************************************************)
(* The inductive invariant of the batch.                                   *)
(***************************************************************************)
Mentions(q, r) == \E i \in 1..Len(q) : q[i] = r

Named(r) == Mentions(responses, r) \/ Mentions(line, r) \/ Mentions(wire, r)

AnswersDiffer(q) == \A i, j \in 1..Len(q) : q[i] = q[j] => i = j \/ q[i] = Reader

\* The reader goes one way, and what it has not come to is nobody's yet.
ReaderGoesOneWay ==
    /\ pc[Reader] \in {"reading", "finish", "flush", "taking", "writing", "done"}
    /\ finished => pc[Reader] \notin {"reading", "finish"}
    /\ \A r \in todo :
          /\ ~responded[r]
          /\ \A x \in Owners \cup Requests : Req(x) = r => pc[x] = "none"

\* An open slot belongs to whoever won `responded` for its request, and to nobody else.
SlotsAreWon ==
    /\ \A x \in OpenSlots : responded[Req(x)]
    /\ \A x, y \in OpenSlots : Req(x) = Req(y) => x = y

\* A request is named in one place of one of the three sequences, after `responded` was won for it
\* and after its slot's holder was at the lock.
NamedOnce ==
    /\ \A r \in Requests : Named(r) => responded[r]
    /\ \A x \in Agents : pc[x] \in {"push", "locking"} => ~Named(Req(x))
    /\ AnswersDiffer(responses) /\ AnswersDiffer(line) /\ AnswersDiffer(wire)
    /\ \A r \in Requests :
          /\ ~(Mentions(responses, r) /\ Mentions(line, r))
          /\ ~(Mentions(responses, r) /\ Mentions(wire, r))
          /\ ~(Mentions(line, r) /\ Mentions(wire, r))

\* Who flushes found the batch finished and without a slot, and so it stays.
FlushersComeLast ==
    (flushed \/ \E x \in Agents : pc[x] \in {"flush", "taking", "writing"}) =>
        finished /\ pending = 0

BatchInv ==
    /\ BatchTypeOK
    /\ ReaderGoesOneWay
    /\ SlotsAreWon
    /\ NamedOnce
    /\ FlushersComeLast
    /\ IsFiniteSet(OpenSlots)
    /\ SlotsMatchRequests
=============================================================================
