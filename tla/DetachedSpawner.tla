--------------------------- MODULE DetachedSpawner ---------------------------
(***************************************************************************)
(* How the JSON-RPC client runs what must not wait for its caller (a late  *)
(* answer, a batch flush, a close): DetachedSpawner::spawn_boxed hands the *)
(* task to a worker thread with a single-threaded runtime, started on      *)
(* demand and shared by the client's tasks, and waits until the worker     *)
(* confirms that it runs; a thread of its own is the fallback.             *)
(*                                                                         *)
(* A job is one call and its task.  A task may make a call of its own: the *)
(* one that answers a request or flushes a batch schedules the close of    *)
(* the client when its write fails or times out.  Then it is the worker's  *)
(* thread that makes that call, and it takes nothing until the call ends.  *)
(* A step is what runs under one lock or between two of a thread's waits.  *)
(***************************************************************************)
EXTENDS Integers, Sequences, FiniteSets

CONSTANTS Jobs,
          ParentOf,     \* the job whose task makes the call; the job itself for other threads
          MaxWorkers,   \* worker threads there can be
          MaxDeaths     \* workers that stop on their own

ASSUME SpawnerAssumption ==
    /\ IsFiniteSet(Jobs) /\ ParentOf \in [Jobs -> Jobs]
    /\ MaxWorkers \in Nat /\ MaxDeaths \in Nat

NoWorker == 0
OwnThread == -1    \* the fallback thread of a job
Workers == 1..MaxWorkers

VARIABLES
    callPc,       \* where each call stands
    tries,        \* the attempts it has begun
    callTx,       \* its clone of the sender, by worker
    taskState,    \* "held" by its caller, "sent", "taken", "running", "finished" or "dropped"
    runsOn,       \* the thread a started task runs on
    starts,       \* how often the task was started
    workerTx,     \* the sender the spawner keeps, by worker
    alive,        \* the workers whose receiver exists
    workerQueue,  \* the envelopes sent to each worker
    workerHand,   \* the job whose task a worker has taken out and not started
    started,      \* the workers started so far
    deaths

spawnerVars == <<callPc, tries, callTx, taskState, runsOn, starts, workerTx, alive,
                 workerQueue, workerHand, started, deaths>>
workerVars == <<alive, workerQueue, workerHand, started, deaths>>

SpawnerInit ==
    /\ callPc = [j \in Jobs |-> "none"]
    /\ tries = [j \in Jobs |-> 0]
    /\ callTx = [j \in Jobs |-> NoWorker]
    /\ taskState = [j \in Jobs |-> "held"]
    /\ runsOn = [j \in Jobs |-> NoWorker]
    /\ starts = [j \in Jobs |-> 0]
    /\ workerTx = NoWorker
    /\ alive = {}
    /\ workerQueue = [w \in Workers |-> <<>>]
    /\ workerHand = [w \in Workers |-> {}]
    /\ started = 0
    /\ deaths = 0

Over == {"none", "ok", "lost", "failed"}
InCall(j) == callPc[j] \notin Over
Nested(j) == ParentOf[j] # j

\* The thread a call is made on is blocked by it.
BlockedByCall(w) == \E j \in Jobs : Nested(j) /\ InCall(j) /\ runsOn[ParentOf[j]] = w

\* A task makes its call when its thread polls it.
Calls(j) ==
    /\ callPc[j] = "none"
    /\ Nested(j) => LET p == ParentOf[j] IN
                    taskState[p] = "running" /\ ~BlockedByCall(runsOn[p])
    /\ callPc' = [callPc EXCEPT ![j] = "choose"]
    /\ tries' = [tries EXCEPT ![j] = 1]
    /\ UNCHANGED <<callTx, taskState, runsOn, starts, workerTx, workerVars>>

\* What a bug would do: one attempt too many.
TryOnceMore(j) ==
    IF tries[j] <= 2
    THEN /\ callPc' = [callPc EXCEPT ![j] = "choose"]
         /\ tries' = [tries EXCEPT ![j] = @ + 1]
    ELSE /\ callPc' = [callPc EXCEPT ![j] = "fallback"]
         /\ UNCHANGED tries

\* The next attempt, or the fallback after the second.
TryAgain(j) ==
    IF tries[j] < 2
    THEN /\ callPc' = [callPc EXCEPT ![j] = "choose"]
         /\ tries' = [tries EXCEPT ![j] = @ + 1]
    ELSE /\ callPc' = [callPc EXCEPT ![j] = "fallback"]
         /\ UNCHANGED tries

TakeSender(j) ==
    /\ callPc[j] = "choose" /\ workerTx # NoWorker
    /\ callPc' = [callPc EXCEPT ![j] = "send"]
    /\ callTx' = [callTx EXCEPT ![j] = workerTx]
    /\ UNCHANGED <<tries, taskState, runsOn, starts, workerTx, workerVars>>

StartWorker(j) ==
    /\ callPc[j] = "choose" /\ workerTx = NoWorker /\ started < MaxWorkers
    /\ started' = started + 1
    /\ alive' = alive \cup {started'}
    /\ workerTx' = started'
    /\ callPc' = [callPc EXCEPT ![j] = "send"]
    /\ callTx' = [callTx EXCEPT ![j] = started']
    /\ UNCHANGED <<tries, taskState, runsOn, starts, workerQueue, workerHand, deaths>>

StartWorkerFails(j) ==
    /\ callPc[j] = "choose" /\ workerTx = NoWorker
    /\ TryAgain(j)
    /\ UNCHANGED <<callTx, taskState, runsOn, starts, workerTx, workerVars>>

Send(j) ==
    /\ callPc[j] = "send" /\ callTx[j] \in alive
    /\ workerQueue' = [workerQueue EXCEPT ![callTx[j]] = Append(@, j)]
    /\ callPc' = [callPc EXCEPT ![j] = "wait"]
    /\ taskState' = [taskState EXCEPT ![j] = "sent"]
    /\ UNCHANGED <<tries, callTx, runsOn, starts, workerTx, alive, workerHand, started, deaths>>

SendFails(j) ==
    /\ callPc[j] = "send" /\ callTx[j] \notin alive
    /\ callPc' = [callPc EXCEPT ![j] = "forget"]
    /\ UNCHANGED <<tries, callTx, taskState, runsOn, starts, workerTx, workerVars>>

\* The spawner's sender goes, whoever started the worker it belongs to.
ForgetWorker(j) ==
    /\ callPc[j] = "forget"
    /\ workerTx' = NoWorker
    /\ callTx' = [callTx EXCEPT ![j] = NoWorker]
    /\ TryAgain(j)
    /\ UNCHANGED <<taskState, runsOn, starts, workerVars>>

\* What the caller takes back from the envelope of a worker that is gone.
TakesBack(j) == taskState[j] = "sent"

\* The worker is gone and has not confirmed: the caller takes the task back
\* out of the envelope and falls back, or finds the envelope empty.
Reclaim(j) ==
    /\ callPc[j] = "wait" /\ callTx[j] \notin alive
    /\ workerTx' = NoWorker
    /\ callTx' = [callTx EXCEPT ![j] = NoWorker]
    /\ IF TakesBack(j)
       THEN /\ callPc' = [callPc EXCEPT ![j] = "fallback"]
            /\ taskState' = [taskState EXCEPT ![j] = "held"]
       ELSE /\ callPc' = [callPc EXCEPT ![j] = "lost"]
            /\ UNCHANGED taskState
    /\ UNCHANGED <<tries, runsOn, starts, workerVars>>

Runs(j, thread) ==
    /\ taskState' = [taskState EXCEPT ![j] = "running"]
    /\ runsOn' = [runsOn EXCEPT ![j] = thread]
    /\ starts' = [starts EXCEPT ![j] = @ + 1]

Fallback(j) ==
    /\ callPc[j] = "fallback"
    /\ Runs(j, OwnThread)
    /\ callPc' = [callPc EXCEPT ![j] = "ok"]
    /\ UNCHANGED <<tries, callTx, workerTx, workerVars>>

FallbackFails(j) ==
    /\ callPc[j] = "fallback"
    /\ callPc' = [callPc EXCEPT ![j] = "failed"]
    /\ taskState' = [taskState EXCEPT ![j] = "dropped"]
    /\ UNCHANGED <<tries, callTx, runsOn, starts, workerTx, workerVars>>

\* What a bug would do: confirm the task before it is started.
WorkerTakesAndConfirms(w) ==
    /\ w \in alive /\ workerHand[w] = {} /\ workerQueue[w] # <<>>
    /\ ~BlockedByCall(w)
    /\ workerQueue' = [workerQueue EXCEPT ![w] = Tail(@)]
    /\ workerHand' = [workerHand EXCEPT ![w] = {Head(workerQueue[w])}]
    /\ taskState' = [taskState EXCEPT ![Head(workerQueue[w])] = "taken"]
    /\ callPc' = [callPc EXCEPT ![Head(workerQueue[w])] = "ok"]
    /\ UNCHANGED <<tries, callTx, runsOn, starts, workerTx, alive, started, deaths>>

(***************************************************************************)
(* The worker thread.                                                      *)
(***************************************************************************)
WorkerTakes(w) ==
    /\ w \in alive /\ workerHand[w] = {} /\ workerQueue[w] # <<>>
    /\ ~BlockedByCall(w)
    /\ workerQueue' = [workerQueue EXCEPT ![w] = Tail(@)]
    /\ workerHand' = [workerHand EXCEPT ![w] = {Head(workerQueue[w])}]
    /\ taskState' = [taskState EXCEPT ![Head(workerQueue[w])] = "taken"]
    /\ UNCHANGED <<callPc, tries, callTx, runsOn, starts, workerTx, alive, started, deaths>>

\* The task is spawned on the worker's runtime and its caller told so.
WorkerStarts(w) ==
    /\ w \in alive
    /\ \E j \in workerHand[w] :
         /\ Runs(j, w)
         /\ callPc' = [callPc EXCEPT ![j] = "ok"]
         /\ callTx' = [callTx EXCEPT ![j] = NoWorker]
    /\ workerHand' = [workerHand EXCEPT ![w] = {}]
    /\ UNCHANGED <<tries, workerTx, alive, workerQueue, started, deaths>>

\* A task ends on its thread.
TaskEnds(j) ==
    /\ taskState[j] = "running"
    /\ ~\E k \in Jobs : Nested(k) /\ ParentOf[k] = j /\ InCall(k)
    /\ runsOn[j] # OwnThread => ~BlockedByCall(runsOn[j])
    /\ taskState' = [taskState EXCEPT ![j] = "finished"]
    /\ UNCHANGED <<callPc, tries, callTx, runsOn, starts, workerTx, workerVars>>

\* The receiver, the envelopes and the runtime with its tasks go.
WorkerGone(w) ==
    /\ alive' = alive \ {w}
    /\ workerQueue' = [workerQueue EXCEPT ![w] = <<>>]
    /\ workerHand' = [workerHand EXCEPT ![w] = {}]
    /\ taskState' = [j \in Jobs |->
         IF \/ taskState[j] = "running" /\ runsOn[j] = w
            \/ j \in workerHand[w]
         THEN "dropped" ELSE taskState[j]]
    /\ UNCHANGED <<callPc, tries, callTx, runsOn, starts, workerTx, started>>

WorkerDies(w) ==
    /\ w \in alive /\ deaths < MaxDeaths /\ ~BlockedByCall(w)
    /\ deaths' = deaths + 1
    /\ WorkerGone(w)

\* No sender is left, the spawner's or a caller's clone: recv returns None.
WorkerExits(w) ==
    /\ w \in alive /\ workerTx # w /\ \A j \in Jobs : callTx[j] # w
    /\ workerQueue[w] = <<>> /\ workerHand[w] = {} /\ ~BlockedByCall(w)
    /\ WorkerGone(w)
    /\ UNCHANGED deaths

(***************************************************************************)
CallStep(j) ==
    \/ TakeSender(j) \/ StartWorker(j) \/ StartWorkerFails(j)
    \/ Send(j) \/ SendFails(j) \/ ForgetWorker(j) \/ Reclaim(j)
    \/ Fallback(j) \/ FallbackFails(j)

WorkerStep(w) == WorkerTakes(w) \/ WorkerStarts(w) \/ WorkerExits(w)

SpawnerNext ==
    \/ \E j \in Jobs : Calls(j) \/ CallStep(j) \/ TaskEnds(j)
    \/ \E w \in Workers : WorkerStep(w) \/ WorkerDies(w)

SpawnerSpec == SpawnerInit /\ [][SpawnerNext]_spawnerVars

\* The threads run; a task may last as long as it likes.
SpawnerSteps == (\E j \in Jobs : CallStep(j)) \/ (\E w \in Workers : WorkerStep(w))

FairSpawnerSpec == SpawnerSpec /\ WF_spawnerVars(SpawnerSteps)

-----------------------------------------------------------------------------
SpawnerTypeOK ==
    /\ callPc \in [Jobs -> Over \cup {"choose", "send", "forget", "wait", "fallback"}]
    /\ tries \in [Jobs -> 0..2]
    /\ callTx \in [Jobs -> Workers \cup {NoWorker}]
    /\ taskState \in [Jobs -> {"held", "sent", "taken", "running", "finished", "dropped"}]
    /\ runsOn \in [Jobs -> Workers \cup {NoWorker, OwnThread}]
    /\ workerTx \in Workers \cup {NoWorker}
    /\ alive \subseteq 1..started
    /\ \A w \in Workers : workerQueue[w] \in Seq(Jobs) /\ workerHand[w] \subseteq Jobs
    /\ started \in 0..MaxWorkers /\ deaths \in 0..MaxDeaths

\* What the caller is told is true: a call that succeeds has had its task
\* started, once, and one that fails has not, whichever worker died when.
OutcomeIsTrue ==
    \A j \in Jobs :
        /\ starts[j] = (IF callPc[j] = "ok" THEN 1 ELSE 0)
        /\ callPc[j] = "fallback" => taskState[j] = "held"

\* A call returns, also the one a running task makes.
SpawnCallsReturn == \A j \in Jobs : InCall(j) ~> ~InCall(j)

-----------------------------------------------------------------------------
(***************************************************************************)
(* The inductive invariant of the spawner.                                 *)
(***************************************************************************)

\* A call has its task, or waits for one that it sent.
CallsHaveTheirTask ==
    \A j \in Jobs :
        /\ callPc[j] \in {"none", "choose", "send", "forget", "fallback"} => taskState[j] = "held"
        /\ callPc[j] = "wait" => taskState[j] \in {"sent", "taken", "dropped"}

\* What a worker has in its queue or in its hand is awaited by a call, and is there once.
IsAwaited(j, w, state) ==
    callPc[j] = "wait" /\ taskState[j] = state /\ callTx[j] = w /\ w \in alive

EnvelopesAreAwaited ==
    \A w \in Workers :
        /\ \A i \in 1..Len(workerQueue[w]) : IsAwaited(workerQueue[w][i], w, "sent")
        /\ \A i, k \in 1..Len(workerQueue[w]) : workerQueue[w][i] = workerQueue[w][k] => i = k
        /\ \A j \in workerHand[w] : IsAwaited(j, w, "taken")

SpawnerInv ==
    /\ SpawnerTypeOK /\ starts \in [Jobs -> Nat]
    /\ workerQueue \in [Workers -> Seq(Jobs)] /\ workerHand \in [Workers -> SUBSET Jobs]
    /\ OutcomeIsTrue
    /\ CallsHaveTheirTask
    /\ EnvelopesAreAwaited
=============================================================================
