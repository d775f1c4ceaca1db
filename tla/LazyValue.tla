------------------------------ MODULE LazyValue ------------------------------
(***************************************************************************)
(* The blocking lazy values of text-assets-kit (LazyValue) and the graph   *)
(* of waits they share (LazyWaitGraph): threads call get_or_init, one runs *)
(* its initializer, which may call get_or_init of other values, the others *)
(* sleep on the value's condition variable until the attempt settles.      *)
(*                                                                         *)
(* A step is one critical section of a value's mutex; the graph's mutex is *)
(* only taken inside one, or on its own by `set`.                          *)
(***************************************************************************)
EXTENDS Integers, Sequences, FiniteSets

CONSTANTS Threads,
          Lazies,      \* the LazyValues
          NoThread,
          NoLazy,
          MaxDepth,    \* bound on nested get_or_init calls
          MaxCalls,    \* bound on get_or_init calls altogether
          Panics       \* whether initializers may panic

ASSUME LazyAssumption ==
    /\ IsFiniteSet(Threads)
    /\ NoThread \notin Threads
    /\ NoLazy \notin Lazies
    /\ MaxDepth \in Nat \ {0}
    /\ MaxCalls \in Nat
    /\ Panics \in BOOLEAN

VARIABLES
    state,           \* LazyState of each value ...
    owner,           \* ... and thread_id, while it is initializing
    waitingThreads,  \* ... and waiting_threads, there and after a failure
    stack,           \* the values a thread is in get_or_init of, innermost last
    lazyPc,              \* where its innermost call stands
    waiting,         \* waiting_for_current_attempt of that call
    active,          \* ACTIVE_LAZY_INITIALIZATIONS of the thread
    graphOwner,      \* LazyWaitGraph::owners
    waitingOn,       \* waiting_on of each thread in the graph
    setting,         \* the value a call of `set` is through with but the wake-up
    replaced,        \* the owner that call found, until it leaves the graph
    calls            \* get_or_init calls so far

lazyVars == <<state, owner, waitingThreads, stack, lazyPc, waiting, active, graphOwner,
          waitingOn, setting, replaced, calls>>

LazyInit ==
    /\ state = [l \in Lazies |-> "uninitialized"]
    /\ owner = [l \in Lazies |-> NoThread]
    /\ waitingThreads = [l \in Lazies |-> 0]
    /\ stack = [t \in Threads |-> <<>>]
    /\ lazyPc = [t \in Threads |-> "idle"]
    /\ waiting = [t \in Threads |-> FALSE]
    /\ active = [t \in Threads |-> {}]
    /\ graphOwner = [l \in Lazies |-> NoThread]
    /\ waitingOn = [t \in Threads |-> NoLazy]
    /\ setting = NoLazy
    /\ replaced = NoThread
    /\ calls = 0

\* The value of the innermost call of a thread that is in one.
Lazy(t) == stack[t][Len(stack[t])]
In(t, l) == stack[t] # <<>> /\ Lazy(t) = l

Sleepers(l) == {t \in Threads : lazyPc[t] = "asleep" /\ In(t, l)}

\* What a bug would do: forget notify_all.
NotifyNobody(l) == {}

\* ready.notify_all()
NotifyAll(l) == Sleepers(l)

\* Innermost call of t goes to `label`; everybody in `awake` competes for the
\* lock again.
Continue(t, label, awake) ==
    lazyPc' = [x \in Threads |-> IF x = t THEN label
                             ELSE IF x \in awake THEN "locking" ELSE lazyPc[x]]

\* The innermost call of t returns, or unwinds, to the initializer it was made
\* from.
Return(t, awake) ==
    /\ stack' = [stack EXCEPT ![t] = SubSeq(@, 1, Len(@) - 1)]
    /\ Continue(t, IF Len(stack[t]) = 1 THEN "idle" ELSE "running", awake)
    /\ waiting' = [waiting EXCEPT ![t] = FALSE]

-----------------------------------------------------------------------------
\* LazyWaitGraph

BeginInitialization(t, l) ==
    /\ active' = [active EXCEPT ![t] = @ \cup {l}]
    /\ graphOwner' = [graphOwner EXCEPT ![l] = t]

WithoutOwner(t, l) == IF graphOwner[l] = t THEN [graphOwner EXCEPT ![l] = NoThread]
                                           ELSE graphOwner

FinishInitialization(t, l) ==
    /\ active' = [active EXCEPT ![t] = @ \ {l}]
    /\ graphOwner' = WithoutOwner(t, l)

\* finish_lazy_wait, for a call that was waiting for an attempt.
FinishWait(t) == waitingOn' = [waitingOn EXCEPT ![t] = NoLazy]

\* The value that the owner of m waits for.
NextValue(m) == IF m = NoLazy THEN NoLazy
                ELSE IF graphOwner[m] = NoThread THEN NoLazy
                ELSE waitingOn[graphOwner[m]]

\* From l to its owner, to the value that one waits for, and so on.
Walk(l) ==
    LET walk[n \in 0..Cardinality(Threads)] == IF n = 0 THEN l ELSE NextValue(walk[n-1])
    IN  walk

\* wait_would_cycle: t is met on the way; a thread met twice counts as a cycle, too.
WaitWouldCycle(t, l) ==
    LET N == Cardinality(Threads)
        OwnedBy(n, x) == Walk(l)[n] # NoLazy /\ graphOwner[Walk(l)[n]] = x
    IN  \/ \E n \in 0..N : OwnedBy(n, t)
        \/ \E x \in Threads : OwnedBy(N, x)

-----------------------------------------------------------------------------
\* get_or_init

Call(t, l) ==
    /\ lazyPc[t] \in {"idle", "running"}
    /\ Len(stack[t]) < MaxDepth
    /\ calls < MaxCalls
    /\ calls' = calls + 1
    /\ stack' = [stack EXCEPT ![t] = Append(@, l)]
    /\ lazyPc' = [lazyPc EXCEPT ![t] = "locking"]
    /\ UNCHANGED <<state, owner, waitingThreads, waiting, active, graphOwner,
                   waitingOn, setting, replaced>>

FindValue(t) ==
    LET l == Lazy(t) IN
    /\ lazyPc[t] = "locking" /\ state[l] = "initialized"
    /\ FinishWait(t)
    /\ Return(t, {})
    /\ UNCHANGED <<state, owner, waitingThreads, active, graphOwner, setting,
                   replaced, calls>>

\* The thread is inside the initializer it would have to wait for, or it would
\* close a cycle of waits: an error at once.
RefuseToWait(t) ==
    LET l == Lazy(t) IN
    /\ lazyPc[t] = "locking" /\ state[l] = "initializing"
    /\ \/ l \in active[t] \/ owner[l] = t
       \/ ~waiting[t] /\ WaitWouldCycle(t, l)
    /\ Return(t, {})
    /\ UNCHANGED <<state, owner, waitingThreads, active, graphOwner, waitingOn,
                   setting, replaced, calls>>

\* The first time round the wait is entered in the graph and counted.
WaitForAttempt(t) ==
    LET l == Lazy(t) IN
    /\ lazyPc[t] = "locking" /\ state[l] = "initializing"
    /\ l \notin active[t] /\ owner[l] # t
    /\ \/ waiting[t] /\ UNCHANGED <<waitingThreads, waiting, waitingOn>>
       \/ /\ ~waiting[t] /\ ~WaitWouldCycle(t, l)
          /\ waitingOn' = [waitingOn EXCEPT ![t] = l]
          /\ waitingThreads' = [waitingThreads EXCEPT ![l] = @ + 1]
          /\ waiting' = [waiting EXCEPT ![t] = TRUE]
    /\ Continue(t, "asleep", {})
    /\ UNCHANGED <<state, owner, stack, active, graphOwner, setting, replaced, calls>>

\* The waiters counted that have not taken the error yet, after one more did; a
\* waiter left over from an attempt that panicked was never counted.
StillToCome(l) == IF waitingThreads[l] > 0 THEN waitingThreads[l] - 1 ELSE 0

\* A waiter takes the error; the last one counted lets the next attempt begin.
TakeFailure(t) ==
    LET l == Lazy(t) IN
    /\ lazyPc[t] = "locking" /\ state[l] = "failed" /\ waiting[t]
    /\ FinishWait(t)
    /\ waitingThreads' = [waitingThreads EXCEPT ![l] = StillToCome(l)]
    /\ state' = [state EXCEPT ![l] = IF StillToCome(l) = 0 THEN "uninitialized" ELSE @]
    /\ Return(t, IF StillToCome(l) = 0 THEN NotifyAll(l) ELSE {})
    /\ UNCHANGED <<owner, active, graphOwner, setting, replaced, calls>>

\* A later caller begins anew, or sleeps until the waiters have the error; that
\* sleep is neither counted nor in the graph.
FindFailure(t) ==
    LET l == Lazy(t) IN
    /\ lazyPc[t] = "locking" /\ state[l] = "failed" /\ ~waiting[t]
    /\ IF waitingThreads[l] = 0
       THEN state' = [state EXCEPT ![l] = "uninitialized"] /\ UNCHANGED lazyPc
       ELSE Continue(t, "asleep", {}) /\ UNCHANGED state
    /\ UNCHANGED <<owner, waitingThreads, stack, waiting, active, graphOwner,
                   waitingOn, setting, replaced, calls>>

\* What a bug would do: begin without taking the ownership.
StartUnmarked(t) ==
    LET l == Lazy(t) IN
    /\ lazyPc[t] = "locking" /\ state[l] = "uninitialized"
    /\ BeginInitialization(t, l)
    /\ FinishWait(t)
    /\ waiting' = [waiting EXCEPT ![t] = FALSE]
    /\ Continue(t, "running", {})
    /\ UNCHANGED <<state, owner, waitingThreads, stack, setting, replaced, calls>>

\* Whoever finds the value uninitialized runs its initializer.
StartInitializer(t) ==
    LET l == Lazy(t) IN
    /\ lazyPc[t] = "locking" /\ state[l] = "uninitialized"
    /\ state' = [state EXCEPT ![l] = "initializing"]
    /\ owner' = [owner EXCEPT ![l] = t]
    /\ waitingThreads' = [waitingThreads EXCEPT ![l] = 0]
    /\ BeginInitialization(t, l)
    /\ FinishWait(t)
    /\ waiting' = [waiting EXCEPT ![t] = FALSE]
    /\ Continue(t, "running", {})
    /\ UNCHANGED <<stack, setting, replaced, calls>>

Owns(t, l) == state[l] = "initializing" /\ owner[l] = t

\* The initializer returned a value or an error.
EndInitializer(t, outcome) ==
    LET l == Lazy(t) IN
    /\ lazyPc[t] = "running" /\ Owns(t, l)
    /\ state' = [state EXCEPT ![l] = outcome]
    /\ owner' = [owner EXCEPT ![l] = NoThread]
    /\ FinishInitialization(t, l)
    /\ Return(t, NotifyAll(l))
    /\ UNCHANGED <<waitingThreads, waitingOn, setting, replaced, calls>>

\* The initializer returned, but `set` was quicker: round again.
EndReplaced(t) ==
    LET l == Lazy(t) IN
    /\ lazyPc[t] = "running" /\ ~Owns(t, l)
    /\ FinishInitialization(t, l)
    /\ Continue(t, "locking", {})
    /\ UNCHANGED <<state, owner, waitingThreads, stack, waiting, waitingOn, setting,
                   replaced, calls>>

\* The initializer panicked: InitializationGuard::drop undoes what is still
\* this thread's, and the panic goes on to the caller, which may catch it.
Panic(t) ==
    LET l == Lazy(t) IN
    /\ Panics
    /\ lazyPc[t] = "running"
    /\ IF Owns(t, l)
       THEN /\ state' = [state EXCEPT ![l] = "uninitialized"]
            /\ owner' = [owner EXCEPT ![l] = NoThread]
            /\ FinishInitialization(t, l)
            /\ Return(t, NotifyAll(l))
       ELSE Return(t, {}) /\ UNCHANGED <<state, owner, active, graphOwner>>
    /\ UNCHANGED <<waitingThreads, waitingOn, setting, replaced, calls>>

\* A condition variable may wake a thread for no reason.
WakeSpuriously(t) ==
    /\ lazyPc[t] = "asleep"
    /\ Continue(t, "locking", {})
    /\ UNCHANGED <<state, owner, waitingThreads, stack, waiting, active, graphOwner,
                   waitingOn, setting, replaced, calls>>

-----------------------------------------------------------------------------
\* set: the value, then the graph, then the wake-up, each on its own.

SetValue(l) ==
    /\ setting = NoLazy
    /\ setting' = l
    /\ replaced' = IF state[l] = "initializing" THEN owner[l] ELSE NoThread
    /\ state' = [state EXCEPT ![l] = "initialized"]
    /\ owner' = [owner EXCEPT ![l] = NoThread]
    /\ UNCHANGED <<waitingThreads, stack, lazyPc, waiting, active, graphOwner, waitingOn,
                   calls>>

SetForgetsOwner ==
    /\ setting # NoLazy /\ replaced # NoThread
    /\ graphOwner' = WithoutOwner(replaced, setting)
    /\ replaced' = NoThread
    /\ UNCHANGED <<state, owner, waitingThreads, stack, lazyPc, waiting, active, waitingOn,
                   setting, calls>>

SetWakes ==
    /\ setting # NoLazy /\ replaced = NoThread
    /\ setting' = NoLazy
    /\ lazyPc' = [x \in Threads |-> IF x \in NotifyAll(setting) THEN "locking" ELSE lazyPc[x]]
    /\ UNCHANGED <<state, owner, waitingThreads, stack, waiting, active, graphOwner,
                   waitingOn, replaced, calls>>

-----------------------------------------------------------------------------
Enter(t) == FindValue(t) \/ RefuseToWait(t) \/ TakeFailure(t) \/ StartInitializer(t)

Settle(t) == \/ \E outcome \in {"initialized", "failed"} : EndInitializer(t, outcome)
             \/ EndReplaced(t) \/ Panic(t)

LazyNext ==
    \/ \E t \in Threads :
          \/ \E l \in Lazies : Call(t, l)
          \/ Enter(t) \/ WaitForAttempt(t) \/ FindFailure(t) \/ Settle(t) \/ WakeSpuriously(t)
    \/ \E l \in Lazies : SetValue(l)
    \/ SetForgetsOwner \/ SetWakes

LazySpec == LazyInit /\ [][LazyNext]_lazyVars

\* While a thread can get on with its call, one of them does (going back to sleep
\* is no progress), and a call of `set` ends; nobody has to call anything.
ThreadGoesOn ==
    \E t \in Threads :
        \/ Enter(t) \/ Settle(t)
        \/ WaitForAttempt(t) /\ waiting' # waiting
        \/ FindFailure(t) /\ state' # state
SetGoesOn == SetForgetsOwner \/ SetWakes

FairLazySpec == LazySpec /\ WF_lazyVars(ThreadGoesOn) /\ WF_lazyVars(SetGoesOn)

-----------------------------------------------------------------------------
LazyTypeOK ==
    /\ state \in [Lazies -> {"uninitialized", "initializing", "failed", "initialized"}]
    /\ owner \in [Lazies -> Threads \cup {NoThread}]
    /\ waitingThreads \in [Lazies -> Nat]
    /\ stack \in [Threads -> Seq(Lazies)]
    /\ lazyPc \in [Threads -> {"idle", "locking", "asleep", "running"}]
    /\ \A t \in Threads : lazyPc[t] = "idle" <=> stack[t] = <<>>
    /\ waiting \in [Threads -> BOOLEAN]
    /\ active \in [Threads -> SUBSET Lazies]
    /\ graphOwner \in [Lazies -> Threads \cup {NoThread}]
    /\ waitingOn \in [Threads -> Lazies \cup {NoLazy}]
    /\ setting \in Lazies \cup {NoLazy}
    /\ replaced \in Threads \cup {NoThread}
    /\ calls \in 0..MaxCalls

\* t is inside the initializer of l.
Initializes(t, l) ==
    \E i \in DOMAIN stack[t] :
        stack[t][i] = l /\ (i < Len(stack[t]) \/ lazyPc[t] = "running")

\* Threads asleep in a circle: each one's value is being initialized by another
\* of them.
Deadlocked(S) ==
    S # {} /\ \A t \in S :
        lazyPc[t] = "asleep" /\ state[Lazy(t)] = "initializing" /\ owner[Lazy(t)] \in S

\* Initializers that need each other's values never end up asleep in a circle,
\* whatever retries, panics, handovers and stray wake-ups came before.
NoCircularWait == \A S \in SUBSET Threads : ~Deadlocked(S)

\* No value is being initialized twice at the same time, not even one that `set` has
\* replaced meanwhile.
OneInitializer ==
    \A l \in Lazies : \A t, u \in Threads :
        Initializes(t, l) /\ Initializes(u, l) => t = u

\* The graph tells the truth of who initializes what and who waits for whom, as
\* the search for cycles needs it; `set` alone is late to tell.
GraphIsTrue ==
    /\ \A l \in Lazies, t \in Threads :
          /\ Owns(t, l) => graphOwner[l] = t
          /\ graphOwner[l] = t /\ ~Owns(t, l) => setting = l /\ replaced = t
    /\ \A t \in Threads, l \in Lazies :
          waitingOn[t] = l <=> waiting[t] /\ In(t, l)

\* What the search for cycles relies on: one initializer for each value, and a
\* graph that knows it.
InitializersAreKnown == OneInitializer /\ GraphIsTrue

\* Somebody is still to wake every sleeper: no wake-up is lost.
SleepersAreWoken ==
    \A l \in Lazies : Sleepers(l) # {} =>
        \/ state[l] = "initializing"
        \/ state[l] = "failed" /\ \E t \in Threads : In(t, l) /\ waiting[t] /\ lazyPc[t] = "locking"
        \/ setting = l

\* Nobody sleeps for ever, in a circle or for want of a wake-up.
NobodySleepsForEver == NoCircularWait /\ SleepersAreWoken

\* Every value has one initializer at a time, and whoever waits for it is known to
\* it and woken by it.
InitializersServeWaiters == InitializersAreKnown /\ NobodySleepsForEver

\* A failed attempt is forgotten only when all that waited for it have its
\* error: none of them runs an initializer of its own instead.
FailureReachesItsWaiters ==
    [][\A l \in Lazies, t \in Threads :
          state[l] = "failed" /\ state'[l] = "uninitialized" =>
              ~(waiting'[t] /\ stack'[t] # <<>> /\ stack'[t][Len(stack'[t])] = l)]_lazyVars

\* Every call of get_or_init returns.
InGetOrInit(t) == lazyPc[t] # "idle"

CallsReturn == \A t \in Threads : InGetOrInit(t) ~> ~InGetOrInit(t)

-----------------------------------------------------------------------------
(***************************************************************************)
(* The inductive invariant of the lazy values.                             *)
(***************************************************************************)
Waiters(l) == {t \in Threads : waiting[t] /\ In(t, l)}

\* The i-th call a thread is in runs an initializer.
Running(t, i) == i < Len(stack[t]) \/ lazyPc[t] = "running"

\* An initializer that runs is the owner's, unless `set` took the value from it; and
\* each runs once at a time.
InitializersAreMarked ==
    \A t \in Threads : \A i \in DOMAIN stack[t] : Running(t, i) =>
        /\ Owns(t, stack[t][i]) \/ state[stack[t][i]] = "initialized"
        /\ \A u \in Threads : \A j \in DOMAIN stack[u] :
              Running(u, j) /\ stack[t][i] = stack[u][j] => t = u /\ i = j

\* Only a value that is being initialized has an owner, and only one that has been
\* set has somebody to be forgotten.
OwnersInitialize ==
    /\ \A l \in Lazies : owner[l] # NoThread => state[l] = "initializing"
    /\ setting # NoLazy => state[setting] = "initialized"
    /\ setting = NoLazy => replaced = NoThread

\* Who waits is about to wait, or looks again, and waits for another thread.
WaitersWaitForOthers ==
    \A t \in Threads : waiting[t] =>
        /\ lazyPc[t] \in {"locking", "asleep"}
        /\ Lazy(t) \notin active[t] /\ owner[Lazy(t)] # t

\* Who sleeps through an attempt waits for it; after a failure the waiters are awake,
\* and the others sleep only as long as some that were counted are to come.
SleepersAreCounted ==
    /\ \A t \in Threads : lazyPc[t] = "asleep" =>
          state[Lazy(t)] \in {"initializing", "failed"} \/ setting = Lazy(t)
    /\ \A t \in Threads : lazyPc[t] = "asleep" /\ state[Lazy(t)] = "initializing" => waiting[t]
    /\ \A t \in Threads : lazyPc[t] = "asleep" /\ state[Lazy(t)] = "failed" =>
          ~waiting[t] /\ waitingThreads[Lazy(t)] # 0
    /\ \A l \in Lazies : state[l] \in {"initializing", "failed"} =>
          waitingThreads[l] <= Cardinality(Waiters(l))

\* Threads that wait for each other in a circle, asleep or not.
Circle(S) ==
    S # {} /\ \A t \in S :
        waiting[t] /\ state[Lazy(t)] = "initializing" /\ owner[Lazy(t)] \in S

NoCircle == \A S \in SUBSET Threads : ~Circle(S)

LazyInv ==
    /\ LazyTypeOK /\ InitializersAreMarked /\ OwnersInitialize /\ GraphIsTrue
    /\ WaitersWaitForOthers /\ SleepersAreCounted /\ NoCircle
=============================================================================
