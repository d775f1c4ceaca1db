---------------------------- MODULE ValuesProofs -----------------------------
(*****************************************************************************)
(* Values that are made once and kept: those of text-assets-kit and the      *)
(* secrets of secret-kit.                                                    *)
(*   LazyValue: one initializer for each value, and threads that never sleep *)
(*   for ever, for any number of threads and values, any nesting and whoever *)
(*   panics: LazyInv is inductive.  That the search for a cycle finds one    *)
(*   needs induction over the steps of its walk.                             *)
(*   SecretCommand: a value is whole and the tree of the tool in hand, for   *)
(*   any helpers and retries: SecretCommandInv is inductive.                 *)
(*   SecretCache: the leaders of the keys and the answers, for any calls,    *)
(*   keys, sizes and times to live: SecretCacheInv is inductive, and so is   *)
(*   LruServes with it.                                                      *)
(*****************************************************************************)
EXTENDS LazyValue, SecretCommand, SecretCache, FiniteSetTheorems,
        SequenceTheorems, WellFoundedInduction, TLAPS

\* Induction over the natural numbers, for a set: the least number outside has a
\* predecessor inside.
LEMMA SetInduction ==
    ASSUME NEW S, 0 \in S, \A n \in Nat : n \in S => n + 1 \in S
    PROVE  Nat \subseteq S
<1> DEFINE T == {n \in Nat : n \notin S}
           R == {ss \in Nat \X Nat : ss[1] < ss[2]}
<1> SUFFICES ASSUME T # {} PROVE FALSE
  OBVIOUS
<1>1. PICK x \in T : \A y \in T : ~ (<<y, x>> \in R)
  <2>1. T \subseteq Nat
    OBVIOUS
  <2>2. IsWellFoundedOn(R, Nat)
    BY NatLessThanWellFounded DEF OpToRel
  <2> HIDE DEF T, R
  <2>3. QED
    BY <2>1, <2>2, WFMin
<1>2. x \in Nat /\ x # 0 /\ x - 1 \in Nat
  OBVIOUS
<1>3. x - 1 \in S
  <2>1. <<x - 1, x>> \in R
    BY <1>2
  <2>2. QED
    BY <1>1, <1>2, <2>1
<1>4. QED
  BY <1>2, <1>3

\* The types of what a step starts from.
LEMMA LazyTypes ==
    ASSUME LazyTypeOK
    PROVE  /\ state \in [Lazies -> {"uninitialized", "initializing", "failed", "initialized"}]
           /\ owner \in [Lazies -> Threads \cup {NoThread}]
           /\ waitingThreads \in [Lazies -> Nat]
           /\ stack \in [Threads -> Seq(Lazies)]
           /\ lazyPc \in [Threads -> {"idle", "locking", "asleep", "running"}]
           /\ \A t \in Threads : stack[t] \in Seq(Lazies) /\ Len(stack[t]) \in Nat
           /\ \A t \in Threads : lazyPc[t] = "idle" <=> stack[t] = <<>>
           /\ waiting \in [Threads -> BOOLEAN] /\ active \in [Threads -> SUBSET Lazies]
           /\ graphOwner \in [Lazies -> Threads \cup {NoThread}]
           /\ waitingOn \in [Threads -> Lazies \cup {NoLazy}]
           /\ setting \in Lazies \cup {NoLazy} /\ replaced \in Threads \cup {NoThread}
           /\ calls \in 0..MaxCalls
BY DEF LazyTypeOK

\* A thread that is in a call has an innermost one.
LEMMA LazyFacts ==
    ASSUME LazyInv, NEW t \in Threads, lazyPc[t] # "idle"
    PROVE  /\ stack[t] # <<>> /\ Len(stack[t]) \in Nat \ {0} /\ Len(stack[t]) \in DOMAIN stack[t]
           /\ Lazy(t) \in Lazies /\ In(t, Lazy(t)) /\ \A l \in Lazies : In(t, l) <=> l = Lazy(t)
<1>1. stack[t] \in Seq(Lazies) /\ stack[t] # <<>>
  BY LazyTypes DEF LazyInv
<1>2. Len(stack[t]) \in Nat \ {0} /\ DOMAIN stack[t] = 1..Len(stack[t])
  BY <1>1
<1>3. QED
  BY <1>1, <1>2 DEF Lazy, In

\* Who waits is in a call, is asleep or about to look again, and is known to the graph.
LEMMA WaiterFacts ==
    ASSUME LazyInv, NEW t \in Threads
    PROVE  /\ waiting[t] => /\ lazyPc[t] \in {"locking", "asleep"} /\ waitingOn[t] = Lazy(t)
                            /\ Lazy(t) \in Lazies /\ Lazy(t) \notin active[t] /\ owner[Lazy(t)] # t
           /\ ~waiting[t] => waitingOn[t] = NoLazy
           /\ waiting[t] \in BOOLEAN
<1>1. LazyTypeOK /\ waiting[t] \in BOOLEAN /\ waitingOn[t] \in Lazies \cup {NoLazy}
  BY LazyTypes DEF LazyInv
<1>2. waiting[t] => lazyPc[t] \in {"locking", "asleep"} /\ Lazy(t) \notin active[t] /\ owner[Lazy(t)] # t
  BY DEF LazyInv, WaitersWaitForOthers
<1>3. \A l \in Lazies : waitingOn[t] = l <=> waiting[t] /\ In(t, l)
  BY DEF LazyInv, GraphIsTrue
<1>4. QED
  BY <1>1, <1>2, <1>3, LazyFacts

\* No thread has called yet.
LEMMA LazyInitInv == LazyInit => LazyInv
<1> SUFFICES ASSUME LazyInit PROVE LazyInv
  OBVIOUS
<1> USE LazyAssumption DEF LazyInit
<1>1. LazyTypeOK
  BY DEF LazyTypeOK
<1>2. InitializersAreMarked
  BY DEF InitializersAreMarked
<1>3. OwnersInitialize /\ GraphIsTrue /\ WaitersWaitForOthers
  BY DEF OwnersInitialize, GraphIsTrue, WaitersWaitForOthers, Owns, In
<1>4. SleepersAreCounted
  BY DEF SleepersAreCounted
<1>5. NoCircle
  BY DEF NoCircle, Circle
<1>6. QED
  BY <1>1, <1>2, <1>3, <1>4, <1>5 DEF LazyInv

\* No circle closes as long as nobody begins to wait, and an attempt that begins is of
\* a thread that waits for nobody.
LEMMA NoCircleKept ==
    ASSUME LazyInv,
           \A x \in Threads : waiting'[x] => waiting[x] /\ stack'[x] = stack[x],
           \A l \in Lazies : state'[l] = "initializing" =>
              \/ state[l] = "initializing" /\ owner'[l] = owner[l]
              \/ ~waiting'[owner'[l]]
    PROVE  NoCircle'
<1> SUFFICES ASSUME NEW S \in SUBSET Threads, S # {},
                    \A x \in S : waiting'[x] /\ state'[Lazy(x)'] = "initializing" /\ owner'[Lazy(x)'] \in S
             PROVE  FALSE
  BY DEF NoCircle, Circle
<1>1. ASSUME NEW x \in S
      PROVE  waiting[x] /\ state[Lazy(x)] = "initializing" /\ owner[Lazy(x)] \in S
  <2>1. waiting[x] /\ Lazy(x)' = Lazy(x)
    BY DEF Lazy
  <2>2. Lazy(x) \in Lazies
    BY <2>1, WaiterFacts
  <2>3. state'[Lazy(x)] = "initializing" /\ owner'[Lazy(x)] \in S
    BY <2>1
  <2>4. waiting'[owner'[Lazy(x)]]
    BY <2>3
  <2>5. QED
    BY <2>1, <2>2, <2>3, <2>4
<1>2. QED
  BY <1>1 DEF LazyInv, NoCircle, Circle

\* Whoever waits for a value is the same, if nobody begins to or ends.
LEMMA WaitersKept ==
    ASSUME LazyInv, NEW l \in Lazies,
           \A x \in Threads : (waiting'[x] <=> waiting[x]) /\ (waiting[x] => stack'[x] = stack[x])
    PROVE  Waiters(l)' = Waiters(l)
BY DEF Waiters, In, Lazy

-----------------------------------------------------------------------------
\* What a step of t leaves to the other threads: at the most it wakes them.
OthersGoOn(t) ==
    \A x \in Threads : x # t =>
        /\ stack'[x] = stack[x] /\ waiting'[x] = waiting[x] /\ active'[x] = active[x]
        /\ waitingOn'[x] = waitingOn[x]
        /\ lazyPc'[x] = lazyPc[x] \/ (lazyPc[x] = "asleep" /\ lazyPc'[x] = "locking")

\* The i-th call that t is then in runs an initializer.
RunsNext(t, i) == i < Len(stack'[t]) \/ lazyPc'[t] = "running"

\* What another thread runs, it still runs.
LEMMA OthersRun ==
    ASSUME NEW t \in Threads, OthersGoOn(t), NEW x \in Threads, x # t, NEW i \in DOMAIN stack'[x]
    PROVE  i \in DOMAIN stack[x] /\ stack'[x][i] = stack[x][i] /\ (RunsNext(x, i) <=> Running(x, i))
BY DEF OthersGoOn, Running, RunsNext

\* Who runs an initializer did, and its value is still the owner's, or set.
LEMMA MarkedKept ==
    ASSUME LazyInv,
           \A x \in Threads : \A i \in DOMAIN stack'[x] : RunsNext(x, i) =>
              /\ i \in DOMAIN stack[x] /\ Running(x, i) /\ stack'[x][i] = stack[x][i]
              /\ \/ state'[stack[x][i]] = "initialized"
                 \/ state'[stack[x][i]] = state[stack[x][i]] /\ owner'[stack[x][i]] = owner[stack[x][i]]
    PROVE  InitializersAreMarked'
<1> SUFFICES ASSUME NEW x \in Threads, NEW i \in DOMAIN stack'[x], RunsNext(x, i)
             PROVE  /\ (state'[stack'[x][i]] = "initializing" /\ owner'[stack'[x][i]] = x) \/ state'[stack'[x][i]] = "initialized"
                    /\ \A u \in Threads : \A j \in DOMAIN stack'[u] :
                          RunsNext(u, j) /\ stack'[x][i] = stack'[u][j] => x = u /\ i = j
  BY DEF InitializersAreMarked, Running, RunsNext, Owns
<1>1. /\ i \in DOMAIN stack[x] /\ Running(x, i) /\ stack'[x][i] = stack[x][i]
      /\ \/ state'[stack[x][i]] = "initialized"
         \/ state'[stack[x][i]] = state[stack[x][i]] /\ owner'[stack[x][i]] = owner[stack[x][i]]
  OBVIOUS
<1>2. /\ Owns(x, stack[x][i]) \/ state[stack[x][i]] = "initialized"
      /\ \A u \in Threads : \A j \in DOMAIN stack[u] :
            Running(u, j) /\ stack[x][i] = stack[u][j] => x = u /\ i = j
  BY <1>1 DEF LazyInv, InitializersAreMarked
<1>3. (state'[stack'[x][i]] = "initializing" /\ owner'[stack'[x][i]] = x) \/ state'[stack'[x][i]] = "initialized"
  BY <1>1, <1>2 DEF Owns
<1>4. \A u \in Threads : \A j \in DOMAIN stack'[u] :
         RunsNext(u, j) /\ stack'[x][i] = stack'[u][j] => x = u /\ i = j
  BY <1>1, <1>2
<1>5. QED
  BY <1>3, <1>4

\* The graph knows those that wait, if it knows whom this step concerns.
LEMMA WaitersKnown ==
    ASSUME LazyInv, NEW t \in Threads, OthersGoOn(t),
           \A l \in Lazies : owner'[l] \in {owner[l], t, NoThread},
           waiting'[t] => /\ lazyPc'[t] \in {"locking", "asleep"}
                          /\ Lazy(t)' \notin active'[t] /\ owner'[Lazy(t)'] # t,
           \A l \in Lazies : waitingOn'[t] = l <=> waiting'[t] /\ In(t, l)',
           \A l \in Lazies, x \in Threads :
              /\ Owns(x, l)' => graphOwner'[l] = x
              /\ graphOwner'[l] = x /\ ~Owns(x, l)' => setting' = l /\ replaced' = x
    PROVE  GraphIsTrue' /\ WaitersWaitForOthers'
<1>1. ASSUME NEW x \in Threads, x # t
      PROVE  /\ Lazy(x)' = Lazy(x)
             /\ \A l \in Lazies : In(x, l)' <=> In(x, l)
             /\ waiting'[x] = waiting[x] /\ waitingOn'[x] = waitingOn[x] /\ active'[x] = active[x]
             /\ lazyPc[x] \in {"locking", "asleep"} => lazyPc'[x] \in {"locking", "asleep"}
  BY <1>1 DEF OthersGoOn, Lazy, In
<1>2. GraphIsTrue'
  <2>1. ASSUME NEW x \in Threads, NEW l \in Lazies
        PROVE  waitingOn'[x] = l <=> waiting'[x] /\ In(x, l)'
    <3>1. CASE x = t
      BY <3>1
    <3>2. CASE x # t
      BY <1>1, <3>2 DEF LazyInv, GraphIsTrue
    <3>3. QED
      BY <3>1, <3>2
  <2>2. QED
    BY <2>1 DEF GraphIsTrue
<1>3. WaitersWaitForOthers'
  <2>1. ASSUME NEW x \in Threads, waiting'[x]
        PROVE  lazyPc'[x] \in {"locking", "asleep"} /\ Lazy(x)' \notin active'[x] /\ owner'[Lazy(x)'] # x
    <3>1. CASE x = t
      BY <2>1, <3>1
    <3>2. CASE x # t
      <4>1. /\ lazyPc[x] \in {"locking", "asleep"} /\ Lazy(x) \in Lazies /\ Lazy(x) \notin active[x]
            /\ owner[Lazy(x)] # x
        BY <1>1, <2>1, <3>2, WaiterFacts
      <4>2. owner'[Lazy(x)] \in {owner[Lazy(x)], t, NoThread} /\ x # NoThread
        BY <4>1, LazyAssumption
      <4>3. QED
        BY <1>1, <3>2, <4>1, <4>2
    <3>3. QED
      BY <3>1, <3>2
  <2>2. QED
    BY <2>1 DEF WaitersWaitForOthers
<1>4. QED
  BY <1>2, <1>3

\* Those that sleep on may do so, if this thread may.
LEMMA CountedKept ==
    ASSUME LazyInv, NEW t \in Threads, OthersGoOn(t), setting' = setting,
           \A x \in Threads : x # t /\ lazyPc'[x] = "asleep" =>
              /\ state'[Lazy(x)] = state[Lazy(x)]
              /\ waitingThreads'[Lazy(x)] # 0 \/ waitingThreads'[Lazy(x)] = waitingThreads[Lazy(x)],
           lazyPc'[t] = "asleep" =>
              /\ state'[Lazy(t)'] \in {"initializing", "failed"}
              /\ state'[Lazy(t)'] = "initializing" => waiting'[t]
              /\ state'[Lazy(t)'] = "failed" => ~waiting'[t] /\ waitingThreads'[Lazy(t)'] # 0,
           \A l \in Lazies : state'[l] \in {"initializing", "failed"} =>
              waitingThreads'[l] <= Cardinality(Waiters(l)')
    PROVE  SleepersAreCounted'
<1>1. ASSUME NEW x \in Threads, lazyPc'[x] = "asleep"
      PROVE  /\ state'[Lazy(x)'] \in {"initializing", "failed"} \/ setting' = Lazy(x)'
             /\ state'[Lazy(x)'] = "initializing" => waiting'[x]
             /\ state'[Lazy(x)'] = "failed" => ~waiting'[x] /\ waitingThreads'[Lazy(x)'] # 0
  <2>1. CASE x = t
    BY <1>1, <2>1
  <2>2. CASE x # t
    <3>1. lazyPc[x] = "asleep" /\ Lazy(x)' = Lazy(x) /\ waiting'[x] = waiting[x]
      BY <1>1, <2>2 DEF OthersGoOn, Lazy
    <3>2. /\ state[Lazy(x)] \in {"initializing", "failed"} \/ setting = Lazy(x)
          /\ state[Lazy(x)] = "initializing" => waiting[x]
          /\ state[Lazy(x)] = "failed" => ~waiting[x] /\ waitingThreads[Lazy(x)] # 0
      BY <3>1 DEF LazyInv, SleepersAreCounted
    <3>3. QED
      BY <1>1, <2>2, <3>1, <3>2
  <2>3. QED
    BY <2>1, <2>2
<1>2. QED
  BY <1>1 DEF SleepersAreCounted

LEMMA EmptyOrNot == ASSUME NEW S, NEW s \in Seq(S) PROVE s = <<>> <=> Len(s) = 0
OBVIOUS

\* The innermost call of t goes on, and some that sleep are woken.
LEMMA ContinueFacts ==
    ASSUME LazyTypeOK, NEW t \in Threads, NEW label \in {"idle", "locking", "asleep", "running"},
           NEW awake \in SUBSET {x \in Threads : lazyPc[x] = "asleep"}, Continue(t, label, awake)
    PROVE  /\ lazyPc' \in [Threads -> {"idle", "locking", "asleep", "running"}]
           /\ lazyPc'[t] = label
           /\ \A x \in Threads : x # t =>
                lazyPc'[x] = lazyPc[x] \/ (lazyPc[x] = "asleep" /\ lazyPc'[x] = "locking")
           /\ \A x \in Threads : x # t /\ x \in awake => lazyPc'[x] = "locking"
BY LazyTypes DEF Continue

\* The innermost call of t returns.
LEMMA ReturnFacts ==
    ASSUME LazyInv, NEW t \in Threads, lazyPc[t] # "idle",
           NEW awake \in SUBSET {x \in Threads : lazyPc[x] = "asleep"}, Return(t, awake)
    PROVE  /\ stack' \in [Threads -> Seq(Lazies)] /\ waiting' \in [Threads -> BOOLEAN]
           /\ lazyPc' \in [Threads -> {"idle", "locking", "asleep", "running"}]
           /\ \A x \in Threads : lazyPc'[x] = "idle" <=> stack'[x] = <<>>
           /\ ~waiting'[t] /\ lazyPc'[t] \in {"idle", "running"}
           /\ \A x \in Threads : x # t => stack'[x] = stack[x] /\ waiting'[x] = waiting[x]
           /\ \A x \in Threads : x # t =>
                lazyPc'[x] = lazyPc[x] \/ (lazyPc[x] = "asleep" /\ lazyPc'[x] = "locking")
           /\ \A x \in Threads : x # t /\ x \in awake => lazyPc'[x] = "locking"
           /\ \A i \in DOMAIN stack'[t] :
                i \in DOMAIN stack[t] /\ i < Len(stack[t]) /\ stack'[t][i] = stack[t][i]
<1>1. LazyTypeOK /\ stack[t] \in Seq(Lazies) /\ Len(stack[t]) \in Nat \ {0}
  BY LazyTypes, LazyFacts DEF LazyInv
<1> DEFINE rest == SubSeq(stack[t], 1, Len(stack[t]) - 1)
<1>2. /\ stack' = [stack EXCEPT ![t] = rest] /\ waiting' = [waiting EXCEPT ![t] = FALSE]
      /\ Continue(t, IF Len(stack[t]) = 1 THEN "idle" ELSE "running", awake)
  BY DEF Return
<1>3. /\ rest \in Seq(Lazies) /\ Len(rest) = Len(stack[t]) - 1 /\ DOMAIN rest = 1..(Len(stack[t]) - 1)
      /\ \A i \in 1..(Len(stack[t]) - 1) : rest[i] = stack[t][i]
  BY <1>1
<1> HIDE DEF rest
<1>4. rest = <<>> <=> Len(stack[t]) = 1
  <2>1. rest = <<>> <=> Len(rest) = 0
    BY <1>3, EmptyOrNot
  <2>2. QED
    BY <1>1, <1>3, <2>1
<1>5. /\ stack' \in [Threads -> Seq(Lazies)] /\ stack'[t] = rest
      /\ \A x \in Threads : x # t => stack'[x] = stack[x]
  BY <1>1, <1>2, <1>3, LazyTypes
<1>6. /\ waiting' \in [Threads -> BOOLEAN] /\ ~waiting'[t]
      /\ \A x \in Threads : x # t => waiting'[x] = waiting[x]
  BY <1>1, <1>2, LazyTypes
<1>7. /\ lazyPc' \in [Threads -> {"idle", "locking", "asleep", "running"}]
      /\ lazyPc'[t] = IF Len(stack[t]) = 1 THEN "idle" ELSE "running"
      /\ \A x \in Threads : x # t =>
            lazyPc'[x] = lazyPc[x] \/ (lazyPc[x] = "asleep" /\ lazyPc'[x] = "locking")
      /\ \A x \in Threads : x # t /\ x \in awake => lazyPc'[x] = "locking"
  BY <1>1, <1>2, ContinueFacts
<1>8. \A x \in Threads : lazyPc'[x] = "idle" <=> stack'[x] = <<>>
  BY <1>1, <1>4, <1>5, <1>7, LazyTypes
<1>9. \A i \in DOMAIN stack'[t] : i \in DOMAIN stack[t] /\ i < Len(stack[t]) /\ stack'[t][i] = stack[t][i]
  BY <1>1, <1>3, <1>5
<1>10. QED
  BY <1>5, <1>6, <1>7, <1>8, <1>9

\* A step of t that begins no attempt and settles none, and after which t waits for
\* nothing new; a wait is given up only for a value that is there.
LEMMA SameAttempts ==
    ASSUME LazyInv, LazyTypeOK', NEW t \in Threads, OthersGoOn(t),
           UNCHANGED <<state, owner, waitingThreads, setting, replaced>>,
           \A l \in Lazies : \/ graphOwner'[l] = graphOwner[l]
                             \/ graphOwner[l] = t /\ graphOwner'[l] = NoThread /\ ~Owns(t, l),
           \A i \in DOMAIN stack'[t] : RunsNext(t, i) =>
              i \in DOMAIN stack[t] /\ Running(t, i) /\ stack'[t][i] = stack[t][i],
           waiting'[t] => /\ waiting[t] /\ stack'[t] = stack[t] /\ active'[t] = active[t]
                          /\ waitingOn'[t] = waitingOn[t] /\ lazyPc'[t] \in {"locking", "asleep"},
           ~waiting'[t] => waitingOn'[t] = NoLazy,
           waiting[t] /\ ~waiting'[t] => state[Lazy(t)] = "initialized",
           lazyPc'[t] = "asleep" =>
              /\ state[Lazy(t)'] \in {"initializing", "failed"}
              /\ state[Lazy(t)'] = "initializing" => waiting'[t]
              /\ state[Lazy(t)'] = "failed" => ~waiting'[t] /\ waitingThreads[Lazy(t)'] # 0
    PROVE  LazyInv'
<1> USE LazyAssumption
<1>1. InitializersAreMarked'
  <2>1. \A x \in Threads : \A i \in DOMAIN stack'[x] : RunsNext(x, i) =>
           i \in DOMAIN stack[x] /\ Running(x, i) /\ stack'[x][i] = stack[x][i]
    BY OthersRun
  <2>2. QED
    BY <2>1, MarkedKept
<1>2. OwnersInitialize'
  BY DEF LazyInv, OwnersInitialize
<1>3. GraphIsTrue' /\ WaitersWaitForOthers'
  <2>1. waiting'[t] => /\ lazyPc'[t] \in {"locking", "asleep"}
                       /\ Lazy(t)' \notin active'[t] /\ owner'[Lazy(t)'] # t
    BY WaiterFacts DEF Lazy
  <2>2. \A l \in Lazies : waitingOn'[t] = l <=> waiting'[t] /\ In(t, l)'
    BY WaiterFacts DEF In, Lazy, LazyInv, GraphIsTrue
  <2>3. ASSUME NEW l \in Lazies, NEW x \in Threads
        PROVE  /\ Owns(x, l)' => graphOwner'[l] = x
               /\ graphOwner'[l] = x /\ ~Owns(x, l)' => setting' = l /\ replaced' = x
    BY DEF LazyInv, GraphIsTrue, Owns
  <2>4. QED
    BY <2>1, <2>2, <2>3, WaitersKnown
<1>4. SleepersAreCounted'
  <2>1. ASSUME NEW l \in Lazies, state[l] \in {"initializing", "failed"}
        PROVE  Waiters(l)' = Waiters(l)
    <3>1. ASSUME NEW x \in Threads
          PROVE  waiting'[x] /\ In(x, l)' <=> waiting[x] /\ In(x, l)
      <4>1. CASE x # t
        BY <4>1 DEF OthersGoOn, In, Lazy
      <4>2. CASE x = t
        BY <2>1, <4>2 DEF In, Lazy
      <4>3. QED
        BY <4>1, <4>2
    <3>2. QED
      BY <3>1 DEF Waiters
  <2>2. \A l \in Lazies : state'[l] \in {"initializing", "failed"} =>
           waitingThreads'[l] <= Cardinality(Waiters(l)')
    BY <2>1 DEF LazyInv, SleepersAreCounted
  <2>3. QED
    BY <2>2, CountedKept
<1>5. NoCircle'
  BY NoCircleKept DEF OthersGoOn
<1>6. QED
  BY <1>1, <1>2, <1>3, <1>4, <1>5 DEF LazyInv

LEMMA CallKeeps == ASSUME LazyInv, NEW t \in Threads, NEW l \in Lazies, Call(t, l) PROVE LazyInv'
<1>1. LazyTypeOK /\ stack[t] \in Seq(Lazies) /\ Len(stack[t]) \in Nat /\ ~waiting[t] /\ waitingOn[t] = NoLazy
  BY LazyTypes, WaiterFacts DEF LazyInv, Call
<1>2. /\ stack' = [stack EXCEPT ![t] = Append(stack[t], l)] /\ lazyPc' = [lazyPc EXCEPT ![t] = "locking"]
      /\ lazyPc[t] \in {"idle", "running"} /\ calls < MaxCalls /\ calls' = calls + 1
      /\ UNCHANGED <<state, owner, waitingThreads, waiting, active, graphOwner, waitingOn, setting, replaced>>
  BY DEF Call
<1> DEFINE more == Append(stack[t], l)
<1>3. /\ more \in Seq(Lazies) /\ more # <<>> /\ Len(more) = Len(stack[t]) + 1
      /\ DOMAIN more = 1..(Len(stack[t]) + 1) /\ DOMAIN stack[t] = 1..Len(stack[t])
      /\ \A i \in 1..Len(stack[t]) : more[i] = stack[t][i]
  BY <1>1
<1> HIDE DEF more
<1>4. /\ stack' \in [Threads -> Seq(Lazies)] /\ stack'[t] = more
      /\ \A x \in Threads : x # t => stack'[x] = stack[x]
  BY <1>1, <1>2, <1>3, LazyTypes DEF more
<1>5. /\ lazyPc' \in [Threads -> {"idle", "locking", "asleep", "running"}] /\ lazyPc'[t] = "locking"
      /\ \A x \in Threads : x # t => lazyPc'[x] = lazyPc[x]
  BY <1>1, <1>2, LazyTypes
<1>6. LazyTypeOK'
  <2>1. calls' \in 0..MaxCalls
    BY <1>1, <1>2, LazyTypes, LazyAssumption
  <2>2. \A x \in Threads : lazyPc'[x] = "idle" <=> stack'[x] = <<>>
    BY <1>1, <1>3, <1>4, <1>5, LazyTypes
  <2>3. QED
    BY <1>1, <1>2, <1>4, <1>5, <2>1, <2>2, LazyTypes DEF LazyTypeOK
<1>7. OthersGoOn(t)
  BY <1>2, <1>4, <1>5 DEF OthersGoOn
<1>8. ASSUME NEW i \in DOMAIN stack'[t], RunsNext(t, i)
      PROVE  i \in DOMAIN stack[t] /\ Running(t, i) /\ stack'[t][i] = stack[t][i]
  <2>1. i \in 1..Len(stack[t])
    BY <1>1, <1>3, <1>4, <1>5, <1>8 DEF RunsNext
  <2>2. stack[t] # <<>>
    BY <1>1, <2>1, EmptyOrNot
  <2>3. lazyPc[t] = "running"
    BY <1>1, <1>2, <2>2, LazyTypes
  <2>4. QED
    BY <1>3, <1>4, <2>1, <2>3 DEF Running
<1>9. QED
  BY <1>1, <1>2, <1>5, <1>6, <1>7, <1>8, SameAttempts

\* What a step by which the innermost call of t returns leaves of the types.
LEMMA ReturnTypes ==
    ASSUME LazyInv, NEW t \in Threads, lazyPc[t] # "idle",
           NEW awake \in SUBSET {x \in Threads : lazyPc[x] = "asleep"}, Return(t, awake),
           state' \in [Lazies -> {"uninitialized", "initializing", "failed", "initialized"}],
           owner' \in [Lazies -> Threads \cup {NoThread}],
           waitingThreads' \in [Lazies -> Nat],
           active' \in [Threads -> SUBSET Lazies],
           graphOwner' \in [Lazies -> Threads \cup {NoThread}],
           waitingOn' \in [Threads -> Lazies \cup {NoLazy}],
           UNCHANGED <<setting, replaced, calls>>
    PROVE  LazyTypeOK'
<1>1. /\ stack' \in [Threads -> Seq(Lazies)] /\ waiting' \in [Threads -> BOOLEAN]
      /\ lazyPc' \in [Threads -> {"idle", "locking", "asleep", "running"}]
      /\ \A x \in Threads : lazyPc'[x] = "idle" <=> stack'[x] = <<>>
  BY ReturnFacts
<1>2. setting \in Lazies \cup {NoLazy} /\ replaced \in Threads \cup {NoThread} /\ calls \in 0..MaxCalls
  BY LazyTypes DEF LazyInv
<1>3. QED
  BY <1>1, <1>2 DEF LazyTypeOK

LEMMA FindValueKeeps == ASSUME LazyInv, NEW t \in Threads, FindValue(t) PROVE LazyInv'
<1>1. /\ lazyPc[t] = "locking" /\ state[Lazy(t)] = "initialized"
      /\ waitingOn' = [waitingOn EXCEPT ![t] = NoLazy] /\ Return(t, {})
      /\ UNCHANGED <<state, owner, waitingThreads, active, graphOwner, setting, replaced, calls>>
  BY DEF FindValue, FinishWait
<1>2. /\ ~waiting'[t] /\ lazyPc'[t] \in {"idle", "running"}
      /\ \A x \in Threads : x # t => stack'[x] = stack[x] /\ waiting'[x] = waiting[x]
      /\ \A x \in Threads : x # t =>
            lazyPc'[x] = lazyPc[x] \/ (lazyPc[x] = "asleep" /\ lazyPc'[x] = "locking")
      /\ \A i \in DOMAIN stack'[t] :
            i \in DOMAIN stack[t] /\ i < Len(stack[t]) /\ stack'[t][i] = stack[t][i]
  BY <1>1, ReturnFacts
<1>3. /\ waitingOn' \in [Threads -> Lazies \cup {NoLazy}] /\ waitingOn'[t] = NoLazy
      /\ \A x \in Threads : x # t => waitingOn'[x] = waitingOn[x]
  BY <1>1, LazyTypes DEF LazyInv
<1>4. LazyTypeOK'
  BY <1>1, <1>3, LazyTypes, ReturnTypes DEF LazyInv
<1>5. OthersGoOn(t)
  BY <1>1, <1>2, <1>3 DEF OthersGoOn
<1>6. QED
  BY <1>1, <1>2, <1>3, <1>4, <1>5, SameAttempts DEF Running

LEMMA RefuseToWaitKeeps == ASSUME LazyInv, NEW t \in Threads, RefuseToWait(t) PROVE LazyInv'
<1>1. /\ lazyPc[t] = "locking" /\ state[Lazy(t)] = "initializing"
      /\ Lazy(t) \in active[t] \/ owner[Lazy(t)] = t \/ ~waiting[t]
      /\ Return(t, {})
      /\ UNCHANGED <<state, owner, waitingThreads, active, graphOwner, waitingOn, setting, replaced, calls>>
  BY DEF RefuseToWait
<1>2. /\ ~waiting'[t] /\ lazyPc'[t] \in {"idle", "running"}
      /\ \A x \in Threads : x # t => stack'[x] = stack[x] /\ waiting'[x] = waiting[x]
      /\ \A x \in Threads : x # t =>
            lazyPc'[x] = lazyPc[x] \/ (lazyPc[x] = "asleep" /\ lazyPc'[x] = "locking")
      /\ \A i \in DOMAIN stack'[t] :
            i \in DOMAIN stack[t] /\ i < Len(stack[t]) /\ stack'[t][i] = stack[t][i]
  BY <1>1, ReturnFacts
<1>3. ~waiting[t] /\ waitingOn[t] = NoLazy
  BY <1>1, WaiterFacts
<1>4. LazyTypeOK'
  BY <1>1, LazyTypes, ReturnTypes DEF LazyInv
<1>5. OthersGoOn(t)
  BY <1>1, <1>2 DEF OthersGoOn
<1>6. QED
  BY <1>1, <1>2, <1>3, <1>4, <1>5, SameAttempts DEF Running

\* A step that only moves t along in its innermost call.
LEMMA MoveTypes ==
    ASSUME LazyInv, NEW t \in Threads, lazyPc[t] # "idle",
           NEW label \in {"locking", "asleep", "running"}, Continue(t, label, {}), UNCHANGED stack
    PROVE  /\ lazyPc' \in [Threads -> {"idle", "locking", "asleep", "running"}]
           /\ lazyPc'[t] = label /\ \A x \in Threads : x # t => lazyPc'[x] = lazyPc[x]
           /\ \A x \in Threads : lazyPc'[x] = "idle" <=> stack'[x] = <<>>
BY LazyTypes DEF LazyInv, Continue

LEMMA SleepsOn ==
    ASSUME LazyInv, NEW t \in Threads, lazyPc[t] \in {"locking", "asleep"},
           NEW label \in {"locking", "asleep"}, Continue(t, label, {}),
           UNCHANGED <<state, owner, waitingThreads, stack, waiting, active, graphOwner, waitingOn,
                       setting, replaced, calls>>,
           label = "asleep" =>
              /\ state[Lazy(t)] \in {"initializing", "failed"}
              /\ state[Lazy(t)] = "initializing" => waiting[t]
              /\ state[Lazy(t)] = "failed" => ~waiting[t] /\ waitingThreads[Lazy(t)] # 0
    PROVE  LazyInv'
<1>1. /\ lazyPc' \in [Threads -> {"idle", "locking", "asleep", "running"}]
      /\ lazyPc'[t] = label /\ \A x \in Threads : x # t => lazyPc'[x] = lazyPc[x]
      /\ \A x \in Threads : lazyPc'[x] = "idle" <=> stack'[x] = <<>>
  BY MoveTypes
<1>2. LazyTypeOK'
  BY <1>1, LazyTypes DEF LazyInv, LazyTypeOK
<1>3. OthersGoOn(t)
  BY <1>1 DEF OthersGoOn
<1>4. \A i \in DOMAIN stack'[t] : RunsNext(t, i) =>
         i \in DOMAIN stack[t] /\ Running(t, i) /\ stack'[t][i] = stack[t][i]
  BY <1>1 DEF RunsNext, Running
<1>5. /\ waiting'[t] => /\ waiting[t] /\ stack'[t] = stack[t] /\ active'[t] = active[t]
                         /\ waitingOn'[t] = waitingOn[t] /\ lazyPc'[t] \in {"locking", "asleep"}
      /\ ~waiting'[t] => waitingOn'[t] = NoLazy
      /\ Lazy(t)' = Lazy(t)
  BY <1>1, WaiterFacts DEF Lazy
<1>6. QED
  BY <1>1, <1>2, <1>3, <1>4, <1>5, SameAttempts

LEMMA WakeKeeps == ASSUME LazyInv, NEW t \in Threads, WakeSpuriously(t) PROVE LazyInv'
BY SleepsOn DEF WakeSpuriously

LEMMA WaitAgainKeeps == ASSUME LazyInv, NEW t \in Threads, WaitForAttempt(t), waiting[t] PROVE LazyInv'
BY SleepsOn DEF WaitForAttempt

LEMMA SleepAtFailureKeeps ==
    ASSUME LazyInv, NEW t \in Threads, FindFailure(t), waitingThreads[Lazy(t)] # 0 PROVE LazyInv'
BY SleepsOn DEF FindFailure

\* What FinishInitialization does to the graph and to the thread.
LEMMA FinishFacts ==
    ASSUME LazyInv, NEW t \in Threads, NEW l \in Lazies, FinishInitialization(t, l)
    PROVE  /\ active' \in [Threads -> SUBSET Lazies] /\ \A x \in Threads : x # t => active'[x] = active[x]
           /\ graphOwner' \in [Lazies -> Threads \cup {NoThread}]
           /\ \A m \in Lazies : m # l => graphOwner'[m] = graphOwner[m]
           /\ graphOwner'[l] # t
           /\ graphOwner'[l] = graphOwner[l] \/ (graphOwner[l] = t /\ graphOwner'[l] = NoThread)
BY LazyTypes, LazyAssumption DEF FinishInitialization, WithoutOwner, LazyInv

LEMMA EndReplacedKeeps == ASSUME LazyInv, NEW t \in Threads, EndReplaced(t) PROVE LazyInv'
<1>1. /\ lazyPc[t] = "running" /\ ~Owns(t, Lazy(t)) /\ FinishInitialization(t, Lazy(t))
      /\ Continue(t, "locking", {})
      /\ UNCHANGED <<state, owner, waitingThreads, stack, waiting, waitingOn, setting, replaced, calls>>
  BY DEF EndReplaced
<1>2. /\ lazyPc' \in [Threads -> {"idle", "locking", "asleep", "running"}]
      /\ lazyPc'[t] = "locking" /\ \A x \in Threads : x # t => lazyPc'[x] = lazyPc[x]
      /\ \A x \in Threads : lazyPc'[x] = "idle" <=> stack'[x] = <<>>
  BY <1>1, MoveTypes
<1>3. Lazy(t) \in Lazies /\ ~waiting[t] /\ waitingOn[t] = NoLazy
  BY <1>1, LazyFacts, WaiterFacts
<1>4. /\ active' \in [Threads -> SUBSET Lazies] /\ \A x \in Threads : x # t => active'[x] = active[x]
      /\ graphOwner' \in [Lazies -> Threads \cup {NoThread}]
      /\ \A m \in Lazies : \/ graphOwner'[m] = graphOwner[m]
                           \/ graphOwner[m] = t /\ graphOwner'[m] = NoThread /\ ~Owns(t, m)
  BY <1>1, <1>3, FinishFacts
<1>5. LazyTypeOK'
  BY <1>1, <1>2, <1>4, LazyTypes DEF LazyInv, LazyTypeOK
<1>6. OthersGoOn(t)
  BY <1>1, <1>2, <1>4 DEF OthersGoOn
<1>7. \A i \in DOMAIN stack'[t] : RunsNext(t, i) =>
         i \in DOMAIN stack[t] /\ Running(t, i) /\ stack'[t][i] = stack[t][i]
  BY <1>1, <1>2 DEF RunsNext, Running
<1>8. QED
  BY <1>1, <1>2, <1>3, <1>4, <1>5, <1>6, <1>7, SameAttempts

\* The initializer panicked, and `set` had taken the value from it.
LEMMA PanicLateKeeps == ASSUME LazyInv, NEW t \in Threads, Panic(t), ~Owns(t, Lazy(t)) PROVE LazyInv'
<1>1. /\ lazyPc[t] = "running" /\ Return(t, {})
      /\ UNCHANGED <<state, owner, waitingThreads, active, graphOwner, waitingOn, setting, replaced, calls>>
  BY DEF Panic
<1>2. /\ ~waiting'[t] /\ lazyPc'[t] \in {"idle", "running"}
      /\ \A x \in Threads : x # t => stack'[x] = stack[x] /\ waiting'[x] = waiting[x]
      /\ \A x \in Threads : x # t =>
            lazyPc'[x] = lazyPc[x] \/ (lazyPc[x] = "asleep" /\ lazyPc'[x] = "locking")
      /\ \A i \in DOMAIN stack'[t] :
            i \in DOMAIN stack[t] /\ i < Len(stack[t]) /\ stack'[t][i] = stack[t][i]
  BY <1>1, ReturnFacts
<1>3. ~waiting[t] /\ waitingOn[t] = NoLazy
  BY <1>1, WaiterFacts
<1>4. LazyTypeOK'
  BY <1>1, LazyTypes, ReturnTypes DEF LazyInv
<1>5. OthersGoOn(t)
  BY <1>1, <1>2 DEF OthersGoOn
<1>6. QED
  BY <1>1, <1>2, <1>3, <1>4, <1>5, SameAttempts DEF Running

\* The waiters of a value are a finite set.
LEMMA WaitersAreFinite ==
    ASSUME NEW S, S \subseteq Threads PROVE IsFiniteSet(S) /\ Cardinality(S) \in Nat
BY LazyAssumption, FS_Subset, FS_CardinalityType

-----------------------------------------------------------------------------
\* The owner's attempt is over, with whatever outcome: its waiters are all awake.
LEMMA AttemptEndsKeeps ==
    ASSUME LazyInv, NEW t \in Threads, lazyPc[t] = "running", Owns(t, Lazy(t)),
           NEW outcome \in {"uninitialized", "failed", "initialized"},
           state' = [state EXCEPT ![Lazy(t)] = outcome],
           owner' = [owner EXCEPT ![Lazy(t)] = NoThread],
           FinishInitialization(t, Lazy(t)), Return(t, NotifyAll(Lazy(t))),
           UNCHANGED <<waitingThreads, waitingOn, setting, replaced, calls>>
    PROVE  LazyInv'
<1> USE LazyAssumption
<1> DEFINE l == Lazy(t)
<1>1. l \in Lazies /\ ~waiting[t] /\ waitingOn[t] = NoLazy /\ LazyTypeOK
      /\ Len(stack[t]) \in Nat \ {0} /\ Len(stack[t]) \in DOMAIN stack[t]
  BY LazyFacts, WaiterFacts DEF LazyInv
<1> HIDE DEF l
<1>2. /\ state' \in [Lazies -> {"uninitialized", "initializing", "failed", "initialized"}]
      /\ owner' \in [Lazies -> Threads \cup {NoThread}]
      /\ state'[l] = outcome /\ owner'[l] = NoThread
      /\ \A m \in Lazies : m # l => state'[m] = state[m] /\ owner'[m] = owner[m]
  BY <1>1, LazyTypes DEF l
<1>3. NotifyAll(l) \in SUBSET {x \in Threads : lazyPc[x] = "asleep"}
  BY DEF NotifyAll, Sleepers
<1>4. /\ ~waiting'[t] /\ lazyPc'[t] \in {"idle", "running"}
      /\ \A x \in Threads : x # t => stack'[x] = stack[x] /\ waiting'[x] = waiting[x]
      /\ \A x \in Threads : x # t =>
            lazyPc'[x] = lazyPc[x] \/ (lazyPc[x] = "asleep" /\ lazyPc'[x] = "locking")
      /\ \A x \in Threads : x # t /\ x \in NotifyAll(l) => lazyPc'[x] = "locking"
      /\ \A i \in DOMAIN stack'[t] :
            i \in DOMAIN stack[t] /\ i < Len(stack[t]) /\ stack'[t][i] = stack[t][i]
  BY <1>3, ReturnFacts DEF l
<1>5. /\ active' \in [Threads -> SUBSET Lazies] /\ \A x \in Threads : x # t => active'[x] = active[x]
      /\ graphOwner' \in [Lazies -> Threads \cup {NoThread}]
      /\ \A m \in Lazies : m # l => graphOwner'[m] = graphOwner[m]
      /\ graphOwner'[l] # t
      /\ graphOwner'[l] = graphOwner[l] \/ (graphOwner[l] = t /\ graphOwner'[l] = NoThread)
  BY <1>1, FinishFacts DEF l
<1>6. LazyTypeOK'
  BY <1>1, <1>2, <1>3, <1>5, LazyTypes, ReturnTypes DEF l
<1>7. OthersGoOn(t)
  BY <1>4, <1>5 DEF OthersGoOn
<1>8. state[l] = "initializing" /\ owner[l] = t /\ graphOwner[l] = t /\ setting # l
  BY <1>1 DEF Owns, LazyInv, GraphIsTrue, OwnersInitialize, l
<1>9. InitializersAreMarked'
  <2>1. ASSUME NEW x \in Threads, NEW i \in DOMAIN stack'[x], RunsNext(x, i)
        PROVE  /\ i \in DOMAIN stack[x] /\ Running(x, i) /\ stack'[x][i] = stack[x][i]
               /\ x = t => i < Len(stack[t])
    <3>1. CASE x = t
      BY <1>4, <3>1 DEF Running
    <3>2. CASE x # t
      BY <1>7, <2>1, <3>2, OthersRun
    <3>3. QED
      BY <3>1, <3>2
  <2>2. ASSUME NEW x \in Threads, NEW i \in DOMAIN stack[x], Running(x, i), x = t => i < Len(stack[t])
        PROVE  stack[x][i] # l /\ stack[x][i] \in Lazies
    <3>1. stack[t][Len(stack[t])] = l /\ Running(t, Len(stack[t]))
      BY DEF Lazy, l, Running
    <3>2. stack[x] \in Seq(Lazies)
      BY LazyTypes DEF LazyInv
    <3>3. stack[x][i] = stack[t][Len(stack[t])] => x = t /\ i = Len(stack[t])
      BY <1>1, <2>2, <3>1 DEF LazyInv, InitializersAreMarked
    <3>4. QED
      BY <1>1, <2>2, <3>1, <3>2, <3>3
  <2>3. QED
    BY <1>2, <2>1, <2>2, MarkedKept
<1>10. OwnersInitialize'
  <2>1. \A m \in Lazies : owner'[m] # NoThread => state'[m] = "initializing"
    BY <1>2 DEF LazyInv, OwnersInitialize
  <2>2. setting' # NoLazy => state'[setting'] = "initialized"
    BY <1>1, <1>2, <1>8, LazyTypes DEF LazyInv, OwnersInitialize
  <2>3. QED
    BY <2>1, <2>2 DEF LazyInv, OwnersInitialize
<1>11. GraphIsTrue' /\ WaitersWaitForOthers'
  <2>1. ASSUME NEW m \in Lazies, NEW x \in Threads
        PROVE  /\ Owns(x, m)' => graphOwner'[m] = x
               /\ graphOwner'[m] = x /\ ~Owns(x, m)' => setting' = m /\ replaced' = x
    <3>1. CASE m = l
      BY <1>2, <1>5, <1>8, <3>1 DEF Owns
    <3>2. CASE m # l
      BY <1>2, <1>5, <3>2 DEF Owns, LazyInv, GraphIsTrue
    <3>3. QED
      BY <3>1, <3>2
  <2>2. \A m \in Lazies : waitingOn'[t] = m <=> waiting'[t] /\ In(t, m)'
    BY <1>1, <1>4
  <2>3. \A m \in Lazies : owner'[m] \in {owner[m], t, NoThread}
    BY <1>2
  <2>4. QED
    BY <1>4, <1>7, <2>1, <2>2, <2>3, WaitersKnown
<1>12. SleepersAreCounted'
  <2>1. \A m \in Lazies : Waiters(m)' = Waiters(m)
    BY <1>1, <1>4, WaitersKept
  <2>2. \A m \in Lazies : state'[m] \in {"initializing", "failed"} =>
           waitingThreads'[m] <= Cardinality(Waiters(m)')
    BY <1>2, <1>8, <2>1 DEF LazyInv, SleepersAreCounted
  <2>3. ASSUME NEW x \in Threads, x # t, lazyPc'[x] = "asleep"
        PROVE  state'[Lazy(x)] = state[Lazy(x)]
    <3>1. lazyPc[x] = "asleep" /\ x \notin NotifyAll(l)
      BY <1>4, <2>3
    <3>2. Lazy(x) \in Lazies /\ Lazy(x) # l
      BY <1>1, <3>1, LazyFacts DEF NotifyAll, Sleepers
    <3>3. QED
      BY <1>2, <3>2
  <2>4. QED
    BY <1>4, <1>7, <2>2, <2>3, CountedKept
<1>13. NoCircle'
  BY <1>2, <1>4, NoCircleKept
<1>14. QED
  BY <1>6, <1>9, <1>10, <1>11, <1>12, <1>13 DEF LazyInv

LEMMA EndInitializerKeeps ==
    ASSUME LazyInv, NEW t \in Threads, NEW outcome \in {"initialized", "failed"}, EndInitializer(t, outcome)
    PROVE  LazyInv'
BY AttemptEndsKeeps DEF EndInitializer

LEMMA PanicKeeps == ASSUME LazyInv, NEW t \in Threads, Panic(t) PROVE LazyInv'
<1>1. CASE Owns(t, Lazy(t))
  BY <1>1, AttemptEndsKeeps DEF Panic
<1>2. CASE ~Owns(t, Lazy(t))
  BY <1>2, PanicLateKeeps
<1>3. QED
  BY <1>1, <1>2

-----------------------------------------------------------------------------
\* A failure is forgotten or counted down while nobody owns the value.
LEMMA FailureFacts ==
    ASSUME LazyInv, NEW l \in Lazies, state[l] = "failed",
           NEW s \in {"uninitialized", "failed"}, state' = [state EXCEPT ![l] = s],
           UNCHANGED <<owner, graphOwner, setting, replaced>>
    PROVE  /\ state' \in [Lazies -> {"uninitialized", "initializing", "failed", "initialized"}]
           /\ state'[l] = s /\ \A m \in Lazies : m # l => state'[m] = state[m]
           /\ OwnersInitialize'
           /\ \A m \in Lazies, x \in Threads :
                 /\ Owns(x, m)' => graphOwner'[m] = x
                 /\ graphOwner'[m] = x /\ ~Owns(x, m)' => setting' = m /\ replaced' = x
           /\ \A x \in Threads : \A i \in DOMAIN stack[x] : Running(x, i) => state'[stack[x][i]] = state[stack[x][i]]
<1>1. /\ state' \in [Lazies -> {"uninitialized", "initializing", "failed", "initialized"}]
      /\ state'[l] = s /\ \A m \in Lazies : m # l => state'[m] = state[m]
  BY LazyTypes DEF LazyInv
<1>2. OwnersInitialize'
  BY <1>1, LazyTypes DEF LazyInv, OwnersInitialize
<1>3. \A m \in Lazies, x \in Threads : Owns(x, m)' <=> Owns(x, m)
  BY <1>1 DEF Owns
<1>4. \A m \in Lazies, x \in Threads :
                 /\ Owns(x, m)' => graphOwner'[m] = x
                 /\ graphOwner'[m] = x /\ ~Owns(x, m)' => setting' = m /\ replaced' = x
  BY <1>3 DEF LazyInv, GraphIsTrue
<1>5. ASSUME NEW x \in Threads, NEW i \in DOMAIN stack[x], Running(x, i)
      PROVE  state'[stack[x][i]] = state[stack[x][i]]
  <2>1. stack[x][i] \in Lazies
    BY LazyTypes DEF LazyInv
  <2>2. Owns(x, stack[x][i]) \/ state[stack[x][i]] = "initialized"
    BY <1>5 DEF LazyInv, InitializersAreMarked
  <2>3. QED
    BY <1>1, <2>1, <2>2 DEF Owns
<1>6. QED
  BY <1>1, <1>2, <1>4, <1>5

LEMMA TakeFailureKeeps == ASSUME LazyInv, NEW t \in Threads, TakeFailure(t) PROVE LazyInv'
<1> USE LazyAssumption
<1> DEFINE l == Lazy(t)
           left == StillToCome(l)
           awake == IF left = 0 THEN NotifyAll(l) ELSE {}
<1>1. /\ lazyPc[t] = "locking" /\ state[l] = "failed" /\ waiting[t]
      /\ waitingOn' = [waitingOn EXCEPT ![t] = NoLazy]
      /\ waitingThreads' = [waitingThreads EXCEPT ![l] = left]
      /\ state' = [state EXCEPT ![l] = IF left = 0 THEN "uninitialized" ELSE "failed"]
      /\ Return(t, awake)
      /\ UNCHANGED <<owner, active, graphOwner, setting, replaced, calls>>
  BY DEF TakeFailure, FinishWait
<1>2. l \in Lazies /\ LazyTypeOK /\ t \in Waiters(l) /\ In(t, l)
  BY <1>1, LazyFacts DEF LazyInv, Waiters
<1>3. left \in Nat /\ left + 1 <= Cardinality(Waiters(l)) /\ IsFiniteSet(Waiters(l))
  <2>1. waitingThreads[l] \in Nat /\ waitingThreads[l] <= Cardinality(Waiters(l))
    BY <1>1, <1>2, LazyTypes DEF LazyInv, SleepersAreCounted
  <2>2. IsFiniteSet(Waiters(l)) /\ Cardinality(Waiters(l)) \in Nat
    BY WaitersAreFinite DEF Waiters
  <2>3. Cardinality(Waiters(l)) # 0
    BY <1>2, <2>2, FS_EmptySet
  <2>4. QED
    BY <2>1, <2>2, <2>3 DEF StillToCome
<1> HIDE DEF l, left
<1>4. /\ OwnersInitialize'
      /\ state' \in [Lazies -> {"uninitialized", "initializing", "failed", "initialized"}]
      /\ state'[l] = IF left = 0 THEN "uninitialized" ELSE "failed"
      /\ \A m \in Lazies : m # l => state'[m] = state[m]
      /\ \A m \in Lazies, x \in Threads :
            /\ Owns(x, m)' => graphOwner'[m] = x
            /\ graphOwner'[m] = x /\ ~Owns(x, m)' => setting' = m /\ replaced' = x
      /\ \A x \in Threads : \A i \in DOMAIN stack[x] : Running(x, i) => state'[stack[x][i]] = state[stack[x][i]]
  BY <1>1, <1>2, FailureFacts
<1>5. awake \in SUBSET {x \in Threads : lazyPc[x] = "asleep"}
  BY DEF NotifyAll, Sleepers
<1>6. /\ ~waiting'[t] /\ lazyPc'[t] \in {"idle", "running"}
      /\ \A x \in Threads : x # t => stack'[x] = stack[x] /\ waiting'[x] = waiting[x]
      /\ \A x \in Threads : x # t =>
            lazyPc'[x] = lazyPc[x] \/ (lazyPc[x] = "asleep" /\ lazyPc'[x] = "locking")
      /\ \A x \in Threads : x # t /\ x \in awake => lazyPc'[x] = "locking"
      /\ \A i \in DOMAIN stack'[t] :
            i \in DOMAIN stack[t] /\ i < Len(stack[t]) /\ stack'[t][i] = stack[t][i]
  BY <1>1, <1>5, ReturnFacts
<1>7. /\ waitingOn' \in [Threads -> Lazies \cup {NoLazy}] /\ waitingOn'[t] = NoLazy
      /\ \A x \in Threads : x # t => waitingOn'[x] = waitingOn[x]
      /\ waitingThreads' \in [Lazies -> Nat] /\ waitingThreads'[l] = left
      /\ \A m \in Lazies : m # l => waitingThreads'[m] = waitingThreads[m]
  BY <1>1, <1>2, <1>3, LazyTypes
<1>8. LazyTypeOK'
  BY <1>1, <1>2, <1>4, <1>5, <1>7, LazyTypes, ReturnTypes
<1>9. OthersGoOn(t)
  BY <1>1, <1>6, <1>7 DEF OthersGoOn
<1>10. InitializersAreMarked'
  <2>1. ASSUME NEW x \in Threads, NEW i \in DOMAIN stack'[x], RunsNext(x, i)
        PROVE  i \in DOMAIN stack[x] /\ Running(x, i) /\ stack'[x][i] = stack[x][i]
    <3>1. CASE x = t
      BY <1>6, <3>1 DEF Running
    <3>2. CASE x # t
      BY <1>9, <2>1, <3>2, OthersRun
    <3>3. QED
      BY <3>1, <3>2
  <2>2. QED
    BY <1>1, <1>4, <2>1, MarkedKept
<1>11. GraphIsTrue' /\ WaitersWaitForOthers'
  <2>1. \A m \in Lazies : waitingOn'[t] = m <=> waiting'[t] /\ In(t, m)'
    BY <1>6, <1>7
  <2>2. QED
    BY <1>1, <1>4, <1>6, <1>9, <2>1, WaitersKnown
<1>12. SleepersAreCounted'
  <2>1. ASSUME NEW m \in Lazies
        PROVE  Waiters(m)' = Waiters(m) \ {t}
    <3>1. \A x \in Threads : x # t => (waiting'[x] /\ In(x, m)' <=> waiting[x] /\ In(x, m))
      BY <1>6 DEF In, Lazy
    <3>2. QED
      BY <1>6, <3>1 DEF Waiters
  <2>2. \A m \in Lazies : m = l => Cardinality(Waiters(m)') = Cardinality(Waiters(m)) - 1
    BY <1>2, <1>3, <2>1, FS_RemoveElement
  <2>3. \A m \in Lazies : m # l => Waiters(m)' = Waiters(m)
    <3>1. \A m \in Lazies : m # l => ~In(t, m)
      BY <1>2 DEF In
    <3>2. QED
      BY <2>1, <3>1 DEF Waiters
  <2>4. \A m \in Lazies : state'[m] \in {"initializing", "failed"} =>
           waitingThreads'[m] <= Cardinality(Waiters(m)')
    <3>1. Cardinality(Waiters(l)) \in Nat
      BY WaitersAreFinite DEF Waiters
    <3>2. \A m \in Lazies : m = l => waitingThreads'[m] <= Cardinality(Waiters(m)')
      BY <1>3, <1>7, <2>2, <3>1
    <3>3. QED
      BY <1>4, <1>7, <2>3, <3>2 DEF LazyInv, SleepersAreCounted
  <2>5. ASSUME NEW x \in Threads, x # t, lazyPc'[x] = "asleep"
        PROVE  /\ state'[Lazy(x)] = state[Lazy(x)]
               /\ waitingThreads'[Lazy(x)] # 0 \/ waitingThreads'[Lazy(x)] = waitingThreads[Lazy(x)]
    <3>1. lazyPc[x] = "asleep" /\ x \notin awake
      BY <1>6, <2>5
    <3>2. Lazy(x) \in Lazies /\ (left = 0 => Lazy(x) # l)
      BY <1>2, <3>1, LazyFacts DEF NotifyAll, Sleepers
    <3>3. QED
      BY <1>1, <1>4, <1>7, <3>2
  <2>6. QED
    BY <1>1, <1>6, <1>9, <2>4, <2>5, CountedKept
<1>13. NoCircle'
  BY <1>1, <1>4, <1>6, NoCircleKept
<1>14. QED
  BY <1>4, <1>8, <1>10, <1>11, <1>12, <1>13 DEF LazyInv

\* A later caller finds that all the waiters have the error.
LEMMA ForgetFailureKeeps ==
    ASSUME LazyInv, NEW t \in Threads, FindFailure(t), waitingThreads[Lazy(t)] = 0 PROVE LazyInv'
<1> USE LazyAssumption
<1> DEFINE l == Lazy(t)
<1>1. /\ lazyPc[t] = "locking" /\ state[l] = "failed" /\ ~waiting[t] /\ waitingThreads[l] = 0
      /\ state' = [state EXCEPT ![l] = "uninitialized"]
      /\ UNCHANGED <<lazyPc, owner, waitingThreads, stack, waiting, active, graphOwner,
                     waitingOn, setting, replaced, calls>>
  BY DEF FindFailure
<1>2. l \in Lazies /\ LazyTypeOK /\ waitingOn[t] = NoLazy
  BY <1>1, LazyFacts, WaiterFacts DEF LazyInv
<1> HIDE DEF l
<1>3. /\ OwnersInitialize'
      /\ state' \in [Lazies -> {"uninitialized", "initializing", "failed", "initialized"}]
      /\ state'[l] = "uninitialized"
      /\ \A m \in Lazies : m # l => state'[m] = state[m]
      /\ \A m \in Lazies, x \in Threads :
            /\ Owns(x, m)' => graphOwner'[m] = x
            /\ graphOwner'[m] = x /\ ~Owns(x, m)' => setting' = m /\ replaced' = x
      /\ \A x \in Threads : \A i \in DOMAIN stack[x] : Running(x, i) => state'[stack[x][i]] = state[stack[x][i]]
  BY <1>1, <1>2, FailureFacts
<1>4. LazyTypeOK'
  BY <1>1, <1>2, <1>3, LazyTypes DEF LazyTypeOK
<1>5. OthersGoOn(t)
  BY <1>1 DEF OthersGoOn
<1>6. InitializersAreMarked'
  <2>1. \A x \in Threads : \A i \in DOMAIN stack'[x] : RunsNext(x, i) => Running(x, i)
    BY <1>1 DEF RunsNext, Running
  <2>2. QED
    BY <1>1, <1>3, <2>1, MarkedKept
<1>7. GraphIsTrue' /\ WaitersWaitForOthers'
  <2>1. \A m \in Lazies : waitingOn'[t] = m <=> waiting'[t] /\ In(t, m)'
    BY <1>1, <1>2
  <2>2. QED
    BY <1>1, <1>3, <1>5, <2>1, WaitersKnown
<1>8. SleepersAreCounted'
  <2>1. \A m \in Lazies : Waiters(m)' = Waiters(m)
    BY <1>1, WaitersKept
  <2>2. \A m \in Lazies : state'[m] \in {"initializing", "failed"} =>
           waitingThreads'[m] <= Cardinality(Waiters(m)')
    BY <1>1, <1>3, <2>1 DEF LazyInv, SleepersAreCounted
  <2>3. ASSUME NEW x \in Threads, lazyPc'[x] = "asleep" PROVE state'[Lazy(x)] = state[Lazy(x)]
    <3>1. Lazy(x) \in Lazies /\ lazyPc[x] = "asleep"
      BY <1>1, <2>3, LazyFacts
    <3>2. Lazy(x) # l
      BY <1>1, <3>1 DEF LazyInv, SleepersAreCounted
    <3>3. QED
      BY <1>3, <3>1, <3>2
  <2>4. QED
    BY <1>1, <1>5, <2>2, <2>3, CountedKept
<1>9. NoCircle'
  BY <1>1, <1>3, NoCircleKept
<1>10. QED
  BY <1>3, <1>4, <1>6, <1>7, <1>8, <1>9 DEF LazyInv

-----------------------------------------------------------------------------
\* Whoever starts an initializer is alone with the value: nobody runs another one of it,
\* nobody sleeps there, and nobody is counted.
LEMMA StartKeeps == ASSUME LazyInv, NEW t \in Threads, StartInitializer(t) PROVE LazyInv'
<1> USE LazyAssumption
<1> DEFINE l == Lazy(t)
<1>1. /\ lazyPc[t] = "locking" /\ state[l] = "uninitialized"
      /\ state' = [state EXCEPT ![l] = "initializing"]
      /\ owner' = [owner EXCEPT ![l] = t]
      /\ waitingThreads' = [waitingThreads EXCEPT ![l] = 0]
      /\ active' = [active EXCEPT ![t] = @ \cup {l}]
      /\ graphOwner' = [graphOwner EXCEPT ![l] = t]
      /\ waitingOn' = [waitingOn EXCEPT ![t] = NoLazy]
      /\ waiting' = [waiting EXCEPT ![t] = FALSE]
      /\ Continue(t, "running", {})
      /\ UNCHANGED <<stack, setting, replaced, calls>>
  BY DEF StartInitializer, BeginInitialization, FinishWait
<1>2. /\ l \in Lazies /\ LazyTypeOK /\ stack[t] \in Seq(Lazies) /\ DOMAIN stack[t] = 1..Len(stack[t])
      /\ Len(stack[t]) \in DOMAIN stack[t] /\ stack[t][Len(stack[t])] = l
      /\ \A m \in Lazies : In(t, m) => m = l
  BY <1>1, LazyFacts, LazyTypes DEF LazyInv, Lazy
<1> HIDE DEF l
<1>3. /\ state' \in [Lazies -> {"uninitialized", "initializing", "failed", "initialized"}]
      /\ owner' \in [Lazies -> Threads \cup {NoThread}]
      /\ waitingThreads' \in [Lazies -> Nat]
      /\ graphOwner' \in [Lazies -> Threads \cup {NoThread}]
      /\ state'[l] = "initializing" /\ owner'[l] = t /\ waitingThreads'[l] = 0 /\ graphOwner'[l] = t
      /\ \A m \in Lazies : m # l =>
            /\ state'[m] = state[m] /\ owner'[m] = owner[m]
            /\ waitingThreads'[m] = waitingThreads[m] /\ graphOwner'[m] = graphOwner[m]
  BY <1>1, <1>2, LazyTypes
<1>4. /\ active' \in [Threads -> SUBSET Lazies]
      /\ waitingOn' \in [Threads -> Lazies \cup {NoLazy}]
      /\ waiting' \in [Threads -> BOOLEAN]
      /\ waitingOn'[t] = NoLazy /\ ~waiting'[t]
      /\ \A x \in Threads : x # t =>
            active'[x] = active[x] /\ waitingOn'[x] = waitingOn[x] /\ waiting'[x] = waiting[x]
  BY <1>1, <1>2, LazyTypes
<1>5. /\ lazyPc' \in [Threads -> {"idle", "locking", "asleep", "running"}]
      /\ lazyPc'[t] = "running" /\ \A x \in Threads : x # t => lazyPc'[x] = lazyPc[x]
      /\ \A x \in Threads : lazyPc'[x] = "idle" <=> stack'[x] = <<>>
  BY <1>1, MoveTypes
<1>6. LazyTypeOK'
  BY <1>1, <1>2, <1>3, <1>4, <1>5, LazyTypes DEF LazyTypeOK
<1>7. OthersGoOn(t)
  BY <1>1, <1>4, <1>5 DEF OthersGoOn
<1>8. setting # l /\ owner[l] = NoThread
  BY <1>1, <1>2, LazyTypes DEF LazyInv, OwnersInitialize
<1>9. InitializersAreMarked'
  <2>1. ASSUME NEW x \in Threads, NEW i \in DOMAIN stack'[x], RunsNext(x, i)
        PROVE  /\ i \in DOMAIN stack[x]
               /\ (x = t /\ i = Len(stack[t])) \/ Running(x, i)
    <3>1. CASE x = t
      <4>1. i \in 1..Len(stack[t]) /\ Len(stack[t]) \in Nat
        BY <1>1, <1>2, <3>1, LazyTypes
      <4>2. i = Len(stack[t]) \/ i < Len(stack[t])
        BY <4>1
      <4>3. QED
        BY <1>1, <3>1, <4>1, <4>2 DEF Running
    <3>2. CASE x # t
      BY <1>7, <2>1, <3>2, OthersRun
    <3>3. QED
      BY <3>1, <3>2
  <2>2. ASSUME NEW x \in Threads, NEW i \in DOMAIN stack[x], Running(x, i)
        PROVE  /\ stack[x][i] \in Lazies /\ stack[x][i] # l
               /\ Owns(x, stack[x][i]) \/ state[stack[x][i]] = "initialized"
    <3>1. stack[x][i] \in Lazies
      BY LazyTypes DEF LazyInv
    <3>2. Owns(x, stack[x][i]) \/ state[stack[x][i]] = "initialized"
      BY <2>2 DEF LazyInv, InitializersAreMarked
    <3>3. QED
      BY <1>1, <3>1, <3>2 DEF Owns
  <2>3. ASSUME NEW x \in Threads, NEW i \in DOMAIN stack'[x], RunsNext(x, i)
        PROVE  /\ \/ state'[stack'[x][i]] = "initializing" /\ owner'[stack'[x][i]] = x
                  \/ state'[stack'[x][i]] = "initialized"
               /\ \A u \in Threads : \A j \in DOMAIN stack'[u] :
                    RunsNext(u, j) /\ stack'[x][i] = stack'[u][j] => x = u /\ i = j
    <3>1. CASE x = t /\ i = Len(stack[t])
      <4>1. ASSUME NEW u \in Threads, NEW j \in DOMAIN stack'[u], RunsNext(u, j), stack'[u][j] = l
            PROVE  t = u /\ Len(stack[t]) = j
        BY <1>1, <2>1, <2>2, <4>1
      <4>2. QED
        BY <1>1, <1>2, <1>3, <3>1, <4>1
    <3>2. CASE ~(x = t /\ i = Len(stack[t]))
      <4>1. Running(x, i) /\ i \in DOMAIN stack[x] /\ stack'[x][i] = stack[x][i]
        BY <1>1, <2>1, <2>3, <3>2
      <4>2. stack[x][i] \in Lazies /\ stack[x][i] # l
        BY <2>2, <4>1
      <4>3. \/ state'[stack'[x][i]] = "initializing" /\ owner'[stack'[x][i]] = x
            \/ state'[stack'[x][i]] = "initialized"
        BY <1>3, <2>2, <4>1, <4>2 DEF Owns
      <4>4. ASSUME NEW u \in Threads, NEW j \in DOMAIN stack'[u], RunsNext(u, j), stack'[x][i] = stack'[u][j]
            PROVE  x = u /\ i = j
        <5>1. j \in DOMAIN stack[u] /\ stack[u][j] = stack[x][i]
          BY <1>1, <4>1, <4>4
        <5>2. ~(u = t /\ j = Len(stack[t]))
          BY <1>2, <4>2, <5>1
        <5>3. Running(u, j)
          BY <2>1, <4>4, <5>2
        <5>4. QED
          BY <4>1, <5>1, <5>3 DEF LazyInv, InitializersAreMarked
      <4>5. QED
        BY <4>3, <4>4
    <3>3. QED
      BY <3>1, <3>2
  <2>4. QED
    BY <2>3 DEF InitializersAreMarked, Running, RunsNext, Owns
<1>10. OwnersInitialize'
  <2>1. setting # NoLazy => setting \in Lazies
    BY <1>2, LazyTypes
  <2>2. QED
    BY <1>1, <1>3, <1>8, <2>1 DEF LazyInv, OwnersInitialize
<1>11. GraphIsTrue' /\ WaitersWaitForOthers'
  <2>1. ASSUME NEW m \in Lazies, NEW x \in Threads
        PROVE  /\ Owns(x, m)' => graphOwner'[m] = x
               /\ graphOwner'[m] = x /\ ~Owns(x, m)' => setting' = m /\ replaced' = x
    <3>1. CASE m = l
      BY <1>3, <3>1 DEF Owns
    <3>2. CASE m # l
      BY <1>1, <1>3, <3>2 DEF Owns, LazyInv, GraphIsTrue
    <3>3. QED
      BY <3>1, <3>2
  <2>2. \A m \in Lazies : waitingOn'[t] = m <=> waiting'[t] /\ In(t, m)'
    BY <1>4
  <2>3. \A m \in Lazies : owner'[m] \in {owner[m], t, NoThread}
    BY <1>3
  <2>4. QED
    BY <1>4, <1>7, <2>1, <2>2, <2>3, WaitersKnown
<1>12. SleepersAreCounted'
  <2>1. ASSUME NEW m \in Lazies, m # l PROVE Waiters(m)' = Waiters(m)
    <3>1. ~In(t, m)
      BY <1>2, <2>1
    <3>2. \A x \in Threads : waiting'[x] /\ In(x, m)' <=> waiting[x] /\ In(x, m)
      BY <1>1, <1>4, <3>1 DEF In, Lazy
    <3>3. QED
      BY <3>2 DEF Waiters
  <2>2. \A m \in Lazies : state'[m] \in {"initializing", "failed"} =>
           waitingThreads'[m] <= Cardinality(Waiters(m)')
    <3>1. \A m \in Lazies : Cardinality(Waiters(m)') \in Nat
      BY WaitersAreFinite DEF Waiters
    <3>2. QED
      BY <1>3, <2>1, <3>1 DEF LazyInv, SleepersAreCounted
  <2>3. ASSUME NEW x \in Threads, x # t, lazyPc'[x] = "asleep"
        PROVE  /\ state'[Lazy(x)] = state[Lazy(x)]
               /\ waitingThreads'[Lazy(x)] = waitingThreads[Lazy(x)]
    <3>1. lazyPc[x] = "asleep"
      BY <1>5, <2>3
    <3>2. Lazy(x) \in Lazies
      BY <3>1, LazyFacts
    <3>3. Lazy(x) # l
      BY <1>1, <1>8, <3>1 DEF LazyInv, SleepersAreCounted
    <3>4. QED
      BY <1>3, <3>2, <3>3
  <2>4. QED
    BY <1>1, <1>5, <1>7, <2>2, <2>3, CountedKept
<1>13. NoCircle'
  <2>1. \A x \in Threads : waiting'[x] => waiting[x] /\ stack'[x] = stack[x]
    BY <1>1, <1>4
  <2>2. QED
    BY <1>3, <1>4, <2>1, NoCircleKept
<1>14. QED
  BY <1>6, <1>9, <1>10, <1>11, <1>12, <1>13 DEF LazyInv

-----------------------------------------------------------------------------
\* The walk of the search exists, step by step.
LEMMA WalkFacts ==
    ASSUME LazyTypeOK, NEW l \in Lazies
    PROVE  /\ Walk(l)[0] = l
           /\ \A n \in 1..Cardinality(Threads) : Walk(l)[n] = NextValue(Walk(l)[n-1])
<1> DEFINE N == Cardinality(Threads)
           IsWalk(f, k) == f = [n \in 0..k |-> IF n = 0 THEN l ELSE NextValue(f[n-1])]
           Reached == {k \in Nat : \E f : IsWalk(f, k)}
<1>1. N \in Nat
  BY LazyAssumption, FS_CardinalityType
<1> HIDE DEF N
<1>2. 0 \in Reached
  <2>1. IsWalk([n \in 0..0 |-> l], 0)
    OBVIOUS
  <2>2. QED
    BY <2>1
<1>3. \A k \in Nat : k \in Reached => k + 1 \in Reached
  <2> TAKE k \in Nat
  <2> HAVE k \in Reached
  <2>1. PICK f : IsWalk(f, k)
    OBVIOUS
  <2> DEFINE g == [n \in 0..(k + 1) |-> IF n <= k THEN f[n] ELSE NextValue(f[k])]
  <2>2. \A n \in 0..(k + 1) : g[n] = IF n = 0 THEN l ELSE NextValue(g[n-1])
    BY <2>1
  <2>3. IsWalk(g, k + 1)
    BY <2>2
  <2> HIDE DEF g
  <2>4. QED
    BY <2>3
<1>4. N \in Reached
  <2> HIDE DEF Reached
  <2>1. QED
    BY <1>1, <1>2, <1>3, SetInduction
<1>5. IsWalk(Walk(l), N)
  <2>1. PICK w : IsWalk(w, N)
    BY <1>4
  <2>2. Walk(l) = CHOOSE f : IsWalk(f, N)
    BY DEF Walk, N
  <2> HIDE DEF IsWalk
  <2>3. QED
    BY <2>1, <2>2
<1>6. QED
  BY <1>1, <1>5 DEF N

\* A wait that the search lets pass closes no circle: along a circle the walk would come
\* back to t, or go on for as many steps as there are threads.
LEMMA NoNewCircle ==
    ASSUME LazyInv, NEW t \in Threads, lazyPc[t] = "locking", state[Lazy(t)] = "initializing",
           ~WaitWouldCycle(t, Lazy(t)),
           waiting' = [waiting EXCEPT ![t] = TRUE], UNCHANGED <<state, owner, stack>>
    PROVE  NoCircle'
<1> USE LazyAssumption
<1> SUFFICES ASSUME NEW S \in SUBSET Threads, S # {},
                    \A x \in S : waiting'[x] /\ state'[Lazy(x)'] = "initializing" /\ owner'[Lazy(x)'] \in S
             PROVE  FALSE
  BY DEF NoCircle, Circle
<1>1. \A x \in S : /\ x # t => waiting[x]
                   /\ state[Lazy(x)] = "initializing" /\ owner[Lazy(x)] \in S
  <2>1. \A x \in S : Lazy(x)' = Lazy(x)
    BY DEF Lazy
  <2>2. \A x \in Threads : x # t => waiting'[x] = waiting[x]
    BY LazyTypes DEF LazyInv
  <2>3. QED
    BY <2>1, <2>2
<1>2. t \in S
  BY <1>1 DEF LazyInv, NoCircle, Circle
<1> DEFINE l == Lazy(t)
           N == Cardinality(Threads)
           way == Walk(l)
           OnWay(m) == m \in Lazies /\ state[m] = "initializing" /\ owner[m] \in S
           Met == {n \in Nat : n <= N => OnWay(way[n])}
<1>3. l \in Lazies /\ N \in Nat /\ LazyTypeOK
  BY LazyFacts, FS_CardinalityType DEF LazyInv
<1>4. way[0] = l /\ \A n \in 1..N : way[n] = NextValue(way[n-1])
  BY <1>3, WalkFacts
<1>5. \A n \in 0..N : way[n] # NoLazy => graphOwner[way[n]] # t
  BY DEF WaitWouldCycle
<1>6. \A x \in Threads : way[N] # NoLazy => graphOwner[way[N]] # x
  BY DEF WaitWouldCycle
<1> HIDE DEF way, N, l
<1>7. \A m \in Lazies : OnWay(m) => m # NoLazy /\ graphOwner[m] = owner[m] /\ owner[m] # NoThread
  <2> TAKE m \in Lazies
  <2> HAVE OnWay(m)
  <2>1. Owns(owner[m], m) /\ owner[m] \in Threads
    BY DEF Owns
  <2>2. QED
    BY <2>1 DEF LazyInv, GraphIsTrue
<1>8. 0 \in Met
  BY <1>1, <1>2, <1>3, <1>4 DEF l
<1>9. \A n \in Nat : n \in Met => n + 1 \in Met
  <2> TAKE n \in Nat
  <2> HAVE n \in Met
  <2> SUFFICES ASSUME n + 1 <= N PROVE OnWay(way[n+1])
    OBVIOUS
  <2>1. n \in 0..N /\ n + 1 \in 1..N /\ (n + 1) - 1 = n
    BY <1>3
  <2>2. OnWay(way[n])
    BY <1>3, <2>1
  <2>3. way[n+1] = waitingOn[owner[way[n]]] /\ owner[way[n]] # t
    BY <1>4, <1>5, <1>7, <2>1, <2>2 DEF NextValue
  <2>4. owner[way[n]] \in S /\ waiting[owner[way[n]]]
    BY <1>1, <2>2, <2>3
  <2>5. way[n+1] = Lazy(owner[way[n]]) /\ way[n+1] \in Lazies
    BY <2>3, <2>4, WaiterFacts
  <2>6. QED
    BY <1>1, <2>4, <2>5
<1>10. N \in Met
  <2> HIDE DEF Met
  <2>1. QED
    BY <1>3, <1>8, <1>9, SetInduction
<1>11. OnWay(way[N])
  BY <1>3, <1>10
<1>12. QED
  BY <1>6, <1>7, <1>11

\* The first time round the wait is entered in the graph and counted.
LEMMA WaitFirstKeeps == ASSUME LazyInv, NEW t \in Threads, WaitForAttempt(t), ~waiting[t] PROVE LazyInv'
<1> USE LazyAssumption
<1> DEFINE l == Lazy(t)
<1>1. /\ lazyPc[t] = "locking" /\ state[l] = "initializing" /\ ~waiting[t]
      /\ l \notin active[t] /\ owner[l] # t /\ ~WaitWouldCycle(t, l)
      /\ waitingOn' = [waitingOn EXCEPT ![t] = l]
      /\ waitingThreads' = [waitingThreads EXCEPT ![l] = @ + 1]
      /\ waiting' = [waiting EXCEPT ![t] = TRUE]
      /\ Continue(t, "asleep", {})
      /\ UNCHANGED <<state, owner, stack, active, graphOwner, setting, replaced, calls>>
  BY DEF WaitForAttempt
<1>2. NoCircle'
  BY <1>1, NoNewCircle
<1>3. /\ l \in Lazies /\ LazyTypeOK /\ \A m \in Lazies : In(t, m) <=> m = l
  BY <1>1, LazyFacts DEF LazyInv
<1>4. Lazy(t)' = l /\ \A m \in Lazies, x \in Threads : In(x, m)' <=> In(x, m)
  BY <1>1 DEF In, Lazy
<1> HIDE DEF l
<1>5. /\ lazyPc' \in [Threads -> {"idle", "locking", "asleep", "running"}]
      /\ lazyPc'[t] = "asleep" /\ \A x \in Threads : x # t => lazyPc'[x] = lazyPc[x]
      /\ \A x \in Threads : lazyPc'[x] = "idle" <=> stack'[x] = <<>>
  BY <1>1, MoveTypes
<1>6. /\ waitingOn' \in [Threads -> Lazies \cup {NoLazy}]
      /\ waiting' \in [Threads -> BOOLEAN] /\ waitingThreads' \in [Lazies -> Nat]
      /\ waitingOn'[t] = l /\ waiting'[t] /\ waitingThreads'[l] = waitingThreads[l] + 1
      /\ waitingThreads[l] \in Nat
      /\ \A x \in Threads : x # t => waitingOn'[x] = waitingOn[x] /\ waiting'[x] = waiting[x]
      /\ \A m \in Lazies : m # l => waitingThreads'[m] = waitingThreads[m]
  BY <1>1, <1>3, LazyTypes
<1>7. LazyTypeOK'
  BY <1>1, <1>3, <1>5, <1>6, LazyTypes DEF LazyTypeOK
<1>8. OthersGoOn(t)
  BY <1>1, <1>5, <1>6 DEF OthersGoOn
<1>9. InitializersAreMarked'
  <2>1. \A x \in Threads : \A i \in DOMAIN stack'[x] : RunsNext(x, i) => Running(x, i)
    BY <1>1, <1>5 DEF RunsNext, Running
  <2>2. QED
    BY <1>1, <2>1, MarkedKept
<1>10. OwnersInitialize'
  BY <1>1 DEF LazyInv, OwnersInitialize
<1>11. GraphIsTrue' /\ WaitersWaitForOthers'
  <2>1. \A m \in Lazies : waitingOn'[t] = m <=> waiting'[t] /\ In(t, m)'
    BY <1>3, <1>4, <1>6
  <2>2. \A m \in Lazies, x \in Threads :
            /\ Owns(x, m)' => graphOwner'[m] = x
            /\ graphOwner'[m] = x /\ ~Owns(x, m)' => setting' = m /\ replaced' = x
    BY <1>1 DEF LazyInv, GraphIsTrue, Owns
  <2>3. QED
    BY <1>1, <1>4, <1>5, <1>8, <2>1, <2>2, WaitersKnown
<1>12. SleepersAreCounted'
  <2>1. ASSUME NEW m \in Lazies PROVE Waiters(m)' = IF m = l THEN Waiters(m) \cup {t} ELSE Waiters(m)
    <3>1. \A x \in Threads : waiting'[x] /\ In(x, m)' <=> (waiting[x] /\ In(x, m)) \/ (x = t /\ m = l)
      BY <1>1, <1>3, <1>4, <1>6
    <3>2. QED
      BY <3>1 DEF Waiters
  <2>2. \A m \in Lazies : m = l => Cardinality(Waiters(m)') = Cardinality(Waiters(m)) + 1
    <3>1. \A m \in Lazies : IsFiniteSet(Waiters(m)) /\ t \notin Waiters(m)
      BY <1>1, WaitersAreFinite DEF Waiters
    <3>2. QED
      BY <2>1, <3>1, FS_AddElement
  <2>3. ASSUME NEW m \in Lazies, state'[m] \in {"initializing", "failed"}
        PROVE  waitingThreads'[m] <= Cardinality(Waiters(m)')
    <3>1. waitingThreads[m] <= Cardinality(Waiters(m))
      BY <1>1, <2>3 DEF LazyInv, SleepersAreCounted
    <3>2. CASE m = l
      <4>1. Cardinality(Waiters(m)) \in Nat
        BY WaitersAreFinite DEF Waiters
      <4>2. QED
        BY <1>6, <2>2, <3>1, <3>2, <4>1
    <3>3. CASE m # l
      BY <1>6, <2>1, <3>1, <3>3
    <3>4. QED
      BY <3>2, <3>3
  <2>4. ASSUME NEW m \in Lazies
        PROVE  waitingThreads'[m] # 0 \/ waitingThreads'[m] = waitingThreads[m]
    BY <1>6
  <2>5. ASSUME NEW x \in Threads, lazyPc'[x] = "asleep", x # t PROVE Lazy(x) \in Lazies
    BY <1>5, <2>5, LazyFacts
  <2>6. lazyPc'[t] = "asleep" =>
              /\ state'[Lazy(t)'] \in {"initializing", "failed"}
              /\ state'[Lazy(t)'] = "initializing" => waiting'[t]
              /\ state'[Lazy(t)'] = "failed" => ~waiting'[t] /\ waitingThreads'[Lazy(t)'] # 0
    BY <1>1, <1>4, <1>6
  <2>7. QED
    BY <1>1, <1>8, <2>3, <2>4, <2>5, <2>6, CountedKept
<1>13. QED
  BY <1>2, <1>7, <1>9, <1>10, <1>11, <1>12 DEF LazyInv

-----------------------------------------------------------------------------
\* `set`, while no other call of it is under way.
LEMMA SetValueKeeps == ASSUME LazyInv, NEW l \in Lazies, SetValue(l) PROVE LazyInv'
<1> USE LazyAssumption
<1>1. /\ setting = NoLazy /\ setting' = l
      /\ replaced' = IF state[l] = "initializing" THEN owner[l] ELSE NoThread
      /\ state' = [state EXCEPT ![l] = "initialized"] /\ owner' = [owner EXCEPT ![l] = NoThread]
      /\ UNCHANGED <<waitingThreads, stack, lazyPc, waiting, active, graphOwner, waitingOn, calls>>
  BY DEF SetValue
<1>2. /\ state' \in [Lazies -> {"uninitialized", "initializing", "failed", "initialized"}]
      /\ owner' \in [Lazies -> Threads \cup {NoThread}]
      /\ state'[l] = "initialized" /\ owner'[l] = NoThread
      /\ \A m \in Lazies : m # l => state'[m] = state[m] /\ owner'[m] = owner[m]
      /\ LazyTypeOK
  BY <1>1, LazyTypes DEF LazyInv
<1>3. LazyTypeOK'
  BY <1>1, <1>2, LazyTypes DEF LazyTypeOK
<1>4. InitializersAreMarked'
  <2>1. \A x \in Threads : \A i \in DOMAIN stack[x] : stack[x][i] \in Lazies
    BY <1>2, LazyTypes
  <2>2. \A x \in Threads : \A i \in DOMAIN stack'[x] : RunsNext(x, i) => Running(x, i)
    BY <1>1 DEF RunsNext, Running
  <2>3. QED
    BY <1>1, <1>2, <2>1, <2>2, MarkedKept
<1>5. OwnersInitialize'
  BY <1>1, <1>2 DEF LazyInv, OwnersInitialize
<1>6. GraphIsTrue'
  <2>1. ASSUME NEW m \in Lazies, NEW x \in Threads
        PROVE  /\ Owns(x, m)' => graphOwner'[m] = x
               /\ graphOwner'[m] = x /\ ~Owns(x, m)' => setting' = m /\ replaced' = x
    <3>1. /\ Owns(x, m) => graphOwner[m] = x
          /\ graphOwner[m] = x => Owns(x, m)
      BY <1>1 DEF LazyInv, GraphIsTrue
    <3>2. CASE m = l
      BY <1>1, <1>2, <3>1, <3>2 DEF Owns
    <3>3. CASE m # l
      BY <1>1, <1>2, <3>1, <3>3 DEF Owns
    <3>4. QED
      BY <3>2, <3>3
  <2>2. \A x \in Threads, m \in Lazies : waitingOn'[x] = m <=> waiting'[x] /\ In(x, m)'
    BY <1>1 DEF LazyInv, GraphIsTrue, In, Lazy
  <2>3. QED
    BY <2>1, <2>2 DEF GraphIsTrue
<1>7. WaitersWaitForOthers'
  <2>1. ASSUME NEW x \in Threads, waiting[x]
        PROVE  /\ lazyPc[x] \in {"locking", "asleep"} /\ Lazy(x) \notin active[x]
               /\ owner'[Lazy(x)] # x
    BY <1>2, <2>1, WaiterFacts
  <2>2. QED
    BY <1>1, <2>1 DEF WaitersWaitForOthers, Lazy
<1>8. SleepersAreCounted'
  <2>1. \A m \in Lazies : Waiters(m)' = Waiters(m)
    BY <1>1, WaitersKept
  <2>2. \A m \in Lazies : state'[m] \in {"initializing", "failed"} =>
           waitingThreads'[m] <= Cardinality(Waiters(m)')
    BY <1>1, <1>2, <2>1 DEF LazyInv, SleepersAreCounted
  <2>3. ASSUME NEW x \in Threads, lazyPc[x] = "asleep"
        PROVE  /\ state'[Lazy(x)] \in {"initializing", "failed"} \/ l = Lazy(x)
               /\ state'[Lazy(x)] = "initializing" => waiting[x]
               /\ state'[Lazy(x)] = "failed" => ~waiting[x] /\ waitingThreads[Lazy(x)] # 0
    <3>1. Lazy(x) \in Lazies
      BY <2>3, LazyFacts
    <3>2. Lazy(x) # l => state'[Lazy(x)] = state[Lazy(x)]
      BY <1>2, <3>1
    <3>3. setting # Lazy(x)
      BY <1>1, <3>1
    <3>4. QED
      BY <1>2, <2>3, <3>2, <3>3 DEF LazyInv, SleepersAreCounted
  <2>4. \A x \in Threads : Lazy(x)' = Lazy(x)
    BY <1>1 DEF Lazy
  <2>5. QED
    BY <1>1, <2>2, <2>3, <2>4 DEF SleepersAreCounted
<1>9. NoCircle'
  BY <1>1, <1>2, NoCircleKept
<1>10. QED
  BY <1>3, <1>4, <1>5, <1>6, <1>7, <1>8, <1>9 DEF LazyInv

LEMMA SetForgetsOwnerKeeps == ASSUME LazyInv, SetForgetsOwner PROVE LazyInv'
<1> USE LazyAssumption
<1>1. /\ setting # NoLazy /\ replaced # NoThread /\ replaced' = NoThread
      /\ graphOwner' = WithoutOwner(replaced, setting)
      /\ UNCHANGED <<state, owner, waitingThreads, stack, lazyPc, waiting, active, waitingOn, setting, calls>>
  BY DEF SetForgetsOwner
<1>2. /\ LazyTypeOK /\ setting \in Lazies /\ replaced \in Threads /\ state[setting] = "initialized"
  BY <1>1, LazyTypes DEF LazyInv, OwnersInitialize
<1>3. /\ graphOwner' \in [Lazies -> Threads \cup {NoThread}]
      /\ graphOwner'[setting] # replaced
      /\ \A m \in Lazies : m # setting => graphOwner'[m] = graphOwner[m]
      /\ \A m \in Lazies : graphOwner'[m] \in {graphOwner[m], NoThread}
  BY <1>1, <1>2, LazyTypes DEF WithoutOwner
<1>4. LazyTypeOK'
  BY <1>1, <1>2, <1>3, LazyTypes DEF LazyTypeOK
<1>5. InitializersAreMarked'
  BY <1>1 DEF LazyInv, InitializersAreMarked, Running, Owns
<1>6. OwnersInitialize'
  BY <1>1 DEF LazyInv, OwnersInitialize
<1>7. \A x \in Threads : Lazy(x)' = Lazy(x) /\ \A m \in Lazies : In(x, m)' <=> In(x, m)
  BY <1>1 DEF In, Lazy
<1>8. GraphIsTrue'
  <2>1. ASSUME NEW m \in Lazies, NEW x \in Threads
        PROVE  /\ Owns(x, m)' => graphOwner'[m] = x
               /\ graphOwner'[m] = x /\ ~Owns(x, m)' => setting' = m /\ replaced' = x
    BY <1>1, <1>2, <1>3 DEF Owns, LazyInv, GraphIsTrue
  <2>2. \A x \in Threads, m \in Lazies : waitingOn'[x] = m <=> waiting'[x] /\ In(x, m)'
    BY <1>1, <1>7 DEF LazyInv, GraphIsTrue
  <2>3. QED
    BY <2>1, <2>2 DEF GraphIsTrue
<1>9. WaitersWaitForOthers'
  BY <1>1, <1>7 DEF LazyInv, WaitersWaitForOthers
<1>10. SleepersAreCounted'
  <2>1. \A m \in Lazies : Waiters(m)' = Waiters(m)
    BY <1>1, WaitersKept
  <2>2. QED
    BY <1>1, <1>7, <2>1 DEF LazyInv, SleepersAreCounted
<1>11. NoCircle'
  BY <1>1, NoCircleKept
<1>12. QED
  BY <1>4, <1>5, <1>6, <1>8, <1>9, <1>10, <1>11 DEF LazyInv

LEMMA SetWakesKeeps == ASSUME LazyInv, SetWakes PROVE LazyInv'
<1> USE LazyAssumption
<1>1. /\ setting # NoLazy /\ replaced = NoThread /\ setting' = NoLazy
      /\ lazyPc' = [x \in Threads |-> IF x \in NotifyAll(setting) THEN "locking" ELSE lazyPc[x]]
      /\ UNCHANGED <<state, owner, waitingThreads, stack, waiting, active, graphOwner, waitingOn, replaced, calls>>
  BY DEF SetWakes
<1>2. LazyTypeOK /\ setting \in Lazies
  BY <1>1, LazyTypes DEF LazyInv
<1>3. /\ lazyPc' \in [Threads -> {"idle", "locking", "asleep", "running"}]
      /\ \A x \in Threads :
            lazyPc'[x] = lazyPc[x] \/ (lazyPc[x] = "asleep" /\ lazyPc'[x] = "locking")
      /\ \A x \in Threads : lazyPc'[x] = "asleep" => lazyPc[x] = "asleep" /\ ~In(x, setting)
  BY <1>1, <1>2, LazyTypes DEF NotifyAll, Sleepers
<1>4. LazyTypeOK'
  <2>1. \A x \in Threads : lazyPc'[x] = "idle" <=> stack'[x] = <<>>
    BY <1>1, <1>2, <1>3, LazyTypes
  <2>2. QED
    BY <1>1, <1>2, <1>3, <2>1, LazyTypes DEF LazyTypeOK
<1>5. InitializersAreMarked'
  <2>1. \A x \in Threads : \A i \in DOMAIN stack'[x] : RunsNext(x, i) => Running(x, i)
    BY <1>1, <1>3 DEF RunsNext, Running
  <2>2. QED
    BY <1>1, <2>1, MarkedKept
<1>6. OwnersInitialize'
  BY <1>1 DEF LazyInv, OwnersInitialize
<1>7. \A x \in Threads : Lazy(x)' = Lazy(x) /\ \A m \in Lazies : In(x, m)' <=> In(x, m)
  BY <1>1 DEF In, Lazy
<1>8. GraphIsTrue'
  <2>1. ASSUME NEW m \in Lazies, NEW x \in Threads
        PROVE  /\ Owns(x, m)' => graphOwner'[m] = x
               /\ graphOwner'[m] = x /\ ~Owns(x, m)' => setting' = m /\ replaced' = x
    BY <1>1, <1>2 DEF Owns, LazyInv, GraphIsTrue
  <2>2. \A x \in Threads, m \in Lazies : waitingOn'[x] = m <=> waiting'[x] /\ In(x, m)'
    BY <1>1, <1>7 DEF LazyInv, GraphIsTrue
  <2>3. QED
    BY <2>1, <2>2 DEF GraphIsTrue
<1>9. WaitersWaitForOthers'
  BY <1>1, <1>3, <1>7 DEF LazyInv, WaitersWaitForOthers
<1>10. SleepersAreCounted'
  <2>1. \A m \in Lazies : Waiters(m)' = Waiters(m)
    BY <1>1, WaitersKept
  <2>2. ASSUME NEW x \in Threads, lazyPc'[x] = "asleep"
        PROVE  lazyPc[x] = "asleep" /\ Lazy(x) # setting
    BY <1>2, <1>3, <2>2, LazyFacts
  <2>3. QED
    BY <1>1, <1>7, <2>1, <2>2 DEF LazyInv, SleepersAreCounted
<1>11. NoCircle'
  BY <1>1, NoCircleKept
<1>12. QED
  BY <1>4, <1>5, <1>6, <1>8, <1>9, <1>10, <1>11 DEF LazyInv

-----------------------------------------------------------------------------
LEMMA LazyStepInv == LazyInv /\ [LazyNext]_lazyVars => LazyInv'
<1> SUFFICES ASSUME LazyInv, [LazyNext]_lazyVars PROVE LazyInv'
  OBVIOUS
<1>1. CASE UNCHANGED lazyVars
  <2>1. /\ LazyTypeOK' /\ InitializersAreMarked' /\ OwnersInitialize'
    BY <1>1 DEF lazyVars, LazyInv, LazyTypeOK, InitializersAreMarked, Running, Owns, OwnersInitialize
  <2>2. GraphIsTrue' /\ WaitersWaitForOthers'
    BY <1>1 DEF lazyVars, LazyInv, GraphIsTrue, WaitersWaitForOthers, Owns, In, Lazy
  <2>3. SleepersAreCounted'
    <3>1. \A m \in Lazies : Waiters(m)' = Waiters(m)
      BY <1>1, WaitersKept DEF lazyVars
    <3>2. \A x \in Threads : Lazy(x)' = Lazy(x)
      BY <1>1 DEF Lazy, lazyVars
    <3>3. QED
      BY <1>1, <3>1, <3>2 DEF lazyVars, LazyInv, SleepersAreCounted
  <2>4. NoCircle'
    BY <1>1, NoCircleKept DEF lazyVars
  <2>5. QED
    BY <2>1, <2>2, <2>3, <2>4 DEF LazyInv
<1>2. ASSUME NEW t \in Threads, NEW l \in Lazies, Call(t, l) PROVE LazyInv'
  BY <1>2, CallKeeps
<1>3. ASSUME NEW t \in Threads, Enter(t) PROVE LazyInv'
  BY <1>3, FindValueKeeps, RefuseToWaitKeeps, TakeFailureKeeps, StartKeeps DEF Enter
<1>4. ASSUME NEW t \in Threads, WaitForAttempt(t) PROVE LazyInv'
  BY <1>4, WaitFirstKeeps, WaitAgainKeeps
<1>5. ASSUME NEW t \in Threads, FindFailure(t) PROVE LazyInv'
  BY <1>5, ForgetFailureKeeps, SleepAtFailureKeeps
<1>6. ASSUME NEW t \in Threads, Settle(t) PROVE LazyInv'
  BY <1>6, EndInitializerKeeps, EndReplacedKeeps, PanicKeeps DEF Settle
<1>7. ASSUME NEW t \in Threads, WakeSpuriously(t) PROVE LazyInv'
  BY <1>7, WakeKeeps
<1>8. ASSUME NEW l \in Lazies, SetValue(l) PROVE LazyInv'
  BY <1>8, SetValueKeeps
<1>9. CASE SetForgetsOwner \/ SetWakes
  BY <1>9, SetForgetsOwnerKeeps, SetWakesKeeps
<1>10. QED
  BY <1>1, <1>2, <1>3, <1>4, <1>5, <1>6, <1>7, <1>8, <1>9 DEF LazyNext

\* One initializer at a time, and a graph that knows it; whoever sleeps is in no circle,
\* and has somebody left to wake it.
LEMMA LazyInvServes == LazyInv => InitializersServeWaiters
<1> SUFFICES ASSUME LazyInv PROVE InitializersServeWaiters
  OBVIOUS
<1>1. OneInitializer
  BY DEF OneInitializer, Initializes, LazyInv, InitializersAreMarked, Running
<1>2. GraphIsTrue
  BY DEF LazyInv
<1>3. NoCircularWait
  <2>1. ASSUME NEW S \in SUBSET Threads, Deadlocked(S) PROVE Circle(S)
    BY <2>1 DEF Deadlocked, Circle, LazyInv, SleepersAreCounted
  <2>2. QED
    BY <2>1 DEF NoCircularWait, LazyInv, NoCircle
<1>4. SleepersAreWoken
  <2>1. SUFFICES ASSUME NEW l \in Lazies, Sleepers(l) # {}, state[l] # "initializing", setting # l
                 PROVE  state[l] = "failed" /\ \E t \in Threads : In(t, l) /\ waiting[t] /\ lazyPc[t] = "locking"
    BY DEF SleepersAreWoken
  <2>2. PICK t \in Threads : lazyPc[t] = "asleep" /\ Lazy(t) = l
    BY <2>1 DEF Sleepers, In
  <2>3. state[l] = "failed" /\ waitingThreads[l] # 0
    BY <2>1, <2>2 DEF LazyInv, SleepersAreCounted
  <2>4. Waiters(l) # {}
    <3>1. waitingThreads[l] \in Nat /\ waitingThreads[l] <= Cardinality(Waiters(l))
      BY <2>3, LazyTypes DEF LazyInv, SleepersAreCounted
    <3>2. QED
      BY <2>3, <3>1, FS_EmptySet
  <2>5. PICK x \in Threads : waiting[x] /\ In(x, l)
    BY <2>4 DEF Waiters
  <2>6. lazyPc[x] = "locking"
    BY <2>3, <2>5, WaiterFacts DEF LazyInv, SleepersAreCounted, In
  <2>7. QED
    BY <2>3, <2>5, <2>6
<1>5. QED
  BY <1>1, <1>2, <1>3, <1>4 DEF InitializersServeWaiters, InitializersAreKnown, NobodySleepsForEver

\* The strengthened invariant of the lazy values holds throughout.
THEOREM LazyInvariant == LazySpec => []LazyInv
<1>1. QED
  BY LazyInitInv, LazyStepInv, PTL DEF LazySpec

\* Every value has one initializer at a time, the graph knows who waits for whom, and
\* whoever sleeps is in no circle and is still to be woken (LazyValue::get_or_init and
\* set), for any threads, values, nesting and panics.
THEOREM InitializersAlwaysServeWaiters == LazySpec => []InitializersServeWaiters
<1>1. QED
  BY LazyInvariant, LazyInvServes, PTL

(*****************************************************************************)
(* The commands that make secrets, and their cache.                          *)
(*****************************************************************************)

LEMMA CommandInitInv == SecretCommandInit => SecretCommandInv
<1> SUFFICES ASSUME SecretCommandInit PROVE SecretCommandInv
  OBVIOUS
<1>1. 0 \in 0 .. SpawnRetries /\ 0 \in 0 .. CleanupRetries
  BY SecretCommandAssumption
<1>2. SecretCommandTypeOK
  BY <1>1 DEF SecretCommandInit, SecretCommandTypeOK
<1>3. GuardFollowsCall /\ TreeStaysDead /\ TakenIsWhole
  BY DEF SecretCommandInit, GuardFollowsCall, TreeStaysDead, TakenIsWhole
<1>4. ValueIsComplete /\ TreeIsInHand
  BY DEF SecretCommandInit, ValueIsComplete, TreeIsInHand, Over
<1>5. QED
  BY <1>2, <1>3, <1>4 DEF SecretCommandInv

\* What a pass over the tree does: the tool is not running, and no helper comes back.
LEMMA KillPassDoes ==
    ASSUME SecretCommandTypeOK, KillPass
    PROVE  /\ leader' \in {"absent", "running", "ok", "bad", "killed"} /\ leader' # "running"
           /\ leader # "running" => leader' = leader
           /\ helper' \in [Helpers -> {"absent", "hidden", "seen", "dead"}]
           /\ \A h \in Helpers : helper'[h] = IF helper[h] = "seen" THEN "dead" ELSE helper[h]
BY DEF SecretCommandTypeOK, KillPass

\* The tree is in hand once its cleanup is started: by the worker, or by the one pass alone.
LEMMA StartCleanupDoes ==
    ASSUME SecretCommandInv, StartCleanup
    PROVE  /\ treeGuard' = "gone" /\ leader' # "running" /\ ward' # "none"
           /\ leader' \in {"absent", "running", "ok", "bad", "killed"}
           /\ helper' \in [Helpers -> {"absent", "hidden", "seen", "dead"}]
           /\ retriesLeft' \in 0 .. CleanupRetries
           /\ ward' \in {"none", "retried", "initiated", "unavailable"}
           /\ leader # "running" => leader' = leader
           /\ TreeStaysDead'
<1>1. /\ treeGuard' = "gone" /\ KillPass /\ SecretCommandTypeOK
      /\ \/ retriesLeft' = CleanupRetries /\ ward' = "retried"
         \/ retriesLeft' = 0 /\ ward' = "unavailable"
  BY DEF StartCleanup, SecretCommandInv
<1>2. retriesLeft' \in 0 .. CleanupRetries /\ (ward' = "retried" => retriesLeft' # 0)
  BY <1>1, SecretCommandAssumption
<1>3. TreeStaysDead'
  BY <1>1, <1>2 DEF TreeStaysDead
<1>4. QED
  BY <1>1, <1>2, <1>3, KillPassDoes

\* The kill of a call that is given up leaves the tool dead, guarded or not.
LEMMA KillChildDoes ==
    ASSUME SecretCommandInv, treeGuard # "none", KillChild
    PROVE  /\ treeGuard' = "gone" /\ leader' # "running" /\ ward' # "none"
           /\ leader' \in {"absent", "running", "ok", "bad", "killed"}
           /\ helper' \in [Helpers -> {"absent", "hidden", "seen", "dead"}]
           /\ retriesLeft' \in 0 .. CleanupRetries
           /\ ward' \in {"none", "retried", "initiated", "unavailable"}
           /\ leader # "running" => leader' = leader
           /\ TreeStaysDead'
<1>1. SecretCommandTypeOK /\ GuardFollowsCall /\ TreeStaysDead
  BY DEF SecretCommandInv
<1>2. CASE treeGuard = "held" /\ StartCleanup
  BY <1>2, StartCleanupDoes
<1>3. CASE /\ treeGuard' = "gone" /\ ward' = "initiated" /\ UNCHANGED retriesLeft
           /\ leader' = IF leader = "running" THEN "killed" ELSE leader
           /\ helper' = [h \in Helpers |-> IF Alive(h) THEN "dead" ELSE helper[h]]
  <2>1. helper' \in [Helpers -> {"absent", "hidden", "seen", "dead"}]
    BY <1>1, <1>3 DEF SecretCommandTypeOK
  <2>2. \A h \in Helpers : ~Alive(h)'
    BY <1>3 DEF Alive
  <2>3. QED
    BY <1>1, <1>3, <2>1, <2>2 DEF SecretCommandTypeOK, TreeStaysDead
<1>4. CASE /\ treeGuard # "held"
           /\ leader' = IF leader = "running" THEN "killed" ELSE leader
           /\ UNCHANGED <<treeGuard, ward, helper, retriesLeft>>
  <2>1. treeGuard = "gone"
    BY <1>1, <1>4 DEF SecretCommandTypeOK
  <2>2. QED
    BY <1>1, <1>4, <2>1 DEF SecretCommandTypeOK, GuardFollowsCall, TreeStaysDead, Alive
<1>5. QED
  BY <1>2, <1>3, <1>4 DEF KillChild

\* A call that is over with its guard gone has its tree in hand.
LEMMA OverIsInHand ==
    ASSUME SecretCommandTypeOK', GuardFollowsCall', TreeStaysDead', treeGuard' = "none" \/ treeGuard' = "gone"
    PROVE  TreeIsInHand'
<1>1. \A h \in Helpers : ~Alive(h)' => helper'[h] = "dead" \/ helper'[h] = "absent"
  BY DEF SecretCommandTypeOK, Alive
<1>2. QED
  BY <1>1 DEF GuardFollowsCall, TreeStaysDead, TreeIsInHand

\* Nothing of a tree in hand comes back to life: whoever forks is alive or is the tool.
LEMMA ProcessesMoveInv ==
    ASSUME SecretCommandInv,
           UNCHANGED <<secretCall, spawnTries, reader, taken, sawExit, treeGuard, retriesLeft, ward>>,
           leader' \in {"absent", "running", "ok", "bad", "killed"},
           leader # "running" => leader' = leader, leader = "absent" <=> leader' = "absent",
           helper' \in [Helpers -> {"absent", "hidden", "seen", "dead"}],
           leader # "running" /\ (\A h \in Helpers : ~Alive(h)) => \A h \in Helpers : ~Alive(h)'
    PROVE  SecretCommandInv'
<1>1. SecretCommandTypeOK /\ GuardFollowsCall /\ TreeStaysDead /\ TakenIsWhole /\ ValueIsComplete
  BY DEF SecretCommandInv
<1>2. SecretCommandTypeOK'
  BY <1>1 DEF SecretCommandTypeOK
<1>3. GuardFollowsCall'
  BY <1>1 DEF GuardFollowsCall
<1>4. TreeStaysDead'
  <2>1. SUFFICES ASSUME ward = "initiated" \/ (ward = "retried" /\ retriesLeft = 0)
                 PROVE  \A h \in Helpers : ~Alive(h)'
    BY DEF TreeStaysDead
  <2>2. leader # "running"
    BY <1>1, <2>1 DEF GuardFollowsCall, SecretCommandTypeOK
  <2>3. QED
    BY <1>1, <2>1, <2>2 DEF TreeStaysDead
<1>5. TakenIsWhole' /\ ValueIsComplete'
  BY <1>1 DEF TakenIsWhole, ValueIsComplete
<1>6. TreeIsInHand'
  <2>1. CASE treeGuard = "held"
    BY <1>1, <2>1 DEF GuardFollowsCall, TreeIsInHand, Over
  <2>2. CASE treeGuard # "held"
    BY <1>1, <1>2, <1>3, <1>4, <2>2, OverIsInHand DEF SecretCommandTypeOK
  <2>3. QED
    BY <2>1, <2>2
<1>7. QED
  BY <1>2, <1>3, <1>4, <1>5, <1>6 DEF SecretCommandInv

\* The spawn, up to the guard of its tree.
LEMMA SpawnInv ==
    ASSUME SecretCommandInv, SpawnIsBusy \/ SpawnFails \/ Spawned \/ GuardFails
    PROVE  SecretCommandInv'
<1>1. /\ SecretCommandTypeOK /\ GuardFollowsCall /\ TreeStaysDead /\ TakenIsWhole /\ ValueIsComplete
      /\ secretCall = "spawning" /\ treeGuard = "none" /\ leader = "absent"
      /\ ward = "none" /\ retriesLeft = 0
      /\ UNCHANGED <<helper, taken, sawExit, retriesLeft, ward>>
  BY DEF SecretCommandInv, GuardFollowsCall, SpawnIsBusy, SpawnFails, Spawned, GuardFails
<1>2. CASE SpawnIsBusy
  <2>1. spawnTries' \in 0 .. SpawnRetries /\ secretCall' \in {"spawning", "error"}
        /\ UNCHANGED <<leader, reader, treeGuard>>
    BY <1>1, <1>2, SecretCommandAssumption DEF SpawnIsBusy, SecretCommandTypeOK
  <2>2. QED
    BY <1>1, <2>1
    DEF SecretCommandInv, SecretCommandTypeOK, GuardFollowsCall, TreeStaysDead, TakenIsWhole,
        ValueIsComplete, TreeIsInHand, Over
<1>3. CASE SpawnFails
  BY <1>1, <1>3
  DEF SpawnFails, SecretCommandInv, SecretCommandTypeOK, GuardFollowsCall, TreeStaysDead,
      TakenIsWhole, ValueIsComplete, TreeIsInHand, Over
<1>4. CASE GuardFails
  BY <1>1, <1>4
  DEF GuardFails, SecretCommandInv, SecretCommandTypeOK, GuardFollowsCall, TreeStaysDead,
      TakenIsWhole, ValueIsComplete, TreeIsInHand, Over
<1>5. CASE Spawned
  <2>1. SecretCommandTypeOK' /\ GuardFollowsCall'
    BY <1>1, <1>5 DEF Spawned, SecretCommandTypeOK, GuardFollowsCall
  <2>2. TreeStaysDead' /\ ValueIsComplete' /\ TreeIsInHand'
    BY <1>1, <1>5 DEF Spawned, TreeStaysDead, ValueIsComplete, TreeIsInHand, Over
  <2>3. TakenIsWhole'
    <3>1. taken = {}
      BY <1>1 DEF GuardFollowsCall
    <3>2. QED
      BY <1>1, <3>1 DEF TakenIsWhole
  <2>4. QED
    BY <2>1, <2>2, <2>3 DEF SecretCommandInv
<1>6. QED
  BY <1>2, <1>3, <1>4, <1>5

\* A reader task ends: what was read to its end stays so.
LEMMA ReaderEndsInv ==
    ASSUME SecretCommandInv, NEW s \in Streams, PipeEnds(s) \/ ReaderStops(s)
    PROVE  SecretCommandInv'
<1>1. /\ reader[s] = "reading"
      /\ \E end \in {"whole", "cut", "failed"} : reader' = [reader EXCEPT ![s] = end]
      /\ UNCHANGED <<secretCall, spawnTries, leader, helper, taken, sawExit, treeGuard,
                     retriesLeft, ward>>
  BY DEF PipeEnds, ReaderStops
<1>2. /\ reader' \in [Streams -> {"absent", "reading", "whole", "cut", "failed", "aborted"}]
      /\ \A t \in Streams : reader[t] = "whole" => reader'[t] = "whole"
  BY <1>1 DEF SecretCommandInv, SecretCommandTypeOK
<1>3. SecretCommandTypeOK' /\ GuardFollowsCall'
  BY <1>1, <1>2 DEF SecretCommandInv, SecretCommandTypeOK, GuardFollowsCall
<1>4. TreeStaysDead' /\ TreeIsInHand'
  BY <1>1 DEF SecretCommandInv, TreeStaysDead, TreeIsInHand, Alive
<1>5. TakenIsWhole' /\ ValueIsComplete'
  <2>1. taken \subseteq Streams
    BY DEF SecretCommandInv, SecretCommandTypeOK
  <2>2. QED
    BY <1>1, <1>2, <2>1 DEF SecretCommandInv, TakenIsWhole, ValueIsComplete
<1>6. QED
  BY <1>3, <1>4, <1>5 DEF SecretCommandInv

\* A pass of the worker; no helper is hidden from its last.
LEMMA RetryKillInv == ASSUME SecretCommandInv, RetryKill PROVE SecretCommandInv'
<1>1. /\ retriesLeft > 0 /\ retriesLeft' = retriesLeft - 1 /\ KillPass
      /\ retriesLeft = 1 => \A h \in Helpers : helper[h] # "hidden"
      /\ UNCHANGED <<secretCall, spawnTries, reader, taken, sawExit, treeGuard, ward>>
      /\ SecretCommandTypeOK /\ GuardFollowsCall /\ TreeStaysDead /\ TakenIsWhole /\ ValueIsComplete
  BY DEF RetryKill, SecretCommandInv
<1>2. retriesLeft \in Nat /\ retriesLeft' \in 0 .. CleanupRetries
  BY <1>1, SecretCommandAssumption DEF SecretCommandTypeOK
<1>3. ward # "none" /\ treeGuard = "gone" /\ leader # "running"
  BY <1>1, <1>2 DEF GuardFollowsCall, SecretCommandTypeOK
<1>4. leader' = leader /\ helper' \in [Helpers -> {"absent", "hidden", "seen", "dead"}]
      /\ \A h \in Helpers : helper'[h] = IF helper[h] = "seen" THEN "dead" ELSE helper[h]
  BY <1>1, <1>3, KillPassDoes
<1>5. SecretCommandTypeOK'
  BY <1>1, <1>2, <1>4 DEF SecretCommandTypeOK
<1>6. GuardFollowsCall'
  BY <1>1, <1>3, <1>4 DEF GuardFollowsCall
<1>7. TreeStaysDead'
  <2>1. CASE ward = "initiated"
    BY <1>1, <1>4, <2>1 DEF TreeStaysDead, Alive
  <2>2. CASE ward = "retried" /\ retriesLeft' = 0
    <3>1. retriesLeft = 1
      BY <1>1, <1>2, <2>2
    <3>2. QED
      BY <1>1, <1>4, <3>1 DEF TreeStaysDead, Alive
  <2>3. QED
    BY <1>1, <2>1, <2>2 DEF TreeStaysDead
<1>8. TakenIsWhole' /\ ValueIsComplete'
  BY <1>1, <1>4 DEF TakenIsWhole, ValueIsComplete
<1>9. QED
  BY <1>1, <1>3, <1>5, <1>6, <1>7, <1>8, OverIsInHand DEF SecretCommandInv

\* The call is given up: what it guarded is dead before it waits for it.
LEMMA GivesUpInv ==
    ASSUME SecretCommandInv, secretCall = "selecting", secretCall' = "reaping", KillChild,
           UNCHANGED <<spawnTries, reader, sawExit>>, taken' \subseteq Streams
    PROVE  SecretCommandInv'
<1>1. SecretCommandTypeOK /\ GuardFollowsCall /\ treeGuard # "none"
  BY DEF SecretCommandInv, GuardFollowsCall
<1>2. SecretCommandTypeOK'
  BY <1>1, KillChildDoes DEF SecretCommandTypeOK
<1>3. GuardFollowsCall'
  BY <1>1, KillChildDoes DEF GuardFollowsCall
<1>4. TreeStaysDead' /\ treeGuard' = "gone"
  BY <1>1, KillChildDoes
<1>5. QED
  BY <1>2, <1>3, <1>4, OverIsInHand DEF SecretCommandInv, TakenIsWhole, ValueIsComplete

LEMMA SeesExitInv == ASSUME SecretCommandInv, SeesExit PROVE SecretCommandInv'
<1>1. /\ secretCall = "selecting" /\ leader # "running" /\ sawExit' = TRUE
      /\ UNCHANGED <<secretCall, spawnTries, reader, taken>>
      /\ SecretCommandTypeOK /\ GuardFollowsCall /\ TreeStaysDead /\ TakenIsWhole
  BY DEF SeesExit, SecretCommandInv
<1>2. /\ treeGuard' = "gone" /\ leader' = leader /\ ward' # "none"
      /\ helper' \in [Helpers -> {"absent", "hidden", "seen", "dead"}]
      /\ retriesLeft' \in 0 .. CleanupRetries
      /\ ward' \in {"none", "retried", "initiated", "unavailable"}
      /\ TreeStaysDead'
  <2>1. CASE treeGuard = "held"
    BY <1>1, <2>1, StartCleanupDoes DEF SeesExit
  <2>2. CASE treeGuard # "held"
    BY <1>1, <2>2 DEF SeesExit, GuardFollowsCall, SecretCommandTypeOK, TreeStaysDead, Alive
  <2>3. QED
    BY <2>1, <2>2
<1>3. SecretCommandTypeOK' /\ GuardFollowsCall'
  BY <1>1, <1>2 DEF SecretCommandTypeOK, GuardFollowsCall
<1>4. TakenIsWhole' /\ ValueIsComplete'
  BY <1>1 DEF TakenIsWhole, ValueIsComplete
<1>5. QED
  BY <1>2, <1>3, <1>4, OverIsInHand DEF SecretCommandInv

LEMMA TakesOutputInv ==
    ASSUME SecretCommandInv, NEW s \in Streams, TakesOutput(s) PROVE SecretCommandInv'
<1>1. /\ secretCall = "selecting" /\ taken' = taken \cup {s}
      /\ UNCHANGED <<spawnTries, reader, sawExit>>
      /\ taken' \subseteq Streams
  BY DEF TakesOutput, SecretCommandInv, SecretCommandTypeOK
<1>2. CASE reader[s] = "whole"
  <2>1. UNCHANGED <<secretCall, treeGuard, leader, helper, retriesLeft, ward>>
    BY <1>2 DEF TakesOutput
  <2>2. SecretCommandTypeOK' /\ GuardFollowsCall'
    BY <1>1, <2>1 DEF SecretCommandInv, SecretCommandTypeOK, GuardFollowsCall
  <2>3. TreeStaysDead' /\ TreeIsInHand'
    BY <1>1, <2>1 DEF SecretCommandInv, TreeStaysDead, TreeIsInHand, Alive
  <2>4. TakenIsWhole' /\ ValueIsComplete'
    BY <1>1, <1>2, <2>1 DEF SecretCommandInv, TakenIsWhole, ValueIsComplete
  <2>5. QED
    BY <2>2, <2>3, <2>4 DEF SecretCommandInv
<1>3. CASE reader[s] # "whole"
  <2>1. secretCall' = "reaping" /\ KillChild
    BY <1>3 DEF TakesOutput
  <2>2. QED
    BY <1>1, <2>1, GivesUpInv
<1>4. QED
  BY <1>2, <1>3

\* The call that was given up ends when the tool is gone.
LEMMA ReapsInv == ASSUME SecretCommandInv, Reaps PROVE SecretCommandInv'
<1>1. /\ secretCall = "reaping" /\ secretCall' = "error" /\ treeGuard = "gone"
      /\ taken' = Streams /\ leader # "running"
      /\ reader' = [s \in Streams |->
                      IF s \notin taken /\ reader[s] = "reading" THEN "aborted" ELSE reader[s]]
      /\ UNCHANGED <<spawnTries, leader, helper, sawExit, treeGuard, retriesLeft, ward>>
      /\ SecretCommandTypeOK /\ GuardFollowsCall /\ TreeStaysDead
  BY DEF Reaps, SecretCommandInv, GuardFollowsCall
<1>2. reader' \in [Streams -> {"absent", "reading", "whole", "cut", "failed", "aborted"}]
  BY <1>1 DEF SecretCommandTypeOK
<1>3. SecretCommandTypeOK'
  BY <1>1, <1>2 DEF SecretCommandTypeOK, Over
<1>4. GuardFollowsCall'
  BY <1>1 DEF GuardFollowsCall
<1>5. TreeStaysDead'
  BY <1>1 DEF TreeStaysDead, Alive
<1>6. QED
  BY <1>1, <1>3, <1>4, <1>5, OverIsInHand DEF SecretCommandInv, TakenIsWhole, ValueIsComplete

\* A value is given out only here, behind the exit and both ends of the pipes.
LEMMA FinishesInv == ASSUME SecretCommandInv, Finishes PROVE SecretCommandInv'
<1>1. /\ secretCall = "selecting" /\ sawExit /\ taken = Streams
      /\ secretCall' \in {"value", "error"} /\ (secretCall' = "value" => leader = "ok")
      /\ UNCHANGED <<spawnTries, leader, helper, reader, taken, sawExit, treeGuard,
                     retriesLeft, ward>>
      /\ SecretCommandTypeOK /\ GuardFollowsCall /\ TreeStaysDead /\ TakenIsWhole
  BY DEF Finishes, SecretCommandInv
<1>2. treeGuard = "gone"
  BY <1>1 DEF GuardFollowsCall, SecretCommandTypeOK
<1>3. SecretCommandTypeOK' /\ GuardFollowsCall'
  BY <1>1, <1>2 DEF SecretCommandTypeOK, GuardFollowsCall, Over
<1>4. TreeStaysDead'
  BY <1>1 DEF TreeStaysDead, Alive
<1>5. TakenIsWhole' /\ ValueIsComplete'
  BY <1>1 DEF TakenIsWhole, ValueIsComplete
<1>6. QED
  BY <1>1, <1>2, <1>3, <1>4, <1>5, OverIsInHand DEF SecretCommandInv

\* A future that is dropped leaves its tree to the guard's drop.
LEMMA CallDroppedInv == ASSUME SecretCommandInv, CallDropped PROVE SecretCommandInv'
<1>1. /\ secretCall \in {"spawning", "selecting", "reaping"} /\ secretCall' = "dropped"
      /\ taken' = Streams /\ UNCHANGED <<spawnTries, reader, sawExit>>
      /\ SecretCommandTypeOK /\ GuardFollowsCall /\ TreeStaysDead
  BY DEF CallDropped, SecretCommandInv
<1>2. CASE treeGuard = "held"
  <2>1. StartCleanup
    BY <1>2 DEF CallDropped
  <2>2. SecretCommandTypeOK' /\ GuardFollowsCall' /\ TreeStaysDead' /\ treeGuard' = "gone"
    BY <1>1, <2>1, StartCleanupDoes DEF SecretCommandTypeOK, GuardFollowsCall, Over
  <2>3. QED
    BY <1>1, <2>2, OverIsInHand DEF SecretCommandInv, TakenIsWhole, ValueIsComplete
<1>3. CASE treeGuard # "held"
  <2>1. UNCHANGED <<treeGuard, leader, helper, retriesLeft, ward>>
    BY <1>3 DEF CallDropped
  <2>2. SecretCommandTypeOK' /\ GuardFollowsCall'
    BY <1>1, <1>3, <2>1 DEF SecretCommandTypeOK, GuardFollowsCall, Over
  <2>3. TreeStaysDead'
    BY <1>1, <2>1 DEF TreeStaysDead, Alive
  <2>4. treeGuard' = "none" \/ treeGuard' = "gone"
    BY <1>1, <1>3, <2>1 DEF SecretCommandTypeOK
  <2>5. QED
    BY <1>1, <2>2, <2>3, <2>4, OverIsInHand DEF SecretCommandInv, TakenIsWhole, ValueIsComplete
<1>4. QED
  BY <1>2, <1>3

LEMMA CommandStepInv == SecretCommandInv /\ [SecretCommandNext]_secretVars => SecretCommandInv'
<1> SUFFICES ASSUME SecretCommandInv, [SecretCommandNext]_secretVars PROVE SecretCommandInv'
  OBVIOUS
<1>1. helper \in [Helpers -> {"absent", "hidden", "seen", "dead"}]
      /\ leader \in {"absent", "running", "ok", "bad", "killed"} /\ taken \subseteq Streams
  BY DEF SecretCommandInv, SecretCommandTypeOK
<1>2. CASE SpawnIsBusy \/ SpawnFails \/ Spawned \/ GuardFails
  BY <1>2, SpawnInv
<1>3. CASE LeaderExits
  BY <1>1, <1>3, ProcessesMoveInv DEF LeaderExits, Alive
<1>4. CASE RetryKill
  BY <1>4, RetryKillInv
<1>5. CASE SeesExit
  BY <1>5, SeesExitInv
<1>6. CASE WaitFails \/ Deadline
  BY <1>1, <1>6, GivesUpInv DEF WaitFails, Deadline
<1>7. CASE Reaps \/ Finishes \/ CallDropped
  BY <1>7, ReapsInv, FinishesInv, CallDroppedInv
<1>8. ASSUME NEW h \in Helpers, HelperMoves(h) \/ HelperIsSeen(h) PROVE SecretCommandInv'
  <2>1. UNCHANGED <<secretCall, spawnTries, leader, reader, taken, sawExit, treeGuard,
                    retriesLeft, ward>>
    BY <1>8 DEF HelperMoves, HelperIsSeen
  <2>2. helper' \in [Helpers -> {"absent", "hidden", "seen", "dead"}]
    BY <1>1, <1>8 DEF HelperMoves, HelperIsSeen
  <2>3. leader # "running" /\ (\A g \in Helpers : ~Alive(g)) => \A g \in Helpers : ~Alive(g)'
    BY <1>1, <1>8 DEF HelperMoves, HelperIsSeen, Alive
  <2>4. QED
    BY <1>1, <2>1, <2>2, <2>3, ProcessesMoveInv
<1>9. ASSUME NEW s \in Streams, PipeEnds(s) \/ ReaderStops(s) \/ TakesOutput(s)
      PROVE  SecretCommandInv'
  BY <1>9, ReaderEndsInv, TakesOutputInv
<1>10. CASE UNCHANGED secretVars
  BY <1>1, <1>10, ProcessesMoveInv DEF secretVars, Alive
<1>11. QED
  BY <1>2, <1>3, <1>4, <1>5, <1>6, <1>7, <1>8, <1>9, <1>10 DEF SecretCommandNext

\* In whatever order the exit, the ends of the pipes, the deadline, the drop and the passes of
\* the worker come: a value is whole and of a tool that succeeded, and a call that is over has
\* killed its tool, and its helpers or seen to it that they are.
THEOREM CommandStaysInHand == SecretCommandSpec => []CommandIsInHand
<1>1. SecretCommandInv => CommandIsInHand
  BY DEF SecretCommandInv, CommandIsInHand
<1>2. QED
  BY <1>1, CommandInitInv, CommandStepInv, PTL DEF SecretCommandSpec

-----------------------------------------------------------------------------
(***************************************************************************)
(* The cache of the resolver.                                              *)
(***************************************************************************)

LEMMA TimesAre ==
    /\ Times \subseteq Nat /\ NoTime \in Nat /\ NoTime \notin Times /\ Ttl \in Nat
    /\ NoKey \notin Lookups /\ NoKey \notin CacheKeys
BY SecretCacheAssumption DEF Times, NoTime

LEMMA CacheInitInv == SecretCacheInit => SecretCacheInv
<1> SUFFICES ASSUME SecretCacheInit PROVE SecretCacheInv
  OBVIOUS
<1>1. 0 \in Times
  BY SecretCacheAssumption DEF Times
<1>2. None \in [key : CacheKeys \cup {NoKey}, at : Times \cup {NoTime}]
  BY DEF None
<1>3. LookupsTyped
  BY <1>1, <1>2 DEF SecretCacheInit, LookupsTyped
<1>4. LeadersFill
  BY DEF SecretCacheInit, LeadersFill
<1>5. HintsAreFresh /\ AnswerFitsCall
  BY DEF SecretCacheInit, HintsAreFresh, AnswerFitsCall
<1>6. QED
  BY <1>3, <1>4, <1>5 DEF SecretCacheInv

\* What is left of the entries has not expired.
LEMMA PrunedIsFresh ==
    ASSUME SecretCacheInv
    PROVE  /\ Pruned \in [CacheKeys -> Times \cup {NoTime}]
           /\ \A c \in Lookups, k \in CacheKeys : Pruned[k] # NoTime => FreshFor(c, Pruned[k])
<1>1. LookupsTyped /\ HintsAreFresh
  BY DEF SecretCacheInv
<1>2. Pruned \in [CacheKeys -> Times \cup {NoTime}]
  BY <1>1 DEF LookupsTyped, Pruned
<1>3. ASSUME NEW c \in Lookups, NEW k \in CacheKeys, Pruned[k] # NoTime
      PROVE  FreshFor(c, Pruned[k])
  <2>1. Pruned[k] = cached[k] /\ ~Expired(k)
    BY <1>3 DEF Pruned
  <2>2. cached[k] \in Nat /\ clock \in Nat /\ began[c] \in Nat /\ began[c] <= clock
    BY <1>1, <1>3, TimesAre DEF LookupsTyped, HintsAreFresh
  <2>3. ~(clock - cached[k] >= Ttl)
    BY <1>3, <2>1 DEF Expired
  <2>4. began[c] - cached[k] < Ttl
    BY <2>2, <2>3, TimesAre
  <2>5. QED
    BY <2>1, <2>4 DEF FreshFor
<1>4. QED
  BY <1>2, <1>3

\* A step of one call in which no answer is given: who leads and who waits stays.
LEMMA CallMovesInv ==
    ASSUME SecretCacheInv, NEW c \in Lookups,
           lookupPc[c] \in {"idle", "starting", "preparing", "direct", "waiting", "looking"},
           NEW to \in {"starting", "preparing", "looking", "direct", "done"},
           lookupPc' = [lookupPc EXCEPT ![c] = to], LookupsTyped',
           UNCHANGED <<clock, inflight, answer>>,
           \A d \in Lookups \ {c} :
               /\ hintedAt'[d] = hintedAt[d] /\ key'[d] = key[d] /\ leaderOf'[d] = leaderOf[d]
               /\ began'[d] = began[d],
           to = "looking" => key'[c] \in CacheKeys,
           began'[c] <= clock, hintedAt'[c] # NoTime => FreshFor(c, hintedAt[c])'
    PROVE  SecretCacheInv'
<1>1. LookupsTyped /\ LeadersFill /\ HintsAreFresh /\ AnswerFitsCall
  BY DEF SecretCacheInv
<1>2. \A d \in Lookups : lookupPc'[d] = IF d = c THEN to ELSE lookupPc[d]
  BY <1>1 DEF LookupsTyped
<1>3. LeadersFill'
  <2>1. ASSUME NEW k \in CacheKeys, inflight'[k] # NoKey
        PROVE  lookupPc'[inflight'[k]] = "filling" /\ key'[inflight'[k]] = k
    <3>1. inflight[k] \in Lookups /\ lookupPc[inflight[k]] = "filling" /\ key[inflight[k]] = k
      BY <1>1, <2>1 DEF LookupsTyped, LeadersFill
    <3>2. inflight[k] # c
      BY <3>1
    <3>3. QED
      BY <1>2, <3>1, <3>2
  <2>2. ASSUME NEW d \in Lookups
        PROVE  /\ lookupPc'[d] \in {"looking", "filling"} => key'[d] \in CacheKeys
               /\ lookupPc'[d] = "filling" => inflight'[key'[d]] = d
               /\ lookupPc'[d] = "waiting" =>
                     leaderOf'[d] \in Lookups /\ lookupPc'[leaderOf'[d]] \in {"filling", "telling"}
    <3>1. CASE d = c
      BY <1>2, <3>1
    <3>2. CASE d # c
      <4>1. lookupPc'[d] = lookupPc[d] /\ key'[d] = key[d] /\ leaderOf'[d] = leaderOf[d]
        BY <1>2, <3>2
      <4>2. lookupPc[d] = "waiting" => leaderOf[d] # c
        BY <1>1 DEF LeadersFill
      <4>3. QED
        BY <1>1, <1>2, <4>1, <4>2 DEF LeadersFill
    <3>3. QED
      BY <3>1, <3>2
  <2>3. QED
    BY <2>1, <2>2 DEF LeadersFill
<1>4. answer[c] = None
  BY <1>1 DEF HintsAreFresh
<1>5. HintsAreFresh'
  <2>1. ASSUME NEW d \in Lookups
        PROVE  /\ began'[d] <= clock'
               /\ hintedAt'[d] # NoTime => FreshFor(d, hintedAt[d])'
               /\ lookupPc'[d] = "idle" => hintedAt'[d] = NoTime
               /\ lookupPc'[d] \notin {"telling", "done"} => answer'[d] = None
    <3>1. CASE d = c
      BY <1>2, <1>4, <3>1
    <3>2. CASE d # c
      BY <1>1, <1>2, <3>2 DEF HintsAreFresh, FreshFor
    <3>3. QED
      BY <3>1, <3>2
  <2>2. QED
    BY <2>1 DEF HintsAreFresh
<1>6. AnswerFitsCall'
  BY <1>1, <1>4 DEF AnswerFitsCall
<1>7. QED
  BY <1>3, <1>5, <1>6 DEF SecretCacheInv

LEMMA BeginsInv == ASSUME SecretCacheInv, NEW c \in Lookups, Begins(c) PROVE SecretCacheInv'
<1>1. /\ lookupPc[c] = "idle" /\ lookupPc' = [lookupPc EXCEPT ![c] = "starting"]
      /\ began' = [began EXCEPT ![c] = clock]
      /\ UNCHANGED <<clock, cached, inflight, hinted, hintedAt, key, leaderOf, answer>>
      /\ LookupsTyped /\ HintsAreFresh
  BY DEF Begins, SecretCacheInv
<1>2. LookupsTyped'
  BY <1>1 DEF LookupsTyped
<1>3. \A d \in Lookups : began'[d] = IF d = c THEN clock ELSE began[d]
  BY <1>1 DEF LookupsTyped
<1>4. clock \in Nat /\ clock <= clock /\ hintedAt'[c] = NoTime
  BY <1>1, TimesAre DEF LookupsTyped, HintsAreFresh
<1>5. QED
  BY <1>1, <1>2, <1>3, <1>4, CallMovesInv

\* The value under the hint is fresh when it is read, and so it stays for this call.
LEMMA HintsInv == ASSUME SecretCacheInv, NEW c \in Lookups, Hints(c) PROVE SecretCacheInv'
<1>1. /\ lookupPc[c] = "starting" /\ lookupPc' = [lookupPc EXCEPT ![c] = "preparing"]
      /\ UNCHANGED <<clock, inflight, key, leaderOf, began, answer>>
      /\ LookupsTyped /\ HintsAreFresh
  BY DEF Hints, SecretCacheInv
<1>2. PICK k \in HintsOf[c] :
          /\ hinted' = [hinted EXCEPT ![c] = k]
          /\ IF k = NoKey
               THEN hintedAt' = [hintedAt EXCEPT ![c] = NoTime] /\ UNCHANGED cached
               ELSE hintedAt' = [hintedAt EXCEPT ![c] = Pruned[k]] /\ cached' = Pruned
  BY DEF Hints
<1>3. k \in CacheKeys \cup {NoKey}
  BY SecretCacheAssumption
<1>4. PICK at \in Times \cup {NoTime} :
          /\ hintedAt' = [hintedAt EXCEPT ![c] = at]
          /\ at # NoTime => FreshFor(c, at)
  BY <1>2, <1>3, PrunedIsFresh
<1>5. cached' \in [CacheKeys -> Times \cup {NoTime}]
  BY <1>1, <1>2, <1>3, PrunedIsFresh DEF LookupsTyped
<1>6. LookupsTyped'
  BY <1>1, <1>2, <1>3, <1>4, <1>5 DEF LookupsTyped
<1>7. \A d \in Lookups : hintedAt'[d] = IF d = c THEN at ELSE hintedAt[d]
  BY <1>1, <1>4 DEF LookupsTyped
<1>8. began'[c] <= clock /\ (hintedAt'[c] # NoTime => FreshFor(c, hintedAt[c])')
  BY <1>1, <1>4, <1>7 DEF HintsAreFresh, FreshFor
<1>9. QED
  BY <1>1, <1>6, <1>7, <1>8, CallMovesInv

LEMMA PreparesInv == ASSUME SecretCacheInv, NEW c \in Lookups, Prepares(c) PROVE SecretCacheInv'
<1>1. PICK k \in KeysOf[c] :
          /\ key' = [key EXCEPT ![c] = k]
          /\ lookupPc' = [lookupPc EXCEPT ![c] = IF k = NoKey THEN "direct" ELSE "looking"]
  BY DEF Prepares
<1>2. /\ lookupPc[c] = "preparing"
      /\ UNCHANGED <<clock, cached, inflight, hinted, hintedAt, leaderOf, began, answer>>
      /\ LookupsTyped /\ HintsAreFresh
  BY DEF Prepares, SecretCacheInv
<1>3. k \in CacheKeys \cup {NoKey}
  BY SecretCacheAssumption
<1>4. LookupsTyped'
  BY <1>1, <1>2, <1>3 DEF LookupsTyped
<1>5. \A d \in Lookups : key'[d] = IF d = c THEN k ELSE key[d]
  BY <1>1, <1>2 DEF LookupsTyped
<1>6. began'[c] <= clock /\ (hintedAt'[c] # NoTime => FreshFor(c, hintedAt[c])')
  BY <1>2 DEF HintsAreFresh, FreshFor
<1>7. PICK to \in {"looking", "direct"} :
          lookupPc' = [lookupPc EXCEPT ![c] = to] /\ (to = "looking" => k \in CacheKeys)
  BY <1>1, <1>3
<1>8. QED
  BY <1>2, <1>4, <1>5, <1>6, <1>7, CallMovesInv

LEMMA EndsAloneInv == ASSUME SecretCacheInv, NEW c \in Lookups, EndsAlone(c) PROVE SecretCacheInv'
<1>1. /\ lookupPc[c] \in {"starting", "preparing", "direct", "waiting"}
      /\ lookupPc' = [lookupPc EXCEPT ![c] = "done"]
      /\ leaderOf' = [leaderOf EXCEPT ![c] = NoKey]
      /\ UNCHANGED <<clock, cached, inflight, hinted, hintedAt, key, began, answer>>
      /\ LookupsTyped /\ HintsAreFresh
  BY DEF EndsAlone, SecretCacheInv
<1>2. LookupsTyped' /\ \A d \in Lookups \ {c} : leaderOf'[d] = leaderOf[d]
  BY <1>1 DEF LookupsTyped
<1>3. began'[c] <= clock /\ (hintedAt'[c] # NoTime => FreshFor(c, hintedAt[c])')
  BY <1>1 DEF HintsAreFresh, FreshFor
<1>4. QED
  BY <1>1, <1>2, <1>3, CallMovesInv

\* A call that is looking gets its answer, of its own key and fresh for it.
LEMMA AnsweredInv ==
    ASSUME SecretCacheInv, NEW c \in Lookups, lookupPc[c] = "looking",
           NEW at \in Times, FreshFor(c, at),
           lookupPc' = [lookupPc EXCEPT ![c] = "done"],
           answer' = [answer EXCEPT ![c] = [key |-> key[c], at |-> at]],
           cached' \in [CacheKeys -> Times \cup {NoTime}],
           UNCHANGED <<clock, inflight, hinted, hintedAt, key, leaderOf, began>>
    PROVE  SecretCacheInv'
<1>1. LookupsTyped /\ LeadersFill /\ HintsAreFresh /\ AnswerFitsCall
  BY DEF SecretCacheInv
<1> DEFINE given == [key |-> key[c], at |-> at]
<1>2. given \in [key : CacheKeys \cup {NoKey}, at : Times \cup {NoTime}]
      /\ given.key = key[c] /\ given.at = at
  BY <1>1 DEF LookupsTyped
<1> HIDE DEF given
<1>3. answer' = [answer EXCEPT ![c] = given]
  BY DEF given
<1>4. LookupsTyped'
  BY <1>1, <1>2, <1>3 DEF LookupsTyped
<1>5. /\ \A d \in Lookups : lookupPc'[d] = IF d = c THEN "done" ELSE lookupPc[d]
      /\ \A d \in Lookups : answer'[d] = IF d = c THEN given ELSE answer[d]
  BY <1>1, <1>3 DEF LookupsTyped
<1>6. LeadersFill'
  <2>1. \A k \in CacheKeys : inflight[k] # NoKey => inflight[k] \in Lookups \ {c}
    BY <1>1 DEF LookupsTyped, LeadersFill
  <2>2. \A d \in Lookups : lookupPc[d] = "waiting" => leaderOf[d] \in Lookups \ {c}
    BY <1>1 DEF LeadersFill
  <2>3. QED
    BY <1>1, <1>5, <2>1, <2>2 DEF LeadersFill
<1>7. HintsAreFresh'
  BY <1>1, <1>5 DEF HintsAreFresh, FreshFor
<1>8. AnswerFitsCall'
  BY <1>1, <1>2, <1>5 DEF AnswerFitsCall, FreshFor
<1>9. QED
  BY <1>4, <1>6, <1>7, <1>8 DEF SecretCacheInv

LEMMA AnswersFromHintInv ==
    ASSUME SecretCacheInv, NEW c \in Lookups, AnswersFromHint(c) PROVE SecretCacheInv'
<1>1. /\ lookupPc[c] = "looking" /\ hinted[c] = key[c] /\ hintedAt[c] # NoTime
      /\ lookupPc' = [lookupPc EXCEPT ![c] = "done"]
      /\ answer' = [answer EXCEPT ![c] = [key |-> key[c], at |-> hintedAt[c]]]
      /\ UNCHANGED <<clock, cached, inflight, hinted, hintedAt, key, leaderOf, began>>
  BY DEF AnswersFromHint, HintHolds
<1>2. hintedAt[c] \in Times /\ FreshFor(c, hintedAt[c]) /\ cached' \in [CacheKeys -> Times \cup {NoTime}]
  BY <1>1 DEF SecretCacheInv, LookupsTyped, HintsAreFresh
<1>3. QED
  BY <1>1, <1>2, AnsweredInv

\* The one critical section of a look-up: an answer, a leader to wait for, or the lead.
LEMMA LooksUpInv == ASSUME SecretCacheInv, NEW c \in Lookups, LooksUp(c) PROVE SecretCacheInv'
<1> DEFINE k == key[c]
<1>1. LookupsTyped /\ LeadersFill /\ HintsAreFresh /\ AnswerFitsCall
  BY DEF SecretCacheInv
<1>2. lookupPc[c] = "looking" /\ k \in CacheKeys /\ cached' \in [CacheKeys -> Times \cup {NoTime}]
  BY <1>1, PrunedIsFresh DEF LooksUp, LeadersFill
<1>3. UNCHANGED <<clock, hinted, hintedAt, key, began>> /\ answer[c] = None
  BY <1>1, <1>2 DEF LooksUp, HintsAreFresh
<1>4. CASE Pruned[k] # NoTime
  <2>1. /\ lookupPc' = [lookupPc EXCEPT ![c] = "done"]
        /\ answer' = [answer EXCEPT ![c] = [key |-> key[c], at |-> Pruned[k]]]
        /\ UNCHANGED <<inflight, leaderOf>>
    BY <1>4 DEF LooksUp, Answers
  <2>2. Pruned[k] \in Times /\ FreshFor(c, Pruned[k])
    BY <1>2, <1>4, PrunedIsFresh
  <2>3. QED
    BY <1>2, <1>3, <2>1, <2>2, AnsweredInv
<1>5. CASE Pruned[k] = NoTime /\ inflight[k] # NoKey
  <2>1. /\ lookupPc' = [lookupPc EXCEPT ![c] = "waiting"]
        /\ leaderOf' = [leaderOf EXCEPT ![c] = inflight[k]]
        /\ UNCHANGED <<inflight, answer>>
    BY <1>5 DEF LooksUp
  <2>2. inflight[k] \in Lookups \ {c} /\ lookupPc[inflight[k]] = "filling"
    BY <1>1, <1>2, <1>5 DEF LookupsTyped, LeadersFill
  <2>3. LookupsTyped'
    BY <1>1, <1>2, <1>3, <2>1, <2>2 DEF LookupsTyped
  <2>4. /\ \A d \in Lookups : lookupPc'[d] = IF d = c THEN "waiting" ELSE lookupPc[d]
        /\ \A d \in Lookups : leaderOf'[d] = IF d = c THEN inflight[k] ELSE leaderOf[d]
    BY <1>1, <2>1 DEF LookupsTyped
  <2>5. LeadersFill'
    <3>1. \A j \in CacheKeys : inflight[j] # NoKey => inflight[j] \in Lookups \ {c}
      BY <1>1, <1>2 DEF LookupsTyped, LeadersFill
    <3>2. \A d \in Lookups : lookupPc[d] = "waiting" => leaderOf[d] \in Lookups \ {c}
      BY <1>1, <1>2 DEF LeadersFill
    <3> HIDE DEF k
    <3>3. QED
      BY <1>1, <1>3, <2>1, <2>2, <2>4, <3>1, <3>2 DEF LeadersFill
  <2>6. HintsAreFresh' /\ AnswerFitsCall'
    BY <1>1, <1>3, <2>1, <2>4 DEF HintsAreFresh, FreshFor, AnswerFitsCall
  <2>7. QED
    BY <2>3, <2>5, <2>6 DEF SecretCacheInv
<1>6. CASE Pruned[k] = NoTime /\ inflight[k] = NoKey
  <2>1. /\ lookupPc' = [lookupPc EXCEPT ![c] = "filling"]
        /\ inflight' = [inflight EXCEPT ![k] = c]
        /\ UNCHANGED <<leaderOf, answer>>
    BY <1>6 DEF LooksUp
  <2>2. LookupsTyped'
    BY <1>1, <1>2, <1>3, <2>1 DEF LookupsTyped
  <2>3. /\ \A d \in Lookups : lookupPc'[d] = IF d = c THEN "filling" ELSE lookupPc[d]
        /\ \A j \in CacheKeys : inflight'[j] = IF j = k THEN c ELSE inflight[j]
    BY <1>1, <2>1 DEF LookupsTyped
  <2>4. LeadersFill'
    <3>1. \A j \in CacheKeys : inflight[j] # NoKey => inflight[j] \in Lookups \ {c}
      BY <1>1, <1>2 DEF LookupsTyped, LeadersFill
    <3>2. \A d \in Lookups : lookupPc[d] = "filling" => key[d] # k
      BY <1>1, <1>6, TimesAre DEF LeadersFill
    <3>3. \A d \in Lookups : lookupPc[d] = "waiting" => leaderOf[d] \in Lookups \ {c}
      BY <1>1, <1>2 DEF LeadersFill
    <3>4. QED
      BY <1>1, <1>2, <1>3, <2>1, <2>3, <3>1, <3>2, <3>3 DEF LeadersFill
  <2>5. HintsAreFresh' /\ AnswerFitsCall'
    BY <1>1, <1>3, <2>1, <2>3 DEF HintsAreFresh, FreshFor, AnswerFitsCall
  <2>6. QED
    BY <2>2, <2>4, <2>5 DEF SecretCacheInv
<1>7. QED
  BY <1>4, <1>5, <1>6

\* The guard of a fill goes: the key has no leader, and its waiters are still to be told.
LEMMA GuardGoesInv ==
    ASSUME SecretCacheInv, NEW c \in Lookups, lookupPc[c] = "filling",
           inflight' = [inflight EXCEPT ![key[c]] = NoKey],
           lookupPc' = [lookupPc EXCEPT ![c] = "telling"],
           cached' \in [CacheKeys -> Times \cup {NoTime}],
           UNCHANGED <<clock, hinted, hintedAt, key, leaderOf, began>>,
           \/ UNCHANGED answer
           \/ answer' = [answer EXCEPT ![c] = [key |-> key[c], at |-> clock]]
    PROVE  SecretCacheInv'
<1>1. LookupsTyped /\ LeadersFill /\ HintsAreFresh /\ AnswerFitsCall
  BY DEF SecretCacheInv
<1> DEFINE given == [key |-> key[c], at |-> clock]
<1>2. given \in [key : CacheKeys \cup {NoKey}, at : Times \cup {NoTime}]
      /\ given.key = key[c] /\ given.at = clock
  BY <1>1 DEF LookupsTyped
<1>3. key[c] \in CacheKeys /\ inflight[key[c]] = c /\ answer[c] = None
  BY <1>1 DEF LeadersFill, HintsAreFresh
<1>4. UNCHANGED answer \/ answer' = [answer EXCEPT ![c] = given]
  OBVIOUS
<1> HIDE DEF given
<1>5. LookupsTyped'
  <2>1. answer' \in [Lookups -> [key : CacheKeys \cup {NoKey}, at : Times \cup {NoTime}]]
    BY <1>1, <1>2, <1>4 DEF LookupsTyped
  <2>2. QED
    BY <1>1, <2>1 DEF LookupsTyped
<1>6. /\ \A d \in Lookups : lookupPc'[d] = IF d = c THEN "telling" ELSE lookupPc[d]
      /\ \A j \in CacheKeys : inflight'[j] = IF j = key[c] THEN NoKey ELSE inflight[j]
      /\ \A d \in Lookups \ {c} : answer'[d] = answer[d]
      /\ answer'[c] = answer[c] \/ answer'[c] = given
  BY <1>1, <1>4 DEF LookupsTyped
<1>7. LeadersFill'
  <2>1. \A j \in CacheKeys \ {key[c]} : inflight[j] # NoKey => inflight[j] \in Lookups \ {c}
    BY <1>1, <1>3 DEF LookupsTyped, LeadersFill
  <2>2. \A d \in Lookups \ {c} : lookupPc[d] = "filling" => key[d] # key[c]
    BY <1>1, <1>3 DEF LeadersFill
  <2>3. ASSUME NEW j \in CacheKeys, inflight'[j] # NoKey
        PROVE  lookupPc'[inflight'[j]] = "filling" /\ key'[inflight'[j]] = j
    BY <1>1, <1>6, <2>1, <2>3 DEF LeadersFill
  <2>4. ASSUME NEW d \in Lookups
        PROVE  /\ lookupPc'[d] \in {"looking", "filling"} => key'[d] \in CacheKeys
               /\ lookupPc'[d] = "filling" => inflight'[key'[d]] = d
    BY <1>1, <1>6, <2>2 DEF LeadersFill
  <2>5. ASSUME NEW d \in Lookups, lookupPc'[d] = "waiting"
        PROVE  leaderOf'[d] \in Lookups /\ lookupPc'[leaderOf'[d]] \in {"filling", "telling"}
    BY <1>1, <1>6, <2>5 DEF LeadersFill
  <2>6. QED
    BY <2>3, <2>4, <2>5 DEF LeadersFill
<1>8. HintsAreFresh'
  BY <1>1, <1>6 DEF HintsAreFresh, FreshFor
<1>9. AnswerFitsCall'
  <2>1. ASSUME NEW d \in Lookups \ {c}, answer'[d] # None
        PROVE  answer'[d].key = key'[d] /\ (answer'[d].at >= began'[d] \/ began'[d] - answer'[d].at < Ttl)
    BY <1>1, <1>6, <2>1 DEF AnswerFitsCall
  <2>2. ASSUME answer'[c] # None
        PROVE  answer'[c].key = key'[c] /\ answer'[c].at >= began'[c]
    <3>1. answer'[c] = given /\ began[c] <= clock /\ began[c] \in Nat /\ clock \in Nat
      BY <1>1, <1>3, <1>6, <2>2, TimesAre DEF HintsAreFresh, LookupsTyped
    <3>2. QED
      BY <1>2, <3>1
  <2>3. QED
    BY <2>1, <2>2 DEF AnswerFitsCall
<1>10. QED
  BY <1>5, <1>7, <1>8, <1>9 DEF SecretCacheInv

LEMMA FillsInv == ASSUME SecretCacheInv, NEW c \in Lookups, Fills(c) PROVE SecretCacheInv'
<1> DEFINE filed == [Pruned EXCEPT ![key[c]] = clock]
           oldest == Head(Touch(PrunedLru, key[c]))
<1>1. cached' = filed \/ cached' = [filed EXCEPT ![oldest] = NoTime]
  BY DEF Fills, Insert
<1>2. filed \in [CacheKeys -> Times \cup {NoTime}]
  BY PrunedIsFresh DEF SecretCacheInv, LookupsTyped
<1> HIDE DEF filed, oldest
<1>3. cached' \in [CacheKeys -> Times \cup {NoTime}]
  BY <1>1, <1>2
<1>4. QED
  BY <1>3, GuardGoesInv DEF Fills

LEMMA FillFailsInv == ASSUME SecretCacheInv, NEW c \in Lookups, FillFails(c) PROVE SecretCacheInv'
<1>1. cached' \in [CacheKeys -> Times \cup {NoTime}]
  BY PrunedIsFresh DEF FillFails
<1>2. QED
  BY <1>1, GuardGoesInv DEF FillFails

\* Whoever waited for the leader that tells goes through the loop again.
LEMMA TellsInv == ASSUME SecretCacheInv, NEW c \in Lookups, Tells(c) PROVE SecretCacheInv'
<1> DEFINE listeners == {d \in Lookups : lookupPc[d] = "waiting" /\ leaderOf[d] = c}
<1>1. LookupsTyped /\ LeadersFill /\ HintsAreFresh /\ AnswerFitsCall
  BY DEF SecretCacheInv
<1>2. /\ lookupPc[c] = "telling"
      /\ lookupPc' = [d \in Lookups |-> IF d = c THEN "done"
                                        ELSE IF d \in listeners THEN "starting"
                                        ELSE lookupPc[d]]
      /\ leaderOf' = [d \in Lookups |-> IF d \in listeners THEN NoKey ELSE leaderOf[d]]
      /\ UNCHANGED <<clock, cached, inflight, hinted, hintedAt, key, began, answer>>
  BY DEF Tells
<1>3. /\ \A d \in Lookups : lookupPc'[d] = IF d = c THEN "done"
                                           ELSE IF d \in listeners THEN "starting"
                                           ELSE lookupPc[d]
      /\ \A d \in Lookups : leaderOf'[d] = IF d \in listeners THEN NoKey ELSE leaderOf[d]
      /\ \A d \in listeners : lookupPc[d] = "waiting"
      /\ \A d \in Lookups \ listeners : lookupPc[d] = "waiting" => leaderOf[d] # c
      /\ listeners \subseteq Lookups
  BY <1>2
<1> HIDE DEF listeners
<1>4. LookupsTyped'
  BY <1>1, <1>2 DEF LookupsTyped
<1>5. LeadersFill'
  <2>1. \A d \in Lookups : lookupPc[d] \in {"filling", "looking"} => lookupPc'[d] = lookupPc[d]
    BY <1>2, <1>3
  <2>2. ASSUME NEW j \in CacheKeys, inflight'[j] # NoKey
        PROVE  lookupPc'[inflight'[j]] = "filling" /\ key'[inflight'[j]] = j
    BY <1>1, <1>2, <2>1, <2>2 DEF LeadersFill, LookupsTyped
  <2>3. ASSUME NEW d \in Lookups
        PROVE  /\ lookupPc'[d] \in {"looking", "filling"} => key'[d] \in CacheKeys
               /\ lookupPc'[d] = "filling" => inflight'[key'[d]] = d
    BY <1>1, <1>2, <1>3 DEF LeadersFill
  <2>4. ASSUME NEW d \in Lookups, lookupPc'[d] = "waiting"
        PROVE  leaderOf'[d] \in Lookups /\ lookupPc'[leaderOf'[d]] \in {"filling", "telling"}
    <3>1. d \notin listeners /\ lookupPc[d] = "waiting" /\ leaderOf'[d] = leaderOf[d] /\ leaderOf[d] # c
      BY <1>3, <2>4
    <3>2. leaderOf[d] \in Lookups /\ lookupPc[leaderOf[d]] \in {"filling", "telling"}
      BY <1>1, <3>1 DEF LeadersFill
    <3>3. leaderOf[d] \notin listeners
      BY <1>3, <3>2
    <3>4. QED
      BY <1>3, <3>1, <3>2, <3>3
  <2>5. QED
    BY <2>2, <2>3, <2>4 DEF LeadersFill
<1>6. HintsAreFresh'
  BY <1>1, <1>2, <1>3 DEF HintsAreFresh, FreshFor
<1>7. AnswerFitsCall'
  BY <1>1, <1>2 DEF AnswerFitsCall
<1>8. QED
  BY <1>4, <1>5, <1>6, <1>7 DEF SecretCacheInv

\* What was fresh for a call stays so while the time goes on.
LEMMA ClockTicksInv == ASSUME SecretCacheInv, ClockTicks PROVE SecretCacheInv'
<1>1. /\ clock < MaxClock /\ clock' = clock + 1
      /\ UNCHANGED <<cached, inflight, lookupPc, hinted, hintedAt, key, leaderOf, began, answer>>
      /\ LookupsTyped /\ LeadersFill /\ HintsAreFresh /\ AnswerFitsCall
  BY DEF ClockTicks, SecretCacheInv
<1>2. clock \in Nat /\ clock' \in Times
  BY <1>1, SecretCacheAssumption DEF LookupsTyped, Times
<1>3. LookupsTyped'
  BY <1>1, <1>2 DEF LookupsTyped
<1>4. LeadersFill' /\ AnswerFitsCall'
  BY <1>1 DEF LeadersFill, AnswerFitsCall
<1>5. \A c \in Lookups : began'[c] <= clock'
  <2>1. \A c \in Lookups : began[c] \in Nat /\ began[c] <= clock
    BY <1>1, TimesAre DEF LookupsTyped, HintsAreFresh
  <2>2. QED
    BY <1>1, <1>2, <2>1
<1>6. HintsAreFresh'
  BY <1>1, <1>5 DEF HintsAreFresh, FreshFor
<1>7. QED
  BY <1>3, <1>4, <1>6 DEF SecretCacheInv

LEMMA CacheStepInv == SecretCacheInv /\ [SecretCacheNext]_cacheVars => SecretCacheInv'
<1> SUFFICES ASSUME SecretCacheInv, [SecretCacheNext]_cacheVars PROVE SecretCacheInv'
  OBVIOUS
<1>1. CASE ClockTicks
  BY <1>1, ClockTicksInv
<1>2. ASSUME NEW c \in Lookups,
             \/ Begins(c) \/ Hints(c) \/ Prepares(c) \/ EndsAlone(c)
             \/ AnswersFromHint(c) \/ LooksUp(c) \/ Fills(c) \/ FillFails(c) \/ Tells(c)
      PROVE  SecretCacheInv'
  BY <1>2, BeginsInv, HintsInv, PreparesInv, EndsAloneInv, AnswersFromHintInv, LooksUpInv,
     FillsInv, FillFailsInv, TellsInv
<1>3. CASE UNCHANGED cacheVars
  BY <1>3
  DEF cacheVars, SecretCacheInv, LookupsTyped, LeadersFill, HintsAreFresh, FreshFor,
      AnswerFitsCall
<1>4. QED
  BY <1>1, <1>2, <1>3 DEF SecretCacheNext

-----------------------------------------------------------------------------
(***************************************************************************)
(* Lists of keys without repetition.                                       *)
(***************************************************************************)

\* A list that names the keys of K, each once.
Names(s, K) == s \in Seq(CacheKeys) /\ IsInjective(s) /\ Range(s) = K

\* The same, place by place.
LEMMA NamesByPlace ==
    ASSUME NEW s, NEW K
    PROVE  Names(s, K) <=>
             /\ s \in Seq(CacheKeys)
             /\ \A i, j \in 1..Len(s) : s[i] = s[j] => i = j
             /\ \A i \in 1..Len(s) : s[i] \in K
             /\ \A k \in K : \E i \in 1..Len(s) : s[i] = k
<1>1. s \in Seq(CacheKeys) => DOMAIN s = 1..Len(s)
  OBVIOUS
<1>2. s \in Seq(CacheKeys) => (IsInjective(s) <=> \A i, j \in 1..Len(s) : s[i] = s[j] => i = j)
  BY <1>1 DEF IsInjective
<1>3. s \in Seq(CacheKeys) => Range(s) = {s[i] : i \in 1..Len(s)}
  BY <1>1 DEF Range
<1>4. ASSUME s \in Seq(CacheKeys)
      PROVE  Range(s) = K <=> /\ \A i \in 1..Len(s) : s[i] \in K
                              /\ \A k \in K : \E i \in 1..Len(s) : s[i] = k
  <2>1. Range(s) = {s[i] : i \in 1..Len(s)}
    BY <1>3, <1>4
  <2> DEFINE places == 1..Len(s)
  <2>2. Range(s) = {s[i] : i \in places}
    BY <2>1
  <2> HIDE DEF places
  <2>3. Range(s) = K <=> (\A i \in places : s[i] \in K) /\ \A k \in K : \E i \in places : s[i] = k
    BY <2>2
  <2>4. QED
    BY <2>3 DEF places
<1>5. CASE s \in Seq(CacheKeys)
  <2>1. IsInjective(s) <=> \A i, j \in 1..Len(s) : s[i] = s[j] => i = j
    BY <1>2, <1>5
  <2>2. QED
    BY <1>4, <1>5, <2>1, Zenon DEF Names
<1>6. CASE s \notin Seq(CacheKeys)
  BY <1>6, Zenon DEF Names
<1>7. QED
  BY <1>5, <1>6

LEMMA TailNames ==
    ASSUME NEW s, NEW K, Names(s, K), Len(s) >= 1
    PROVE  /\ Names(Tail(s), K \ {Head(s)}) /\ Len(Tail(s)) = Len(s) - 1
           /\ Head(s) \in K /\ Head(s) \in CacheKeys
<1>1. /\ s \in Seq(CacheKeys)
      /\ \A i, j \in 1..Len(s) : s[i] = s[j] => i = j
      /\ \A i \in 1..Len(s) : s[i] \in K
      /\ \A k \in K : \E i \in 1..Len(s) : s[i] = k
  BY NamesByPlace
<1>2. s # <<>> /\ Head(s) = s[1] /\ 1 \in 1..Len(s) /\ s[1] \in CacheKeys
  BY <1>1
<1> DEFINE t == Tail(s)
<1>3. /\ t \in Seq(CacheKeys) /\ Len(t) = Len(s) - 1
      /\ \A i \in 1..Len(t) : t[i] = s[i + 1]
  BY <1>1, <1>2
<1> HIDE DEF t
<1>4. \A i \in 1..Len(t) : i + 1 \in 1..Len(s) /\ i + 1 # 1
  BY <1>1, <1>3
<1>5. \A i, j \in 1..Len(t) : t[i] = t[j] => i = j
  <2>1. ASSUME NEW i \in 1..Len(t), NEW j \in 1..Len(t), t[i] = t[j]
        PROVE  i = j
    <3>1. i + 1 = j + 1
      BY <1>1, <1>3, <1>4, <2>1
    <3>2. QED
      BY <3>1
  <2>2. QED
    BY <2>1
<1>6. \A i \in 1..Len(t) : t[i] \in K \ {s[1]}
  BY <1>1, <1>2, <1>3, <1>4
<1>7. \A k \in K \ {s[1]} : \E i \in 1..Len(t) : t[i] = k
  <2>1. ASSUME NEW k \in K \ {s[1]}
        PROVE  \E i \in 1..Len(t) : t[i] = k
    <3>1. PICK i \in 1..Len(s) : s[i] = k
      BY <1>1
    <3>2. i - 1 \in 1..Len(t) /\ (i - 1) + 1 = i
      BY <1>1, <1>3, <2>1, <3>1
    <3>3. t[i - 1] = s[(i - 1) + 1]
      BY <1>3, <3>2
    <3>4. QED
      BY <3>1, <3>2, <3>3
  <2>2. QED
    BY <2>1
<1>8. Names(t, K \ {s[1]})
  BY <1>3, <1>5, <1>6, <1>7, NamesByPlace
<1>9. QED
  BY <1>1, <1>2, <1>3, <1>8 DEF t

LEMMA AppendNames ==
    ASSUME NEW s, NEW K, Names(s, K), NEW k \in CacheKeys \ K
    PROVE  Names(Append(s, k), K \cup {k}) /\ Len(Append(s, k)) = Len(s) + 1
<1>1. /\ s \in Seq(CacheKeys)
      /\ \A i, j \in 1..Len(s) : s[i] = s[j] => i = j
      /\ \A i \in 1..Len(s) : s[i] \in K
      /\ \A h \in K : \E i \in 1..Len(s) : s[i] = h
  BY NamesByPlace
<1> DEFINE t == Append(s, k)
<1>2. /\ t \in Seq(CacheKeys) /\ Len(t) = Len(s) + 1 /\ t[Len(s) + 1] = k
      /\ \A i \in 1..Len(s) : t[i] = s[i]
  BY <1>1
<1>3. \A i \in 1..Len(t) : i \in 1..Len(s) \/ i = Len(s) + 1
  BY <1>1, <1>2
<1> HIDE DEF t
<1>4. \A i, j \in 1..Len(t) : t[i] = t[j] => i = j
  BY <1>1, <1>2, <1>3
<1>5. \A i \in 1..Len(t) : t[i] \in K \cup {k}
  BY <1>1, <1>2, <1>3
<1>6. \A h \in K \cup {k} : \E i \in 1..Len(t) : t[i] = h
  <2>1. Len(s) + 1 \in 1..Len(t) /\ 1..Len(s) \subseteq 1..Len(t)
    BY <1>1, <1>2
  <2>2. QED
    BY <1>1, <1>2, <2>1
<1>7. QED
  BY <1>2, <1>4, <1>5, <1>6, NamesByPlace DEF t

\* A key that is touched is the last of the list, which names it once.
LEMMA TouchNames ==
    ASSUME NEW s, NEW K, Names(s, K), NEW k \in CacheKeys
    PROVE  /\ Names(Touch(s, k), K \cup {k})
           /\ Len(Touch(s, k)) = IF k \in K THEN Len(s) ELSE Len(s) + 1
           /\ Len(s) \in Nat
<1>1. /\ s \in Seq(CacheKeys) /\ Len(s) \in Nat
      /\ \A i, j \in 1..Len(s) : s[i] = s[j] => i = j
      /\ \A i \in 1..Len(s) : s[i] \in K
      /\ \A h \in K : \E i \in 1..Len(s) : s[i] = h
  BY NamesByPlace
<1>2. CASE k \notin K
  <2>1. RemoveFirst(s, k) = s
    BY <1>1, <1>2 DEF RemoveFirst
  <2>2. QED
    BY <1>1, <1>2, <2>1, AppendNames DEF Touch
<1>3. CASE k \in K
  <2>1. PICK p \in 1..Len(s) : s[p] = k
    BY <1>1, <1>3
  <2> DEFINE places == {i \in 1..Len(s) : s[i] = k}
  <2>2. places = {p}
    BY <1>1, <2>1
  <2>3. Min(places) = p
    BY <2>1, <2>2 DEF Min
  <2>4. RemoveFirst(s, k) = RemoveAt(s, p)
    BY <2>1, <2>2, <2>3 DEF RemoveFirst, SelectInSeq
  <2> DEFINE t == RemoveAt(s, p)
  <2>5. /\ t \in Seq(CacheKeys) /\ Len(t) = Len(s) - 1
        /\ \A i \in 1..Len(t) : t[i] = s[IF i < p THEN i ELSE i + 1]
    <3> DEFINE front == SubSeq(s, 1, p - 1)
               back == SubSeq(s, p + 1, Len(s))
    <3>1. front \in Seq(CacheKeys) /\ Len(front) = p - 1 /\ \A i \in 1..(p - 1) : front[i] = s[i]
      BY <1>1, <2>1
    <3>2. /\ back \in Seq(CacheKeys) /\ Len(back) = Len(s) - p
          /\ \A i \in 1..(Len(s) - p) : back[i] = s[i + p]
      BY <1>1, <2>1
    <3>3. t = front \o back
      BY DEF RemoveAt
    <3> HIDE DEF front, back, t
    <3>4. t \in Seq(CacheKeys) /\ Len(t) = Len(s) - 1
      BY <1>1, <2>1, <3>1, <3>2, <3>3
    <3>5. \A i \in 1..Len(t) : i < p => t[i] = s[i]
      BY <1>1, <2>1, <3>1, <3>2, <3>3, <3>4
    <3>6. ASSUME NEW i \in 1..Len(t), ~(i < p)
          PROVE  t[i] = s[i + 1]
      <4>1. t[i] = back[i - (p - 1)]
        <5>1. /\ i \in 1..(Len(front) + Len(back)) /\ ~(i <= Len(front)) /\ Len(front) \in Nat
              /\ Len(front) = p - 1
          BY <1>1, <2>1, <3>1, <3>2, <3>4, <3>6
        <5>2. (front \o back)[i] = back[i - Len(front)]
          BY <3>1, <3>2, <5>1
        <5>3. QED
          BY <3>3, <5>1, <5>2
      <4>2. i - (p - 1) \in 1..(Len(s) - p) /\ (i - (p - 1)) + p = i + 1
        BY <1>1, <2>1, <3>4, <3>6
      <4>3. QED
        BY <3>2, <4>1, <4>2
    <3>7. QED
      BY <3>4, <3>5, <3>6
  <2> HIDE DEF t, places
  <2>6. Names(t, K \ {k})
    <3> DEFINE old(i) == IF i < p THEN i ELSE i + 1
    <3>1. \A i \in 1..Len(t) : old(i) \in 1..Len(s) /\ old(i) # p
      BY <1>1, <2>1, <2>5
    <3>2. \A i, j \in 1..Len(t) : old(i) = old(j) => i = j
      BY <1>1, <2>1, <2>5
    <3>3. \A q \in 1..Len(s) : q # p => \E i \in 1..Len(t) : old(i) = q
      <4>1. ASSUME NEW q \in 1..Len(s), q < p
            PROVE  q \in 1..Len(t) /\ old(q) = q
        BY <1>1, <2>1, <2>5, <4>1
      <4>2. ASSUME NEW q \in 1..Len(s), p < q
            PROVE  q - 1 \in 1..Len(t) /\ old(q - 1) = q
        BY <1>1, <2>1, <2>5, <4>2
      <4> HIDE DEF old
      <4>3. QED
        BY <1>1, <2>1, <4>1, <4>2
    <3>4. \A i \in 1..Len(t) : t[i] = s[old(i)]
      BY <2>5
    <3> HIDE DEF old
    <3>5. \A i, j \in 1..Len(t) : t[i] = t[j] => i = j
      BY <1>1, <3>1, <3>2, <3>4
    <3>6. \A i \in 1..Len(t) : t[i] \in K \ {k}
      BY <1>1, <2>1, <3>1, <3>4
    <3>7. \A h \in K \ {k} : \E i \in 1..Len(t) : t[i] = h
      BY <1>1, <2>1, <3>3, <3>4
    <3>8. QED
      BY <2>5, <3>5, <3>6, <3>7, NamesByPlace
  <2>7. Names(Append(t, k), (K \ {k}) \cup {k}) /\ Len(Append(t, k)) = Len(t) + 1
    BY <2>6, AppendNames
  <2>8. Touch(s, k) = Append(t, k)
    BY <2>4 DEF Touch, t
  <2>9. (K \ {k}) \cup {k} = K \cup {k}
    OBVIOUS
  <2>10. Len(Append(t, k)) = Len(s)
    BY <1>1, <2>5, <2>7
  <2>11. QED
    BY <1>1, <1>3, <2>7, <2>8, <2>9, <2>10
<1>4. QED
  BY <1>2, <1>3

\* The keys that are left are named as before.
LEMMA WithoutNames ==
    ASSUME NEW s, NEW K, Names(s, K), NEW G
    PROVE  /\ Names(Without(s, G), K \ G)
           /\ Len(Without(s, G)) \in Nat /\ Len(Without(s, G)) <= Len(s)
<1>1. /\ s \in Seq(CacheKeys) /\ Len(s) \in Nat
      /\ \A i, j \in 1..Len(s) : s[i] = s[j] => i = j
      /\ \A i \in 1..Len(s) : s[i] \in K
      /\ \A h \in K : \E i \in 1..Len(s) : s[i] = h
  BY NamesByPlace
<1> DEFINE N == Len(s)
           Next1(t, i) == IF s[i] \in G THEN t ELSE Append(t, s[i])
           Leaves(f, n) == f = [i \in 0..n |-> IF i = 0 THEN <<>>
                                               ELSE IF s[i] \in G THEN f[i - 1] ELSE Append(f[i - 1], s[i])]
           Made == {n \in Nat : \E f : Leaves(f, n)}
<1>2. 0 \in Made
  <2> DEFINE g == [i \in 0..0 |-> <<>>]
  <2>1. Leaves(g, 0)
    OBVIOUS
  <2> HIDE DEF g, Leaves
  <2>2. QED
    BY <2>1
<1>3. \A n \in Nat : n \in Made => n + 1 \in Made
  <2> TAKE n \in Nat
  <2> HAVE n \in Made
  <2>1. PICK f : Leaves(f, n)
    OBVIOUS
  <2> DEFINE g == [i \in 0..(n + 1) |-> IF i <= n THEN f[i] ELSE Next1(f[n], n + 1)]
  <2>2. \A i \in 0..(n + 1) : g[i] = IF i = 0 THEN <<>> ELSE Next1(g[i - 1], i)
    <3>1. \A i \in 0..n : f[i] = IF i = 0 THEN <<>> ELSE Next1(f[i - 1], i)
      BY <2>1
    <3> HIDE DEF Next1
    <3>2. \A i \in 0..n : g[i] = f[i]
      OBVIOUS
    <3>3. g[n + 1] = Next1(f[n], n + 1)
      OBVIOUS
    <3> HIDE DEF g
    <3>4. \A i \in 0..n : i # 0 => i - 1 \in 0..n
      OBVIOUS
    <3>5. QED
      BY <3>1, <3>2, <3>3, <3>4
  <2>3. Leaves(g, n + 1)
    BY <2>2
  <2> HIDE DEF g, Leaves
  <2>4. QED
    BY <2>3
<1>4. N \in Made
  <2> HIDE DEF Made
  <2>1. QED
    BY <1>1, <1>2, <1>3, SetInduction
<1> DEFINE left == CHOOSE f : Leaves(f, N)
<1>5. Without(s, G) = left[N]
  BY DEF Without
<1>6. Leaves(left, N)
  <2>1. PICK f : Leaves(f, N)
    BY <1>4
  <2> HIDE DEF Leaves
  <2>2. QED
    BY <2>1
<1> HIDE DEF left
<1> DEFINE Seen(n) == {s[i] : i \in 1..n} \ G
           Fits == {n \in Nat : n <= N => Names(left[n], Seen(n)) /\ Len(left[n]) \in Nat /\ Len(left[n]) <= n}
<1>7. 0 \in Fits
  <2>1. left[0] = <<>>
    BY <1>1, <1>6
  <2>2. Names(<<>>, Seen(0))
    <3>1. <<>> \in Seq(CacheKeys) /\ Len(<<>>) = 0 /\ 1..0 = {} /\ Seen(0) = {}
      OBVIOUS
    <3> HIDE DEF Seen
    <3>2. QED
      BY <3>1, NamesByPlace
  <2>3. QED
    BY <2>1, <2>2
<1>8. \A n \in Nat : n \in Fits => n + 1 \in Fits
  <2> TAKE n \in Nat
  <2> HAVE n \in Fits
  <2> SUFFICES ASSUME n + 1 <= N
               PROVE  /\ Names(left[n + 1], Seen(n + 1))
                      /\ Len(left[n + 1]) \in Nat /\ Len(left[n + 1]) <= n + 1
    OBVIOUS
  <2>1. Names(left[n], Seen(n)) /\ Len(left[n]) \in Nat /\ Len(left[n]) <= n
    BY <1>1
  <2>2. left[n + 1] = Next1(left[n], n + 1)
    <3>1. n + 1 \in 0..N /\ n + 1 # 0 /\ (n + 1) - 1 = n
      BY <1>1
    <3>2. \A i \in 0..N : left[i] = IF i = 0 THEN <<>> ELSE Next1(left[i - 1], i)
      BY <1>6
    <3> HIDE DEF Next1
    <3>3. QED
      BY <3>1, <3>2
  <2>3. s[n + 1] \in CacheKeys /\ s[n + 1] \notin Seen(n)
    BY <1>1
  <2>4. Seen(n + 1) = Seen(n) \cup ({s[n + 1]} \ G)
    <3>1. 1..(n + 1) = (1..n) \cup {n + 1}
      OBVIOUS
    <3>2. QED
      BY <3>1
  <2> HIDE DEF Seen
  <2>5. CASE s[n + 1] \in G
    <3>1. Seen(n + 1) = Seen(n) /\ left[n + 1] = left[n]
      BY <2>2, <2>4, <2>5
    <3>2. QED
      BY <2>1, <3>1
  <2>6. CASE s[n + 1] \notin G
    <3>1. Seen(n + 1) = Seen(n) \cup {s[n + 1]} /\ left[n + 1] = Append(left[n], s[n + 1])
      BY <2>2, <2>4, <2>6
    <3>2. /\ Names(Append(left[n], s[n + 1]), Seen(n) \cup {s[n + 1]})
          /\ Len(Append(left[n], s[n + 1])) = Len(left[n]) + 1
      BY <2>1, <2>3, AppendNames
    <3>3. Len(left[n]) + 1 \in Nat /\ Len(left[n]) + 1 <= n + 1
      BY <2>1
    <3>4. QED
      BY <3>1, <3>2, <3>3
  <2>7. QED
    BY <2>5, <2>6
<1>9. N \in Fits
  <2> HIDE DEF Fits
  <2>1. QED
    BY <1>1, <1>7, <1>8, SetInduction
<1>10. Seen(N) = K \ G
  BY <1>1
<1>11. Names(left[N], Seen(N)) /\ Len(left[N]) \in Nat /\ Len(left[N]) <= N
  BY <1>1, <1>9
<1> HIDE DEF Seen, Fits
<1>12. QED
  BY <1>5, <1>10, <1>11

\* What has expired leaves the list as well.
LEMMA PrunedLruNames ==
    ASSUME LookupsTyped, LruServes
    PROVE  /\ Names(PrunedLru, {k \in CacheKeys : Pruned[k] # NoTime})
           /\ Len(PrunedLru) \in Nat /\ Len(PrunedLru) <= MaxEntries
<1> DEFINE K == {k \in CacheKeys : cached[k] # NoTime}
           G == {k \in CacheKeys : Expired(k)}
<1>1. Names(lru, K) /\ Len(lru) <= MaxEntries /\ MaxEntries \in Nat
  BY SecretCacheAssumption DEF LruServes, LruTracksEntries, Names
<1>2. {k \in CacheKeys : Pruned[k] # NoTime} = K \ G
  BY DEF Pruned, Expired
<1> HIDE DEF K, G
<1>3. /\ Names(Without(lru, G), K \ G)
      /\ Len(Without(lru, G)) \in Nat /\ Len(Without(lru, G)) <= Len(lru)
  BY <1>1, WithoutNames
<1>4. PrunedLru = Without(lru, G)
  BY DEF PrunedLru, G
<1>5. Len(lru) \in Nat
  BY <1>1 DEF Names
<1>6. Len(PrunedLru) <= MaxEntries
  BY <1>1, <1>3, <1>4, <1>5
<1>7. QED
  BY <1>2, <1>3, <1>4, <1>6

\* The list of the next state, when it is the keys of its entries and not too long.
LEMMA NamesServe ==
    ASSUME NEW s, NEW K, Names(s, K), Len(s) <= MaxEntries,
           lru' = s, K = {k \in CacheKeys : cached'[k] # NoTime}
    PROVE  LruServes'
BY DEF LruServes, LruTracksEntries, Names

\* Expiry alone, and the touch of a key that is there.
LEMMA PruneServes ==
    ASSUME LookupsTyped, LruServes, cached' = Pruned,
           \/ lru' = PrunedLru
           \/ \E k \in CacheKeys : Pruned[k] # NoTime /\ lru' = Touch(PrunedLru, k)
    PROVE  LruServes'
<1> DEFINE K == {k \in CacheKeys : Pruned[k] # NoTime}
<1>1. Names(PrunedLru, K) /\ Len(PrunedLru) \in Nat /\ Len(PrunedLru) <= MaxEntries
  BY PrunedLruNames
<1>2. K = {k \in CacheKeys : cached'[k] # NoTime}
  OBVIOUS
<1>3. CASE lru' = PrunedLru
  <2> HIDE DEF K
  <2>1. QED
    BY <1>1, <1>2, <1>3, NamesServe
<1>4. ASSUME NEW k \in CacheKeys, Pruned[k] # NoTime, lru' = Touch(PrunedLru, k)
      PROVE  LruServes'
  <2>1. k \in K /\ K \cup {k} = K
    BY <1>4
  <2> HIDE DEF K
  <2>2. Names(Touch(PrunedLru, k), K) /\ Len(Touch(PrunedLru, k)) = Len(PrunedLru)
    BY <1>1, <1>4, <2>1, TouchNames
  <2>3. QED
    BY <1>1, <1>2, <1>4, <2>2, NamesServe
<1>5. QED
  BY <1>3, <1>4

\* A value is filed and, where there is no room, the oldest goes.
LEMMA InsertServes ==
    ASSUME LookupsTyped, LruServes, NEW k \in CacheKeys, Insert(k)
    PROVE  LruServes'
<1> DEFINE K == {h \in CacheKeys : Pruned[h] # NoTime}
           filed == [Pruned EXCEPT ![k] = clock]
           order == Touch(PrunedLru, k)
           oldest == Head(order)
<1>1. Names(PrunedLru, K) /\ Len(PrunedLru) \in Nat /\ Len(PrunedLru) <= MaxEntries /\ MaxEntries \in Nat \ {0}
  BY PrunedLruNames, SecretCacheAssumption
<1>2. clock # NoTime /\ Pruned \in [CacheKeys -> Times \cup {NoTime}]
  BY TimesAre DEF LookupsTyped, Pruned
<1>3. /\ \A h \in CacheKeys : filed[h] # NoTime <=> h \in K \cup {k}
      /\ DOMAIN filed = CacheKeys
  BY <1>2
<1>4. /\ IF Len(order) > MaxEntries
           THEN cached' = [filed EXCEPT ![oldest] = NoTime] /\ lru' = Tail(order)
           ELSE cached' = filed /\ lru' = order
  BY DEF Insert
<1>5. K \cup {k} \subseteq CacheKeys
  OBVIOUS
<1> HIDE DEF K, filed
<1>6. Names(order, K \cup {k}) /\ Len(order) \in Nat /\ Len(order) <= MaxEntries + 1
  BY <1>1, TouchNames
<1> HIDE DEF order
<1>7. CASE Len(order) > MaxEntries
  <2>1. /\ Names(Tail(order), (K \cup {k}) \ {oldest}) /\ Len(Tail(order)) = Len(order) - 1
        /\ oldest \in CacheKeys
    BY <1>1, <1>6, <1>7, TailNames
  <2>2. Len(Tail(order)) <= MaxEntries
    BY <1>1, <1>6, <2>1
  <2> HIDE DEF oldest
  <2>3. (K \cup {k}) \ {oldest} = {h \in CacheKeys : cached'[h] # NoTime}
    BY <1>3, <1>4, <1>5, <1>7, <2>1
  <2>4. lru' = Tail(order)
    BY <1>4, <1>7
  <2>5. QED
    BY <2>1, <2>2, <2>3, <2>4, NamesServe
<1>8. CASE ~(Len(order) > MaxEntries)
  <2>1. K \cup {k} = {h \in CacheKeys : cached'[h] # NoTime}
    BY <1>3, <1>4, <1>5, <1>8
  <2>2. lru' = order /\ Len(order) <= MaxEntries
    BY <1>1, <1>4, <1>6, <1>8
  <2>3. QED
    BY <1>6, <2>1, <2>2, NamesServe
<1>9. QED
  BY <1>7, <1>8

LEMMA LruStepInv ==
    ASSUME LookupsTyped, LeadersFill, LruServes, [SecretCacheNext]_cacheVars
    PROVE  LruServes'
<1>1. ASSUME UNCHANGED <<cached, lru>>
      PROVE  LruServes'
  BY <1>1 DEF LruServes, LruTracksEntries
<1>2. ASSUME NEW c \in Lookups, Hints(c)
      PROVE  LruServes'
  <2>1. PICK k \in HintsOf[c] :
           IF k = NoKey THEN UNCHANGED <<cached, lru>>
           ELSE /\ cached' = Pruned
                /\ lru' = IF Pruned[k] = NoTime THEN PrunedLru ELSE Touch(PrunedLru, k)
    BY <1>2 DEF Hints
  <2>2. k \in CacheKeys \cup {NoKey}
    BY SecretCacheAssumption
  <2>3. QED
    BY <1>1, <2>1, <2>2, PruneServes
<1>3. ASSUME NEW c \in Lookups, LooksUp(c)
      PROVE  LruServes'
  <2>1. /\ cached' = Pruned /\ key[c] \in CacheKeys
        /\ \/ Pruned[key[c]] # NoTime /\ lru' = Touch(PrunedLru, key[c])
           \/ lru' = PrunedLru
    BY <1>3 DEF LooksUp, LeadersFill
  <2>2. QED
    BY <2>1, PruneServes
<1>4. ASSUME NEW c \in Lookups, Fills(c)
      PROVE  LruServes'
  <2>1. Insert(key[c]) /\ key[c] \in CacheKeys
    BY <1>4 DEF Fills, LeadersFill
  <2>2. QED
    BY <2>1, InsertServes
<1>5. ASSUME NEW c \in Lookups, FillFails(c)
      PROVE  LruServes'
  <2>1. cached' = Pruned /\ lru' = PrunedLru
    BY <1>5 DEF FillFails
  <2>2. QED
    BY <2>1, PruneServes
<1>6. ASSUME NEW c \in Lookups,
             Begins(c) \/ Prepares(c) \/ EndsAlone(c) \/ AnswersFromHint(c) \/ Tells(c)
      PROVE  LruServes'
  <2>1. UNCHANGED <<cached, lru>>
    BY <1>6 DEF Begins, Prepares, EndsAlone, AnswersFromHint, Tells
  <2>2. QED
    BY <1>1, <2>1
<1>7. CASE ClockTicks \/ UNCHANGED cacheVars
  <2>1. UNCHANGED <<cached, lru>>
    BY <1>7 DEF ClockTicks, cacheVars
  <2>2. QED
    BY <1>1, <2>1
<1>8. QED
  BY <1>2, <1>3, <1>4, <1>5, <1>6, <1>7 DEF SecretCacheNext

LEMMA LruInit == SecretCacheInit => LruServes
<1> SUFFICES ASSUME SecretCacheInit PROVE LruServes
  OBVIOUS
<1>1. lru = <<>> /\ Len(<<>>) = 0 /\ 1..0 = {} /\ <<>> \in Seq(CacheKeys) /\ MaxEntries \in Nat
  BY SecretCacheAssumption DEF SecretCacheInit
<1>2. {k \in CacheKeys : cached[k] # NoTime} = {}
  BY DEF SecretCacheInit
<1>3. Names(<<>>, {})
  BY <1>1, NamesByPlace
<1>4. QED
  BY <1>1, <1>2, <1>3 DEF LruServes, LruTracksEntries, Names

\* The list of the cache names what is cached, each key once and no more than there is room for;
\* each key has one resolution at a time and nobody waits for one that is over; and an answer
\* is of the key that was prepared and had not expired when the call began, whatever was hinted
\* and whoever filled, failed or was evicted in between.
THEOREM CacheStaysTrueToItsKeys == SecretCacheSpec => []CacheServesItsKeys
<1>1. SecretCacheInv => LookupsTyped /\ LeadersFill
  BY DEF SecretCacheInv
<1>2. SecretCacheInv => OneFillPerKey
  <2>1. SUFFICES ASSUME SecretCacheInv PROVE OneFillPerKey
    OBVIOUS
  <2>2. LookupsTyped /\ LeadersFill
    BY <2>1, <1>1
  <2>3. QED
    BY <2>2, TimesAre DEF OneFillPerKey, LookupsTyped, LeadersFill
<1>3. SecretCacheInv /\ LruServes => CacheServesItsKeys
  BY <1>2 DEF SecretCacheInv, LruServes, CacheServesItsKeys
<1>4. SecretCacheInv /\ LruServes /\ [SecretCacheNext]_cacheVars => LruServes'
  BY <1>1, LruStepInv
<1>5. QED
  BY <1>3, <1>4, LruInit, CacheInitInv, CacheStepInv, PTL DEF SecretCacheSpec

\* The types of the cache, its list included.
THEOREM CacheTypeCorrect == SecretCacheSpec => []SecretCacheTypeOK
<1>1. SecretCacheInv => LookupsTyped /\ LeadersFill
  BY DEF SecretCacheInv
<1>2. SecretCacheInv /\ LruServes => SecretCacheTypeOK
  BY <1>1 DEF LookupsTyped, LruServes, SecretCacheTypeOK
<1>3. SecretCacheInv /\ LruServes /\ [SecretCacheNext]_cacheVars => LruServes'
  BY <1>1, LruStepInv
<1>4. QED
  BY <1>2, <1>3, LruInit, CacheInitInv, CacheStepInv, PTL DEF SecretCacheSpec

==============================================================================
