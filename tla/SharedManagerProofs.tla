------------------------- MODULE SharedManagerProofs -------------------------
(***************************************************************************)
(* One connection at a time, made as the request asked, and taken away     *)
(* from nobody who uses it, for any number of callers and configurations   *)
(* and any bound on the connections: SharedInv is inductive.               *)
(***************************************************************************)
EXTENDS SharedManager, FiniteSetTheorems, TLAPS

\* A clean-up is of one caller, and leaves none of its own.
LEMMA CleanerFacts ==
    ASSUME NEW t \in Tasks
    PROVE  Cleaner(t) \in Tasks /\ Cleaner(Cleaner(t)) = Cleaner(t)
BY DEF Tasks, Cleaner

\* There are finitely many states, one at least if there is a task.
LEMMA StatesFacts ==
    /\ Cardinality(Tasks) \in Nat /\ States = 1..Cardinality(Tasks) /\ 0 \notin States
    /\ \A t \in Tasks : 1 \in States
<1>1. IsFiniteSet({"call", "cleanup"})
  <2>1. IsFiniteSet({"call"})
    BY FS_Singleton
  <2>2. IsFiniteSet({"call"} \cup {"cleanup"})
    BY <2>1, FS_AddElement
  <2>3. {"call", "cleanup"} = {"call"} \cup {"cleanup"}
    OBVIOUS
  <2>4. QED
    BY <2>2, <2>3
<1>2. IsFiniteSet(Tasks)
  BY <1>1, SharedAssumption, FS_Product DEF Tasks
<1>3. Cardinality(Tasks) \in Nat
  BY <1>2, FS_CardinalityType
<1>4. \A t \in Tasks : Cardinality(Tasks) # 0
  BY <1>2, FS_EmptySet
<1>5. QED
  BY <1>3, <1>4 DEF States

\* server_state_for: what a task without a state gets is what all others have.
LEMMA StateForFacts ==
    ASSUME SharedInv, NEW t \in Tasks, state[t] = 0
    PROVE  /\ StateFor \in States /\ StateFor # 0
           /\ \A u \in Tasks : state[u] # 0 => state[u] = StateFor
<1>1. /\ state \in [Tasks -> States \cup {0}] /\ table \in States \cup {0}
      /\ \A u \in Tasks : state[u] # 0 => state[u] = table
  BY DEF SharedInv, SharedTypeOK, StatesAgree
<1>2. CASE table = 0 \/ table \in Unheld
  <2>1. \A u \in Tasks : state[u] = 0
    BY <1>1, <1>2 DEF Unheld
  <2>2. Unheld = States
    BY <2>1, StatesFacts DEF Unheld
  <2>3. 1 \in Unheld /\ \A r \in Unheld : 1 <= r
    BY <2>2, StatesFacts
  <2>4. StateFor \in Unheld
    BY <1>2, <2>3 DEF StateFor
  <2>5. QED
    BY <2>1, <2>2, <2>4, StatesFacts
<1>3. CASE ~(table = 0 \/ table \in Unheld)
  BY <1>1, <1>3, StatesFacts DEF StateFor
<1>4. QED
  BY <1>2, <1>3

\* A manager that is shared now.
LEMMA SharedInitInv == SharedInit => SharedInv
<1> SUFFICES ASSUME SharedInit PROVE SharedInv
  OBVIOUS
<1> USE SharedAssumption DEF SharedInit
<1>1. madeFor \in Seq(Configs \cup {NoConfig}) /\ Len(madeFor) <= MaxConns /\ conn \in 0..Len(madeFor)
      /\ meta \in Configs \cup {NoConfig} /\ MetaIsTrue
  <2>1. CASE conn = 0
    BY <2>1 DEF MetaIsTrue
  <2>2. CASE conn = 1
    <3>1. madeFor = <<meta>> /\ meta \in Configs \cup {NoConfig}
      BY <2>2
    <3>2. QED
      BY <2>2, <3>1 DEF MetaIsTrue
  <2>3. QED
    BY <2>1, <2>2
<1>2. SharedTypeOK
  BY <1>1 DEF SharedTypeOK, Places, Operations
<1>3. StatesAgree /\ GatesExclude /\ CleanersComeAfter /\ RemovesUnborrowed /\ SleepersWaitForIo
  BY CleanerFacts DEF StatesAgree, GatesExclude, CleanersComeAfter, RemovesUnborrowed, SleepersWaitForIo
<1>4. \A t \in Tasks : HoldsWhatItNeeds(t) /\ KnowsItsConn(t)
  BY DEF HoldsWhatItNeeds, KnowsItsConn, ReadGated, WriteGated, Asking
<1>5. QED
  BY <1>1, <1>2, <1>3, <1>4 DEF SharedInv

\* A step of one task, which leaves to the others what they have and know.
LEMMA TaskMovesInv ==
    ASSUME SharedInv, NEW t \in Tasks, SharedTypeOK', StatesAgree', MetaIsTrue', SleepersWaitForIo',
           HoldsWhatItNeeds(t)', KnowsItsConn(t)',
           pc[t] # "done", t = Cleaner(t) => pc[t] # "idle",
           \A u \in Tasks : u # t =>
              /\ pc'[u] = pc[u] /\ op'[u] = op[u] /\ config'[u] = config[u] /\ state'[u] = state[u]
              /\ gate'[u] = gate[u] /\ io'[u] = io[u] /\ borrowed'[u] = borrowed[u]
              /\ idle[u] # "none" => idle'[u] # "none",
           \A u \in Tasks : u # t =>
              (gate'[t] = "write" => gate[u] = "none") /\ (gate'[t] # "none" => gate[u] # "write"),
           \A i \in 1..Len(madeFor) : madeFor'[i] = madeFor[i],
           conn' \in {conn, 0} \/ gate[t] = "write",
           io'[t] => io[t] \/ gate[t] # "none",
           pc'[t] = "remove" => \A u \in Tasks : ~io'[u]
    PROVE  SharedInv'
<1>1. /\ madeFor \in Seq(Configs \cup {NoConfig}) /\ conn \in 0..Len(madeFor) /\ Len(madeFor) \in Nat
      /\ borrowed \in [Tasks -> 0..Len(madeFor)]
  BY DEF SharedInv, SharedTypeOK
<1>2. GatesExclude'
  BY DEF SharedInv, GatesExclude
<1>3. ASSUME NEW u \in Tasks, u # t
      PROVE  HoldsWhatItNeeds(u)' /\ KnowsItsConn(u)'
  <2>1. HoldsWhatItNeeds(u) /\ KnowsItsConn(u)
    BY DEF SharedInv
  <2>2. HoldsWhatItNeeds(u)'
    BY <1>3, <2>1 DEF HoldsWhatItNeeds
  <2>3. gate[t] = "write" => pc[u] \notin WriteGated
    BY <1>3, <2>1 DEF SharedInv, GatesExclude, HoldsWhatItNeeds
  <2>4. pc[u] \in {"connecting", "commit"} => conn' = 0
    BY <2>1, <2>3 DEF KnowsItsConn, WriteGated
  <2>5. pc[u] = "borrow" /\ conn' # 0 => conn' = conn /\ madeFor'[conn'] = madeFor[conn]
    BY <1>1, <2>3 DEF WriteGated
  <2>6. borrowed[u] # 0 => madeFor'[borrowed[u]] = madeFor[borrowed[u]]
    BY <1>1
  <2>7. KnowsItsConn(u)'
    BY <1>3, <2>1, <2>4, <2>5, <2>6 DEF KnowsItsConn
  <2>8. QED
    BY <2>2, <2>7
<1>4. CleanersComeAfter'
  <2> SUFFICES ASSUME NEW u \in Tasks, u # Cleaner(u), pc'[u] # "done"
               PROVE  pc'[Cleaner(u)] = "idle"
    BY DEF CleanersComeAfter
  <2>1. pc[u] # "done"
    OBVIOUS
  <2>2. pc[Cleaner(u)] = "idle" /\ Cleaner(u) \in Tasks /\ Cleaner(Cleaner(u)) = Cleaner(u)
    BY <2>1, CleanerFacts DEF SharedInv, CleanersComeAfter
  <2>3. Cleaner(u) # t
    BY <2>2
  <2>4. QED
    BY <2>2, <2>3
<1>5. RemovesUnborrowed'
  <2> SUFFICES ASSUME NEW u \in Tasks, NEW v \in Tasks, pc'[u] = "remove"
               PROVE  ~io'[v]
    BY DEF RemovesUnborrowed
  <2>1. CASE u = t
    BY <2>1
  <2>2. CASE u # t
    <3>1. pc[u] = "remove" /\ gate[u] = "write"
      BY <2>2 DEF SharedInv, HoldsWhatItNeeds, WriteGated
    <3>2. gate[t] = "none" /\ \A x \in Tasks : ~io[x]
      BY <2>2, <3>1 DEF SharedInv, GatesExclude, RemovesUnborrowed
    <3>3. QED
      BY <3>2
  <2>3. QED
    BY <2>1, <2>2
<1>6. QED
  BY <1>2, <1>3, <1>4, <1>5 DEF SharedInv

\* Whoever sleeps is still waited for by the same calls, if this task is no sleeper
\* and leaves no call.
LEMMA SleepersAsBefore ==
    ASSUME SharedInv, NEW t \in Tasks,
           \A u \in Tasks : u # t =>
              pc'[u] = pc[u] /\ state'[u] = state[u] /\ io'[u] = io[u] /\ idle'[u] = idle[u],
           pc'[t] # "asleep",
           io[t] \/ pc[t] = "notify" => state'[t] = state[t] /\ (io'[t] \/ pc'[t] = "notify")
    PROVE  SleepersWaitForIo'
<1> SUFFICES ASSUME NEW u \in Tasks, pc'[u] = "asleep", idle'[u] # "notified"
             PROVE  \E v \in Tasks : state'[v] = state'[u] /\ (io'[v] \/ pc'[v] = "notify")
  BY DEF SleepersWaitForIo
<1>1. u # t /\ pc[u] = "asleep" /\ idle[u] # "notified" /\ state'[u] = state[u]
  OBVIOUS
<1>2. PICK v \in Tasks : state[v] = state[u] /\ (io[v] \/ pc[v] = "notify")
  BY <1>1 DEF SharedInv, SleepersWaitForIo
<1>3. QED
  BY <1>1, <1>2

\* A task that goes somewhere, or stays with what it has.
LEMMA GoesFacts ==
    ASSUME SharedInv, NEW t \in Tasks, NEW l \in Places, Goto(t, l)
    PROVE  /\ pc' \in [Tasks -> Places] /\ pc'[t] = l
           /\ \A u \in Tasks : u # t => pc'[u] = pc[u]
BY DEF SharedInv, SharedTypeOK, Goto

\* The types of what the steps below do not touch.
LEMMA TypesKept ==
    ASSUME SharedTypeOK
    PROVE  /\ madeFor \in Seq(Configs \cup {NoConfig}) /\ Len(madeFor) \in Nat /\ Len(madeFor) <= MaxConns
           /\ conn \in 0..Len(madeFor) /\ meta \in Configs \cup {NoConfig}
           /\ pc \in [Tasks -> Places] /\ op \in [Tasks -> Operations]
           /\ config \in [Tasks -> Configs \cup {NoConfig}] /\ inside \in [Tasks -> BOOLEAN]
           /\ state \in [Tasks -> States \cup {0}] /\ gate \in [Tasks -> {"none", "read", "write"}]
           /\ io \in [Tasks -> BOOLEAN] /\ idle \in [Tasks -> {"none", "registered", "notified"}]
           /\ borrowed \in [Tasks -> 0..Len(madeFor)]
           /\ \A t \in Tasks : gate[t] # "none" \/ io[t] => state[t] # 0
BY DEF SharedTypeOK

\* An operation that is over.
LEMMA EndFacts ==
    ASSUME SharedInv, NEW t \in Tasks, End(t)
    PROVE  /\ pc' \in [Tasks -> Places] /\ op' \in [Tasks -> Operations]
           /\ config' \in [Tasks -> Configs \cup {NoConfig}] /\ inside' \in [Tasks -> BOOLEAN]
           /\ state' \in [Tasks -> States \cup {0}] /\ gate' \in [Tasks -> {"none", "read", "write"}]
           /\ idle' \in [Tasks -> {"none", "registered", "notified"}]
           /\ borrowed' \in [Tasks -> 0..Len(madeFor)]
           /\ pc'[t] = "done" /\ op'[t] = "none" /\ state'[t] = 0 /\ gate'[t] = "none" /\ idle'[t] = "none"
           /\ \A u \in Tasks : u # t =>
                /\ pc'[u] = pc[u] /\ op'[u] = op[u] /\ config'[u] = config[u] /\ state'[u] = state[u]
                /\ gate'[u] = gate[u] /\ borrowed'[u] = borrowed[u] /\ idle'[u] = idle[u]
<1>1. SharedTypeOK
  BY DEF SharedInv
<1>2. /\ pc' = [pc EXCEPT ![t] = "done"] /\ op' = [op EXCEPT ![t] = "none"]
      /\ config' = [config EXCEPT ![t] = NoConfig] /\ inside' = [inside EXCEPT ![t] = FALSE]
      /\ state' = [state EXCEPT ![t] = 0] /\ gate' = [gate EXCEPT ![t] = "none"]
      /\ idle' = [idle EXCEPT ![t] = "none"]
  BY DEF End, Forget, Goto
<1>3. borrowed' = [borrowed EXCEPT ![t] = IF t = Cleaner(t) THEN borrowed[t] ELSE 0]
  BY DEF End, Forget
<1>4. pc' \in [Tasks -> Places] /\ op' \in [Tasks -> Operations]
  BY <1>1, <1>2, TypesKept DEF Places, Operations
<1>5. config' \in [Tasks -> Configs \cup {NoConfig}] /\ inside' \in [Tasks -> BOOLEAN]
  BY <1>1, <1>2, TypesKept
<1>6. /\ state' \in [Tasks -> States \cup {0}] /\ gate' \in [Tasks -> {"none", "read", "write"}]
      /\ idle' \in [Tasks -> {"none", "registered", "notified"}]
  BY <1>1, <1>2, TypesKept
<1>7. borrowed' \in [Tasks -> 0..Len(madeFor)]
  <2>1. 0 \in 0..Len(madeFor)
    BY <1>1, TypesKept
  <2>2. QED
    BY <1>1, <1>3, <2>1, TypesKept
<1>8. QED
  BY <1>1, <1>2, <1>3, <1>4, <1>5, <1>6, <1>7, TypesKept

\* What may become of the record of the connection when a task is not installing one.
ConnGoesOrStays ==
    /\ UNCHANGED <<madeFor, exited>>
    /\ (conn' = conn /\ meta' = meta) \/ (conn' = 0 /\ meta' = NoConfig)

\* A record that goes or stays is a true one.
LEMMA ConnGoesFacts ==
    ASSUME SharedInv, ConnGoesOrStays
    PROVE  /\ conn' \in 0..Len(madeFor) /\ meta' \in Configs \cup {NoConfig} /\ MetaIsTrue'
           /\ conn' \in {conn, 0}
BY DEF ConnGoesOrStays, SharedInv, SharedTypeOK, MetaIsTrue

\* An operation is over, without I/O in flight or a sleeper to notify.
LEMMA EndInv ==
    ASSUME SharedInv, NEW t \in Tasks, End(t), pc[t] \notin {"idle", "done", "notify"}, ~io[t],
           ConnGoesOrStays, UNCHANGED <<table, io>>
    PROVE  SharedInv'
<1>1. SharedTypeOK /\ UNCHANGED <<madeFor, exited>>
  BY DEF SharedInv, ConnGoesOrStays
<1>2. SharedTypeOK'
  <2>1. /\ madeFor' \in Seq(Configs \cup {NoConfig}) /\ Len(madeFor') <= MaxConns
        /\ conn' \in 0..Len(madeFor') /\ exited' \subseteq 1..Len(madeFor')
        /\ meta' \in Configs \cup {NoConfig} /\ table' \in States \cup {0} /\ io' \in [Tasks -> BOOLEAN]
    BY <1>1, ConnGoesFacts DEF SharedTypeOK
  <2>2. \A u \in Tasks : gate'[u] # "none" \/ io'[u] => state'[u] # 0
    BY <1>1, EndFacts, TypesKept
  <2>3. borrowed' \in [Tasks -> 0..Len(madeFor')]
    BY <1>1, EndFacts
  <2>4. QED
    BY <2>1, <2>2, <2>3, EndFacts DEF SharedTypeOK
<1>3. StatesAgree'
  BY EndFacts DEF SharedInv, StatesAgree
<1>4. SleepersWaitForIo'
  BY EndFacts, SleepersAsBefore
<1>5. HoldsWhatItNeeds(t)' /\ KnowsItsConn(t)'
  BY EndFacts DEF HoldsWhatItNeeds, KnowsItsConn, ReadGated, WriteGated, Asking
<1>6. QED
  BY <1>1, <1>2, <1>3, <1>4, <1>5, EndFacts, ConnGoesFacts, TaskMovesInv

\* A task goes on, at the most without its gate.
LEMMA GoInv ==
    ASSUME SharedInv, NEW t \in Tasks, NEW l \in Places, Goto(t, l), l # "asleep",
           pc[t] \notin {"idle", "done", "notify"}, io[t] <=> l = "dropIo",
           ConnGoesOrStays, UNCHANGED <<taskVars, table, state, io, idle>>,
           gate' = gate \/ gate' = [gate EXCEPT ![t] = "none"],
           HoldsWhatItNeeds(t)', KnowsItsConn(t)',
           l = "remove" => \A u \in Tasks : ~io[u]
    PROVE  SharedInv'
<1>1. SharedTypeOK /\ UNCHANGED <<madeFor, exited, op, config, inside, borrowed>>
  BY DEF SharedInv, ConnGoesOrStays, taskVars
<1>2. gate' \in [Tasks -> {"none", "read", "write"}] /\ gate'[t] \in {gate[t], "none"}
      /\ \A u \in Tasks : u # t => gate'[u] = gate[u]
  BY <1>1, TypesKept
<1>3. SharedTypeOK'
  BY <1>1, <1>2, GoesFacts, ConnGoesFacts DEF SharedTypeOK
<1>4. StatesAgree'
  BY DEF SharedInv, StatesAgree
<1>5. SleepersWaitForIo'
  BY <1>1, GoesFacts, SleepersAsBefore
<1>6. \A u \in Tasks : u # t => (gate[t] = "write" => gate[u] = "none") /\ (gate[t] # "none" => gate[u] # "write")
  BY DEF SharedInv, GatesExclude
<1>7. QED
  BY <1>1, <1>2, <1>3, <1>4, <1>5, <1>6, GoesFacts, ConnGoesFacts, TaskMovesInv

\* The facts about the task that makes the step.
LEMMA TaskFacts ==
    ASSUME SharedInv, NEW t \in Tasks
    PROVE  HoldsWhatItNeeds(t) /\ KnowsItsConn(t) /\ (state[t] # 0 => state[t] = table)
BY DEF SharedInv, StatesAgree

\* A task that holds the gate lets nobody write, and one that writes is alone.
LEMMA GateFacts ==
    ASSUME SharedInv, NEW t \in Tasks
    PROVE  \A u \in Tasks : u # t =>
              (gate[t] = "write" => gate[u] = "none") /\ (gate[t] # "none" => gate[u] # "write")
BY DEF SharedInv, GatesExclude

\* is_connected_and_alive leaves the connection, or a dead one goes.
LEMMA PruneFacts ==
    ASSUME SharedInv, Prune
    PROVE  /\ ConnGoesOrStays
           /\ Alive => conn' = conn /\ meta' = meta /\ conn # 0
           /\ ~Alive => conn' = 0 /\ meta' = NoConfig
BY DEF Prune, ConnGoesOrStays, Alive

\* A task without a state takes the one in use and goes to a gate.
LEMMA HoldsInv ==
    ASSUME SharedInv, NEW t \in Tasks, pc[t] \in {"idle", "lookup"}, t = Cleaner(t) => pc[t] # "idle",
           HoldState(t), NEW l \in {"readGate", "writeGate"}, Goto(t, l),
           op' \in [Tasks -> Operations], config' \in [Tasks -> Configs \cup {NoConfig}],
           inside' \in [Tasks -> BOOLEAN], op'[t] = "request" => config'[t] \in Configs,
           \A u \in Tasks : u # t => op'[u] = op[u] /\ config'[u] = config[u],
           UNCHANGED <<managerVars, gate, io, idle, borrowed>>
    PROVE  SharedInv'
<1>1. SharedTypeOK /\ UNCHANGED <<conn, meta, madeFor, exited>> /\ state[t] = 0
  BY TaskFacts DEF SharedInv, managerVars, HoldsWhatItNeeds
<1>2. /\ StateFor \in States /\ StateFor # 0 /\ \A u \in Tasks : state[u] # 0 => state[u] = StateFor
      /\ table' = StateFor /\ state' = [state EXCEPT ![t] = StateFor]
  BY <1>1, StateForFacts DEF HoldState
<1>3. /\ state' \in [Tasks -> States \cup {0}] /\ state'[t] = StateFor
      /\ \A u \in Tasks : u # t => state'[u] = state[u]
  BY <1>1, <1>2, TypesKept
<1>4. pc' \in [Tasks -> Places] /\ pc'[t] = l /\ \A u \in Tasks : u # t => pc'[u] = pc[u]
  BY GoesFacts DEF Places
<1>5. ~io[t] /\ gate[t] = "none"
  BY <1>1, TypesKept
<1>6. SharedTypeOK'
  <2>1. \A u \in Tasks : gate'[u] # "none" \/ io'[u] => state'[u] # 0
    BY <1>1, <1>2, <1>3, TypesKept
  <2>2. QED
    BY <1>1, <1>2, <1>3, <1>4, <2>1 DEF SharedTypeOK
<1>7. StatesAgree'
  BY <1>2, <1>3 DEF StatesAgree
<1>8. SleepersWaitForIo'
  BY <1>3, <1>4, <1>5, SleepersAsBefore
<1>9. HoldsWhatItNeeds(t)' /\ KnowsItsConn(t)'
  BY <1>2, <1>3, <1>4, <1>5 DEF HoldsWhatItNeeds, KnowsItsConn, ReadGated, WriteGated, Asking
<1>10. MetaIsTrue'
  BY <1>1 DEF SharedInv, MetaIsTrue
<1>11. QED
  BY <1>1, <1>3, <1>4, <1>5, <1>6, <1>7, <1>8, <1>9, <1>10, GateFacts, TaskMovesInv

\* An operation begins.
LEMMA BeginInv ==
    ASSUME SharedInv, NEW t \in Tasks, Begin(t)
    PROVE  SharedInv'
<1>1. SharedTypeOK /\ t # Cleaner(t) /\ pc[t] = "idle"
  BY DEF SharedInv, Begin
<1>2. PICK o \in {"request", "connected", "disconnect", "isConnected"} :
          /\ op' = [op EXCEPT ![t] = o]
          /\ IF o = "request" THEN \E c \in Configs : config' = [config EXCEPT ![t] = c]
                              ELSE UNCHANGED config
          /\ IF o = "isConnected" THEN Goto(t, "isConnected") /\ UNCHANGED <<table, state>>
             ELSE /\ HoldState(t)
                  /\ Goto(t, IF o = "disconnect" THEN "writeGate" ELSE "readGate")
  BY DEF Begin
<1>3. PICK h \in BOOLEAN : inside' = [inside EXCEPT ![t] = h]
  BY DEF Begin
<1>4. UNCHANGED <<managerVars, gate, io, idle, borrowed>>
  BY DEF Begin
<1>5. /\ op' \in [Tasks -> Operations] /\ op'[t] = o /\ \A u \in Tasks : u # t => op'[u] = op[u]
  BY <1>1, <1>2, TypesKept DEF Operations
<1>6. /\ config' \in [Tasks -> Configs \cup {NoConfig}]
      /\ o = "request" => config'[t] \in Configs
      /\ \A u \in Tasks : u # t => config'[u] = config[u]
  BY <1>1, <1>2, TypesKept
<1>7. inside' \in [Tasks -> BOOLEAN]
  BY <1>1, <1>3, TypesKept
<1>8. CASE o # "isConnected"
  BY <1>1, <1>2, <1>4, <1>5, <1>6, <1>7, <1>8, HoldsInv
<1>9. CASE o = "isConnected"
  <2>1. Goto(t, "isConnected") /\ UNCHANGED <<conn, meta, madeFor, exited, table, state, gate, io, idle, borrowed>>
    BY <1>2, <1>4, <1>9 DEF managerVars
  <2>2. pc' \in [Tasks -> Places] /\ pc'[t] = "isConnected" /\ \A u \in Tasks : u # t => pc'[u] = pc[u]
    BY <2>1, GoesFacts DEF Places
  <2>3. state[t] = 0 /\ ~io[t] /\ gate[t] = "none"
    BY <1>1, TaskFacts, TypesKept DEF HoldsWhatItNeeds
  <2>4. SharedTypeOK'
    BY <1>1, <1>5, <1>6, <1>7, <2>1, <2>2 DEF SharedTypeOK
  <2>5. StatesAgree' /\ MetaIsTrue'
    BY <2>1 DEF SharedInv, StatesAgree, MetaIsTrue
  <2>6. SleepersWaitForIo'
    BY <1>1, <2>1, <2>2, <2>3, SleepersAsBefore
  <2>7. HoldsWhatItNeeds(t)' /\ KnowsItsConn(t)'
    BY <1>5, <1>9, <2>1, <2>2, <2>3 DEF HoldsWhatItNeeds, KnowsItsConn, ReadGated, WriteGated, Asking
  <2>8. QED
    BY <1>1, <1>5, <1>6, <2>1, <2>2, <2>3, <2>4, <2>5, <2>6, <2>7, GateFacts, TaskMovesInv
<1>10. QED
  BY <1>8, <1>9

\* A clean-up takes the state in use.
LEMMA LookupInv ==
    ASSUME SharedInv, NEW t \in Tasks, Lookup(t)
    PROVE  SharedInv'
<1>1. /\ pc[t] = "lookup" /\ HoldState(t) /\ Goto(t, "writeGate")
      /\ UNCHANGED <<managerVars, gate, io, idle, op, config, inside, borrowed>>
  BY DEF Lookup, taskVars
<1>2. /\ op \in [Tasks -> Operations] /\ config \in [Tasks -> Configs \cup {NoConfig}]
      /\ inside \in [Tasks -> BOOLEAN] /\ (op[t] = "request" => config[t] \in Configs)
  BY TaskFacts DEF SharedInv, SharedTypeOK, KnowsItsConn
<1>3. QED
  BY <1>1, <1>2, HoldsInv

\* A task enters the gate of the state that all have: to write it must be alone there.
LEMMA EnterGateInv ==
    ASSUME SharedInv, NEW t \in Tasks, EnterGate(t)
    PROVE  SharedInv'
<1> DEFINE g == IF pc[t] = "readGate" THEN "read" ELSE "write"
<1>1. /\ SharedTypeOK /\ pc[t] \in {"readGate", "writeGate"} /\ GateFree(t)
      /\ gate' = [gate EXCEPT ![t] = g] /\ Goto(t, AfterGate(t))
      /\ UNCHANGED <<conn, meta, madeFor, exited, op, config, inside, borrowed, table, state, io, idle>>
  BY DEF SharedInv, EnterGate, managerVars, taskVars
<1>2. AfterGate(t) \in {"reuse", "existing", "recheck", "drain"}
  BY DEF AfterGate
<1>3. pc' \in [Tasks -> Places] /\ pc'[t] = AfterGate(t) /\ \A u \in Tasks : u # t => pc'[u] = pc[u]
  BY <1>1, <1>2, GoesFacts DEF Places
<1>4. /\ gate' \in [Tasks -> {"none", "read", "write"}] /\ gate'[t] = g
      /\ \A u \in Tasks : u # t => gate'[u] = gate[u]
  BY <1>1, TypesKept
<1>5. state[t] # 0 /\ ~io[t]
  BY <1>1, TaskFacts DEF HoldsWhatItNeeds
<1>6. \A u \in Tasks : u # t => (g = "write" => gate[u] = "none") /\ gate[u] # "write"
  <2> SUFFICES ASSUME NEW u \in Tasks, u # t
               PROVE  (g = "write" => gate[u] = "none") /\ gate[u] # "write"
    OBVIOUS
  <2>1. gate[u] # "none" => state[u] = state[t]
    BY <1>1, <1>5, TaskFacts, TypesKept
  <2>2. gate[u] # "none" => gate[u] \in (IF pc[t] = "readGate" THEN {"none", "read"} ELSE {"none"})
    BY <1>1, <2>1 DEF GateFree
  <2>3. QED
    BY <1>1, <2>2
<1>7. SharedTypeOK'
  BY <1>1, <1>3, <1>4, <1>5 DEF SharedTypeOK
<1>8. StatesAgree' /\ MetaIsTrue'
  BY <1>1 DEF SharedInv, StatesAgree, MetaIsTrue
<1>9. SleepersWaitForIo'
  BY <1>1, <1>2, <1>3, <1>5, SleepersAsBefore
<1>10. HoldsWhatItNeeds(t)'
  BY <1>1, <1>2, <1>3, <1>4, <1>5 DEF HoldsWhatItNeeds, AfterGate, ReadGated, WriteGated
<1>11. KnowsItsConn(t)'
  BY <1>1, <1>3, TaskFacts DEF KnowsItsConn, AfterGate, Asking
<1>12. QED
  BY <1>1, <1>2, <1>3, <1>4, <1>5, <1>6, <1>7, <1>8, <1>9, <1>10, <1>11, TaskMovesInv

\* A call borrows the connection that there is, which is the one it may use.
LEMMA BorrowConnInv ==
    ASSUME SharedInv, NEW t \in Tasks, Prune, Alive, BorrowConn(t), UNCHANGED <<table, io>>,
           pc[t] \in {"reuse", "recheck", "borrow", "existing"},
           op[t] = "request" => madeFor[conn] = config[t]
    PROVE  SharedInv'
<1>1. /\ SharedTypeOK /\ borrowed' = [borrowed EXCEPT ![t] = conn] /\ Goto(t, "startIo")
      /\ UNCHANGED <<conn, meta, madeFor, exited, op, config, inside, table, state, gate, io, idle>>
  BY PruneFacts DEF SharedInv, BorrowConn, ConnGoesOrStays
<1>2. pc' \in [Tasks -> Places] /\ pc'[t] = "startIo" /\ \A u \in Tasks : u # t => pc'[u] = pc[u]
  BY <1>1, GoesFacts DEF Places
<1>3. /\ borrowed' \in [Tasks -> 0..Len(madeFor)] /\ borrowed'[t] = conn
      /\ \A u \in Tasks : u # t => borrowed'[u] = borrowed[u]
  BY <1>1, TypesKept
<1>4. SharedTypeOK'
  BY <1>1, <1>2, <1>3 DEF SharedTypeOK
<1>5. StatesAgree' /\ MetaIsTrue'
  BY <1>1 DEF SharedInv, StatesAgree, MetaIsTrue
<1>6. gate[t] # "none" /\ ~io[t]
  BY TaskFacts DEF HoldsWhatItNeeds, ReadGated, WriteGated
<1>7. SleepersWaitForIo'
  BY <1>1, <1>2, <1>6, SleepersAsBefore
<1>8. HoldsWhatItNeeds(t)'
  BY <1>1, <1>2, <1>6, TaskFacts DEF HoldsWhatItNeeds, ReadGated, WriteGated
<1>9. KnowsItsConn(t)'
  BY <1>1, <1>2, <1>3, TaskFacts DEF KnowsItsConn, Asking, Alive
<1>10. QED
  BY <1>1, <1>2, <1>3, <1>4, <1>5, <1>6, <1>7, <1>8, <1>9, GateFacts, TaskMovesInv

\* A connection with the metadata of the request was made for it.
LEMMA MatchFacts ==
    ASSUME SharedInv, NEW t \in Tasks, Alive, Matches(t), op[t] = "request"
    PROVE  madeFor[conn] = config[t]
BY SharedAssumption, TaskFacts DEF SharedInv, MetaIsTrue, KnowsItsConn, Matches, Alive

\* A request looks for a connection beside others that do, and goes on to connect.
LEMMA ReuseInv ==
    ASSUME SharedInv, NEW t \in Tasks, Reuse(t)
    PROVE  SharedInv'
<1>1. pc[t] = "reuse" /\ Prune /\ UNCHANGED <<table, io>> /\ ConnGoesOrStays /\ ~io[t]
  BY PruneFacts, TaskFacts DEF Reuse, HoldsWhatItNeeds
<1>2. CASE Alive /\ Matches(t) /\ BorrowConn(t)
  BY <1>1, <1>2, MatchFacts, BorrowConnInv
<1>3. CASE End(t)
  BY <1>1, <1>3, EndInv
<1>4. CASE /\ ~Alive
           /\ gate' = [gate EXCEPT ![t] = "none"]
           /\ Goto(t, "writeGate")
           /\ UNCHANGED <<taskVars, state, idle>>
  <2>1. UNCHANGED <<op, config, inside, borrowed>> /\ SharedTypeOK
    BY <1>4 DEF taskVars, SharedInv
  <2>2. pc'[t] = "writeGate"
    BY <1>4, GoesFacts DEF Places
  <2>3. state'[t] # 0
    BY <1>1, <1>4, <2>1, TaskFacts, TypesKept DEF HoldsWhatItNeeds, ReadGated
  <2>4. HoldsWhatItNeeds(t)' /\ KnowsItsConn(t)'
    BY <1>1, <1>4, <2>1, <2>2, <2>3, TaskFacts DEF HoldsWhatItNeeds, KnowsItsConn, ReadGated, WriteGated, Asking
  <2>5. QED
    BY <1>1, <1>4, <2>4, GoInv DEF Places
<1>5. QED
  BY <1>2, <1>3, <1>4 DEF Reuse

\* The same behind the write gate.
LEMMA RecheckInv ==
    ASSUME SharedInv, NEW t \in Tasks, Recheck(t)
    PROVE  SharedInv'
<1>1. /\ pc[t] \in {"recheck", "ensure", "prepare"} /\ Prune /\ UNCHANGED <<table, io>>
      /\ ConnGoesOrStays /\ ~io[t] /\ gate[t] = "write" /\ op[t] = "request"
  BY PruneFacts, TaskFacts DEF Recheck, HoldsWhatItNeeds, KnowsItsConn, WriteGated, Asking
<1>2. CASE Alive /\ Matches(t) /\ pc[t] = "recheck" /\ BorrowConn(t)
  BY <1>1, <1>2, MatchFacts, BorrowConnInv
<1>3. CASE End(t)
  BY <1>1, <1>3, EndInv
<1>4. CASE /\ Alive /\ Matches(t) /\ pc[t] # "recheck"
           /\ Goto(t, "borrow")
           /\ UNCHANGED <<taskVars, gate, state, idle>>
  <2>1. UNCHANGED <<conn, madeFor, op, config, inside, borrowed>>
    BY <1>1, <1>4, PruneFacts DEF taskVars, ConnGoesOrStays
  <2>2. pc'[t] = "borrow"
    BY <1>4, GoesFacts DEF Places
  <2>3. HoldsWhatItNeeds(t)' /\ KnowsItsConn(t)'
    BY <1>1, <1>4, <2>1, <2>2, MatchFacts, TaskFacts
    DEF HoldsWhatItNeeds, KnowsItsConn, ReadGated, WriteGated, Asking
  <2>4. QED
    BY <1>1, <1>4, <2>3, GoInv DEF Places
<1>5. CASE /\ ~Alive
           /\ Goto(t, CASE pc[t] = "recheck" -> "ensure"
                        [] pc[t] = "ensure"  -> "prepare"
                        [] OTHER             -> "connecting")
           /\ UNCHANGED <<taskVars, gate, state, idle>>
  <2>1. UNCHANGED <<op, config, inside, borrowed>> /\ conn' = 0
    BY <1>1, <1>5, PruneFacts DEF taskVars
  <2>2. PICK l \in {"ensure", "prepare", "connecting"} : Goto(t, l)
    BY <1>1, <1>5
  <2>3. pc'[t] = l
    BY <2>2, GoesFacts DEF Places
  <2>4. HoldsWhatItNeeds(t)' /\ KnowsItsConn(t)'
    BY <1>1, <1>5, <2>1, <2>3, TaskFacts
    DEF HoldsWhatItNeeds, KnowsItsConn, ReadGated, WriteGated, Asking
  <2>5. QED
    BY <1>1, <1>5, <2>2, <2>4, GoInv DEF Places
<1>6. QED
  BY <1>2, <1>3, <1>4, <1>5 DEF Recheck

\* A call borrows the connection just made, or any that there is.
LEMMA BorrowInv ==
    ASSUME SharedInv, NEW t \in Tasks, Borrow(t)
    PROVE  SharedInv'
<1>1. pc[t] \in {"borrow", "existing"} /\ Prune /\ UNCHANGED <<table, io>> /\ ConnGoesOrStays /\ ~io[t]
  BY PruneFacts, TaskFacts DEF Borrow, HoldsWhatItNeeds
<1>2. CASE Alive /\ BorrowConn(t)
  <2>1. op[t] = "request" => madeFor[conn] = config[t]
    BY <1>1, <1>2, TaskFacts DEF KnowsItsConn, Alive
  <2>2. QED
    BY <1>1, <1>2, <2>1, BorrowConnInv
<1>3. CASE End(t)
  BY <1>1, <1>3, EndInv
<1>4. QED
  BY <1>2, <1>3 DEF Borrow

\* A task in a handler that does not get what it wants ends, or leaves its clean-up
\* to a task of its own.
LEMMA RefuseInv ==
    ASSUME SharedInv, NEW t \in Tasks, Refuse(t), pc[t] \notin {"idle", "done", "notify"}, ~io[t]
    PROVE  SharedInv'
<1>1. /\ SharedTypeOK /\ UNCHANGED <<conn, meta, madeFor, exited, table, io>>
  BY DEF SharedInv, Refuse, managerVars
<1>2. CASE End(t)
  BY <1>1, <1>2, EndInv DEF ConnGoesOrStays
<1>3. CASE t # Cleaner(t) /\ SpawnCleanup(t)
  <2> DEFINE c == Cleaner(t)
  <2>1. c \in Tasks /\ c # t /\ Cleaner(c) = c /\ pc[c] = "idle"
    BY <1>3, CleanerFacts DEF SharedInv, CleanersComeAfter
  <2>2. state[c] = 0 /\ ~io[c] /\ gate[c] = "none"
    BY <1>1, <2>1, TaskFacts, TypesKept DEF HoldsWhatItNeeds
  <2>3. /\ pc' = [pc EXCEPT ![t] = "done", ![c] = "lookup"]
        /\ op' = [op EXCEPT ![t] = "none", ![c] = "cleanup"]
        /\ inside' = [inside EXCEPT ![t] = FALSE, ![c] = inside[t]]
        /\ borrowed' = [borrowed EXCEPT ![t] = 0, ![c] = borrowed[t]]
        /\ config' = [config EXCEPT ![t] = NoConfig]
        /\ gate' = [gate EXCEPT ![t] = "none"]
        /\ state' = [state EXCEPT ![t] = 0]
        /\ idle' = idle
    BY <1>3 DEF SpawnCleanup
  <2> HIDE DEF c
  <2>4. /\ pc' \in [Tasks -> Places] /\ pc'[t] = "done" /\ pc'[c] = "lookup"
        /\ \A u \in Tasks : u # t /\ u # c => pc'[u] = pc[u]
    BY <1>1, <2>1, <2>3, TypesKept DEF Places
  <2>5. /\ op' \in [Tasks -> Operations] /\ op'[t] = "none" /\ op'[c] = "cleanup"
        /\ \A u \in Tasks : u # t /\ u # c => op'[u] = op[u]
    BY <1>1, <2>1, <2>3, TypesKept DEF Operations
  <2>6. inside' \in [Tasks -> BOOLEAN]
    BY <1>1, <2>1, <2>3, TypesKept
  <2>7. /\ borrowed' \in [Tasks -> 0..Len(madeFor)]
        /\ \A u \in Tasks : u # t /\ u # c => borrowed'[u] = borrowed[u]
    <3>1. 0 \in 0..Len(madeFor) /\ borrowed[t] \in 0..Len(madeFor)
      BY <1>1, TypesKept
    <3>2. QED
      BY <1>1, <2>1, <2>3, <3>1, TypesKept
  <2>8. /\ config' \in [Tasks -> Configs \cup {NoConfig}]
        /\ \A u \in Tasks : u # t => config'[u] = config[u]
    BY <1>1, <2>3, TypesKept
  <2>9. /\ gate' \in [Tasks -> {"none", "read", "write"}] /\ gate'[t] = "none"
        /\ \A u \in Tasks : u # t => gate'[u] = gate[u]
    BY <1>1, <2>3, TypesKept
  <2>10. /\ state' \in [Tasks -> States \cup {0}] /\ state'[t] = 0
         /\ \A u \in Tasks : u # t => state'[u] = state[u]
    BY <1>1, <2>3, TypesKept
  <2>11. SharedTypeOK'
    <3>1. \A u \in Tasks : gate'[u] # "none" \/ io'[u] => state'[u] # 0
      BY <1>1, <2>9, <2>10, TypesKept
    <3>2. QED
      BY <1>1, <2>3, <2>4, <2>5, <2>6, <2>7, <2>8, <2>9, <2>10, <3>1 DEF SharedTypeOK
  <2>12. StatesAgree' /\ GatesExclude' /\ MetaIsTrue'
    BY <1>1, <2>9, <2>10 DEF SharedInv, StatesAgree, GatesExclude, MetaIsTrue
  <2>13. \A u \in Tasks : HoldsWhatItNeeds(u)' /\ KnowsItsConn(u)'
    <3>1. HoldsWhatItNeeds(t)' /\ KnowsItsConn(t)'
      BY <1>1, <2>3, <2>4, <2>5, <2>9, <2>10 DEF HoldsWhatItNeeds, KnowsItsConn, ReadGated, WriteGated, Asking
    <3>2. HoldsWhatItNeeds(c)' /\ KnowsItsConn(c)'
      BY <1>1, <2>1, <2>2, <2>3, <2>4, <2>5, <2>9, <2>10
      DEF HoldsWhatItNeeds, KnowsItsConn, ReadGated, WriteGated, Asking
    <3>3. ASSUME NEW u \in Tasks, u # t, u # c
          PROVE  HoldsWhatItNeeds(u)' /\ KnowsItsConn(u)'
      BY <1>1, <2>3, <2>4, <2>5, <2>7, <2>8, <2>9, <2>10, <3>3, TaskFacts DEF HoldsWhatItNeeds, KnowsItsConn
    <3>4. QED
      BY <3>1, <3>2, <3>3
  <2>14. CleanersComeAfter'
    <3> SUFFICES ASSUME NEW u \in Tasks, u # Cleaner(u), pc'[u] # "done"
                 PROVE  pc'[Cleaner(u)] = "idle"
      BY DEF CleanersComeAfter
    <3>1. u # t /\ u # c
      BY <2>1, <2>4
    <3>2. Cleaner(u) # c /\ Cleaner(u) # t
      BY <1>3, <2>1, <3>1, CleanerFacts DEF c, Cleaner, Tasks
    <3>3. pc[Cleaner(u)] = "idle" /\ Cleaner(u) \in Tasks
      BY <2>4, <3>1, CleanerFacts DEF SharedInv, CleanersComeAfter
    <3>4. QED
      BY <2>4, <3>2, <3>3
  <2>15. RemovesUnborrowed'
    BY <1>1, <2>4 DEF SharedInv, RemovesUnborrowed
  <2>16. SleepersWaitForIo'
    <3> SUFFICES ASSUME NEW u \in Tasks, pc'[u] = "asleep", idle'[u] # "notified"
                 PROVE  \E v \in Tasks : state'[v] = state'[u] /\ (io'[v] \/ pc'[v] = "notify")
      BY DEF SleepersWaitForIo
    <3>1. u # t /\ pc[u] = "asleep" /\ idle[u] # "notified" /\ state'[u] = state[u]
      BY <2>3, <2>4, <2>10
    <3>2. PICK v \in Tasks : state[v] = state[u] /\ (io[v] \/ pc[v] = "notify")
      BY <3>1 DEF SharedInv, SleepersWaitForIo
    <3>3. v # t /\ v # c
      BY <2>1, <2>2, <3>2
    <3>4. QED
      BY <1>1, <2>4, <2>10, <3>1, <3>2, <3>3
  <2>17. QED
    BY <2>11, <2>12, <2>13, <2>14, <2>15, <2>16 DEF SharedInv
<1>4. QED
  BY <1>2, <1>3 DEF Refuse

\* A connection is made for the request behind the write gate, or none is made.
LEMMA ConnectInv ==
    ASSUME SharedInv, NEW t \in Tasks, Connect(t)
    PROVE  SharedInv'
<1>1. /\ SharedTypeOK /\ pc[t] = "connecting" /\ ~io[t] /\ gate[t] = "write" /\ op[t] = "request"
      /\ conn = 0 /\ config[t] \in Configs
  BY TaskFacts DEF SharedInv, Connect, HoldsWhatItNeeds, KnowsItsConn, WriteGated, Asking
<1>2. CASE End(t) /\ UNCHANGED <<managerVars, table, io>>
  BY <1>1, <1>2, EndInv DEF ConnGoesOrStays, managerVars
<1>3. CASE /\ Len(madeFor) < MaxConns
           /\ madeFor' = Append(madeFor, config[t])
           /\ borrowed' = [borrowed EXCEPT ![t] = Len(madeFor) + 1]
           /\ Goto(t, "commit")
           /\ UNCHANGED <<conn, meta, exited, op, config, inside, stateVars>>
  <2>1. UNCHANGED <<conn, meta, exited, op, config, inside, table, state, gate, io, idle>>
    BY <1>3 DEF stateVars
  <2>2. /\ madeFor' \in Seq(Configs \cup {NoConfig}) /\ Len(madeFor') = Len(madeFor) + 1
        /\ \A i \in 1..Len(madeFor) : madeFor'[i] = madeFor[i]
        /\ madeFor'[Len(madeFor) + 1] = config[t]
    BY <1>1, <1>3, TypesKept
  <2>3. Len(madeFor') <= MaxConns
    BY <1>1, <1>3, <2>2, SharedAssumption, TypesKept
  <2>4. /\ borrowed' \in [Tasks -> 0..Len(madeFor')] /\ borrowed'[t] = Len(madeFor) + 1
        /\ \A u \in Tasks : u # t => borrowed'[u] = borrowed[u]
    <3>1. 0..Len(madeFor) \subseteq 0..Len(madeFor') /\ Len(madeFor) + 1 \in 0..Len(madeFor')
      BY <1>1, <2>2, TypesKept
    <3>2. QED
      BY <1>1, <1>3, <3>1, TypesKept
  <2>5. pc' \in [Tasks -> Places] /\ pc'[t] = "commit" /\ \A u \in Tasks : u # t => pc'[u] = pc[u]
    BY <1>3, GoesFacts DEF Places
  <2>6. SharedTypeOK'
    <3>1. conn' \in 0..Len(madeFor') /\ exited' \subseteq 1..Len(madeFor')
      BY <1>1, <2>1, <2>2, TypesKept DEF SharedTypeOK
    <3>2. QED
      BY <1>1, <2>1, <2>2, <2>3, <2>4, <2>5, <3>1 DEF SharedTypeOK
  <2>7. StatesAgree' /\ MetaIsTrue'
    BY <1>1, <2>1 DEF SharedInv, StatesAgree, MetaIsTrue
  <2>8. SleepersWaitForIo'
    BY <1>1, <2>1, <2>5, SleepersAsBefore
  <2>9. HoldsWhatItNeeds(t)'
    BY <1>1, <2>1, <2>5 DEF HoldsWhatItNeeds, ReadGated, WriteGated
  <2>10. Len(madeFor) + 1 # 0
    BY <1>1, TypesKept
  <2>11. KnowsItsConn(t)'
    BY <1>1, <2>1, <2>2, <2>4, <2>5, <2>10 DEF KnowsItsConn, Asking
  <2>12. QED
    BY <1>1, <2>1, <2>2, <2>4, <2>5, <2>6, <2>7, <2>8, <2>9, <2>11, GateFacts, TaskMovesInv
<1>4. QED
  BY <1>2, <1>3 DEF Connect

\* The connection made is installed, where none was.
LEMMA CommitInv ==
    ASSUME SharedInv, NEW t \in Tasks, Commit(t)
    PROVE  SharedInv'
<1>1. /\ SharedTypeOK /\ pc[t] = "commit" /\ ~io[t] /\ gate[t] = "write" /\ op[t] = "request"
      /\ conn = 0 /\ meta = NoConfig /\ config[t] \in Configs
      /\ borrowed[t] # 0 /\ madeFor[borrowed[t]] = config[t]
  BY TaskFacts DEF SharedInv, Commit, HoldsWhatItNeeds, KnowsItsConn, WriteGated, Asking, MetaIsTrue
<1>2. conn' = borrowed[t] /\ UNCHANGED <<madeFor, exited, table, io>>
  BY DEF Commit
<1>3. conn' \in 0..Len(madeFor)
  BY <1>1, <1>2, TypesKept
<1>4. CASE meta' = config[t] /\ Goto(t, "borrow") /\ UNCHANGED <<taskVars, gate, state, idle>>
  <2>1. UNCHANGED <<op, config, inside, borrowed, gate, state, idle>>
    BY <1>4 DEF taskVars
  <2>2. pc' \in [Tasks -> Places] /\ pc'[t] = "borrow" /\ \A u \in Tasks : u # t => pc'[u] = pc[u]
    BY <1>4, GoesFacts DEF Places
  <2>3. SharedTypeOK'
    BY <1>1, <1>2, <1>3, <1>4, <2>1, <2>2 DEF SharedTypeOK
  <2>4. StatesAgree' /\ MetaIsTrue'
    BY <1>1, <1>2, <1>4, <2>1 DEF SharedInv, StatesAgree, MetaIsTrue
  <2>5. SleepersWaitForIo'
    BY <1>1, <1>2, <2>1, <2>2, SleepersAsBefore
  <2>6. HoldsWhatItNeeds(t)' /\ KnowsItsConn(t)'
    BY <1>1, <1>2, <2>1, <2>2, TaskFacts DEF HoldsWhatItNeeds, KnowsItsConn, ReadGated, WriteGated, Asking
  <2>7. QED
    BY <1>1, <1>2, <2>1, <2>2, <2>3, <2>4, <2>5, <2>6, GateFacts, TaskMovesInv
<1>5. CASE UNCHANGED meta /\ End(t)
  <2>1. SharedTypeOK'
    <3>1. \A u \in Tasks : gate'[u] # "none" \/ io'[u] => state'[u] # 0
      <4>1. \A u \in Tasks : gate[u] # "none" \/ io[u] => state[u] # 0
        BY <1>1 DEF SharedTypeOK
      <4>2. /\ gate'[t] = "none" /\ io' = io /\ ~io[t]
            /\ \A u \in Tasks : u # t => gate'[u] = gate[u] /\ state'[u] = state[u]
        BY <1>1, <1>2, <1>5, EndFacts
      <4>3. QED
        BY <4>1, <4>2
    <3>2. borrowed' \in [Tasks -> 0..Len(madeFor')]
      BY <1>2, <1>5, EndFacts
    <3>3. QED
      BY <1>1, <1>2, <1>3, <1>5, <3>1, <3>2, EndFacts DEF SharedTypeOK
  <2>2. StatesAgree' /\ MetaIsTrue'
    BY <1>1, <1>2, <1>5, EndFacts DEF SharedInv, StatesAgree, MetaIsTrue
  <2>3. SleepersWaitForIo'
    BY <1>1, <1>2, <1>5, EndFacts, SleepersAsBefore
  <2>4. HoldsWhatItNeeds(t)' /\ KnowsItsConn(t)'
    BY <1>1, <1>2, <1>5, EndFacts DEF HoldsWhatItNeeds, KnowsItsConn, ReadGated, WriteGated, Asking
  <2>5. QED
    BY <1>1, <1>2, <1>5, <2>1, <2>2, <2>3, <2>4, EndFacts, GateFacts, TaskMovesInv
<1>6. QED
  BY <1>4, <1>5 DEF Commit

\* The I/O is counted before the gate is left.
LEMMA StartIoInv ==
    ASSUME SharedInv, NEW t \in Tasks, StartIo(t)
    PROVE  SharedInv'
<1>1. /\ SharedTypeOK /\ pc[t] = "startIo" /\ io' = [io EXCEPT ![t] = TRUE]
      /\ gate' = [gate EXCEPT ![t] = "none"] /\ Goto(t, "calling") /\ gate[t] # "none" /\ ~io[t]
      /\ UNCHANGED <<conn, meta, madeFor, exited, op, config, inside, borrowed, table, state, idle>>
  BY TaskFacts DEF SharedInv, StartIo, managerVars, taskVars, HoldsWhatItNeeds
<1>2. pc' \in [Tasks -> Places] /\ pc'[t] = "calling" /\ \A u \in Tasks : u # t => pc'[u] = pc[u]
  BY <1>1, GoesFacts DEF Places
<1>3. /\ io' \in [Tasks -> BOOLEAN] /\ io'[t]
      /\ \A u \in Tasks : u # t => io'[u] = io[u]
  BY <1>1, TypesKept
<1>4. /\ gate' \in [Tasks -> {"none", "read", "write"}] /\ gate'[t] = "none"
      /\ \A u \in Tasks : u # t => gate'[u] = gate[u]
  BY <1>1, TypesKept
<1>5. SharedTypeOK'
  <2>1. \A u \in Tasks : gate'[u] # "none" \/ io'[u] => state'[u] # 0
    BY <1>1, <1>3, <1>4, TypesKept
  <2>2. QED
    BY <1>1, <1>2, <1>3, <1>4, <2>1 DEF SharedTypeOK
<1>6. StatesAgree' /\ MetaIsTrue'
  BY <1>1 DEF SharedInv, StatesAgree, MetaIsTrue
<1>7. SleepersWaitForIo'
  BY <1>1, <1>2, <1>3, SleepersAsBefore
<1>8. HoldsWhatItNeeds(t)' /\ KnowsItsConn(t)'
  BY <1>1, <1>2, <1>3, <1>4, TaskFacts DEF HoldsWhatItNeeds, KnowsItsConn, ReadGated, WriteGated, Asking
<1>9. QED
  BY <1>1, <1>2, <1>3, <1>4, <1>5, <1>6, <1>7, <1>8, TaskMovesInv

\* A call has ended; its guard has still to be dropped.
LEMMA CallEndsInv ==
    ASSUME SharedInv, NEW t \in Tasks, CallEnds(t)
    PROVE  SharedInv'
<1>1. /\ SharedTypeOK /\ pc[t] = "calling" /\ Goto(t, "dropIo") /\ io[t]
      /\ op' \in {op, [op EXCEPT ![t] = "cleanup"]}
      /\ UNCHANGED <<conn, meta, madeFor, exited, config, inside, borrowed, table, state, gate, io, idle>>
  BY TaskFacts DEF SharedInv, CallEnds, managerVars, stateVars, HoldsWhatItNeeds
<1>2. pc' \in [Tasks -> Places] /\ pc'[t] = "dropIo" /\ \A u \in Tasks : u # t => pc'[u] = pc[u]
  BY <1>1, GoesFacts DEF Places
<1>3. /\ op' \in [Tasks -> Operations] /\ op'[t] \in {op[t], "cleanup"}
      /\ \A u \in Tasks : u # t => op'[u] = op[u]
  BY <1>1, TypesKept DEF Operations
<1>4. SharedTypeOK'
  BY <1>1, <1>2, <1>3 DEF SharedTypeOK
<1>5. StatesAgree' /\ MetaIsTrue'
  BY <1>1 DEF SharedInv, StatesAgree, MetaIsTrue
<1>6. SleepersWaitForIo'
  BY <1>1, <1>2, SleepersAsBefore
<1>7. HoldsWhatItNeeds(t)'
  BY <1>1, <1>2, TaskFacts DEF HoldsWhatItNeeds, ReadGated, WriteGated
<1>8. KnowsItsConn(t)'
  BY <1>1, <1>2, <1>3, TaskFacts DEF KnowsItsConn, Asking
<1>9. QED
  BY <1>1, <1>2, <1>3, <1>4, <1>5, <1>6, <1>7, <1>8, GateFacts, TaskMovesInv

\* A task without a guard goes to clean up, or is done.
LEMMA AfterIoFacts ==
    ASSUME SharedInv, NEW t \in Tasks, AfterIo(t)
    PROVE  /\ pc' \in [Tasks -> Places] /\ op' \in [Tasks -> Operations]
           /\ config' \in [Tasks -> Configs \cup {NoConfig}] /\ inside' \in [Tasks -> BOOLEAN]
           /\ state' \in [Tasks -> States \cup {0}] /\ borrowed' \in [Tasks -> 0..Len(madeFor)]
           /\ pc'[t] \in {"lookup", "done"} /\ op'[t] \in {"cleanup", "none"} /\ state'[t] = 0
           /\ gate' = gate
           /\ \A u \in Tasks : u # t =>
                /\ pc'[u] = pc[u] /\ op'[u] = op[u] /\ config'[u] = config[u]
                /\ state'[u] = state[u] /\ borrowed'[u] = borrowed[u]
<1>1. SharedTypeOK
  BY DEF SharedInv
<1>2. state' = [state EXCEPT ![t] = 0] /\ gate' = gate
  BY DEF AfterIo
<1>3. CASE op[t] = "cleanup"
  <2>1. UNCHANGED <<op, config, inside, borrowed>> /\ Goto(t, "lookup")
    BY <1>3 DEF AfterIo, taskVars
  <2>2. pc' \in [Tasks -> Places] /\ pc'[t] = "lookup" /\ \A u \in Tasks : u # t => pc'[u] = pc[u]
    BY <2>1, GoesFacts DEF Places
  <2>3. QED
    BY <1>1, <1>2, <1>3, <2>1, <2>2, TypesKept
<1>4. CASE op[t] # "cleanup"
  <2>1. /\ op' = [op EXCEPT ![t] = "none"] /\ config' = [config EXCEPT ![t] = NoConfig]
        /\ inside' = [inside EXCEPT ![t] = FALSE] /\ Goto(t, "done")
    BY <1>4 DEF AfterIo, Forget
  <2>2. borrowed' = [borrowed EXCEPT ![t] = IF t = Cleaner(t) THEN borrowed[t] ELSE 0]
    BY <1>4 DEF AfterIo, Forget
  <2>3. pc' \in [Tasks -> Places] /\ pc'[t] = "done" /\ \A u \in Tasks : u # t => pc'[u] = pc[u]
    BY <2>1, GoesFacts DEF Places
  <2>4. op' \in [Tasks -> Operations] /\ config' \in [Tasks -> Configs \cup {NoConfig}]
        /\ inside' \in [Tasks -> BOOLEAN]
    BY <1>1, <2>1, TypesKept DEF Operations
  <2>5. 0 \in 0..Len(madeFor)
    BY <1>1, TypesKept
  <2>6. borrowed' \in [Tasks -> 0..Len(madeFor)]
    BY <1>1, <2>2, <2>5, TypesKept
  <2>7. QED
    BY <1>1, <1>2, <2>1, <2>2, <2>3, <2>4, <2>6, TypesKept
<1>5. QED
  BY <1>3, <1>4

\* A task leaves its state after its guard, when nobody sleeps for it.
LEMMA AfterIoInv ==
    ASSUME SharedInv, NEW t \in Tasks, pc[t] \in {"dropIo", "notify"}, AfterIo(t), ~io'[t],
           UNCHANGED <<managerVars, table>>,
           io' \in [Tasks -> BOOLEAN], \A u \in Tasks : u # t => io'[u] = io[u],
           idle' \in [Tasks -> {"none", "registered", "notified"}],
           \A u \in Tasks : idle[u] # "none" => idle'[u] # "none",
           SleepersWaitForIo'
    PROVE  SharedInv'
<1>1. /\ SharedTypeOK /\ gate[t] = "none" /\ UNCHANGED <<conn, meta, madeFor, exited, table>>
  BY TaskFacts DEF SharedInv, managerVars, HoldsWhatItNeeds
<1>2. SharedTypeOK'
  <2>1. \A u \in Tasks : gate'[u] # "none" \/ io'[u] => state'[u] # 0
    <3>1. \A u \in Tasks : gate[u] # "none" \/ io[u] => state[u] # 0
      BY <1>1 DEF SharedTypeOK
    <3>2. gate' = gate /\ \A u \in Tasks : u # t => state'[u] = state[u]
      BY AfterIoFacts
    <3>3. QED
      BY <1>1, <3>1, <3>2
  <2>2. borrowed' \in [Tasks -> 0..Len(madeFor')]
    BY <1>1, AfterIoFacts
  <2>3. gate' \in [Tasks -> {"none", "read", "write"}]
    BY <1>1, AfterIoFacts, TypesKept
  <2>4. QED
    BY <1>1, <2>1, <2>2, <2>3, AfterIoFacts DEF SharedTypeOK
<1>3. StatesAgree' /\ MetaIsTrue'
  BY <1>1, AfterIoFacts DEF SharedInv, StatesAgree, MetaIsTrue
<1>4. HoldsWhatItNeeds(t)' /\ KnowsItsConn(t)'
  BY AfterIoFacts DEF HoldsWhatItNeeds, KnowsItsConn, ReadGated, WriteGated, Asking
<1>5. QED
  BY <1>1, <1>2, <1>3, <1>4, AfterIoFacts, TaskMovesInv

\* A guard is dropped: if it was the last, whoever sleeps has still to be notified.
LEMMA DropIoInv ==
    ASSUME SharedInv, NEW t \in Tasks, DropIo(t)
    PROVE  SharedInv'
<1>1. /\ SharedTypeOK /\ pc[t] = "dropIo" /\ io' = [io EXCEPT ![t] = FALSE] /\ io[t] /\ gate[t] = "none"
      /\ state[t] # 0 /\ UNCHANGED <<managerVars, table, idle>>
  BY TaskFacts, TypesKept DEF SharedInv, DropIo, HoldsWhatItNeeds
<1>2. io' \in [Tasks -> BOOLEAN] /\ ~io'[t] /\ \A u \in Tasks : u # t => io'[u] = io[u]
  BY <1>1, TypesKept
<1>3. CASE InFlight(state[t]) = {t}
  <2>1. Goto(t, "notify") /\ UNCHANGED <<conn, meta, madeFor, exited, table, op, config, inside, borrowed, state, gate, idle>>
    BY <1>1, <1>3 DEF DropIo, managerVars, taskVars
  <2>2. pc' \in [Tasks -> Places] /\ pc'[t] = "notify" /\ \A u \in Tasks : u # t => pc'[u] = pc[u]
    BY <2>1, GoesFacts DEF Places
  <2>3. SharedTypeOK'
    <3>1. \A u \in Tasks : gate[u] # "none" \/ io[u] => state[u] # 0
      BY <1>1 DEF SharedTypeOK
    <3>2. \A u \in Tasks : gate'[u] # "none" \/ io'[u] => state'[u] # 0
      BY <1>2, <2>1, <3>1
    <3>3. QED
      BY <1>1, <1>2, <2>1, <2>2, <3>2 DEF SharedTypeOK
  <2>4. StatesAgree' /\ MetaIsTrue'
    BY <2>1 DEF SharedInv, StatesAgree, MetaIsTrue
  <2>5. SleepersWaitForIo'
    BY <1>1, <1>2, <2>1, <2>2, SleepersAsBefore
  <2>6. HoldsWhatItNeeds(t)' /\ KnowsItsConn(t)'
    BY <1>1, <1>2, <2>1, <2>2, TaskFacts DEF HoldsWhatItNeeds, KnowsItsConn, ReadGated, WriteGated, Asking
  <2>7. QED
    BY <1>1, <1>2, <2>1, <2>2, <2>3, <2>4, <2>5, <2>6, TaskMovesInv
<1>4. CASE InFlight(state[t]) # {t}
  <2>1. AfterIo(t)
    BY <1>4 DEF DropIo
  <2>2. PICK w \in Tasks : w # t /\ io[w] /\ state[w] = state[t]
    BY <1>1, <1>4 DEF InFlight
  <2>3. SleepersWaitForIo'
    <3> SUFFICES ASSUME NEW u \in Tasks, pc'[u] = "asleep", idle'[u] # "notified"
                 PROVE  \E v \in Tasks : state'[v] = state'[u] /\ (io'[v] \/ pc'[v] = "notify")
      BY DEF SleepersWaitForIo
    <3>1. /\ u # t /\ pc[u] = "asleep" /\ idle[u] # "notified" /\ state'[u] = state[u]
      BY <1>1, <2>1, AfterIoFacts
    <3>2. PICK v \in Tasks : state[v] = state[u] /\ (io[v] \/ pc[v] = "notify")
      BY <3>1 DEF SharedInv, SleepersWaitForIo
    <3>3. CASE v = t
      BY <1>2, <2>1, <2>2, <3>1, <3>2, <3>3, AfterIoFacts
    <3>4. CASE v # t
      BY <1>2, <2>1, <3>1, <3>2, <3>4, AfterIoFacts
    <3>5. QED
      BY <3>3, <3>4
  <2>4. idle' \in [Tasks -> {"none", "registered", "notified"}] /\ \A u \in Tasks : idle[u] # "none" => idle'[u] # "none"
    BY <1>1, TypesKept
  <2>5. QED
    BY <1>1, <1>2, <2>1, <2>3, <2>4, AfterIoInv
<1>5. QED
  BY <1>3, <1>4

\* Everybody who is registered is notified.
LEMMA NotifyIdleInv ==
    ASSUME SharedInv, NEW t \in Tasks, NotifyIdle(t)
    PROVE  SharedInv'
<1>1. /\ SharedTypeOK /\ pc[t] = "notify" /\ AfterIo(t) /\ ~io[t] /\ UNCHANGED <<managerVars, table, io>>
      /\ idle' = [u \in Tasks |-> IF state[u] = state[t] /\ idle[u] = "registered" THEN "notified" ELSE idle[u]]
  BY TaskFacts DEF SharedInv, NotifyIdle, HoldsWhatItNeeds
<1>2. /\ idle' \in [Tasks -> {"none", "registered", "notified"}]
      /\ \A u \in Tasks : idle[u] # "none" => idle'[u] # "none"
      /\ \A u \in Tasks : state[u] = state[t] /\ idle[u] # "none" => idle'[u] = "notified"
      /\ \A u \in Tasks : idle[u] = "notified" => idle'[u] = "notified"
  BY <1>1, TypesKept
<1>3. SleepersWaitForIo'
  <2> SUFFICES ASSUME NEW u \in Tasks, pc'[u] = "asleep", idle'[u] # "notified"
               PROVE  \E v \in Tasks : state'[v] = state'[u] /\ (io'[v] \/ pc'[v] = "notify")
    BY DEF SleepersWaitForIo
  <2>1. u # t /\ pc[u] = "asleep" /\ state'[u] = state[u] /\ idle[u] # "none" /\ idle[u] # "notified"
    BY <1>1, <1>2, AfterIoFacts, TaskFacts DEF HoldsWhatItNeeds
  <2>2. PICK v \in Tasks : state[v] = state[u] /\ (io[v] \/ pc[v] = "notify")
    BY <2>1 DEF SharedInv, SleepersWaitForIo
  <2>3. v # t
    BY <1>2, <2>1, <2>2
  <2>4. QED
    BY <1>1, <2>1, <2>2, <2>3, AfterIoFacts
<1>4. io' \in [Tasks -> BOOLEAN] /\ ~io'[t]
  BY <1>1, TypesKept
<1>5. QED
  BY <1>1, <1>2, <1>3, <1>4, AfterIoInv

\* A disconnect sees all I/O there is, as all have one state.
LEMMA InFlightFacts ==
    ASSUME SharedInv, NEW t \in Tasks, pc[t] \in WriteGated
    PROVE  /\ gate[t] = "write" /\ state[t] # 0 /\ ~io[t]
           /\ InFlight(state[t]) = {} => \A u \in Tasks : ~io[u]
<1>1. gate[t] = "write" /\ ~io[t]
  BY TaskFacts DEF HoldsWhatItNeeds, WriteGated
<1>2. \A u \in Tasks : gate[u] # "none" \/ io[u] => state[u] # 0 /\ state[u] = table
  BY TaskFacts DEF SharedInv, SharedTypeOK
<1>3. QED
  BY <1>1, <1>2 DEF InFlight

\* A disconnect goes on between its looks at the I/O in flight, or to sleep.
LEMMA WaitInv ==
    ASSUME SharedInv, NEW t \in Tasks, NEW l \in {"check", "asleep", "remove"}, Goto(t, l),
           pc[t] \in {"register", "check"},
           UNCHANGED <<managerVars, taskVars, table, state, gate, io>>,
           idle' \in [Tasks -> {"none", "registered", "notified"}],
           l # "remove" => idle'[t] # "none", \A u \in Tasks : u # t => idle'[u] = idle[u],
           l = "remove" => InFlight(state[t]) = {}, l = "asleep" => InFlight(state[t]) # {}
    PROVE  SharedInv'
<1>1. /\ SharedTypeOK /\ pc[t] \in WriteGated
      /\ UNCHANGED <<conn, meta, madeFor, exited, op, config, inside, borrowed, table, state, gate, io>>
  BY DEF SharedInv, managerVars, taskVars, WriteGated
<1>2. pc' \in [Tasks -> Places] /\ pc'[t] = l /\ \A u \in Tasks : u # t => pc'[u] = pc[u]
  BY GoesFacts DEF Places
<1>3. SharedTypeOK'
  BY <1>1, <1>2 DEF SharedTypeOK
<1>4. StatesAgree' /\ MetaIsTrue'
  BY <1>1 DEF SharedInv, StatesAgree, MetaIsTrue
<1>5. SleepersWaitForIo'
  <2> SUFFICES ASSUME NEW u \in Tasks, pc'[u] = "asleep", idle'[u] # "notified"
               PROVE  \E v \in Tasks : state'[v] = state'[u] /\ (io'[v] \/ pc'[v] = "notify")
    BY DEF SleepersWaitForIo
  <2>1. CASE u = t
    BY <1>1, <1>2, <2>1 DEF InFlight
  <2>2. CASE u # t
    <3>1. PICK v \in Tasks : state[v] = state[u] /\ (io[v] \/ pc[v] = "notify")
      BY <1>2, <2>2 DEF SharedInv, SleepersWaitForIo
    <3>2. QED
      BY <1>1, <1>2, <3>1
  <2>3. QED
    BY <2>1, <2>2
<1>6. HoldsWhatItNeeds(t)'
  BY <1>1, <1>2, InFlightFacts DEF HoldsWhatItNeeds, ReadGated, WriteGated
<1>7. KnowsItsConn(t)'
  BY <1>1, <1>2, TaskFacts DEF KnowsItsConn, Asking
<1>8. l = "remove" => \A u \in Tasks : ~io[u]
  BY <1>1, InFlightFacts
<1>9. \A u \in Tasks : u # t => (gate[t] = "write" => gate[u] = "none") /\ (gate[t] # "none" => gate[u] # "write")
  BY GateFacts
<1>10. pc[t] \notin {"idle", "done"}
  OBVIOUS
<1>11. QED
  BY <1>1, <1>2, <1>3, <1>4, <1>5, <1>6, <1>7, <1>8, <1>9, <1>10, TaskMovesInv

\* A disconnect registers with the notification.
LEMMA RegisterIdleInv ==
    ASSUME SharedInv, NEW t \in Tasks, RegisterIdle(t)
    PROVE  SharedInv'
<1>1. /\ pc[t] = "register" /\ idle' = [idle EXCEPT ![t] = "registered"] /\ Goto(t, "check")
      /\ UNCHANGED <<managerVars, taskVars, table, state, gate, io>>
  BY DEF RegisterIdle
<1>2. /\ idle' \in [Tasks -> {"none", "registered", "notified"}] /\ idle'[t] # "none"
      /\ \A u \in Tasks : u # t => idle'[u] = idle[u]
  BY <1>1, TypesKept DEF SharedInv
<1>3. QED
  BY <1>1, <1>2, WaitInv

\* It looks at the count again before it sleeps.
LEMMA CheckIoInv ==
    ASSUME SharedInv, NEW t \in Tasks, CheckIo(t)
    PROVE  SharedInv'
<1>1. /\ pc[t] = "check" /\ UNCHANGED <<managerVars, taskVars, table, state, gate, io>>
      /\ idle \in [Tasks -> {"none", "registered", "notified"}] /\ idle[t] # "none"
  BY TaskFacts, TypesKept DEF SharedInv, CheckIo, HoldsWhatItNeeds
<1>2. CASE InFlight(state[t]) = {}
  <2>1. Goto(t, "remove") /\ idle' = [idle EXCEPT ![t] = "none"]
    BY <1>2 DEF CheckIo
  <2>2. /\ idle' \in [Tasks -> {"none", "registered", "notified"}]
        /\ \A u \in Tasks : u # t => idle'[u] = idle[u]
    BY <1>1, <2>1
  <2>3. QED
    BY <1>1, <1>2, <2>1, <2>2, WaitInv
<1>3. CASE InFlight(state[t]) # {}
  <2>1. Goto(t, "asleep") /\ idle' = idle
    BY <1>3 DEF CheckIo
  <2>2. QED
    BY <1>1, <1>3, <2>1, WaitInv
<1>4. QED
  BY <1>2, <1>3

\* A disconnect looks whether any I/O is in flight; in a handler it does not wait.
LEMMA LookForIoInv ==
    ASSUME SharedInv, NEW t \in Tasks, LookForIo(t)
    PROVE  SharedInv'
<1>1. /\ pc[t] = "drain" /\ ~io[t] /\ gate[t] = "write" /\ state[t] # 0
      /\ InFlight(state[t]) = {} => \A u \in Tasks : ~io[u]
  BY InFlightFacts DEF LookForIo, WriteGated
<1>2. CASE Refuse(t)
  BY <1>1, <1>2, RefuseInv
<1>3. ASSUME NEW l \in {"remove", "register"}, Goto(t, l), UNCHANGED <<managerVars, taskVars, stateVars>>,
             l = "remove" => InFlight(state[t]) = {}
      PROVE  SharedInv'
  <2>1. UNCHANGED <<conn, meta, madeFor, exited, op, config, inside, borrowed, table, state, gate, io, idle>>
    BY <1>3 DEF managerVars, taskVars, stateVars
  <2>2. l \in Places /\ pc'[t] = l
    BY <1>3, GoesFacts DEF Places
  <2>3. HoldsWhatItNeeds(t)' /\ KnowsItsConn(t)'
    BY <1>1, <2>1, <2>2, TaskFacts DEF HoldsWhatItNeeds, KnowsItsConn, ReadGated, WriteGated, Asking
  <2>4. ConnGoesOrStays /\ UNCHANGED <<taskVars, table, state, io, idle>>
    BY <1>3, <2>1 DEF ConnGoesOrStays
  <2>5. QED
    BY <1>1, <1>3, <2>1, <2>2, <2>3, <2>4, GoInv
<1>4. QED
  BY <1>2, <1>3 DEF LookForIo

\* A sleeper that was notified looks again.
LEMMA WakeUpInv ==
    ASSUME SharedInv, NEW t \in Tasks, WakeUp(t)
    PROVE  SharedInv'
<1>1. /\ pc[t] = "asleep" /\ Goto(t, "register") /\ ~io[t] /\ gate[t] = "write" /\ UNCHANGED taskVars
      /\ UNCHANGED <<conn, meta, madeFor, exited, op, config, inside, borrowed, table, state, gate, io, idle>>
  BY TaskFacts DEF WakeUp, managerVars, taskVars, stateVars, HoldsWhatItNeeds, WriteGated
<1>2. pc'[t] = "register"
  BY <1>1, GoesFacts DEF Places
<1>3. HoldsWhatItNeeds(t)' /\ KnowsItsConn(t)'
  BY <1>1, <1>2, TaskFacts DEF HoldsWhatItNeeds, KnowsItsConn, ReadGated, WriteGated, Asking
<1>4. ConnGoesOrStays /\ "register" \in Places
  BY <1>1 DEF ConnGoesOrStays, Places
<1>5. QED
  BY <1>1, <1>3, <1>4, GoInv

\* The manager forgets the connection.
LEMMA DropRecordInv ==
    ASSUME SharedInv, NEW t \in Tasks, DropRecord(t)
    PROVE  SharedInv'
<1>1. /\ pc[t] = "remove" /\ ~io[t] /\ gate[t] = "write" /\ UNCHANGED <<madeFor, exited, table, io>>
  BY TaskFacts DEF DropRecord, HoldsWhatItNeeds, WriteGated
<1>2. ConnGoesOrStays
  BY DEF DropRecord, ConnGoesOrStays
<1>3. CASE End(t)
  BY <1>1, <1>2, <1>3, EndInv
<1>4. CASE Goto(t, "teardown") /\ UNCHANGED <<taskVars, gate, state, idle>>
  <2>1. UNCHANGED <<op, config, inside, borrowed>>
    BY <1>4 DEF taskVars
  <2>2. pc'[t] = "teardown" /\ "teardown" \in Places
    BY <1>4, GoesFacts DEF Places
  <2>3. HoldsWhatItNeeds(t)' /\ KnowsItsConn(t)'
    BY <1>1, <1>4, <2>1, <2>2, TaskFacts DEF HoldsWhatItNeeds, KnowsItsConn, ReadGated, WriteGated, Asking
  <2>4. QED
    BY <1>1, <1>2, <1>4, <2>2, <2>3, GoInv
<1>5. QED
  BY <1>3, <1>4 DEF DropRecord

\* The connection taken away has come to its end.
LEMMA TearDownInv ==
    ASSUME SharedInv, NEW t \in Tasks, TearDown(t)
    PROVE  SharedInv'
<1>1. pc[t] = "teardown" /\ ~io[t] /\ ConnGoesOrStays /\ UNCHANGED <<table, io>>
  BY TaskFacts DEF TearDown, HoldsWhatItNeeds, ConnGoesOrStays, managerVars
<1>2. QED
  BY <1>1, EndInv DEF TearDown

\* Somebody asks whether there is a connection; one that is over goes.
LEMMA IsConnectedInv ==
    ASSUME SharedInv, NEW t \in Tasks, IsConnected(t)
    PROVE  SharedInv'
<1>1. pc[t] = "isConnected" /\ ~io[t] /\ ConnGoesOrStays /\ UNCHANGED <<table, io>>
  BY TaskFacts, PruneFacts DEF IsConnected, HoldsWhatItNeeds
<1>2. QED
  BY <1>1, EndInv DEF IsConnected

\* An operation is cancelled: its guard is still dropped.
LEMMA CancelInv ==
    ASSUME SharedInv, NEW t \in Tasks, Cancel(t)
    PROVE  SharedInv'
<1>1. /\ pc[t] \notin {"idle", "done", "notify", "dropIo"} /\ UNCHANGED <<managerVars, table, io>>
      /\ ConnGoesOrStays /\ "dropIo" \in Places
  BY DEF Cancel, Active, ConnGoesOrStays, managerVars, Places
<1>2. CASE io[t]
  <2>1. Goto(t, "dropIo") /\ UNCHANGED <<taskVars, gate, state, idle>> /\ pc[t] = "calling"
    BY <1>1, <1>2, TaskFacts DEF Cancel, HoldsWhatItNeeds
  <2>2. UNCHANGED <<conn, meta, madeFor, exited, op, config, inside, borrowed, table, state, gate, io, idle>>
    BY <1>1, <2>1 DEF taskVars, managerVars
  <2>3. pc'[t] = "dropIo"
    BY <1>1, <2>1, GoesFacts
  <2>4. HoldsWhatItNeeds(t)' /\ KnowsItsConn(t)'
    BY <1>2, <2>1, <2>2, <2>3, TaskFacts DEF HoldsWhatItNeeds, KnowsItsConn, ReadGated, WriteGated, Asking
  <2>5. QED
    BY <1>1, <1>2, <2>1, <2>2, <2>4, GoInv
<1>3. CASE ~io[t]
  BY <1>1, <1>3, EndInv DEF Cancel
<1>4. QED
  BY <1>2, <1>3

\* A connection comes to its end without a task.
LEMMA ConnectionExitsInv ==
    ASSUME SharedInv, ConnectionExits
    PROVE  SharedInv'
<1>1. /\ SharedTypeOK
      /\ UNCHANGED <<conn, meta, madeFor, op, config, inside, borrowed, table, state, gate, io, idle, pc>>
  BY DEF SharedInv, ConnectionExits, taskVars, stateVars
<1>2. PICK id \in {conn} \cup {borrowed[t] : t \in {u \in Tasks : pc[u] = "commit"}} :
          id # 0 /\ exited' = exited \cup {id}
  BY DEF ConnectionExits
<1>3. id \in 0..Len(madeFor) /\ exited \subseteq 1..Len(madeFor)
  BY <1>1, <1>2 DEF SharedTypeOK
<1>4. id \in 1..Len(madeFor)
  BY <1>1, <1>2, <1>3, TypesKept
<1>5. SharedTypeOK'
  BY <1>1, <1>2, <1>3, <1>4 DEF SharedTypeOK
<1>6. /\ StatesAgree' /\ GatesExclude' /\ CleanersComeAfter' /\ MetaIsTrue' /\ RemovesUnborrowed'
      /\ SleepersWaitForIo'
  BY <1>1 DEF SharedInv, StatesAgree, GatesExclude, CleanersComeAfter, MetaIsTrue, RemovesUnborrowed,
              SleepersWaitForIo
<1>7. \A t \in Tasks : HoldsWhatItNeeds(t)' /\ KnowsItsConn(t)'
  BY <1>1, TaskFacts DEF HoldsWhatItNeeds, KnowsItsConn
<1>8. QED
  BY <1>5, <1>6, <1>7 DEF SharedInv

\* A step of a task, its own or of the server that answers it.
LEMMA TaskStepInv ==
    ASSUME SharedInv, NEW t \in Tasks, TaskStep(t) \/ ServerAnswers(t) \/ LockRefused(t)
    PROVE  SharedInv'
<1>1. CASE GateRefused(t) \/ LockRefused(t)
  <2>1. /\ Refuse(t)
        /\ pc[t] \notin {"idle", "done", "notify", "calling", "dropIo"}
    BY <1>1 DEF GateRefused, LockRefused
  <2>2. ~io[t]
    BY <2>1, TaskFacts DEF HoldsWhatItNeeds
  <2>3. QED
    BY <2>1, <2>2, RefuseInv
<1>2. CASE ServerAnswers(t)
  BY <1>2, ConnectInv, CallEndsInv DEF ServerAnswers
<1>3. CASE EnterGate(t) \/ Reuse(t) \/ Recheck(t) \/ Commit(t) \/ Borrow(t) \/ StartIo(t)
  BY <1>3, EnterGateInv, ReuseInv, RecheckInv, CommitInv, BorrowInv, StartIoInv
<1>4. CASE DropIo(t) \/ NotifyIdle(t) \/ Lookup(t) \/ LookForIo(t) \/ RegisterIdle(t) \/ CheckIo(t)
  BY <1>4, DropIoInv, NotifyIdleInv, LookupInv, LookForIoInv, RegisterIdleInv, CheckIoInv
<1>5. CASE WakeUp(t) \/ DropRecord(t) \/ TearDown(t) \/ IsConnected(t)
  BY <1>5, WakeUpInv, DropRecordInv, TearDownInv, IsConnectedInv
<1>6. QED
  BY <1>1, <1>2, <1>3, <1>4, <1>5 DEF TaskStep

\* Every step keeps the invariant.
LEMMA SharedStepInv == SharedInv /\ [SharedNext]_vars => SharedInv'
<1> SUFFICES ASSUME SharedInv, [SharedNext]_vars PROVE SharedInv'
  OBVIOUS
<1>1. ASSUME NEW t \in Tasks, Begin(t) \/ TaskStep(t) \/ ServerAnswers(t) \/ LockRefused(t) \/ Cancel(t)
      PROVE  SharedInv'
  BY <1>1, BeginInv, TaskStepInv, CancelInv
<1>2. CASE ConnectionExits
  BY <1>2, ConnectionExitsInv
<1>3. CASE UNCHANGED vars
  <2>1. UNCHANGED <<conn, meta, madeFor, exited, op, config, inside, borrowed, table, state, gate, io, idle, pc>>
    BY <1>3 DEF vars, managerVars, taskVars, stateVars
  <2>2. SharedTypeOK'
    BY <2>1 DEF SharedInv, SharedTypeOK
  <2>3. /\ StatesAgree' /\ GatesExclude' /\ CleanersComeAfter' /\ MetaIsTrue' /\ RemovesUnborrowed'
        /\ SleepersWaitForIo'
    BY <2>1 DEF SharedInv, StatesAgree, GatesExclude, CleanersComeAfter, MetaIsTrue, RemovesUnborrowed,
                SleepersWaitForIo
  <2>4. \A t \in Tasks : HoldsWhatItNeeds(t)' /\ KnowsItsConn(t)'
    BY <2>1, TaskFacts DEF HoldsWhatItNeeds, KnowsItsConn
  <2>5. QED
    BY <2>2, <2>3, <2>4 DEF SharedInv
<1>4. QED
  BY <1>1, <1>2, <1>3 DEF SharedNext

\* What the tasks hold of the gate and of the state of the server, and what they know
\* of the connection, holds whatever they do and whoever is cancelled.
THEOREM SharedInvariant == SharedSpec => []SharedInv
<1>1. QED
  BY SharedInitInv, SharedStepInv, PTL DEF SharedSpec

\* Every variable keeps its type; who holds the gate or has I/O in flight holds the state.
THEOREM SharedTypeCorrect == SharedSpec => []SharedTypeOK
<1>1. SharedInv => SharedTypeOK
  BY DEF SharedInv
<1>2. QED
  BY <1>1, SharedInvariant, PTL

\* At most one task connects or tears down at a time, a connection is installed only
\* where there is none, and a request goes only over a connection that was made for its
\* configuration.
THEOREM OneConnectionAtATime == SharedSpec => []OneConnectionAsAsked
<1>1. SharedInv => OneConnectionAsAsked
  <2> SUFFICES ASSUME SharedInv PROVE OneConnectionAsAsked
    OBVIOUS
  <2> DEFINE busy == {t \in Tasks : pc[t] \in {"connecting", "commit", "teardown"}}
  <2>1. \A t, u \in busy : t = u
    BY InFlightFacts, GateFacts DEF WriteGated
  <2>2. Cardinality(busy) <= 1
    <3> HIDE DEF busy
    <3>1. CASE busy = {}
      BY <3>1, FS_EmptySet
    <3>2. CASE busy # {}
      <4>1. PICK t : t \in busy
        BY <3>2
      <4>2. busy = {t}
        BY <2>1, <4>1
      <4>3. Cardinality(busy) = 1
        BY <4>2, FS_Singleton
      <4>4. QED
        BY <4>3
    <3>3. QED
      BY <3>1, <3>2
  <2>3. OneLifecycle
    BY <2>2, TaskFacts DEF OneLifecycle, KnowsItsConn
  <2>4. RequestsUseTheirConfig
    BY TaskFacts DEF RequestsUseTheirConfig, HoldsWhatItNeeds, KnowsItsConn
  <2>5. QED
    BY <2>3, <2>4 DEF OneConnectionAsAsked
<1>2. QED
  BY <1>1, SharedInvariant, PTL

\* A disconnect that sleeps until the I/O is over has been notified, or a guard of the
\* same state has still to be dropped or to notify.
THEOREM SleepersAreNotified == SharedSpec => []SleepersWaitForIo
<1>1. SharedInv => SleepersWaitForIo
  BY DEF SharedInv
<1>2. QED
  BY <1>1, SharedInvariant, PTL

\* Only a disconnect, or the clean-up after an error on that very connection, takes away
\* a connection that lives, and only while no call is in flight on it.
THEOREM LiveConnectionsStay == SharedSpec => LiveConnectionsGoUnborrowed
<1> DEFINE Unborrowed ==
        Alive /\ conn' # conn =>
          /\ \A t \in Tasks : io[t] => borrowed[t] # conn
          /\ \E t \in Tasks : pc[t] = "remove" /\ (op[t] = "disconnect" \/ borrowed[t] = conn)
<1>1. SharedInv /\ [SharedNext]_vars => Unborrowed
  <2> SUFFICES ASSUME SharedInv, [SharedNext]_vars, Alive, conn' # conn
               PROVE  /\ \A t \in Tasks : io[t] => borrowed[t] # conn
                      /\ \E t \in Tasks : pc[t] = "remove" /\ (op[t] = "disconnect" \/ borrowed[t] = conn)
    OBVIOUS
  <2>1. ~ UNCHANGED vars /\ ~ ConnectionExits
    BY DEF vars, managerVars, ConnectionExits
  <2>2. PICK t \in Tasks : Begin(t) \/ TaskStep(t) \/ ServerAnswers(t) \/ LockRefused(t) \/ Cancel(t)
    BY <2>1 DEF SharedNext
  <2>3. ~ (Begin(t) \/ ServerAnswers(t) \/ LockRefused(t) \/ Cancel(t))
    BY DEF Begin, ServerAnswers, Connect, CallEnds, LockRefused, Refuse, Cancel, managerVars
  <2>4. ~ (GateRefused(t) \/ EnterGate(t) \/ StartIo(t) \/ Lookup(t) \/ TearDown(t))
    BY DEF GateRefused, Refuse, EnterGate, StartIo, Lookup, TearDown, managerVars
  <2>5. ~ (DropIo(t) \/ NotifyIdle(t) \/ LookForIo(t) \/ RegisterIdle(t) \/ CheckIo(t) \/ WakeUp(t))
    BY DEF DropIo, NotifyIdle, LookForIo, Refuse, RegisterIdle, CheckIo, WakeUp, managerVars
  <2>6. ~ (Reuse(t) \/ Recheck(t) \/ Borrow(t) \/ IsConnected(t))
    BY DEF Reuse, Recheck, Borrow, IsConnected, Prune
  <2>7. ~ Commit(t)
    BY TaskFacts DEF Commit, KnowsItsConn, Alive
  <2>8. DropRecord(t)
    BY <2>2, <2>3, <2>4, <2>5, <2>6, <2>7 DEF TaskStep
  <2>9. pc[t] = "remove" /\ (op[t] = "disconnect" \/ conn = borrowed[t])
    BY <2>8 DEF DropRecord, Removed
  <2>10. \A u \in Tasks : ~io[u]
    BY <2>9 DEF SharedInv, RemovesUnborrowed
  <2>11. QED
    BY <2>9, <2>10
<1>2. SharedSpec => [][Unborrowed]_vars
  <2> HIDE DEF Unborrowed
  <2>1. QED
    BY <1>1, SharedInvariant, PTL DEF SharedSpec
<1>3. QED
  BY <1>2 DEF LiveConnectionsGoUnborrowed
=============================================================================
