--------------------------- MODULE NotifyKitProofs ---------------------------
(***************************************************************************)
(* Five components of notify-kit.                                          *)
(*   NotifyHub: the permits, the results and the panics are accounted for, *)
(*   for any events, sinks and limits: HubInv is inductive.                *)
(*   TenantToken: its state has its fetch or its reset, whoever waits is   *)
(*   registered with that one, and a refused token is not served again,    *)
(*   for any uploads: TenantTokenInv is inductive.                         *)
(*   SessionStore: what was set is in the file or on its way, and the file *)
(*   never goes back, for any chats, limits and changes: StoreInv is       *)
(*   inductive.                                                            *)
(*   EventLoop: the loop of the bots never sleeps on a result and handles  *)
(*   no more events than its limit, for any events, rounds and limits:     *)
(*   EventLoopInv is inductive.                                            *)
(*   BotSessions: the chats of a bot take turns, each session is handled   *)
(*   one message at a time, and the stored maps agree, for any messages,   *)
(*   rooms, sessions and limits: BotsInv is inductive.                     *)
(*   MCKits, where they rest in turn: nothing that was written or settled  *)
(*   is undone (NothingStepsBack).                                         *)
(***************************************************************************)
EXTENDS MCKits, FiniteSetTheorems, TLAPS

\* A queue and the events in it.
LEMMA QueueFacts ==
    ASSUME NEW q \in Seq(Events), NEW e \in Events
    PROVE  /\ Append(q, e) \in Seq(Events) /\ Len(q) \in Nat /\ DOMAIN q = 1..Len(q)
           /\ DOMAIN Append(q, e) = 1..(Len(q) + 1)
           /\ \A i \in 1..Len(q) : Append(q, e)[i] = q[i] /\ q[i] \in Events
           /\ Append(q, e)[Len(q) + 1] = e
           /\ q = <<>> <=> Len(q) = 0
OBVIOUS

\* A queue without its first event.
LEMMA TailFacts ==
    ASSUME NEW q \in Seq(Events), q # <<>>
    PROVE  /\ Head(q) \in Events /\ Head(q) = q[1] /\ Tail(q) \in Seq(Events)
           /\ Len(q) \in Nat /\ Len(q) > 0 /\ DOMAIN Tail(q) = 1..(Len(q) - 1)
           /\ \A i \in 1..(Len(q) - 1) : Tail(q)[i] = q[i + 1]
OBVIOUS

\* A queue without the event at one place.
LEMMA RemoveAtFacts ==
    ASSUME NEW q \in Seq(Events), NEW i \in DOMAIN q
    PROVE  /\ RemoveAt(q, i) \in Seq(Events) /\ Len(q) \in Nat /\ DOMAIN q = 1..Len(q)
           /\ DOMAIN RemoveAt(q, i) = 1..(Len(q) - 1)
           /\ \A k \in 1..(Len(q) - 1) : RemoveAt(q, i)[k] = IF k < i THEN q[k] ELSE q[k + 1]
<1> DEFINE a == SubSeq(q, 1, i - 1)  b == SubSeq(q, i + 1, Len(q))
<1>1. i \in 1..Len(q) /\ Len(q) \in Nat /\ DOMAIN q = 1..Len(q)
  OBVIOUS
<1>2. /\ a \in Seq(Events) /\ Len(a) = i - 1 /\ \A k \in 1..(i - 1) : a[k] = q[k]
  BY <1>1
<1>3. /\ b \in Seq(Events) /\ Len(b) = Len(q) - i /\ \A k \in 1..(Len(q) - i) : b[k] = q[i + k]
  BY <1>1
<1>4. RemoveAt(q, i) = a \o b
  BY DEF RemoveAt
<1> HIDE DEF a, b
<1>5. /\ a \o b \in Seq(Events) /\ Len(a \o b) = Len(q) - 1
      /\ \A k \in 1..(Len(q) - 1) : (a \o b)[k] = IF k <= Len(a) THEN a[k] ELSE b[k - Len(a)]
  <2>1. \A x, y \in Seq(Events) :
          /\ x \o y \in Seq(Events) /\ Len(x \o y) = Len(x) + Len(y)
          /\ \A k \in 1..(Len(x) + Len(y)) : (x \o y)[k] = IF k <= Len(x) THEN x[k] ELSE y[k - Len(x)]
    OBVIOUS
  <2>2. Len(a) + Len(b) = Len(q) - 1
    BY <1>1, <1>2, <1>3
  <2>3. /\ a \o b \in Seq(Events) /\ Len(a \o b) = Len(a) + Len(b)
        /\ \A k \in 1..(Len(a) + Len(b)) : (a \o b)[k] = IF k <= Len(a) THEN a[k] ELSE b[k - Len(a)]
    BY <1>2, <1>3, <2>1
  <2>4. QED
    BY <2>2, <2>3
<1>6. DOMAIN (a \o b) = 1..(Len(q) - 1)
  <2>1. \A s \in Seq(Events) : DOMAIN s = 1..Len(s)
    OBVIOUS
  <2>2. QED
    BY <1>5, <2>1
<1>7. ASSUME NEW k \in 1..(Len(q) - 1)
      PROVE  (a \o b)[k] = IF k < i THEN q[k] ELSE q[k + 1]
  <2>1. CASE k < i
    BY <1>1, <1>2, <1>5, <2>1
  <2>2. CASE ~(k < i)
    <3>1. k - (i - 1) \in 1..(Len(q) - i) /\ i + (k - (i - 1)) = k + 1
      BY <1>1, <2>2
    <3>2. b[k - (i - 1)] = q[k + 1]
      BY <1>3, <3>1
    <3>3. QED
      BY <1>1, <1>2, <1>5, <2>2, <3>2
  <2>3. QED
    BY <2>1, <2>2
<1>8. QED
  BY <1>1, <1>4, <1>5, <1>6, <1>7

\* What leaves a finite set and what enters it.
LEMMA SetCounts ==
    ASSUME NEW S, IsFiniteSet(S)
    PROVE  /\ Cardinality(S) \in Nat
           /\ \A x : x \notin S => /\ IsFiniteSet(S \cup {x})
                                   /\ Cardinality(S \cup {x}) = Cardinality(S) + 1
           /\ \A x : x \in S => /\ IsFiniteSet(S \ {x})
                                /\ Cardinality(S \ {x}) = Cardinality(S) - 1
BY FS_CardinalityType, FS_AddElement, FS_RemoveElement

\* A hub that was just built.
LEMMA HubInitInv == HubInit => HubInv
<1> SUFFICES ASSUME HubInit PROVE HubInv
  OBVIOUS
<1> USE HubAssumption DEF HubInit
<1>1. HubTypeOK
  BY DEF HubTypeOK, Sinks
<1>2. Inflight = {} /\ DOMAIN queue = {}
  BY DEF Inflight
<1>3. PermitsMatchEvents
  BY <1>2, FS_EmptySet DEF PermitsMatchEvents, ToSet
<1>4. PermitsAreKept
  BY <1>2, <1>3, FS_EmptySet DEF PermitsAreKept
<1>5. FanOutGoesOn /\ EverySinkSettled
  BY DEF FanOutGoesOn, EverySinkSettled
<1>6. SinkStatesAreTrue
  BY DEF SinkStatesAreTrue, Sinks
<1>7. QED
  BY <1>1, <1>4, <1>5, <1>6 DEF HubInv

\* A call is turned away.
LEMMA TurnedAwayPermits ==
    ASSUME HubInv, NEW e \in Events, NEW l \in {"declined", "overloaded"}, eventPc[e] = "new",
           eventPc' = [eventPc EXCEPT ![e] = l], UNCHANGED <<permits, queue>>
    PROVE  PermitsAreKept'
<1>1. eventPc \in [Events -> {"new", "declined", "overloaded", "queued", "admitted",
                              "fanout", "done", "dropped"}]
  BY DEF HubInv, HubTypeOK
<1>2. Inflight' = Inflight /\ {x \in Events : eventPc'[x] = "queued"} = {x \in Events : eventPc[x] = "queued"}
  BY <1>1 DEF Inflight
<1>3. QED
  BY <1>2 DEF HubInv, PermitsAreKept, PermitsMatchEvents

\* A call gets a free permit.
LEMMA AdmittedPermits ==
    ASSUME HubInv, NEW e \in Events, eventPc[e] = "new", permits > 0,
           eventPc' = [eventPc EXCEPT ![e] = "admitted"], permits' = permits - 1, UNCHANGED queue
    PROVE  PermitsAreKept'
<1>1. /\ eventPc \in [Events -> {"new", "declined", "overloaded", "queued", "admitted",
                                 "fanout", "done", "dropped"}]
      /\ permits \in 0..MaxInflight /\ MaxInflight \in Nat
  BY HubAssumption DEF HubInv, HubTypeOK
<1>2. /\ e \notin Inflight /\ Inflight' = Inflight \cup {e}
      /\ {x \in Events : eventPc'[x] = "queued"} = {x \in Events : eventPc[x] = "queued"}
  BY <1>1 DEF Inflight
<1>3. IsFiniteSet(Inflight') /\ Cardinality(Inflight') = Cardinality(Inflight) + 1
      /\ Cardinality(Inflight) \in Nat
  BY <1>2, SetCounts DEF HubInv, PermitsAreKept
<1>4. QED
  BY <1>1, <1>2, <1>3 DEF HubInv, PermitsAreKept, PermitsMatchEvents

\* A call waits its turn.
LEMMA QueuedPermits ==
    ASSUME HubInv, NEW e \in Events, eventPc[e] = "new", ~(permits > 0),
           eventPc' = [eventPc EXCEPT ![e] = "queued"], queue' = Append(queue, e), UNCHANGED permits
    PROVE  PermitsAreKept'
<1>1. /\ eventPc \in [Events -> {"new", "declined", "overloaded", "queued", "admitted",
                                 "fanout", "done", "dropped"}]
      /\ queue \in Seq(Events)
  BY DEF HubInv, HubTypeOK
<1>2. /\ Inflight' = Inflight
      /\ {x \in Events : eventPc'[x] = "queued"} = {x \in Events : eventPc[x] = "queued"} \cup {e}
      /\ e \notin {x \in Events : eventPc[x] = "queued"}
  BY <1>1 DEF Inflight
<1>3. ToSet(queue') = ToSet(queue) \cup {e} /\ \A i \in DOMAIN queue : queue[i] \in ToSet(queue)
  BY <1>1, QueueFacts DEF ToSet
<1>4. ToSet(queue) = {x \in Events : eventPc[x] = "queued"}
  BY DEF HubInv, PermitsAreKept, PermitsMatchEvents
<1>5. \A i, k \in DOMAIN queue' : queue'[i] = queue'[k] => i = k
  <2>1. \A i, k \in DOMAIN queue : queue[i] = queue[k] => i = k
    BY DEF HubInv, PermitsAreKept
  <2>2. \A i \in DOMAIN queue : queue[i] # e
    BY <1>2, <1>3, <1>4
  <2>3. \A i \in DOMAIN queue' : i \in DOMAIN queue \/ i = Len(queue) + 1
    BY <1>1, QueueFacts
  <2>4. QED
    BY <1>1, <2>1, <2>2, <2>3, QueueFacts
<1>6. PermitsMatchEvents'
  BY <1>2, <1>3, <1>4 DEF HubInv, PermitsAreKept, PermitsMatchEvents
<1>7. QED
  BY <1>2, <1>5, <1>6 DEF HubInv, PermitsAreKept

\* A permit that is dropped goes back, or to the call that has waited longest.
LEMMA ReleasedPermits ==
    ASSUME HubInv, NEW e \in Events, NEW l \in {"done", "dropped"}, eventPc[e] \in {"admitted", "fanout"},
           ReleasePermit(e, l)
    PROVE  PermitsAreKept' /\ queue' \in Seq(Events) /\ permits' \in 0..MaxInflight
<1>1. /\ eventPc \in [Events -> {"new", "declined", "overloaded", "queued", "admitted",
                                 "fanout", "done", "dropped"}]
      /\ permits \in 0..MaxInflight /\ MaxInflight \in Nat /\ queue \in Seq(Events)
  BY HubAssumption DEF HubInv, HubTypeOK
<1>2. /\ e \in Inflight /\ IsFiniteSet(Inflight) /\ Cardinality(Inflight) \in Nat
      /\ IsFiniteSet(Inflight \ {e}) /\ Cardinality(Inflight \ {e}) = Cardinality(Inflight) - 1
  BY SetCounts DEF HubInv, PermitsAreKept, Inflight
<1>3. permits + Cardinality(Inflight) = MaxInflight /\ Cardinality(Inflight) > 0
  BY <1>2, SetCounts DEF HubInv, PermitsAreKept, PermitsMatchEvents
<1>4. CASE queue = <<>>
  <2>1. /\ permits' = permits + 1 /\ eventPc' = [eventPc EXCEPT ![e] = l] /\ queue' = queue
    BY <1>4 DEF ReleasePermit
  <2>2. /\ Inflight' = Inflight \ {e}
        /\ {x \in Events : eventPc'[x] = "queued"} = {x \in Events : eventPc[x] = "queued"}
    BY <1>1, <2>1 DEF Inflight
  <2>3. permits' \in 0..MaxInflight /\ permits' + Cardinality(Inflight') = MaxInflight
    BY <1>1, <1>2, <1>3, <2>1, <2>2
  <2>4. QED
    BY <1>1, <1>2, <1>4, <2>1, <2>2, <2>3 DEF HubInv, PermitsAreKept, PermitsMatchEvents
<1>5. CASE queue # <<>>
  <2> DEFINE h == Head(queue)
  <2>1. /\ eventPc' = [eventPc EXCEPT ![e] = l, ![h] = "admitted"]
        /\ queue' = Tail(queue) /\ permits' = permits
    BY <1>5 DEF ReleasePermit
  <2>2. h = queue[1] /\ h \in Events /\ 1 \in DOMAIN queue /\ Len(queue) \in Nat /\ DOMAIN queue = 1..Len(queue)
    BY <1>1, <1>5, TailFacts
  <2>3. ToSet(queue) = {x \in Events : eventPc[x] = "queued"}
    BY DEF HubInv, PermitsAreKept, PermitsMatchEvents
  <2>4. eventPc[h] = "queued"
    BY <2>2, <2>3 DEF ToSet
  <2>5. /\ Inflight' = (Inflight \ {e}) \cup {h} /\ h \notin Inflight \ {e}
        /\ {x \in Events : eventPc'[x] = "queued"} = {x \in Events : eventPc[x] = "queued"} \ {h}
    BY <1>1, <2>1, <2>2, <2>4 DEF Inflight
  <2>6. IsFiniteSet(Inflight') /\ Cardinality(Inflight') = Cardinality(Inflight)
    <3> DEFINE S == Inflight \ {e}
    <3>1. IsFiniteSet(S) /\ Cardinality(S) = Cardinality(Inflight) - 1 /\ h \notin S
      BY <1>2, <2>5
    <3> HIDE DEF S, h
    <3>2. IsFiniteSet(S \cup {h}) /\ Cardinality(S \cup {h}) = Cardinality(S) + 1
      BY <3>1, SetCounts
    <3>3. Inflight' = S \cup {h}
      BY <2>5 DEF S
    <3>4. QED
      BY <1>2, <3>1, <3>2, <3>3
  <2>7. \A i, k \in DOMAIN queue : queue[i] = queue[k] => i = k
    BY DEF HubInv, PermitsAreKept
  <2>8. /\ \A i \in DOMAIN queue' : i \in Nat /\ i > 0 /\ i + 1 \in DOMAIN queue /\ queue'[i] = queue[i + 1]
        /\ \A i \in DOMAIN queue : i # 1 => i - 1 \in DOMAIN queue' /\ queue'[i - 1] = queue[i] /\ i \in Nat
    BY <1>1, <1>5, <2>1, <2>2, TailFacts
  <2>9. \A i, k \in DOMAIN queue' : queue'[i] = queue'[k] => i = k
    BY <2>7, <2>8
  <2>10. ToSet(queue') = ToSet(queue) \ {h}
    <3> HIDE DEF h
    <3>1. \A x \in ToSet(queue') : x \in ToSet(queue) /\ x # h
      BY <2>2, <2>7, <2>8 DEF ToSet
    <3>2. \A x \in ToSet(queue) : x # h => x \in ToSet(queue')
      BY <2>2, <2>8 DEF ToSet
    <3>3. QED
      BY <3>1, <3>2 DEF ToSet
  <2>11. queue' \in Seq(Events)
    BY <1>1, <1>5, <2>1, TailFacts
  <2>12. permits' + Cardinality(Inflight') = MaxInflight /\ ~(permits' > 0)
    BY <1>3, <1>5, <2>1, <2>6 DEF HubInv, PermitsAreKept, PermitsMatchEvents
  <2>13. ToSet(queue') = {x \in Events : eventPc'[x] = "queued"}
    BY <2>3, <2>5, <2>10
  <2>14. PermitsMatchEvents'
    BY <2>12, <2>13 DEF PermitsMatchEvents
  <2>15. QED
    BY <1>1, <2>1, <2>6, <2>9, <2>11, <2>14 DEF PermitsAreKept
<1>6. QED
  BY <1>4, <1>5

\* A call that waits in the queue leaves it.
LEMMA LeavesQueuePermits ==
    ASSUME HubInv, NEW e \in Events, eventPc[e] = "queued",
           eventPc' = [eventPc EXCEPT ![e] = "dropped"],
           NEW p \in DOMAIN queue, queue[p] = e, queue' = RemoveAt(queue, p), UNCHANGED permits
    PROVE  PermitsAreKept' /\ queue' \in Seq(Events)
<1>1. /\ eventPc \in [Events -> {"new", "declined", "overloaded", "queued", "admitted",
                                 "fanout", "done", "dropped"}]
      /\ queue \in Seq(Events)
  BY DEF HubInv, HubTypeOK
<1>2. /\ Inflight' = Inflight
      /\ {x \in Events : eventPc'[x] = "queued"} = {x \in Events : eventPc[x] = "queued"} \ {e}
  BY <1>1 DEF Inflight
<1>3. /\ queue' \in Seq(Events) /\ Len(queue) \in Nat /\ DOMAIN queue = 1..Len(queue)
      /\ DOMAIN queue' = 1..(Len(queue) - 1) /\ p \in 1..Len(queue)
      /\ \A k \in 1..(Len(queue) - 1) : queue'[k] = IF k < p THEN queue[k] ELSE queue[k + 1]
  BY <1>1, RemoveAtFacts
<1>4. /\ ToSet(queue) = {x \in Events : eventPc[x] = "queued"} /\ (permits > 0 => queue = <<>>)
      /\ \A i, k \in DOMAIN queue : queue[i] = queue[k] => i = k
  BY DEF HubInv, PermitsAreKept, PermitsMatchEvents
<1> DEFINE old(k) == IF k < p THEN k ELSE k + 1
<1>5. \A k \in DOMAIN queue' : old(k) \in DOMAIN queue /\ old(k) # p /\ queue'[k] = queue[old(k)]
  BY <1>3
<1>6. \A i, k \in DOMAIN queue' : old(i) = old(k) => i = k
  BY <1>3
<1>7. \A i, k \in DOMAIN queue' : queue'[i] = queue'[k] => i = k
  <2> HIDE DEF old
  <2>1. QED
    BY <1>4, <1>5, <1>6
<1>8. \A i \in DOMAIN queue : i # p => \E k \in DOMAIN queue' : old(k) = i
  <2> SUFFICES ASSUME NEW i \in DOMAIN queue, i # p
               PROVE  \E k \in DOMAIN queue' : old(k) = i
    OBVIOUS
  <2>1. CASE i < p
    BY <1>3, <2>1
  <2>2. CASE i > p
    <3>1. i - 1 \in DOMAIN queue' /\ old(i - 1) = i
      BY <1>3, <2>2
    <3>2. QED
      BY <3>1
  <2>3. QED
    BY <1>3, <2>1, <2>2
<1>9. ToSet(queue') = ToSet(queue) \ {e}
  <2> HIDE DEF old
  <2>1. \A x \in ToSet(queue') : x \in ToSet(queue) /\ x # e
    BY <1>3, <1>4, <1>5 DEF ToSet
  <2>2. \A x \in ToSet(queue) : x # e => x \in ToSet(queue')
    BY <1>5, <1>8 DEF ToSet
  <2>3. QED
    BY <2>1, <2>2
<1>10. permits' > 0 => queue' = <<>>
  BY <1>3, <1>4
<1>11. PermitsMatchEvents'
  BY <1>2, <1>4, <1>9, <1>10 DEF HubInv, PermitsAreKept, PermitsMatchEvents
<1>12. QED
  BY <1>2, <1>3, <1>7, <1>11 DEF HubInv, PermitsAreKept

\* A step that leaves the fan-outs alone: some calls change place, none to a fan-out
\* and to "done" only with all results.
LEMMA CallMovesInv ==
    ASSUME HubInv, PermitsAreKept', UNCHANGED <<sinkState, outcome, next>>,
           eventPc' \in [Events -> {"new", "declined", "overloaded", "queued", "admitted",
                                    "fanout", "done", "dropped"}],
           permits' \in 0..MaxInflight, queue' \in Seq(Events),
           \A x \in Events : eventPc'[x] = "fanout" => eventPc[x] = "fanout",
           \A x \in Events : eventPc'[x] = "done" =>
              \A s \in Sinks : outcome[x][s] \in {"ok", "failed", "panicked", "poisoned"}
    PROVE  HubInv'
<1>1. HubTypeOK'
  BY DEF HubInv, HubTypeOK
<1>2. FanOutGoesOn' /\ EverySinkSettled'
  BY DEF HubInv, FanOutGoesOn, EverySinkSettled, Unsettled
<1>3. SinkStatesAreTrue'
  BY DEF HubInv, SinkStatesAreTrue
<1>4. QED
  BY <1>1, <1>2, <1>3 DEF HubInv

\* A call begins: it is turned away, waits, or is admitted.
LEMMA CallBeginsInv ==
    ASSUME HubInv, NEW e \in Events, Decline(e) \/ Send(e) \/ TryNotify(e)
    PROVE  HubInv'
<1>1. /\ eventPc \in [Events -> {"new", "declined", "overloaded", "queued", "admitted",
                                 "fanout", "done", "dropped"}]
      /\ permits \in 0..MaxInflight /\ MaxInflight \in Nat /\ queue \in Seq(Events)
      /\ eventPc[e] = "new" /\ UNCHANGED <<sinkState, outcome, next>>
  BY HubAssumption DEF HubInv, HubTypeOK, Decline, Send, TryNotify
<1>2. \A x \in Events : eventPc[x] = "done" =>
        \A s \in Sinks : outcome[x][s] \in {"ok", "failed", "panicked", "poisoned"}
  BY DEF HubInv, EverySinkSettled
<1>3. CASE /\ permits > 0 /\ permits' = permits - 1 /\ UNCHANGED queue
           /\ eventPc' = [eventPc EXCEPT ![e] = "admitted"]
  <2>1. permits' \in 0..MaxInflight
    BY <1>1, <1>3
  <2>2. QED
    BY <1>1, <1>2, <1>3, <2>1, AdmittedPermits, CallMovesInv
<1>4. CASE /\ ~(permits > 0) /\ queue' = Append(queue, e) /\ UNCHANGED permits
           /\ eventPc' = [eventPc EXCEPT ![e] = "queued"]
  <2>1. queue' \in Seq(Events)
    BY <1>1, <1>4, QueueFacts
  <2>2. QED
    BY <1>1, <1>2, <1>4, <2>1, QueuedPermits, CallMovesInv
<1>5. ASSUME NEW l \in {"declined", "overloaded"}, UNCHANGED <<permits, queue>>,
             eventPc' = [eventPc EXCEPT ![e] = l]
      PROVE  HubInv'
  BY <1>1, <1>2, <1>5, TurnedAwayPermits, CallMovesInv
<1>6. QED
  BY <1>3, <1>4, <1>5 DEF Decline, Send, TryNotify

\* What a dropped permit does to the calls.
LEMMA ReleasedCalls ==
    ASSUME HubInv, NEW e \in Events, NEW l \in {"done", "dropped"}, eventPc[e] \in {"admitted", "fanout"},
           ReleasePermit(e, l)
    PROVE  /\ eventPc' \in [Events -> {"new", "declined", "overloaded", "queued", "admitted",
                                       "fanout", "done", "dropped"}]
           /\ \A x \in Events : eventPc'[x] = "fanout" => eventPc[x] = "fanout"
           /\ \A x \in Events : eventPc'[x] = "done" => eventPc[x] = "done" \/ (x = e /\ l = "done")
<1>1. /\ eventPc \in [Events -> {"new", "declined", "overloaded", "queued", "admitted",
                                 "fanout", "done", "dropped"}]
      /\ queue \in Seq(Events)
  BY DEF HubInv, HubTypeOK
<1>2. CASE queue = <<>>
  BY <1>1, <1>2 DEF ReleasePermit
<1>3. CASE queue # <<>>
  <2> DEFINE h == Head(queue)
  <2>1. h \in Events /\ eventPc' = [eventPc EXCEPT ![e] = l, ![h] = "admitted"]
    BY <1>1, <1>3, TailFacts DEF ReleasePermit
  <2> HIDE DEF h
  <2>2. QED
    BY <1>1, <2>1
<1>4. QED
  BY <1>2, <1>3

\* A call ends early, waiting or at work.
LEMMA DropSendInv ==
    ASSUME HubInv, NEW e \in Events, DropSend(e)
    PROVE  HubInv'
<1>1. \A x \in Events : eventPc[x] = "done" =>
        \A s \in Sinks : outcome[x][s] \in {"ok", "failed", "panicked", "poisoned"}
  BY DEF HubInv, EverySinkSettled
<1>2. UNCHANGED <<sinkState, outcome, next>>
  BY DEF DropSend
<1>3. CASE /\ eventPc[e] = "queued" /\ eventPc' = [eventPc EXCEPT ![e] = "dropped"]
           /\ \E i \in DOMAIN queue : queue[i] = e /\ queue' = RemoveAt(queue, i)
           /\ UNCHANGED permits
  <2>1. PermitsAreKept' /\ queue' \in Seq(Events)
    BY <1>3, LeavesQueuePermits
  <2>2. eventPc \in [Events -> {"new", "declined", "overloaded", "queued", "admitted",
                                "fanout", "done", "dropped"}] /\ permits \in 0..MaxInflight
    BY DEF HubInv, HubTypeOK
  <2>3. QED
    BY <1>1, <1>2, <1>3, <2>1, <2>2, CallMovesInv
<1>4. CASE eventPc[e] \in {"admitted", "fanout"} /\ ReleasePermit(e, "dropped")
  BY <1>1, <1>2, <1>4, ReleasedPermits, ReleasedCalls, CallMovesInv
<1>5. QED
  BY <1>3, <1>4 DEF DropSend

\* A fan-out ends when every sink has its result.
LEMMA EndFanOutInv ==
    ASSUME HubInv, NEW e \in Events, EndFanOut(e)
    PROVE  HubInv'
<1>1. \A x \in Events : eventPc[x] = "done" =>
        \A s \in Sinks : outcome[x][s] \in {"ok", "failed", "panicked", "poisoned"}
  BY DEF HubInv, EverySinkSettled
<1>2. /\ eventPc[e] = "fanout" /\ Unsettled(e) = {} /\ ReleasePermit(e, "done")
      /\ UNCHANGED <<sinkState, outcome, next>>
  BY DEF EndFanOut
<1>3. /\ next[e] \in 1..(NumSinks + 1) /\ NumSinks \in Nat
      /\ outcome[e] \in [Sinks -> {"none", "pushed", "sending", "ok", "failed", "panicked", "poisoned"}]
  BY HubAssumption DEF HubInv, HubTypeOK
<1>4. ~(next[e] <= NumSinks) /\ \A s \in Sinks : s < next[e] => outcome[e][s] # "none"
  BY <1>2 DEF HubInv, FanOutGoesOn
<1>5. \A s \in Sinks : outcome[e][s] \in {"ok", "failed", "panicked", "poisoned"}
  BY <1>2, <1>3, <1>4 DEF Unsettled, Sinks
<1>6. QED
  BY <1>1, <1>2, <1>5, ReleasedPermits, ReleasedCalls, CallMovesInv

\* A fan-out begins with the first sinks.
LEMMA StartFanOutInv ==
    ASSUME HubInv, NEW e \in Events, StartFanOut(e)
    PROVE  HubInv'
<1> USE HubAssumption
<1> DEFINE begun == [s \in Sinks |-> IF s <= MaxParallel THEN "pushed" ELSE "none"]
           first == IF NumSinks < MaxParallel THEN NumSinks + 1 ELSE MaxParallel + 1
<1>1. /\ eventPc[e] = "admitted" /\ eventPc' = [eventPc EXCEPT ![e] = "fanout"]
      /\ outcome' = [outcome EXCEPT ![e] = begun] /\ next' = [next EXCEPT ![e] = first]
      /\ UNCHANGED <<permits, queue, sinkState>>
  BY DEF StartFanOut
<1>2. /\ eventPc \in [Events -> {"new", "declined", "overloaded", "queued", "admitted",
                                 "fanout", "done", "dropped"}]
      /\ outcome \in [Events -> [Sinks -> {"none", "pushed", "sending", "ok", "failed",
                                           "panicked", "poisoned"}]]
      /\ next \in [Events -> 1..(NumSinks + 1)]
  BY DEF HubInv, HubTypeOK
<1>3. /\ begun \in [Sinks -> {"none", "pushed", "sending", "ok", "failed", "panicked", "poisoned"}]
      /\ first \in 1..(NumSinks + 1) /\ 1 \in Sinks /\ begun[1] = "pushed"
      /\ \A s \in Sinks : (s < first <=> begun[s] # "none") /\ begun[s] \in {"none", "pushed"}
  BY DEF Sinks
<1> HIDE DEF begun, first
<1>4. /\ outcome'[e] = begun /\ next'[e] = first /\ eventPc'[e] = "fanout"
      /\ \A x \in Events : x # e => /\ outcome'[x] = outcome[x] /\ next'[x] = next[x]
                                    /\ eventPc'[x] = eventPc[x]
  BY <1>1, <1>2
<1>5. HubTypeOK'
  BY <1>1, <1>2, <1>3 DEF HubInv, HubTypeOK
<1>6. PermitsAreKept'
  <2>1. Inflight' = Inflight /\ {x \in Events : eventPc'[x] = "queued"} = {x \in Events : eventPc[x] = "queued"}
    BY <1>1, <1>4 DEF Inflight
  <2>2. QED
    BY <1>1, <2>1 DEF HubInv, PermitsAreKept, PermitsMatchEvents
<1>7. FanOutGoesOn'
  <2>1. 1 \in Unsettled(e)'
    BY <1>3, <1>4 DEF Unsettled
  <2>2. QED
    BY <1>3, <1>4, <2>1 DEF HubInv, FanOutGoesOn, Unsettled
<1>8. EverySinkSettled'
  BY <1>4 DEF HubInv, EverySinkSettled
<1>9. SinkStatesAreTrue'
  <2>1. \A s \in BadIdentity : s \in Sinks
    OBVIOUS
  <2>2. QED
    BY <1>1, <1>3, <1>4, <2>1 DEF HubInv, SinkStatesAreTrue
<1>10. QED
  BY <1>5, <1>6, <1>7, <1>8, <1>9 DEF HubInv

\* A send is over, and the next sink's turn comes.
LEMMA SettleSendInv ==
    ASSUME HubInv, NEW e \in Events, NEW s \in Sinks, NEW what \in {"ok", "failed", "panicked", "poisoned"},
           eventPc[e] = "fanout", outcome[e][s] \in {"pushed", "sending"}, SettleSend(e, s, what),
           UNCHANGED <<eventPc, permits, queue>>,
           sinkState' \in [Sinks -> {"ready", "identityPanicked", "poisoned"}],
           \A x \in Sinks : sinkState[x] = "poisoned" => sinkState'[x] = "poisoned",
           \A x \in BadIdentity : sinkState'[x] # "ready",
           what = "panicked" => sinkState'[s] = "poisoned",
           s \in BadIdentity => \/ what = "poisoned"
                                \/ what = "panicked" /\ sinkState[s] # "poisoned"
    PROVE  HubInv'
<1> USE HubAssumption
<1>1. /\ outcome' = [outcome EXCEPT ![e] =
             [x \in Sinks |-> IF x = s THEN what ELSE IF x = next[e] THEN "pushed" ELSE outcome[e][x]]]
      /\ next' = [next EXCEPT ![e] = IF next[e] <= NumSinks THEN next[e] + 1 ELSE next[e]]
  BY DEF SettleSend
<1>2. /\ outcome \in [Events -> [Sinks -> {"none", "pushed", "sending", "ok", "failed",
                                           "panicked", "poisoned"}]]
      /\ next \in [Events -> 1..(NumSinks + 1)] /\ next[e] \in 1..(NumSinks + 1) /\ NumSinks \in Nat
  BY DEF HubInv, HubTypeOK
<1>3. /\ \A x \in Sinks : outcome'[e][x] = IF x = s THEN what
                                           ELSE IF x = next[e] THEN "pushed" ELSE outcome[e][x]
      /\ next'[e] = IF next[e] <= NumSinks THEN next[e] + 1 ELSE next[e]
      /\ \A x \in Events : x # e => outcome'[x] = outcome[x] /\ next'[x] = next[x]
  BY <1>1, <1>2
<1>4. HubTypeOK'
  <2>1. outcome' \in [Events -> [Sinks -> {"none", "pushed", "sending", "ok", "failed",
                                           "panicked", "poisoned"}]]
    BY <1>1, <1>2
  <2>2. next' \in [Events -> 1..(NumSinks + 1)]
    BY <1>1, <1>2
  <2>3. QED
    BY <2>1, <2>2 DEF HubInv, HubTypeOK
<1>5. PermitsAreKept'
  BY DEF HubInv, PermitsAreKept, PermitsMatchEvents, Inflight
<1>6. \A x \in Sinks : x < next[e] <=> outcome[e][x] # "none"
  BY DEF HubInv, FanOutGoesOn
<1>7. s < next[e] /\ \A x \in Sinks : x \in Nat /\ x <= NumSinks /\ x > 0
  BY <1>6 DEF Sinks
<1>8. FanOutGoesOn'
  <2>1. \A x \in Sinks : x < next'[e] <=> outcome'[e][x] # "none"
    <3> SUFFICES ASSUME NEW x \in Sinks PROVE x < next'[e] <=> outcome'[e][x] # "none"
      OBVIOUS
    <3>1. CASE x = s
      BY <1>2, <1>3, <1>7, <3>1
    <3>2. CASE x # s /\ x = next[e]
      BY <1>2, <1>3, <1>7, <3>2
    <3>3. CASE x # s /\ x # next[e]
      <4>1. outcome'[e][x] = outcome[e][x] /\ x \in Nat
        BY <1>3, <1>7, <3>3
      <4>2. x < next'[e] <=> x < next[e]
        <5>1. x \in Nat /\ x <= NumSinks /\ next[e] \in Nat /\ NumSinks \in Nat
          BY <1>2, <1>7
        <5>2. CASE next[e] <= NumSinks
          BY <1>3, <3>3, <5>1, <5>2
        <5>3. CASE ~(next[e] <= NumSinks)
          BY <1>3, <3>3, <5>1, <5>3
        <5>4. QED
          BY <5>2, <5>3
      <4>3. QED
        BY <1>6, <4>1, <4>2
    <3>4. QED
      BY <3>1, <3>2, <3>3
  <2>2. next'[e] <= NumSinks => next[e] \in Unsettled(e)'
    <3> SUFFICES ASSUME next'[e] <= NumSinks PROVE next[e] \in Unsettled(e)'
      OBVIOUS
    <3>1. next[e] \in Sinks /\ next[e] # s
      BY <1>2, <1>3, <1>7 DEF Sinks
    <3>2. QED
      BY <1>3, <3>1 DEF Unsettled
  <2>3. QED
    BY <1>3, <2>1, <2>2 DEF HubInv, FanOutGoesOn, Unsettled
<1>9. EverySinkSettled'
  BY <1>3 DEF HubInv, EverySinkSettled
<1>10. \A f \in Events, x \in Sinks : outcome'[f][x] = "panicked" =>
          outcome[f][x] = "panicked" \/ (f = e /\ x = s /\ what = "panicked")
  BY <1>3
<1>11. \A f \in Events, x \in Sinks : outcome'[f][x] = "panicked" => sinkState'[x] = "poisoned"
  BY <1>10 DEF HubInv, SinkStatesAreTrue
<1>12. ASSUME NEW x \in BadIdentity
       PROVE  /\ \A f \in Events : outcome'[f][x] \in {"none", "pushed", "panicked", "poisoned"}
              /\ \A f, g \in Events : outcome'[f][x] = "panicked" /\ outcome'[g][x] = "panicked" => f = g
  <2>1. /\ x \in Sinks
        /\ \A f \in Events : outcome[f][x] \in {"none", "pushed", "panicked", "poisoned"}
        /\ \A f, g \in Events : outcome[f][x] = "panicked" /\ outcome[g][x] = "panicked" => f = g
        /\ \A f \in Events : outcome[f][x] = "panicked" => sinkState[x] = "poisoned"
    BY DEF HubInv, SinkStatesAreTrue
  <2>2. \A f \in Events : outcome'[f][x] \in {"none", "pushed", "panicked", "poisoned"}
    <3>1. x = s => what \in {"panicked", "poisoned"}
      OBVIOUS
    <3>2. QED
      BY <1>3, <2>1, <3>1
  <2>3. \A f, g \in Events : outcome'[f][x] = "panicked" /\ outcome'[g][x] = "panicked" => f = g
    <3>1. CASE x = s /\ what = "panicked"
      <4>1. \A f \in Events : outcome[f][x] # "panicked"
        BY <2>1, <3>1
      <4>2. QED
        BY <1>10, <2>1, <4>1
    <3>2. CASE ~(x = s /\ what = "panicked")
      BY <1>10, <2>1, <3>2
    <3>3. QED
      BY <3>1, <3>2
  <2>4. QED
    BY <2>2, <2>3
<1>13. SinkStatesAreTrue'
  BY <1>11, <1>12 DEF SinkStatesAreTrue
<1>14. QED
  BY <1>4, <1>5, <1>8, <1>9, <1>13 DEF HubInv

\* The first poll of a send finds the sink ready, without identity or poisoned.
LEMMA FirstPollInv ==
    ASSUME HubInv, NEW e \in Events, NEW s \in Sinks, FirstPoll(e, s)
    PROVE  HubInv'
<1>1. /\ eventPc[e] = "fanout" /\ outcome[e][s] = "pushed" /\ UNCHANGED <<eventPc, permits, queue>>
  BY DEF FirstPoll
<1>2. /\ sinkState \in [Sinks -> {"ready", "identityPanicked", "poisoned"}]
      /\ \A x \in BadIdentity : sinkState[x] # "ready" /\ x \in Sinks
  BY HubAssumption DEF HubInv, HubTypeOK, SinkStatesAreTrue
<1>3. CASE sinkState[s] = "ready" /\ outcome' = [outcome EXCEPT ![e][s] = "sending"]
           /\ UNCHANGED <<next, sinkState>>
  <2>1. outcome \in [Events -> [Sinks -> {"none", "pushed", "sending", "ok", "failed",
                                          "panicked", "poisoned"}]]
    BY DEF HubInv, HubTypeOK
  <2>2. \A f \in Events, x \in Sinks :
          outcome'[f][x] = IF f = e /\ x = s THEN "sending" ELSE outcome[f][x]
    BY <1>3, <2>1
  <2>3. outcome' \in [Events -> [Sinks -> {"none", "pushed", "sending", "ok", "failed",
                                           "panicked", "poisoned"}]]
    BY <1>3, <2>1
  <2>4. HubTypeOK'
    BY <1>1, <1>3, <2>3 DEF HubInv, HubTypeOK
  <2>5. PermitsAreKept'
    BY <1>1 DEF HubInv, PermitsAreKept, PermitsMatchEvents, Inflight
  <2>6. s \in Unsettled(e)'
    BY <2>2 DEF Unsettled
  <2>7. \A f \in Events : f # e => Unsettled(f)' = Unsettled(f)
    BY <2>2 DEF Unsettled
  <2>8. FanOutGoesOn'
    BY <1>1, <1>3, <2>2, <2>6, <2>7 DEF HubInv, FanOutGoesOn
  <2>9. EverySinkSettled'
    BY <1>1, <2>2 DEF HubInv, EverySinkSettled
  <2>10. SinkStatesAreTrue'
    BY <1>2, <1>3, <2>2 DEF HubInv, SinkStatesAreTrue
  <2>11. QED
    BY <2>4, <2>5, <2>8, <2>9, <2>10 DEF HubInv
<1>4. CASE sinkState[s] = "identityPanicked" /\ ReportOnce(s) /\ SettleSend(e, s, "panicked")
  <2>1. sinkState' = [sinkState EXCEPT ![s] = "poisoned"]
    BY <1>4 DEF ReportOnce
  <2>2. QED
    BY <1>1, <1>2, <1>4, <2>1, SettleSendInv
<1>5. CASE sinkState[s] = "poisoned" /\ SettleSend(e, s, "poisoned") /\ UNCHANGED sinkState
  BY <1>1, <1>2, <1>5, SettleSendInv
<1>6. QED
  BY <1>3, <1>4, <1>5 DEF FirstPoll

\* A send ends, or panics and poisons its sink; a sink without identity has none.
LEMMA SendEndsInv ==
    ASSUME HubInv, NEW e \in Events, NEW s \in Sinks, SendEnds(e, s) \/ SendPanics(e, s)
    PROVE  HubInv'
<1>1. /\ eventPc[e] = "fanout" /\ outcome[e][s] = "sending" /\ UNCHANGED <<eventPc, permits, queue>>
  BY DEF SendEnds, SendPanics
<1>2. /\ sinkState \in [Sinks -> {"ready", "identityPanicked", "poisoned"}]
      /\ \A x \in BadIdentity : sinkState[x] # "ready" /\ x \in Sinks
      /\ s \notin BadIdentity
  BY <1>1, HubAssumption DEF HubInv, HubTypeOK, SinkStatesAreTrue
<1>3. CASE SendEnds(e, s)
  BY <1>1, <1>2, <1>3, SettleSendInv DEF SendEnds
<1>4. CASE SendPanics(e, s)
  BY <1>1, <1>2, <1>4, SettleSendInv DEF SendPanics
<1>5. QED
  BY <1>3, <1>4

\* No step breaks the invariant.
LEMMA HubStepInv ==
    ASSUME HubInv, [HubNext]_hubVars
    PROVE  HubInv'
<1>1. CASE UNCHANGED hubVars
  BY <1>1 DEF hubVars, HubInv, HubTypeOK, PermitsAreKept, PermitsMatchEvents, Inflight, FanOutGoesOn,
              Unsettled, EverySinkSettled, SinkStatesAreTrue
<1>2. QED
  BY <1>1, CallBeginsInv, DropSendInv, StartFanOutInv, EndFanOutInv, FirstPollInv, SendEndsInv
     DEF HubNext, FanOutStep

\* The invariant holds of every run of the hub.
THEOREM HubInvariant == HubSpec => []HubInv
<1>1. HubInv /\ [HubNext]_hubVars => HubInv'
  BY HubStepInv
<1>2. QED
  BY <1>1, HubInitInv, PTL DEF HubSpec

\* Of the calls of Hub::send and its kin: no permit is lost or made up and nobody
\* waits while one is free, a call that reports has the result of every sink, and
\* an identity that panicked is reported once.
THEOREM HubsCallsAreAccountedFor == HubSpec => []CallsAreAccountedFor
<1>1. HubInv => CallsAreAccountedFor
  <2> SUFFICES ASSUME HubInv PROVE CallsAreAccountedFor
    OBVIOUS
  <2>1. PermitsMatchEvents /\ EverySinkSettled
    BY DEF HubInv, PermitsAreKept
  <2>2. ASSUME NEW s \in BadIdentity
        PROVE  Cardinality({e \in Events : outcome[e][s] = "panicked"}) <= 1
    <3> DEFINE P == {e \in Events : outcome[e][s] = "panicked"}
    <3>1. \A e, f \in P : e = f
      BY DEF HubInv, SinkStatesAreTrue
    <3>2. CASE P = {}
      BY <3>2, FS_EmptySet
    <3>3. CASE P # {}
      <4>1. PICK e \in P : P = {e}
        BY <3>1, <3>3
      <4>2. Cardinality({e}) = 1
        BY FS_Singleton
      <4> HIDE DEF P
      <4>3. Cardinality(P) <= 1
        BY <4>1, <4>2
      <4>4. QED
        BY <4>3 DEF P
    <3>4. QED
      BY <3>2, <3>3
  <2>3. \A s \in BadIdentity : \A e \in Events :
          outcome[e][s] \in {"none", "pushed", "panicked", "poisoned"}
    BY DEF HubInv, SinkStatesAreTrue
  <2>4. QED
    BY <2>1, <2>2, <2>3 DEF CallsAreAccountedFor, IdentityPanicReportedOnce
<1>2. QED
  BY <1>1, HubInvariant, PTL

\* The step that begins a send to a sink finds that no event has seen it panic.
LEMMA SendBeginsAtSoundSink ==
    ASSUME HubInv, [HubNext]_hubVars, NEW e \in Events, NEW s \in Sinks,
           outcome[e][s] # "sending", outcome'[e][s] = "sending"
    PROVE  \A f \in Events : outcome[f][s] # "panicked"
<1>1. outcome \in [Events -> [Sinks -> {"none", "pushed", "sending", "ok", "failed",
                                        "panicked", "poisoned"}]]
  BY DEF HubInv, HubTypeOK
<1>2. outcome' # outcome
  OBVIOUS
<1>3. PICK x \in Events : FanOutStep(x)
  BY <1>2 DEF HubNext, hubVars, Decline, Send, TryNotify, DropSend
<1>4. ~StartFanOut(x)
  <2> SUFFICES ASSUME StartFanOut(x) PROVE FALSE
    OBVIOUS
  <2>1. outcome' = [outcome EXCEPT ![x] = [y \in Sinks |-> IF y <= MaxParallel THEN "pushed" ELSE "none"]]
    BY DEF StartFanOut
  <2>2. QED
    BY <1>1, <2>1
<1>5. ~EndFanOut(x)
  BY <1>2 DEF EndFanOut
<1>6. ASSUME NEW y \in Sinks, NEW what \in {"ok", "failed", "panicked", "poisoned"}
      PROVE  ~SettleSend(x, y, what)
  <2> SUFFICES ASSUME SettleSend(x, y, what) PROVE FALSE
    OBVIOUS
  <2>1. outcome' = [outcome EXCEPT ![x] = [z \in Sinks |->
           IF z = y THEN what ELSE IF z = next[x] THEN "pushed" ELSE outcome[x][z]]]
    BY DEF SettleSend
  <2>2. QED
    BY <1>1, <2>1
<1>7. PICK y \in Sinks : FirstPoll(x, y)
  BY <1>3, <1>4, <1>5, <1>6 DEF FanOutStep, SendEnds, SendPanics
<1>8. sinkState[y] = "ready" /\ outcome' = [outcome EXCEPT ![x][y] = "sending"]
  BY <1>6, <1>7 DEF FirstPoll
<1>9. s = y
  BY <1>1, <1>8
<1>10. QED
  BY <1>8, <1>9 DEF HubInv, SinkStatesAreTrue

\* An action property: no event starts a send to a sink after any event saw it panic.
THEOREM HubLeavesPanickedSinksAlone == HubSpec => PanickedSinkIsLeftAlone
<1>1. HubInv /\ [HubNext]_hubVars =>
        [\A e \in Events, s \in Sinks :
            outcome[e][s] # "sending" /\ outcome'[e][s] = "sending" =>
                \A f \in Events : outcome[f][s] # "panicked"]_hubVars
  BY SendBeginsAtSoundSink
<1>2. QED
  BY <1>1, HubInvariant, PTL DEF HubSpec, PanickedSinkIsLeftAlone

-----------------------------------------------------------------------------
(***************************************************************************)
(* The tenant token.                                                       *)
(***************************************************************************)

\* A fresh sink has fetched nothing.
LEMMA TenantTokenInitInv == TenantTokenInit => TenantTokenInv
BY DEF TenantTokenInit, TenantTokenInv, TenantTokenTypeOK, FetchIsAnnounced, RefreshEnds,
       TokensAreFetched, ResetsAreLate, HasFetched, Empty

\* The kinds of state are told apart by their kind and by their upload.
LEMMA TokenStates ==
    ASSUME TenantTokenTypeOK
    PROVE  /\ \/ tokenState = Empty
              \/ tokenState.by \in Uploads /\ tokenState = Ready(tokenState.by)
              \/ tokenState.by \in Uploads /\ tokenState = Refreshing(tokenState.by)
           /\ Empty.kind = "empty"
           /\ \A u : Ready(u).kind = "ready" /\ Ready(u).by = u
           /\ \A u : Refreshing(u).kind = "refreshing" /\ Refreshing(u).by = u
           /\ tokenState.kind = "ready" <=> tokenState = Ready(tokenState.by)
           /\ tokenState.kind = "refreshing" <=> tokenState = Refreshing(tokenState.by)
BY DEF TenantTokenTypeOK, Empty, Ready, Refreshing

\* A look that finds a usable token gives it out.
LEMMA TakesCachedInv ==
    ASSUME TenantTokenInv, NEW u \in Uploads, uploadPc[u] \in {"looking", "claiming"},
           TakesCached(u), UNCHANGED <<expired, resets, rejected>>
    PROVE  TenantTokenInv'
<1> USE TenantTokenAssumption DEF TakesCached, TenantTokenInv
<1>1. TenantTokenTypeOK'
  BY TokenStates DEF TenantTokenTypeOK, Usable
<1>2. FetchIsAnnounced' /\ ResetsAreLate'
  BY DEF FetchIsAnnounced, ResetsAreLate, TenantTokenTypeOK
<1>3. RefreshEnds'
  BY TokenStates DEF RefreshEnds, TenantTokenTypeOK, Usable
<1>4. TokensAreFetched'
  BY TokenStates DEF TokensAreFetched, HasFetched, TenantTokenTypeOK, Usable
<1>5. QED
  BY <1>1, <1>2, <1>3, <1>4

\* A look that finds a fetch registers with it.
LEMMA RegistersInv ==
    ASSUME TenantTokenInv, NEW u \in Uploads, uploadPc[u] \in {"looking", "claiming"},
           Registers(u), UNCHANGED <<expired, resets, rejected>>
    PROVE  TenantTokenInv'
<1> USE TenantTokenAssumption DEF Registers, TenantTokenInv
<1>1. TenantTokenTypeOK'
  BY TokenStates DEF TenantTokenTypeOK
<1>2. FetchIsAnnounced' /\ ResetsAreLate'
  BY TokenStates DEF FetchIsAnnounced, ResetsAreLate, TenantTokenTypeOK
<1>3. RefreshEnds'
  BY TokenStates DEF RefreshEnds, TenantTokenTypeOK
<1>4. TokensAreFetched'
  BY TokenStates DEF TokensAreFetched, HasFetched, TenantTokenTypeOK
<1>5. QED
  BY <1>1, <1>2, <1>3, <1>4

\* An upload starts, looks and finds neither, or is answered.
LEMMA UploadMovesInv ==
    ASSUME TenantTokenInv, NEW u \in Uploads, NEW l \in {"looking", "claiming", "discarding", "done"},
           \/ uploadPc[u] \in {"idle", "looking"} /\ l \in {"looking", "claiming"}
           \/ uploadPc[u] = "uploading" /\ l \in {"discarding", "done"},
           uploadPc' = [uploadPc EXCEPT ![u] = l],
           UNCHANGED <<tokenState, expired, waitsOn, resets, token, rejected>>
    PROVE  TenantTokenInv'
<1> USE TenantTokenAssumption DEF TenantTokenInv
<1>1. TenantTokenTypeOK'
  BY DEF TenantTokenTypeOK
<1>2. FetchIsAnnounced' /\ ResetsAreLate'
  BY DEF FetchIsAnnounced, ResetsAreLate, TenantTokenTypeOK
<1>3. RefreshEnds'
  BY TokenStates DEF RefreshEnds, TenantTokenTypeOK
<1>4. TokensAreFetched'
  BY DEF TokensAreFetched, HasFetched, TenantTokenTypeOK
<1>5. QED
  BY <1>1, <1>2, <1>3, <1>4

\* The second look announces the fetch.
LEMMA ClaimsInv ==
    ASSUME TenantTokenInv, NEW u \in Uploads, Claims(u)
    PROVE  TenantTokenInv'
<1>1. CASE TakesCached(u) \/ Registers(u)
  BY <1>1, TakesCachedInv, RegistersInv DEF Claims
<1>2. CASE ~(TakesCached(u) \/ Registers(u))
  <2> USE TenantTokenAssumption DEF TenantTokenInv
  <2>1. /\ uploadPc[u] = "claiming" /\ tokenState.kind # "refreshing"
        /\ tokenState' = Refreshing(u) /\ uploadPc' = [uploadPc EXCEPT ![u] = "fetching"]
        /\ UNCHANGED <<token, waitsOn, expired, resets, rejected>>
    BY <1>2 DEF Claims
  <2>2. TenantTokenTypeOK'
    BY <2>1 DEF TenantTokenTypeOK
  <2>3. FetchIsAnnounced'
    <3>1. \A v \in Uploads : uploadPc[v] # "fetching" /\ uploadPc[v] # "waiting"
      BY <2>1, TokenStates DEF FetchIsAnnounced
    <3>2. QED
      BY <2>1, <3>1 DEF FetchIsAnnounced, TenantTokenTypeOK
  <2>4. RefreshEnds'
    BY <2>1, TokenStates DEF RefreshEnds, TenantTokenTypeOK
  <2>5. TokensAreFetched' /\ ResetsAreLate'
    BY <2>1, TokenStates DEF TokensAreFetched, HasFetched, ResetsAreLate, TenantTokenTypeOK
  <2>6. QED
    BY <2>2, <2>3, <2>4, <2>5
<1>3. QED
  BY <1>1, <1>2

\* What waking the waiters of a refresh leaves: none of them, and all others as they were.
LEMMA WokenFacts ==
    ASSUME TenantTokenInv, NEW u \in Uploads
    PROVE  /\ Woken(u) \in [Uploads -> {"idle", "looking", "claiming", "waiting", "fetching",
                                        "uploading", "discarding", "done"}]
           /\ StillWaiting(u) \in [Uploads -> Uploads \cup {NoUpload}]
           /\ \A v \in Uploads :
                /\ Woken(u)[v] = uploadPc[v] \/ (uploadPc[v] = "waiting" /\ Woken(u)[v] = "looking")
                /\ Woken(u)[v] = "waiting" => uploadPc[v] = "waiting" /\ waitsOn[v] # u
                                              /\ StillWaiting(u)[v] = waitsOn[v]
<1>1. /\ uploadPc \in [Uploads -> {"idle", "looking", "claiming", "waiting", "fetching",
                                   "uploading", "discarding", "done"}]
      /\ waitsOn \in [Uploads -> Uploads \cup {NoUpload}]
  BY DEF TenantTokenInv, TenantTokenTypeOK
<1>2. Woken(u) \in [Uploads -> {"idle", "looking", "claiming", "waiting", "fetching",
                               "uploading", "discarding", "done"}]
  BY <1>1 DEF Woken
<1>3. StillWaiting(u) \in [Uploads -> Uploads \cup {NoUpload}]
  BY <1>1 DEF StillWaiting
<1>4. ASSUME NEW v \in Uploads
      PROVE  /\ Woken(u)[v] = uploadPc[v] \/ (uploadPc[v] = "waiting" /\ Woken(u)[v] = "looking")
             /\ Woken(u)[v] = "waiting" => uploadPc[v] = "waiting" /\ waitsOn[v] # u
                                           /\ StillWaiting(u)[v] = waitsOn[v]
  <2>1. Woken(u)[v] = IF uploadPc[v] = "waiting" /\ waitsOn[v] = u THEN "looking" ELSE uploadPc[v]
    BY DEF Woken
  <2>2. StillWaiting(u)[v] = IF waitsOn[v] = u THEN NoUpload ELSE waitsOn[v]
    BY DEF StillWaiting
  <2>3. QED
    BY <2>1, <2>2
<1>5. QED
  BY <1>2, <1>3, <1>4

\* A fetch that is over stores its result, if the state is still its own.
LEMMA StoresInv ==
    ASSUME TenantTokenInv, NEW u \in Uploads, Stores(u)
    PROVE  TenantTokenInv'
<1> USE TenantTokenAssumption DEF TenantTokenInv
<1>1. /\ uploadPc[u] = "fetching" /\ tokenState = Refreshing(u)
      /\ waitsOn' = StillWaiting(u) /\ UNCHANGED <<expired, resets, rejected>>
  BY DEF Stores, FetchIsAnnounced
<1>2. \/ /\ tokenState' = Ready(u) /\ token' = [token EXCEPT ![u] = u]
         /\ uploadPc' = [Woken(u) EXCEPT ![u] = "uploading"]
      \/ tokenState' = Empty /\ token' = token /\ uploadPc' = [Woken(u) EXCEPT ![u] = "done"]
  BY <1>1 DEF Stores
<1>3. TenantTokenTypeOK'
  <2>1. uploadPc' \in [Uploads -> {"idle", "looking", "claiming", "waiting", "fetching",
                                  "uploading", "discarding", "done"}]
    BY <1>2, WokenFacts
  <2>2. token' \in [Uploads -> Uploads \cup {NoUpload}]
    BY <1>2 DEF TenantTokenTypeOK
  <2>3. QED
    BY <1>1, <1>2, <2>1, <2>2, WokenFacts DEF TenantTokenTypeOK
<1>4. \A v \in Uploads : uploadPc[v] = "fetching" => v = u
  BY <1>1, TokenStates DEF FetchIsAnnounced
<1>5. \A v \in Uploads : uploadPc[v] = "waiting" => waitsOn[v] = u
  BY <1>1, TokenStates DEF FetchIsAnnounced
<1>6. \A v \in Uploads :
        /\ uploadPc'[v] # "fetching" /\ uploadPc'[v] # "waiting"
        /\ v # u /\ uploadPc[v] # "waiting" => uploadPc'[v] = uploadPc[v]
        /\ v # u /\ uploadPc[v] = "waiting" => uploadPc'[v] = "looking"
        /\ v = u => uploadPc'[v] \in {"uploading", "done"}
  BY <1>2, <1>4, <1>5, WokenFacts
<1>7. FetchIsAnnounced' /\ RefreshEnds'
  BY <1>2, <1>6, TokenStates DEF FetchIsAnnounced, RefreshEnds, Empty, Ready
<1>8. ResetsAreLate'
  BY <1>1, <1>6 DEF ResetsAreLate, TenantTokenTypeOK
<1>9. \A v \in Uploads : HasFetched(v) => HasFetched(v)'
  BY <1>1, <1>6 DEF HasFetched
<1>10. u \notin rejected /\ HasFetched(u)'
  BY <1>1, <1>6 DEF TokensAreFetched, HasFetched
<1>11. TokensAreFetched'
  <2>1. \A v \in Uploads : uploadPc'[v] \in {"uploading", "discarding"} => token'[v] \in Uploads
    BY <1>1, <1>2, <1>6, WokenFacts DEF TokensAreFetched, TenantTokenTypeOK
  <2>2. \A v \in Uploads : token'[v] # NoUpload => HasFetched(token[v])'
    BY <1>2, <1>9, <1>10 DEF TokensAreFetched, TenantTokenTypeOK, HasFetched
  <2>3. \A v \in rejected : HasFetched(v)'
    BY <1>9 DEF TokensAreFetched, TenantTokenTypeOK
  <2>4. tokenState'.kind = "ready" => HasFetched(tokenState.by)' /\ tokenState'.by \notin rejected
    BY <1>2, <1>10, TokenStates DEF HasFetched
  <2>5. QED
    BY <1>1, <2>1, <2>2, <2>3, <2>4 DEF TokensAreFetched, HasFetched
<1>12. QED
  BY <1>3, <1>7, <1>8, <1>11

\* A future is dropped: if it was fetching, a reset stays behind or the runtime stopped.
LEMMA UploadDroppedInv ==
    ASSUME TenantTokenInv, NEW u \in Uploads, UploadDropped(u)
    PROVE  TenantTokenInv'
<1> USE TenantTokenAssumption DEF TenantTokenInv
<1>1. /\ uploadPc' = [uploadPc EXCEPT ![u] = "done"] /\ waitsOn' = [waitsOn EXCEPT ![u] = NoUpload]
      /\ UNCHANGED <<tokenState, expired, token, rejected>>
      /\ resets \subseteq resets' /\ resets' \subseteq resets \cup {u}
      /\ uploadPc[u] = "fetching" => u \in resets' \/ RuntimeStops
  BY DEF UploadDropped
<1>2. TenantTokenTypeOK'
  BY <1>1 DEF TenantTokenTypeOK
<1>3. FetchIsAnnounced' /\ ResetsAreLate'
  BY <1>1 DEF FetchIsAnnounced, ResetsAreLate, TenantTokenTypeOK
<1>4. RefreshEnds'
  BY <1>1, TokenStates DEF RefreshEnds, TenantTokenTypeOK
<1>5. TokensAreFetched'
  BY <1>1, TokenStates DEF TokensAreFetched, HasFetched, TenantTokenTypeOK
<1>6. QED
  BY <1>2, <1>3, <1>4, <1>5

\* The reset of a dropped fetch ends it for the state and for whoever waits.
LEMMA ResetRunsInv ==
    ASSUME TenantTokenInv, NEW u \in Uploads, ResetRuns(u)
    PROVE  TenantTokenInv'
<1> USE TenantTokenAssumption DEF TenantTokenInv
<1>1. /\ u \in resets /\ resets' = resets \ {u} /\ uploadPc[u] = "done"
      /\ uploadPc' = Woken(u) /\ waitsOn' = StillWaiting(u)
      /\ UNCHANGED <<expired, token, rejected>>
  BY DEF ResetRuns, ResetsAreLate
<1>2. \/ tokenState = Refreshing(u) /\ tokenState' = Empty
      \/ tokenState # Refreshing(u) /\ tokenState' = tokenState
  BY DEF ResetRuns
<1>3. TenantTokenTypeOK'
  BY <1>1, <1>2, WokenFacts DEF TenantTokenTypeOK
<1>4. \A v \in Uploads :
        /\ uploadPc'[v] = "fetching" => uploadPc[v] = "fetching"
        /\ uploadPc'[v] = "waiting" => uploadPc[v] = "waiting" /\ waitsOn[v] # u
                                       /\ waitsOn'[v] = waitsOn[v]
        /\ uploadPc[v] # "waiting" => uploadPc'[v] = uploadPc[v]
        /\ uploadPc'[v] \in {"uploading", "discarding"} => uploadPc'[v] = uploadPc[v]
  BY <1>1, WokenFacts
<1>5. FetchIsAnnounced'
  BY <1>1, <1>2, <1>4, TokenStates DEF FetchIsAnnounced
<1>6. RefreshEnds'
  BY <1>1, <1>2, <1>4, TokenStates DEF RefreshEnds, Empty
<1>7. ResetsAreLate'
  BY <1>1, <1>4 DEF ResetsAreLate, TenantTokenTypeOK
<1>8. \A v \in Uploads : HasFetched(v) => HasFetched(v)'
  BY <1>4 DEF HasFetched
<1>9. TokensAreFetched'
  <2>1. \A v \in Uploads : token[v] # NoUpload => HasFetched(token[v])'
    BY <1>1, <1>8 DEF TokensAreFetched, TenantTokenTypeOK, HasFetched
  <2>2. \A v \in rejected : HasFetched(v)'
    BY <1>8 DEF TokensAreFetched, TenantTokenTypeOK
  <2>3. tokenState'.kind = "ready" => HasFetched(tokenState.by)' /\ tokenState'.by \notin rejected
    BY <1>2, <1>8, TokenStates DEF TokensAreFetched, HasFetched
  <2>4. \A v \in Uploads : uploadPc'[v] \in {"uploading", "discarding"} => token[v] \in Uploads
    BY <1>4 DEF TokensAreFetched
  <2>5. QED
    BY <1>1, <2>1, <2>2, <2>3, <2>4 DEF TokensAreFetched, HasFetched
<1>10. QED
  BY <1>3, <1>5, <1>6, <1>7, <1>9

\* A refused token is taken out of the cache, if it is the one there.
LEMMA DiscardsInv ==
    ASSUME TenantTokenInv, NEW u \in Uploads, Discards(u)
    PROVE  TenantTokenInv'
<1> USE TenantTokenAssumption DEF TenantTokenInv
<1>1. /\ uploadPc[u] = "discarding" /\ rejected' = rejected \cup {token[u]}
      /\ uploadPc' = [uploadPc EXCEPT ![u] = "done"]
      /\ UNCHANGED <<expired, waitsOn, resets, token>>
      /\ \/ tokenState = Ready(token[u]) /\ tokenState' = Empty
         \/ tokenState # Ready(token[u]) /\ tokenState' = tokenState
  BY DEF Discards
<1>2. token[u] \in Uploads /\ HasFetched(token[u])
  BY <1>1 DEF TokensAreFetched
<1>3. TenantTokenTypeOK'
  BY <1>1, <1>2 DEF TenantTokenTypeOK
<1>4. FetchIsAnnounced' /\ ResetsAreLate'
  BY <1>1, TokenStates DEF FetchIsAnnounced, ResetsAreLate, TenantTokenTypeOK
<1>5. RefreshEnds'
  BY <1>1, TokenStates DEF RefreshEnds, TenantTokenTypeOK, Empty
<1>6. TokensAreFetched'
  BY <1>1, <1>2, TokenStates DEF TokensAreFetched, HasFetched, TenantTokenTypeOK, Empty
<1>7. QED
  BY <1>3, <1>4, <1>5, <1>6

\* No step breaks the invariant.
LEMMA TenantTokenStepInv ==
    ASSUME TenantTokenInv, [TenantTokenNext]_tokenVars
    PROVE  TenantTokenInv'
<1>1. ASSUME NEW u \in Uploads, Starts(u) PROVE TenantTokenInv'
  BY <1>1, UploadMovesInv DEF Starts
<1>2. ASSUME NEW u \in Uploads, Looks(u) PROVE TenantTokenInv'
  BY <1>2, TakesCachedInv, RegistersInv, UploadMovesInv DEF Looks
<1>3. ASSUME NEW u \in Uploads, UploadAnswered(u) PROVE TenantTokenInv'
  BY <1>3, UploadMovesInv DEF UploadAnswered
<1>4. CASE TokenExpires
  BY <1>4, TokenStates DEF TokenExpires, TenantTokenInv, TenantTokenTypeOK, FetchIsAnnounced, RefreshEnds,
       TokensAreFetched, ResetsAreLate, HasFetched
<1>5. CASE UNCHANGED tokenVars
  BY <1>5 DEF tokenVars, TenantTokenInv, TenantTokenTypeOK, FetchIsAnnounced, RefreshEnds,
       TokensAreFetched, ResetsAreLate, HasFetched
<1>6. QED
  BY <1>1, <1>2, <1>3, <1>4, <1>5, ClaimsInv, StoresInv, UploadDroppedInv, ResetRunsInv, DiscardsInv
     DEF TenantTokenNext

\* The invariant holds of every run.
THEOREM TenantTokenInvariant == TenantTokenSpec => []TenantTokenInv
<1>1. TenantTokenInv /\ [TenantTokenNext]_tokenVars => TenantTokenInv'
  BY TenantTokenStepInv
<1>2. QED
  BY <1>1, TenantTokenInitInv, PTL DEF TenantTokenSpec

\* While the runtime lives on, the Refreshing state of the token has its fetch or
\* the reset of a dropped one still to come, whoever waits is registered with that
\* one, and what was refused and discarded is not served again.
THEOREM TokensRefreshHasItsFetch ==
    ASSUME ~RuntimeStops
    PROVE  TenantTokenSpec => []RefreshHasItsFetch
<1>1. TenantTokenInv => RefreshHasItsFetch
  BY DEF TenantTokenInv, FetchIsAnnounced, RefreshEnds, TokensAreFetched, RefreshHasItsFetch
<1>2. QED
  BY <1>1, TenantTokenInvariant, PTL

\* Whether or not the runtime stops: there is one fetch at a time, its state is its
\* own, whoever waits is registered with it, and a refused token is not served again.
THEOREM TokenFetchesAreAnnounced ==
    TenantTokenSpec => [](/\ FetchIsAnnounced
                          /\ tokenState.kind = "ready" => tokenState.by \notin rejected)
<1>1. TenantTokenInv =>
        FetchIsAnnounced /\ (tokenState.kind = "ready" => tokenState.by \notin rejected)
  BY DEF TenantTokenInv, TokensAreFetched
<1>2. QED
  BY <1>1, TenantTokenInvariant, PTL

-----------------------------------------------------------------------------
(***************************************************************************)
(* The store of the sessions.                                              *)
(***************************************************************************)

LEMMA StoreInitInv == SessionStoreInit => StoreInv
<1> SUFFICES ASSUME SessionStoreInit PROVE StoreInv
  OBVIOUS
<1>1. /\ botPc = "down" /\ edition = 0 /\ edits = 0 /\ flushes = 0 /\ writers = {}
      /\ signalledAt = 0
  BY DEF SessionStoreInit
<1>2. onDisk.edition = 0
  BY DEF SessionStoreInit, NoStoreFile, Contents
<1>3. QED
  BY <1>1, <1>2 DEF StoreInv, StoreTyped, WritesGoForward, StartsAreAlone, FlushFollows,
                    SignalIsServed, ChangesAreOnTheirWay, ExitSaves

\* A start takes the edition of the file, or makes one that the flush of its own writes.
LEMMA StoreStartsInv == ASSUME StoreInv, StoreStarts PROVE StoreInv'
<1>1. PICK limit \in EntryLimits :
          \/ /\ edits' = edits + 1 /\ edition' = edits + 1
             /\ dirty' = TRUE /\ flushes' = 1 /\ botPc' = "loading"
          \/ /\ edition' = onDisk.edition
             /\ botPc' = "up" /\ UNCHANGED <<edits, dirty, flushes>>
  BY DEF StoreStarts, Edited
<1>2. /\ botPc = "down" /\ flushes = 0 /\ writers = {}
      /\ UNCHANGED <<flushTimer, writers, onDisk, flushFailed, signalledAt>>
  BY DEF StoreStarts, StoreInv, StartsAreAlone
<1>3. StoreTyped'
  BY <1>1, <1>2 DEF StoreInv, StoreTyped
<1>4. WritesGoForward'
  BY <1>1, <1>2 DEF StoreInv, StoreTyped, WritesGoForward
<1>5. StartsAreAlone' /\ FlushFollows' /\ SignalIsServed'
  BY <1>1, <1>2 DEF StoreInv, StartsAreAlone, FlushFollows, SignalIsServed
<1>6. ChangesAreOnTheirWay' /\ ExitSaves'
  BY <1>1, <1>2 DEF ChangesAreOnTheirWay, ExitSaves, Saved
<1>7. QED
  BY <1>3, <1>4, <1>5, <1>6 DEF StoreInv

\* A change sets the timer, so that a write that is under way has another behind it.
LEMMA MarkDirtyInv == ASSUME StoreInv, MarkDirty PROVE StoreInv'
<1>1. /\ botPc \in {"up", "exiting"} /\ edits' = edits + 1 /\ edition' = edits + 1
      /\ dirty' = TRUE /\ flushTimer' = TRUE
      /\ UNCHANGED <<botPc, flushes, writers, onDisk, flushFailed, signalledAt>>
  BY DEF MarkDirty, Edited
<1>2. StoreTyped'
  BY <1>1 DEF StoreInv, StoreTyped
<1>3. WritesGoForward'
  BY <1>1 DEF StoreInv, StoreTyped, WritesGoForward
<1>4. StartsAreAlone' /\ FlushFollows' /\ SignalIsServed'
  BY <1>1 DEF StoreInv, StartsAreAlone, FlushFollows, SignalIsServed
<1>5. ChangesAreOnTheirWay' /\ ExitSaves'
  BY <1>1 DEF ChangesAreOnTheirWay, ExitSaves
<1>6. QED
  BY <1>2, <1>3, <1>4, <1>5 DEF StoreInv

\* One flush more that is to come, as by the timer or by the signal.
LEMMA FlushAddedInv ==
    ASSUME StoreInv, botPc \in {"up", "exiting"}, flushes' = flushes + 1,
           UNCHANGED <<edition, edits, dirty, writers, onDisk, flushFailed>>,
           \/ UNCHANGED <<botPc, signalledAt>>
           \/ botPc' = "exiting" /\ signalledAt' = edition
    PROVE  StoreInv'
<1>1. botPc' \in {"up", "exiting"} /\ flushes \in Nat /\ flushes' > 0
  BY DEF StoreInv, StoreTyped
<1>2. StoreTyped'
  BY <1>1 DEF StoreInv, StoreTyped
<1>3. WritesGoForward'
  BY <1>1 DEF StoreInv, StoreTyped, WritesGoForward
<1>4. StartsAreAlone' /\ FlushFollows' /\ SignalIsServed'
  BY <1>1 DEF StoreInv, StartsAreAlone, FlushFollows, SignalIsServed
<1>5. ChangesAreOnTheirWay' /\ ExitSaves'
  BY <1>1 DEF StoreInv, ChangesAreOnTheirWay, ExitSaves, Saved
<1>6. QED
  BY <1>2, <1>3, <1>4, <1>5 DEF StoreInv

\* A flush takes the map as it is; it has nothing to write only where the file has it.
LEMMA FlushBeginsInv == ASSUME StoreInv, FlushBegins PROVE StoreInv'
<1>1. /\ flushes > 0 /\ writers = {} /\ flushes' = flushes - 1 /\ flushes \in Nat
      /\ UNCHANGED <<botPc, edition, edits, flushTimer, onDisk, flushFailed, signalledAt>>
      /\ edition \in Nat
  BY DEF FlushBegins, StoreInv, StoreTyped
<1>2. CASE dirty
  <2>1. writers' = {[keys |-> shelf, edition |-> edition, hasTmp |-> FALSE]} /\ dirty' = FALSE
    BY <1>1, <1>2 DEF FlushBegins
  <2>2. /\ \A w \in writers' : w.edition = edition
        /\ \A w, x \in writers' : w = x
        /\ \A w \in writers' : w \in [keys : {w.keys}, edition : Nat, hasTmp : BOOLEAN]
        /\ writers' # {}
    <3> DEFINE r == [keys |-> shelf, edition |-> edition, hasTmp |-> FALSE]
    <3>1. r.edition = edition /\ r \in [keys : {r.keys}, edition : Nat, hasTmp : BOOLEAN]
      BY <1>1
    <3> HIDE DEF r
    <3>2. writers' = {r}
      BY <2>1 DEF r
    <3>3. QED
      BY <3>1, <3>2
  <2>3. StoreTyped'
    BY <1>1, <2>2 DEF StoreInv, StoreTyped
  <2>4. WritesGoForward'
    <3>1. onDisk.edition <= edition
      BY <1>1 DEF StoreInv, WritesGoForward, StartsAreAlone
    <3>2. QED
      BY <1>1, <2>2, <3>1 DEF StoreInv, WritesGoForward
  <2>5. StartsAreAlone'
    BY <1>1, <2>2 DEF StoreInv, StartsAreAlone
  <2>6. FlushFollows' /\ SignalIsServed'
    BY <1>1, <2>2 DEF StoreInv, FlushFollows, SignalIsServed, WritesGoForward
  <2>7. ChangesAreOnTheirWay' /\ ExitSaves'
    BY <1>1, <2>2 DEF StoreInv, ChangesAreOnTheirWay, ExitSaves, StartsAreAlone
  <2>8. QED
    BY <2>3, <2>4, <2>5, <2>6, <2>7 DEF StoreInv
<1>3. CASE ~dirty
  <2>1. writers' = {} /\ UNCHANGED dirty
    BY <1>1, <1>3 DEF FlushBegins
  <2>2. botPc \in {"up", "exiting"}
    BY <1>1, <1>3 DEF StoreInv, StartsAreAlone, StoreTyped
  <2>3. onDisk.edition = edition \/ edition = 0
    BY <1>1, <1>3, <2>2 DEF StoreInv, ChangesAreOnTheirWay, Saved
  <2>4. StoreTyped'
    BY <1>1, <2>1 DEF StoreInv, StoreTyped
  <2>5. WritesGoForward'
    BY <1>1, <2>1 DEF StoreInv, WritesGoForward
  <2>6. StartsAreAlone' /\ FlushFollows'
    BY <1>1, <2>1, <2>2 DEF StartsAreAlone, FlushFollows
  <2>7. SignalIsServed'
    <3>1. signalledAt <= edition /\ onDisk.edition \in Nat /\ signalledAt \in Nat
      BY DEF StoreInv, WritesGoForward, StoreTyped
    <3>2. onDisk.edition >= signalledAt
      BY <1>1, <2>3, <3>1
    <3>3. QED
      BY <1>1, <2>1, <3>2 DEF SignalIsServed
  <2>8. ChangesAreOnTheirWay' /\ ExitSaves'
    BY <1>1, <2>1, <2>2, <2>3 DEF ChangesAreOnTheirWay, ExitSaves, Saved
  <2>9. QED
    BY <2>4, <2>5, <2>6, <2>7, <2>8 DEF StoreInv
<1>4. QED
  BY <1>2, <1>3

\* The one writer, and the flush that is to follow it.
LEMMA WriterFacts ==
    ASSUME StoreInv, NEW w \in writers
    PROVE  /\ w.edition \in Nat /\ onDisk.edition <= w.edition /\ w.edition <= edition
           /\ writers \ {w} = {} /\ writers = {w}
           /\ w.edition # edition => dirty /\ (flushTimer \/ flushes > 0)
           /\ botPc \in {"loading", "up", "exiting"}
           /\ botPc = "loading" => w.edition = edition /\ flushes = 0
           /\ botPc = "exiting" => w.edition >= signalledAt \/ flushes > 0
           /\ edition \in Nat /\ edits \in Nat /\ signalledAt \in Nat /\ flushes \in Nat
           /\ edition <= edits /\ onDisk.edition \in Nat /\ signalledAt <= edition
<1>1. /\ w.edition \in Nat /\ onDisk.edition <= w.edition /\ w.edition <= edition
      /\ \A x \in writers : x = w
  BY DEF StoreInv, StoreTyped, WritesGoForward
<1>2. writers \ {w} = {} /\ writers = {w}
  BY <1>1
<1>3. botPc \in {"loading", "up", "exiting"}
  BY DEF StoreInv, StartsAreAlone, StoreTyped
<1>4. /\ w.edition # edition => dirty /\ (flushTimer \/ flushes > 0)
      /\ botPc = "exiting" => w.edition >= signalledAt \/ flushes > 0
  BY DEF StoreInv, FlushFollows, SignalIsServed
<1>5. /\ edition \in Nat /\ edits \in Nat /\ signalledAt \in Nat /\ flushes \in Nat
      /\ edition <= edits /\ onDisk.edition \in Nat /\ signalledAt <= edition
  BY DEF StoreInv, StoreTyped, WritesGoForward
<1>6. botPc = "loading" => w.edition = edition /\ flushes = 0
  <2>1. SUFFICES ASSUME botPc = "loading" PROVE w.edition = edition /\ flushes = 0
    OBVIOUS
  <2>2. w.edition = edition
    BY <2>1 DEF StoreInv, FlushFollows
  <2>3. flushes <= 1 /\ flushes # 1
    BY <2>1 DEF StoreInv, StartsAreAlone
  <2>4. QED
    BY <1>5, <2>2, <2>3
<1>7. QED
  BY <1>1, <1>2, <1>3, <1>4, <1>5, <1>6

LEMMA TmpWrittenInv == ASSUME StoreInv, NEW w \in writers, TmpWritten(w) PROVE StoreInv'
<1> DEFINE x == [w EXCEPT !.hasTmp = TRUE]
<1>1. /\ writers' = (writers \ {w}) \cup {x}
      /\ UNCHANGED <<botPc, edition, edits, dirty, flushTimer, flushes, onDisk, flushFailed,
                     signalledAt>>
  BY DEF TmpWritten
<1>2. w \in [keys : {w.keys}, edition : Nat, hasTmp : BOOLEAN]
  BY DEF StoreInv, StoreTyped
<1>3. x.edition = w.edition /\ x \in [keys : {x.keys}, edition : Nat, hasTmp : BOOLEAN]
  BY <1>2
<1> HIDE DEF x
<1>4. writers' = {x} /\ writers # {}
  BY <1>1, WriterFacts
<1>5. /\ \A y \in writers' : /\ y.edition = w.edition
                             /\ y \in [keys : {y.keys}, edition : Nat, hasTmp : BOOLEAN]
      /\ \A y, z \in writers' : y = z
      /\ writers' # {}
  BY <1>3, <1>4
<1>6. StoreTyped'
  BY <1>1, <1>5, WriterFacts DEF StoreInv, StoreTyped
<1>7. WritesGoForward'
  BY <1>1, <1>5, WriterFacts DEF StoreInv, WritesGoForward
<1>8. StartsAreAlone'
  BY <1>1, <1>4, <1>5, WriterFacts DEF StoreInv, StartsAreAlone
<1>9. FlushFollows' /\ SignalIsServed'
  BY <1>1, <1>5, WriterFacts DEF FlushFollows, SignalIsServed
<1>10. ChangesAreOnTheirWay'
  <2>1. w.edition = edition \/ (dirty /\ (flushTimer \/ flushes > 0))
    BY WriterFacts
  <2>2. \E y \in writers' : y.edition = w.edition
    BY <1>5
  <2>3. QED
    BY <1>1, <2>1, <2>2 DEF ChangesAreOnTheirWay
<1>11. ExitSaves'
  BY <1>1 DEF StoreInv, ExitSaves
<1>12. QED
  BY <1>6, <1>7, <1>8, <1>9, <1>10, <1>11 DEF StoreInv

\* The file has what the write took; if the map is newer by now, another flush follows.
LEMMA RenamedInv ==
    ASSUME StoreInv, NEW w \in writers, Renamed(w)
    PROVE  StoreInv' /\ onDisk'.edition >= onDisk.edition
<1>1. /\ onDisk' = Contents("entries", w.keys, w.edition) /\ writers' = writers \ {w}
      /\ botPc' = (IF botPc = "loading" THEN "up" ELSE botPc)
      /\ UNCHANGED <<edition, edits, dirty, flushTimer, flushes, signalledAt>>
  BY DEF Renamed
<1>2. onDisk'.edition = w.edition
  BY <1>1 DEF Contents
<1>3. writers' = {} /\ botPc' \in {"up", "exiting"} /\ (botPc' = "exiting" => botPc = "exiting")
  BY <1>1, WriterFacts
<1>4. StoreTyped'
  BY <1>1, <1>2, <1>3, WriterFacts DEF StoreTyped
<1>5. WritesGoForward'
  BY <1>1, <1>2, <1>3, WriterFacts DEF WritesGoForward
<1>6. StartsAreAlone' /\ FlushFollows'
  BY <1>3 DEF StartsAreAlone, FlushFollows
<1>7. SignalIsServed'
  BY <1>1, <1>2, <1>3, WriterFacts DEF SignalIsServed
<1>8. ChangesAreOnTheirWay' /\ ExitSaves'
  BY <1>1, <1>2, <1>3, WriterFacts DEF ChangesAreOnTheirWay, ExitSaves, Saved
<1>9. onDisk'.edition >= onDisk.edition
  BY <1>2, WriterFacts
<1>10. QED
  BY <1>4, <1>5, <1>6, <1>7, <1>8, <1>9 DEF StoreInv

\* A write that failed leaves the map marked, for the next change or the exit.
LEMMA WriteFailedInv == ASSUME StoreInv, NEW w \in writers, WriteFailed(w) PROVE StoreInv'
<1>1. /\ writers' = writers \ {w} /\ dirty' = TRUE /\ flushFailed' = TRUE
      /\ botPc' = (IF botPc = "loading" THEN "exited" ELSE botPc)
      /\ UNCHANGED <<edition, edits, flushTimer, flushes, onDisk, signalledAt>>
  BY DEF WriteFailed
<1>2. writers' = {} /\ botPc' \in {"up", "exiting", "exited"} /\ onDisk.edition <= edition
  BY <1>1, WriterFacts
<1>3. StoreTyped'
  BY <1>1, <1>2, WriterFacts DEF StoreTyped
<1>4. WritesGoForward'
  BY <1>1, <1>2, WriterFacts DEF WritesGoForward
<1>5. botPc' = "exited" => flushes' = 0
  BY <1>1, WriterFacts
<1>6. StartsAreAlone' /\ FlushFollows' /\ SignalIsServed'
  BY <1>1, <1>2, <1>5 DEF StartsAreAlone, FlushFollows, SignalIsServed
<1>7. ChangesAreOnTheirWay' /\ ExitSaves'
  BY <1>1, <1>2 DEF ChangesAreOnTheirWay, ExitSaves
<1>8. QED
  BY <1>3, <1>4, <1>6, <1>7 DEF StoreInv

\* The exit comes when no flush is left, so that of the signal is over.
LEMMA ExitsInv == ASSUME StoreInv, Exits PROVE StoreInv'
<1>1. /\ botPc = "exiting" /\ flushes = 0 /\ writers = {} /\ botPc' = "exited"
      /\ UNCHANGED <<edition, edits, dirty, flushTimer, flushes, writers, onDisk, flushFailed,
                     signalledAt>>
  BY DEF Exits
<1>2. StoreTyped' /\ WritesGoForward'
  BY <1>1 DEF StoreInv, StoreTyped, WritesGoForward
<1>3. StartsAreAlone' /\ FlushFollows' /\ SignalIsServed'
  BY <1>1 DEF StoreInv, StartsAreAlone, FlushFollows, SignalIsServed
<1>4. ChangesAreOnTheirWay'
  BY <1>1 DEF ChangesAreOnTheirWay
<1>5. ExitSaves'
  BY <1>1 DEF StoreInv, SignalIsServed, ExitSaves
<1>6. QED
  BY <1>2, <1>3, <1>4, <1>5 DEF StoreInv

LEMMA RestartsInv == ASSUME StoreInv, Restarts PROVE StoreInv'
<1>1. /\ botPc' = "down" /\ edition' = 0 /\ flushes' = 0 /\ writers' = {} /\ signalledAt' = 0
      /\ UNCHANGED <<edits, onDisk>>
  BY DEF Restarts
<1>2. StoreTyped' /\ WritesGoForward'
  BY <1>1 DEF StoreInv, StoreTyped, WritesGoForward
<1>3. QED
  BY <1>1, <1>2 DEF StoreInv, StartsAreAlone, FlushFollows, SignalIsServed, ChangesAreOnTheirWay,
                    ExitSaves

LEMMA StoreStutterInv == ASSUME StoreInv, UNCHANGED storeVars PROVE StoreInv'
BY DEF storeVars, StoreInv, StoreTyped, WritesGoForward, StartsAreAlone, FlushFollows,
       SignalIsServed, ChangesAreOnTheirWay, ExitSaves, Saved

\* No step but a rename touches the file.
LEMMA StoreStepInv ==
    ASSUME StoreInv, [SessionStoreNext]_storeVars
    PROVE  StoreInv' /\ (onDisk' = onDisk \/ onDisk'.edition >= onDisk.edition)
<1>1. CASE StoreStarts
  BY <1>1, StoreStartsInv DEF StoreStarts
<1>2. CASE Signalled
  BY <1>2, FlushAddedInv DEF Signalled
<1>3. CASE Restarts
  BY <1>3, RestartsInv DEF Restarts
<1>4. CASE TimerFires
  BY <1>4, FlushAddedInv DEF TimerFires
<1>5. CASE FlushBegins
  BY <1>5, FlushBeginsInv DEF FlushBegins
<1>6. CASE Exits
  BY <1>6, ExitsInv DEF Exits
<1>7. ASSUME NEW w \in writers, TmpWritten(w)
      PROVE  StoreInv' /\ UNCHANGED onDisk
  BY <1>7, TmpWrittenInv DEF TmpWritten
<1>8. ASSUME NEW w \in writers, Renamed(w)
      PROVE  StoreInv' /\ onDisk'.edition >= onDisk.edition
  BY <1>8, RenamedInv
<1>9. ASSUME NEW w \in writers, WriteFailed(w)
      PROVE  StoreInv' /\ UNCHANGED onDisk
  BY <1>9, WriteFailedInv DEF WriteFailed
<1>10. ASSUME NEW k \in Chats, SetSession(k) \/ DeleteSession(k)
       PROVE  StoreInv' /\ UNCHANGED onDisk
  <2>1. MarkDirty
    BY <1>10 DEF SetSession, DeleteSession
  <2>2. QED
    BY <2>1, MarkDirtyInv DEF MarkDirty
<1>11. CASE UNCHANGED storeVars
  BY <1>11, StoreStutterInv DEF storeVars
<1>12. QED
  BY <1>1, <1>2, <1>3, <1>4, <1>5, <1>6, <1>7, <1>8, <1>9, <1>10, <1>11
  DEF SessionStoreNext, FlushGoesOn

\* Whatever the timers, the writes that fail, the signals and the restarts: what was set is in
\* the file or on its way, and a process that exits on a signal has written what it held then.
THEOREM StoredChangesAreKept == SessionStoreSpec => []ChangesAreKept
<1>1. StoreInv => ChangesAreKept
  BY DEF StoreInv, ChangesAreKept
<1>2. StoreInv /\ [SessionStoreNext]_storeVars => StoreInv'
  BY StoreStepInv
<1>3. QED
  BY <1>1, <1>2, StoreInitInv, PTL DEF SessionStoreSpec

\* The file never goes back to an older map, in whichever order flushes, failures and
\* restarts follow each other.
THEOREM StoreFileNeverGoesBack == SessionStoreSpec => FileNeverGoesBack
<1>1. StoreInv /\ [SessionStoreNext]_storeVars => StoreInv'
  BY StoreStepInv
<1>2. StoreInv /\ [SessionStoreNext]_storeVars =>
          [onDisk'.kind = "entries" => onDisk'.edition >= onDisk.edition]_storeVars
  <2>1. StoreInv => onDisk.edition \in Nat
    BY DEF StoreInv, StoreTyped
  <2>2. QED
    BY <2>1, StoreStepInv
<1>3. QED
  BY <1>1, <1>2, StoreInitInv, PTL DEF SessionStoreSpec, FileNeverGoesBack

-----------------------------------------------------------------------------
(***************************************************************************)
(* The loop of the events.                                                 *)
(***************************************************************************)

\* Adding one handler to some, and taking one away.
LEMMA HandlersAreFew ==
    ASSUME NEW S \in SUBSET Deliveries, NEW e \in Deliveries
    PROVE  /\ IsFiniteSet(S) /\ Cardinality(S) \in Nat
           /\ Cardinality(S \cup {e}) <= Cardinality(S) + 1
           /\ Cardinality(S \ {e}) <= Cardinality(S)
           /\ Cardinality({}) = 0
<1>1. IsFiniteSet(Deliveries)
  BY FS_Interval, EventLoopAssumption DEF Deliveries
<1>2. IsFiniteSet(S)
  BY <1>1, FS_Subset
<1>3. Cardinality(S) \in Nat /\ Cardinality({}) = 0
  BY <1>2, FS_CardinalityType, FS_EmptySet
<1>4. Cardinality(S \cup {e}) <= Cardinality(S) + 1
  <2>1. Cardinality(S \cup {e}) = IF e \in S THEN Cardinality(S) ELSE Cardinality(S) + 1
    BY <1>2, FS_AddElement
  <2>2. QED
    BY <1>3, <2>1
<1>5. Cardinality(S \ {e}) <= Cardinality(S)
  <2>1. Cardinality(S \ {e}) = IF e \in S THEN Cardinality(S) - 1 ELSE Cardinality(S)
    BY <1>2, FS_RemoveElement
  <2>2. QED
    BY <1>3, <2>1
<1>6. QED
  BY <1>2, <1>3, <1>4, <1>5

\* A full round counts somebody.
LEMMA NobodyIsNone ==
    ASSUME EventLoopInv
    PROVE  /\ MaxConcurrent \in Nat /\ MaxConcurrent > 0
           /\ Cardinality(handlersInflight) \in Nat /\ Cardinality({}) = 0
           /\ Cardinality(handlersInflight) >= MaxConcurrent => handlersInflight # {}
<1>1. handlersInflight \subseteq Deliveries
  BY DEF EventLoopInv, EventLoopTypeOK
<1>2. IsFiniteSet(handlersInflight)
  <2>1. IsFiniteSet(Deliveries)
    BY FS_Interval, EventLoopAssumption DEF Deliveries
  <2>2. QED
    BY <1>1, <2>1, FS_Subset
<1>3. Cardinality(handlersInflight) \in Nat /\ Cardinality({}) = 0
  BY <1>2, FS_CardinalityType, FS_EmptySet
<1>4. MaxConcurrent \in Nat /\ MaxConcurrent > 0
  BY EventLoopAssumption
<1>5. QED
  BY <1>3, <1>4

LEMMA EventLoopInitInv == EventLoopInit => EventLoopInv
<1> SUFFICES ASSUME EventLoopInit PROVE EventLoopInv
  OBVIOUS
<1>1. EventLoopTypeOK
  <2>1. settled \in Seq({"ok", "error"})
    BY DEF EventLoopInit
  <2>2. 1 \in 1..MaxRounds /\ 0 \in 0..MaxEvents /\ 0 \in 0..MaxRounds
    BY EventLoopAssumption
  <2>3. QED
    BY <2>1, <2>2 DEF EventLoopInit, EventLoopTypeOK
<1>2. RoundsAreOver /\ LoopWaitsWell
  BY DEF EventLoopInit, RoundsAreOver, LoopWaitsWell
<1>3. RoundIsBounded
  BY FS_EmptySet, EventLoopAssumption DEF EventLoopInit, RoundIsBounded
<1>4. QED
  BY <1>1, <1>2, <1>3 DEF EventLoopInv

\* A step of the loop that leaves the handlers and the rounds as they are.
LEMMA LoopMovesInv ==
    ASSUME EventLoopInv, EventLoopTypeOK', LoopWaitsWell',
           UNCHANGED <<round, handler, roundOf, handlersInflight>>,
           loopPc' = loopPc \/ loopPc' \in {"drain", "backoff"}
             \/ (loopPc \notin {"subscribe", "backoff", "drain"} /\ loopPc' # "subscribe")
    PROVE  EventLoopInv'
<1>1. RoundsAreOver /\ RoundIsBounded
  BY DEF EventLoopInv
<1>2. RoundsAreOver'
  BY <1>1 DEF RoundsAreOver
<1>3. RoundIsBounded'
  <2>1. {e \in Deliveries : roundOf'[e] = round' /\ Working(e)'}
          = {e \in Deliveries : roundOf[e] = round /\ Working(e)}
    BY DEF Working
  <2>2. QED
    BY <1>1, <2>1 DEF RoundIsBounded
<1>4. QED
  BY <1>2, <1>3 DEF EventLoopInv

LEMMA SubscribedInv == ASSUME EventLoopInv, Subscribed PROVE EventLoopInv'
<1>1. EventLoopTypeOK /\ RoundsAreOver /\ loopPc = "subscribe" /\ loopPc' = "top"
      /\ handlersInflight' = {} /\ UNCHANGED <<round, handler, roundOf>>
  BY DEF EventLoopInv, Subscribed
<1>2. EventLoopTypeOK'
  <2>1. settled' \in Seq({"ok", "error"})
    BY DEF Subscribed
  <2>2. QED
    BY <1>1, <2>1 DEF Subscribed, EventLoopTypeOK
<1>3. RoundsAreOver'
  BY <1>1 DEF RoundsAreOver
<1>4. LoopWaitsWell'
  BY DEF Subscribed, LoopWaitsWell
<1>5. \A e \in Deliveries : roundOf'[e] # round'
  <2>1. \A e \in Deliveries : roundOf[e] < round /\ roundOf[e] \in Nat /\ round \in Nat
    BY <1>1 DEF RoundsAreOver, EventLoopTypeOK
  <2>2. QED
    BY <1>1, <2>1
<1>6. RoundIsBounded'
  BY <1>1, <1>5, FS_EmptySet, EventLoopAssumption DEF RoundIsBounded, Working
<1>7. QED
  BY <1>2, <1>3, <1>4, <1>6 DEF EventLoopInv

LEMMA LoopTopInv == ASSUME EventLoopInv, LoopTop PROVE EventLoopInv'
<1>1. EventLoopTypeOK /\ LoopWaitsWell /\ loopPc = "top"
  BY DEF EventLoopInv, LoopTop
<1>2. CASE Leaves(FALSE) /\ UNCHANGED settled
  <2>1. EventLoopTypeOK' /\ LoopWaitsWell'
    BY <1>1, <1>2 DEF Leaves, EventLoopTypeOK, LoopWaitsWell, streamVars, handlerVars
  <2>2. QED
    BY <1>1, <1>2, <2>1, LoopMovesInv DEF Leaves, streamVars, handlerVars
<1>3. CASE settled # <<>> /\ TakesResult
  <2>1. settled' = Tail(settled) /\ settled' \in Seq({"ok", "error"})
    BY <1>1, <1>3 DEF TakesResult, EventLoopTypeOK
  <2>2. EventLoopTypeOK' /\ LoopWaitsWell'
    BY <1>1, <1>3, <2>1
    DEF TakesResult, Leaves, EventLoopTypeOK, LoopWaitsWell, streamVars, handlerVars
  <2>3. QED
    BY <1>1, <1>3, <2>2, LoopMovesInv DEF TakesResult, Leaves, streamVars, handlerVars
<1>4. ASSUME NEW what \in {"next", "signal"}, NEW race \in BOOLEAN, Awaits(what, race),
             settled = <<>>, what = "next" => handlersInflight = {},
             what = "signal" /\ ~race => handlersInflight # {},
             what = "signal" /\ race => Cardinality(handlersInflight) < MaxConcurrent
      PROVE  EventLoopInv'
  <2>1. EventLoopTypeOK'
    BY <1>1, <1>4 DEF Awaits, EventLoopTypeOK, streamVars, handlerVars
  <2>2. LoopWaitsWell'
    BY <1>1, <1>4 DEF Awaits, LoopWaitsWell, EventLoopTypeOK, streamVars, handlerVars
  <2>3. QED
    BY <1>1, <1>4, <2>1, <2>2, LoopMovesInv DEF Awaits, streamVars, handlerVars
<1>5. CASE /\ settled = <<>> /\ ~(streamEnded /\ handlersInflight = {})
           /\ Cardinality(handlersInflight) >= MaxConcurrent \/ streamEnded
           /\ Awaits("signal", FALSE)
  <2>1. handlersInflight # {}
    BY <1>5, NobodyIsNone
  <2>2. QED
    BY <1>4, <1>5, <2>1
<1>6. CASE /\ settled = <<>> /\ ~(Cardinality(handlersInflight) >= MaxConcurrent)
           /\ handlersInflight = {} /\ Awaits("next", FALSE)
  BY <1>4, <1>6
<1>7. CASE /\ settled = <<>> /\ ~(Cardinality(handlersInflight) >= MaxConcurrent)
           /\ Awaits("signal", TRUE)
  <2>1. Cardinality(handlersInflight) < MaxConcurrent
    BY <1>7, NobodyIsNone
  <2>2. QED
    BY <1>4, <1>7, <2>1
<1>8. QED
  BY <1>2, <1>3, <1>5, <1>6, <1>7 DEF LoopTop

\* The loop reads an event while it counts less than it may.
LEMMA TakesEventInv == ASSUME EventLoopInv, TakesEvent PROVE EventLoopInv'
<1>1. /\ EventLoopTypeOK /\ RoundsAreOver /\ LoopWaitsWell /\ RoundIsBounded
      /\ loopPc = "next" \/ (loopPc = "signal" /\ races)
      /\ loopPc' = "top" /\ sent \in Deliveries
      /\ handler' = [handler EXCEPT ![sent] = "running"]
      /\ roundOf' = [roundOf EXCEPT ![sent] = round]
      /\ handlersInflight' = handlersInflight \cup {sent}
      /\ round' = round
  BY DEF EventLoopInv, TakesEvent, LoopWaitsWell
<1>2. EventLoopTypeOK'
  BY <1>1 DEF TakesEvent, EventLoopTypeOK
<1>3. RoundsAreOver'
  <2>1. \A e \in Deliveries : roundOf[e] \in Nat /\ roundOf[e] <= round /\ round \in Nat
    BY <1>1 DEF RoundsAreOver, EventLoopTypeOK
  <2>2. \A e \in Deliveries : roundOf'[e] = IF e = sent THEN round ELSE roundOf[e]
    BY <1>1 DEF EventLoopTypeOK
  <2>3. QED
    BY <1>1, <2>1, <2>2 DEF RoundsAreOver
<1>4. LoopWaitsWell'
  BY <1>1 DEF TakesEvent, LoopWaitsWell
<1>5. Cardinality(handlersInflight) < MaxConcurrent
  BY <1>1, NobodyIsNone DEF LoopWaitsWell
<1>6. Cardinality(handlersInflight') <= MaxConcurrent
  <2>1. handlersInflight \in SUBSET Deliveries
    BY <1>1 DEF EventLoopTypeOK
  <2>2. Cardinality(handlersInflight \cup {sent}) <= Cardinality(handlersInflight) + 1
    BY <1>1, <2>1, HandlersAreFew
  <2>3. /\ Cardinality(handlersInflight) \in Nat /\ MaxConcurrent \in Nat
        /\ Cardinality(handlersInflight \cup {sent}) \in Nat
    <3>1. handlersInflight \cup {sent} \in SUBSET Deliveries
      BY <1>1, <2>1
    <3>2. QED
      BY <1>1, <3>1, HandlersAreFew, NobodyIsNone
  <2>4. QED
    BY <1>1, <1>5, <2>2, <2>3
<1>7. handlersInflight' = {e \in Deliveries : roundOf'[e] = round' /\ Working(e)'}
  <2>1. handlersInflight = {e \in Deliveries : roundOf[e] = round /\ Working(e)}
    BY <1>1 DEF RoundIsBounded
  <2>2. \A e \in Deliveries : e # sent => roundOf'[e] = roundOf[e] /\ handler'[e] = handler[e]
    BY <1>1 DEF EventLoopTypeOK
  <2>3. roundOf'[sent] = round /\ handler'[sent] = "running"
    BY <1>1 DEF EventLoopTypeOK
  <2>4. QED
    BY <1>1, <2>1, <2>2, <2>3 DEF Working
<1>8. RoundIsBounded'
  BY <1>6, <1>7 DEF RoundIsBounded
<1>9. QED
  BY <1>2, <1>3, <1>4, <1>8 DEF EventLoopInv

\* The other steps of the loop and those of its stream.
LEMMA LoopAndStreamInv ==
    ASSUME EventLoopInv,
           StreamIsOver \/ SignalWakesLoop \/ Drained \/ SubscribeFails
             \/ StreamDelivers \/ StreamEnds
    PROVE  EventLoopInv'
<1>1. EventLoopTypeOK /\ LoopWaitsWell
  BY DEF EventLoopInv
<1>2. CASE StreamIsOver
  <2>1. EventLoopTypeOK' /\ LoopWaitsWell'
    BY <1>1, <1>2 DEF StreamIsOver, Leaves, EventLoopTypeOK, LoopWaitsWell, streamVars, handlerVars
  <2>2. QED
    BY <1>1, <1>2, <2>1, LoopMovesInv DEF StreamIsOver, Leaves, streamVars, handlerVars
<1>3. CASE SignalWakesLoop
  <2>1. EventLoopTypeOK' /\ LoopWaitsWell'
    BY <1>1, <1>3 DEF SignalWakesLoop, EventLoopTypeOK, LoopWaitsWell, streamVars, handlerVars
  <2>2. QED
    BY <1>1, <1>3, <2>1, LoopMovesInv DEF SignalWakesLoop, streamVars, handlerVars
<1>4. CASE Drained \/ SubscribeFails
  <2>1. EventLoopTypeOK' /\ LoopWaitsWell'
    BY <1>1, <1>4 DEF Drained, SubscribeFails, EventLoopTypeOK, LoopWaitsWell, streamVars, handlerVars
  <2>2. QED
    BY <1>1, <1>4, <2>1, LoopMovesInv DEF Drained, SubscribeFails, streamVars, handlerVars
<1>5. CASE StreamDelivers
  <2>1. sent' \in 0..MaxEvents /\ sent' \in Deliveries
    BY <1>1, <1>5, EventLoopAssumption DEF StreamDelivers, EventLoopTypeOK, Deliveries
  <2>2. EventLoopTypeOK' /\ LoopWaitsWell'
    BY <1>1, <1>5, <2>1 DEF StreamDelivers, EventLoopTypeOK, LoopWaitsWell, handlerVars
  <2>3. QED
    BY <1>1, <1>5, <2>2, LoopMovesInv DEF StreamDelivers, handlerVars
<1>6. CASE StreamEnds
  <2>1. EventLoopTypeOK' /\ LoopWaitsWell'
    BY <1>1, <1>6 DEF StreamEnds, EventLoopTypeOK, LoopWaitsWell, handlerVars
  <2>2. QED
    BY <1>1, <1>6, <2>1, LoopMovesInv DEF StreamEnds, handlerVars
<1>7. QED
  BY <1>2, <1>3, <1>4, <1>5, <1>6

\* A round begins after all that were read before it.
LEMMA RetriesInv == ASSUME EventLoopInv, Retries PROVE EventLoopInv'
<1>1. /\ EventLoopTypeOK /\ RoundsAreOver /\ LoopWaitsWell /\ RoundIsBounded
      /\ loopPc' = "subscribe" /\ round' = round + 1 /\ round < MaxRounds
      /\ UNCHANGED <<races, sent, pendingNext, streamEnded, loopError, handler, roundOf,
                     handlersInflight, settled, signal>>
  BY DEF EventLoopInv, Retries, streamVars, handlerVars
<1>2. round' \in 1..MaxRounds
  BY <1>1, EventLoopAssumption DEF EventLoopTypeOK
<1>3. EventLoopTypeOK'
  BY <1>1, <1>2 DEF EventLoopTypeOK
<1>4. \A e \in Deliveries : roundOf'[e] <= round' /\ roundOf'[e] < round'
  <2>1. \A e \in Deliveries : roundOf[e] \in Nat /\ roundOf[e] <= round /\ round \in Nat
    BY <1>1 DEF RoundsAreOver, EventLoopTypeOK
  <2>2. QED
    BY <1>1, <2>1
<1>5. RoundsAreOver'
  BY <1>4 DEF RoundsAreOver
<1>6. LoopWaitsWell' /\ RoundIsBounded'
  BY <1>1 DEF LoopWaitsWell, RoundIsBounded
<1>7. QED
  BY <1>3, <1>5, <1>6 DEF EventLoopInv

\* A handler settles: its round counts it no more, and has its result.
LEMMA HandlerSettlesInv ==
    ASSUME EventLoopInv, NEW e \in Deliveries, NEW to \in {"ok", "error", "stray"},
           NEW result \in {"ok", "error"}, handler' = [handler EXCEPT ![e] = to],
           Settles(e, result)
    PROVE  EventLoopInv'
<1>1. /\ EventLoopTypeOK /\ RoundsAreOver /\ LoopWaitsWell /\ RoundIsBounded
      /\ handlersInflight' = handlersInflight \ {e}
      /\ UNCHANGED <<loopPc, races, round, sent, pendingNext, streamEnded, loopError, roundOf>>
  BY DEF EventLoopInv, Settles, streamVars
<1>2. \/ /\ settled' = Append(settled, result)
         /\ signal' = IF signal = "set" THEN "resolved" ELSE signal
      \/ UNCHANGED <<settled, signal>> /\ (roundOf[e] # round \/ loopPc = "subscribe")
  BY DEF Settles
<1>3. settled' \in Seq({"ok", "error"}) /\ signal' \in {"none", "set", "resolved"}
  <2>1. settled \in Seq({"ok", "error"}) /\ signal \in {"none", "set", "resolved"}
    BY <1>1 DEF EventLoopTypeOK
  <2>2. Append(settled, result) \in Seq({"ok", "error"})
    BY <2>1
  <2>3. QED
    BY <1>2, <2>1, <2>2
<1>4. EventLoopTypeOK'
  BY <1>1, <1>3 DEF EventLoopTypeOK
<1>5. RoundsAreOver'
  BY <1>1 DEF RoundsAreOver
<1>6. Cardinality(handlersInflight') <= Cardinality(handlersInflight)
  BY <1>1, HandlersAreFew DEF EventLoopTypeOK
<1>7. /\ Cardinality(handlersInflight) \in Nat /\ Cardinality(handlersInflight') \in Nat
      /\ MaxConcurrent \in Nat
  <2>1. handlersInflight' \in SUBSET Deliveries
    BY <1>4 DEF EventLoopTypeOK
  <2>2. QED
    BY <2>1, HandlersAreFew, NobodyIsNone
<1>8. loopPc' \notin {"subscribe", "backoff", "drain"} =>
         handlersInflight' = {d \in Deliveries : roundOf'[d] = round' /\ Working(d)'}
  <2>1. SUFFICES ASSUME loopPc' \notin {"subscribe", "backoff", "drain"}
                 PROVE  handlersInflight' = {d \in Deliveries : roundOf'[d] = round' /\ Working(d)'}
    OBVIOUS
  <2>2. handlersInflight = {d \in Deliveries : roundOf[d] = round /\ Working(d)}
    BY <1>1, <2>1 DEF RoundIsBounded
  <2>3. \A d \in Deliveries : handler'[d] = IF d = e THEN to ELSE handler[d]
    BY <1>1 DEF EventLoopTypeOK
  <2>4. QED
    BY <1>1, <2>2, <2>3 DEF Working
<1>9. RoundIsBounded'
  BY <1>1, <1>6, <1>7, <1>8 DEF RoundIsBounded
<1>10. LoopWaitsWell'
  <2>1. CASE loopPc # "signal"
    BY <1>1, <2>1 DEF LoopWaitsWell
  <2>2. CASE loopPc = "signal" /\ settled' = Append(settled, result)
             /\ signal' = IF signal = "set" THEN "resolved" ELSE signal
    <3>1. settled' # <<>>
      BY <1>1, <2>2 DEF EventLoopTypeOK
    <3>2. signal' = "resolved"
      BY <1>1, <2>2 DEF LoopWaitsWell, EventLoopTypeOK
    <3>3. races => Cardinality(handlersInflight') < MaxConcurrent
      BY <1>1, <1>6, <1>7, <2>2 DEF LoopWaitsWell
    <3>4. QED
      BY <1>1, <2>2, <3>1, <3>2, <3>3 DEF LoopWaitsWell
  <2>3. CASE loopPc = "signal" /\ UNCHANGED <<settled, signal>> /\ roundOf[e] # round
    <3>1. e \notin handlersInflight
      BY <1>1, <2>3 DEF RoundIsBounded
    <3>2. handlersInflight' = handlersInflight
      BY <1>1, <3>1
    <3>3. QED
      BY <1>1, <2>3, <3>2 DEF LoopWaitsWell
  <2>4. QED
    BY <1>2, <2>1, <2>2, <2>3
<1>11. QED
  BY <1>4, <1>5, <1>9, <1>10 DEF EventLoopInv

LEMMA HandlerTimesOutInv ==
    ASSUME EventLoopInv, NEW e \in Deliveries, HandlerTimesOut(e)
    PROVE  EventLoopInv'
<1>1. /\ EventLoopTypeOK /\ RoundsAreOver /\ LoopWaitsWell /\ RoundIsBounded
      /\ handler[e] = "running" /\ handler' = [handler EXCEPT ![e] = "aborted"]
      /\ UNCHANGED <<loopPc, races, round, sent, pendingNext, streamEnded, loopError, roundOf,
                     handlersInflight, settled, signal>>
  BY DEF EventLoopInv, HandlerTimesOut, streamVars
<1>2. EventLoopTypeOK'
  BY <1>1 DEF EventLoopTypeOK
<1>3. RoundsAreOver' /\ LoopWaitsWell'
  BY <1>1 DEF RoundsAreOver, LoopWaitsWell
<1>4. \A d \in Deliveries : Working(d)' <=> Working(d)
  BY <1>1 DEF Working, EventLoopTypeOK
<1>5. RoundIsBounded'
  BY <1>1, <1>4 DEF RoundIsBounded
<1>6. QED
  BY <1>2, <1>3, <1>5 DEF EventLoopInv

LEMMA EventLoopStepInv == EventLoopInv /\ [EventLoopNext]_loopVars => EventLoopInv'
<1> SUFFICES ASSUME EventLoopInv, [EventLoopNext]_loopVars PROVE EventLoopInv'
  OBVIOUS
<1>1. CASE LoopStep \/ SubscribeFails \/ StreamDelivers \/ StreamEnds
  BY <1>1, SubscribedInv, LoopTopInv, TakesEventInv, LoopAndStreamInv, RetriesInv DEF LoopStep
<1>2. ASSUME NEW e \in Deliveries, HandlerEnds(e) PROVE EventLoopInv'
  BY <1>2, HandlerSettlesInv DEF HandlerEnds
<1>3. ASSUME NEW e \in Deliveries, HandlerStep(e) PROVE EventLoopInv'
  BY <1>3, HandlerSettlesInv, HandlerTimesOutInv DEF HandlerStep, AbortIsOver
<1>4. CASE UNCHANGED loopVars
  BY <1>4
  DEF loopVars, EventLoopInv, EventLoopTypeOK, RoundsAreOver, LoopWaitsWell, RoundIsBounded, Working
<1>5. QED
  BY <1>1, <1>2, <1>3, <1>4 DEF EventLoopNext

\* In whatever order handlers end, fail or run out of time and the stream delivers, ends or
\* fails, across the rounds: the loop never sleeps on a result, waits only for handlers that
\* are at work, and handles no more events at a time than its limit.
THEOREM LoopAlwaysServesItsRound == EventLoopSpec => []LoopServesItsRound
<1>1. EventLoopInv => LoopServesItsRound
  <2>1. SUFFICES ASSUME EventLoopInv PROVE LoopServesItsRound
    OBVIOUS
  <2>2. LoopWaitsWell /\ RoundIsBounded
    BY <2>1 DEF EventLoopInv
  <2>3. NoResultIsSleptOn
    BY <2>2 DEF NoResultIsSleptOn, LoopWaitsWell, RoundIsBounded
  <2>4. QED
    BY <2>2, <2>3 DEF LoopServesItsRound
<1>2. QED
  BY <1>1, EventLoopInitInv, EventLoopStepInv, PTL DEF EventLoopSpec

-----------------------------------------------------------------------------
(***************************************************************************)
(* The chats of a bot.                                                     *)
(***************************************************************************)

LEMMA MessagesAreFinite ==
    ASSUME NEW S \in SUBSET Messages
    PROVE  IsFiniteSet(S) /\ Cardinality(S) \in Nat
<1>1. MaxMessages \in Int /\ 1 \in Int
  BY BotSessionsAssumption
<1>2. IsFiniteSet(Messages)
  BY <1>1, FS_Interval DEF Messages
<1>3. QED
  BY <1>2, FS_Subset, FS_CardinalityType

LEMMA RoomsOfTheUnfinished ==
    ASSUME BotsInv, NEW u \in Messages, messagePc[u] \in Unfinished
    PROVE  /\ roomOf[u] \in Rooms /\ u \in InRoom(roomOf[u])
           /\ \A c \in Rooms : c # roomOf[u] => u \notin InRoom(c)
BY DEF BotsInv, ChainsInv, UpdatesAreNew, InRoom

\* A message runs when no message of its chat that came before it is unfinished.
LEMMA WhoRunsIsFirst ==
    ASSUME BotsInv, NEW u \in Messages, Runs(u) \/ messagePc[u] \in Handling
    PROVE  /\ messagePc[u] \in Unfinished
           /\ \A v \in InRoom(roomOf[u]) : u <= v
<1>1. messagePc[u] \in Unfinished
  BY DEF Runs, Unfinished
<1>2. roomOf[u] \in Rooms /\ u \in InRoom(roomOf[u])
  BY <1>1, RoomsOfTheUnfinished
<1>3. CASE messagePc[u] \in Handling
  BY <1>1, <1>2, <1>3 DEF BotsInv, ChainsInv, OneAtATime
<1>4. CASE Runs(u)
  <2>1. /\ messagePc[u] = "chained"
        /\ follows[u] = 0 \/ (follows[u] \in Messages /\ messagePc[follows[u]] = "over")
    BY <1>4 DEF Runs
  <2>2. /\ \A v \in InRoom(roomOf[u]) : v < u => v <= follows[u]
        /\ follows[u] # 0 => follows[u] < u /\ roomOf[follows[u]] = roomOf[u]
    BY <2>1 DEF BotsInv, ChainsInv, ChainsFit
  <2>3. \A v \in InRoom(roomOf[u]) : v \in Nat /\ v > 0
    BY DEF InRoom, Messages
  <2>4. u \in Nat /\ follows[u] \in Nat
    <3>1. follows[u] \in 0..MaxMessages
      BY DEF BotsInv, BotTypeOK
    <3>2. QED
      BY <3>1 DEF Messages
  <2>5. ASSUME NEW v \in InRoom(roomOf[u]), v < u PROVE FALSE
    <3>1. follows[u] # 0 /\ v <= follows[u]
      BY <2>2, <2>3, <2>4, <2>5
    <3>2. follows[u] \in Messages /\ messagePc[follows[u]] = "over" /\ roomOf[follows[u]] = roomOf[u]
      BY <2>1, <2>2, <3>1
    <3>3. follows[u] < v
      BY <1>2, <2>5, <3>2 DEF BotsInv, ChainsInv, EndsInOrder
    <3>4. QED
      BY <2>3, <2>4, <2>5, <3>1, <3>3
  <2>6. QED
    BY <1>1, <2>3, <2>4, <2>5
<1>5. QED
  BY <1>3, <1>4

\* Messages whose turn it is go on.
LEMMA MessagesGoOn ==
    ASSUME BotsInv, messagePc' \in [Messages -> Unfinished \cup {"out", "refused", "over"}],
           \A v \in Messages : \/ messagePc'[v] = messagePc[v]
                               \/ /\ messagePc'[v] \in Handling
                                  /\ messagePc[v] \in Handling \/ Runs(v),
           UNCHANGED <<roomOf, chainVars, offset, batch, accepted>>
    PROVE  ChainsInv'
<1>1. \A v \in Messages : messagePc'[v] = messagePc[v] \/ (messagePc'[v] \in Unfinished /\ messagePc[v] \in Unfinished)
  BY DEF Runs, Unfinished
<1>2. \A c : InRoom(c)' = InRoom(c)
  BY <1>1 DEF InRoom
<1>3. \A v \in Messages : /\ messagePc'[v] = "out" <=> messagePc[v] = "out"
                          /\ messagePc'[v] = "over" <=> messagePc[v] = "over"
                          /\ messagePc'[v] = "chained" => messagePc[v] = "chained"
                          /\ messagePc'[v] \in Unfinished => messagePc[v] \in Unfinished
  BY <1>1 DEF Unfinished, Handling, Slotted
<1>4. UpdatesAreNew' /\ TakenOnce'
  BY <1>3 DEF BotsInv, ChainsInv, UpdatesAreNew, TakenOnce
<1>5. ChainsFit'
  BY <1>2, <1>3 DEF BotsInv, ChainsInv, ChainsFit, chainVars
<1>6. EndsInOrder'
  BY <1>2, <1>3 DEF BotsInv, ChainsInv, EndsInOrder
<1>7. OneAtATime'
  <2>1. SUFFICES ASSUME NEW c \in Rooms, NEW u \in InRoom(c), messagePc'[u] \in Handling,
                        NEW v \in InRoom(c)
                 PROVE  u <= v
    BY <1>2 DEF OneAtATime
  <2>2. u \in Messages /\ roomOf[u] = c /\ (messagePc[u] \in Handling \/ Runs(u))
    BY <2>1 DEF InRoom
  <2>3. QED
    BY <2>1, <2>2, WhoRunsIsFirst
<1>8. \A c \in Rooms : pendingCounts'[c] = Cardinality(InRoom(c)')
  BY <1>2 DEF BotsInv, ChainsInv, chainVars
<1>9. QED
  BY <1>4, <1>5, <1>6, <1>7, <1>8 DEF ChainsInv

\* A message ends: it was the first of its chat.
LEMMA MessageEnds ==
    ASSUME BotsInv, NEW u \in Messages, Runs(u) \/ messagePc[u] \in Handling,
           messagePc' \in [Messages -> Unfinished \cup {"out", "refused", "over"}],
           messagePc'[u] = "over",
           \A v \in Messages : v # u => \/ messagePc'[v] = messagePc[v]
                                        \/ messagePc'[v] \in Handling /\ messagePc[v] \in Handling,
           LeavesChain(u), UNCHANGED <<roomOf, offset, batch, accepted>>
    PROVE  /\ ChainsInv'
           /\ lastOf' \in [Rooms -> 0..MaxMessages]
           /\ pendingCounts' \in [Rooms -> 0..SessionPendingLimit] /\ follows' = follows
<1> DEFINE c == roomOf[u]
<1>1. /\ messagePc[u] \in Unfinished /\ \A v \in InRoom(c) : u <= v
      /\ c \in Rooms /\ u \in InRoom(c) /\ \A d \in Rooms : d # c => u \notin InRoom(d)
  BY WhoRunsIsFirst, RoomsOfTheUnfinished
<1>2. /\ lastOf \in [Rooms -> 0..MaxMessages] /\ pendingCounts \in [Rooms -> 0..SessionPendingLimit]
      /\ SessionPendingLimit \in Nat /\ MaxMessages \in Nat
  BY BotSessionsAssumption DEF BotsInv, BotTypeOK
<1>3. \A v \in Messages : v # u =>
          /\ messagePc'[v] = "out" <=> messagePc[v] = "out"
          /\ messagePc'[v] = "over" <=> messagePc[v] = "over"
          /\ messagePc'[v] = "chained" <=> messagePc[v] = "chained"
          /\ messagePc'[v] \in Unfinished <=> messagePc[v] \in Unfinished
          /\ messagePc'[v] \in Handling <=> messagePc[v] \in Handling
  BY DEF Unfinished, Handling, Slotted
<1>4. \A d \in Rooms : InRoom(d)' = InRoom(d) \ {u}
  BY <1>3 DEF InRoom, Unfinished, Handling, Slotted
<1>5. \A d \in Rooms : d # c => InRoom(d)' = InRoom(d)
  BY <1>1, <1>4
<1>6. /\ lastOf' = [lastOf EXCEPT ![c] = IF @ = u THEN 0 ELSE @]
      /\ pendingCounts' = [pendingCounts EXCEPT ![c] = IF @ = 0 THEN 0 ELSE @ - 1]
      /\ follows' = follows
  BY DEF LeavesChain
<1>7. UpdatesAreNew' /\ TakenOnce'
  <2>1. messagePc[u] # "out"
    BY <1>1 DEF Unfinished, Handling, Slotted
  <2>2. QED
    BY <1>3, <2>1 DEF BotsInv, ChainsInv, UpdatesAreNew, TakenOnce, Unfinished, Handling, Slotted
<1>8. ASSUME NEW d \in Rooms
      PROVE  IF lastOf'[d] = 0
             THEN InRoom(d)' = {}
             ELSE lastOf'[d] \in InRoom(d)' /\ \A v \in InRoom(d)' : v <= lastOf'[d]
  <2>1. IF lastOf[d] = 0
        THEN InRoom(d) = {}
        ELSE lastOf[d] \in InRoom(d) /\ \A v \in InRoom(d) : v <= lastOf[d]
    BY DEF BotsInv, ChainsInv, ChainsFit
  <2>2. CASE d # c
    BY <1>2, <1>5, <1>6, <2>1, <2>2
  <2>3. CASE d = c /\ lastOf[c] = u
    <3>1. \A v \in InRoom(c) : v = u
      BY <1>1, <2>1, <2>3 DEF InRoom, Messages
    <3>2. lastOf'[d] = 0
      BY <1>1, <1>2, <1>6, <2>3
    <3>3. QED
      BY <1>4, <3>1, <3>2, <2>3
  <2>4. CASE d = c /\ lastOf[c] # u
    <3>1. lastOf'[d] = lastOf[d]
      BY <1>1, <1>2, <1>6, <2>4
    <3>2. QED
      BY <1>1, <1>4, <2>1, <2>4, <3>1
  <2>5. QED
    BY <2>2, <2>3, <2>4
<1>9. ASSUME NEW v \in Messages, messagePc'[v] = "chained"
      PROVE  /\ \A w \in InRoom(roomOf[v])' : w < v => w <= follows[v]
             /\ follows[v] # 0 => follows[v] < v /\ roomOf[follows[v]] = roomOf[v]
  <2>1. messagePc[v] = "chained" /\ messagePc[v] \in Unfinished
    BY <1>3, <1>9 DEF Unfinished
  <2>2. roomOf[v] \in Rooms
    BY <2>1, RoomsOfTheUnfinished
  <2>3. InRoom(roomOf[v])' \subseteq InRoom(roomOf[v])
    BY <1>4, <2>2
  <2>4. QED
    BY <2>1, <2>3 DEF BotsInv, ChainsInv, ChainsFit
<1>10. ChainsFit'
  BY <1>6, <1>8, <1>9 DEF ChainsFit
<1>11. EndsInOrder'
  <2>1. SUFFICES ASSUME NEW d \in Rooms, NEW v \in Messages, roomOf[v] = d, messagePc'[v] = "over",
                        NEW w \in InRoom(d)'
                 PROVE  v < w
    BY DEF EndsInOrder
  <2>2. w \in InRoom(d) /\ w # u /\ w \in Messages
    BY <1>4, <2>1 DEF InRoom
  <2>3. CASE v = u
    BY <1>1, <2>1, <2>2, <2>3 DEF Messages
  <2>4. CASE v # u
    BY <1>3, <2>1, <2>2, <2>4 DEF BotsInv, ChainsInv, EndsInOrder
  <2>5. QED
    BY <2>3, <2>4
<1>12. OneAtATime'
  <2>1. SUFFICES ASSUME NEW d \in Rooms, NEW v \in InRoom(d)', messagePc'[v] \in Handling,
                        NEW w \in InRoom(d)'
                 PROVE  v <= w
    BY DEF OneAtATime
  <2>2. v \in InRoom(d) /\ w \in InRoom(d) /\ v # u /\ v \in Messages
    BY <1>4, <2>1 DEF InRoom
  <2>3. QED
    BY <1>3, <2>1, <2>2 DEF BotsInv, ChainsInv, OneAtATime
<1>13. pendingCounts[c] = Cardinality(InRoom(c)) /\ pendingCounts[c] \in Nat /\ pendingCounts[c] # 0
       /\ Cardinality(InRoom(c) \ {u}) = pendingCounts[c] - 1
  <2>1. InRoom(c) \in SUBSET Messages
    BY DEF InRoom
  <2>2. /\ IsFiniteSet(InRoom(c)) /\ IsFiniteSet(InRoom(c) \ {u})
        /\ Cardinality(InRoom(c) \ {u}) = Cardinality(InRoom(c)) - 1
    BY <1>1, <2>1, MessagesAreFinite, SetCounts
  <2>3. Cardinality(InRoom(c)) \in Nat /\ Cardinality(InRoom(c) \ {u}) \in Nat
    BY <2>2, SetCounts
  <2>4. pendingCounts[c] = Cardinality(InRoom(c))
    BY <1>1 DEF BotsInv, ChainsInv
  <2>5. QED
    BY <2>2, <2>3, <2>4
<1>14. \A d \in Rooms : pendingCounts'[d] = Cardinality(InRoom(d)')
  <2>1. \A d \in Rooms : pendingCounts[d] = Cardinality(InRoom(d))
    BY DEF BotsInv, ChainsInv
  <2>2. QED
    BY <1>1, <1>2, <1>4, <1>5, <1>6, <1>13, <2>1
<1>15. /\ lastOf' \in [Rooms -> 0..MaxMessages]
       /\ pendingCounts' \in [Rooms -> 0..SessionPendingLimit]
  <2>1. 0 \in 0..MaxMessages /\ pendingCounts[c] - 1 \in 0..SessionPendingLimit
    BY <1>1, <1>2, <1>13
  <2>2. QED
    BY <1>2, <1>6, <1>13, <2>1
<1>16. QED
  BY <1>6, <1>7, <1>10, <1>11, <1>12, <1>14, <1>15 DEF ChainsInv

\* A message is taken and refused, or dropped, or chained to the last one of its chat.
LEMMA TakesUpdateChains ==
    ASSUME BotsInv, NEW u \in Messages, TakesUpdate(u)
    PROVE  /\ ChainsInv'
           /\ messagePc[u] = "out" /\ \E l \in {"over", "refused", "chained"} : messagePc' = [messagePc EXCEPT ![u] = l]
           /\ lastOf' \in [Rooms -> 0..MaxMessages] /\ follows' \in [Messages -> 0..MaxMessages]
           /\ pendingCounts' \in [Rooms -> 0..SessionPendingLimit]
           /\ offset' \in 0..MaxMessages + 1 /\ batch' \in SUBSET Messages
           /\ accepted' \in [Messages -> Nat]
<1>1. /\ u \in batch /\ \A v \in batch : u <= v
      /\ batch' = batch \ {u} /\ offset' = NextOffset(u)
      /\ accepted' = [accepted EXCEPT ![u] = @ + 1] /\ roomOf' = roomOf
  BY DEF TakesUpdate
<1>2. /\ lastOf \in [Rooms -> 0..MaxMessages] /\ follows \in [Messages -> 0..MaxMessages]
      /\ pendingCounts \in [Rooms -> 0..SessionPendingLimit]
      /\ messagePc \in [Messages -> Unfinished \cup {"out", "refused", "over"}]
      /\ roomOf \in [Messages -> Rooms \cup {NoRoom}]
      /\ accepted \in [Messages -> Nat] /\ offset \in 0..MaxMessages + 1 /\ batch \in SUBSET Messages
      /\ SessionPendingLimit \in Nat /\ MaxMessages \in Nat /\ NoRoom \notin Rooms
  BY BotSessionsAssumption DEF BotsInv, BotTypeOK
<1>3. /\ offset <= u /\ messagePc[u] = "out" /\ accepted[u] = 0
      /\ u \in Nat /\ u > 0 /\ u <= MaxMessages /\ offset \in Nat
  BY <1>1, <1>2 DEF BotsInv, ChainsInv, UpdatesAreNew, Messages
<1>4. offset' = u + 1 /\ offset' \in 0..MaxMessages + 1
  BY <1>1, <1>3, <1>2 DEF NextOffset, Larger
<1>5. \A v \in Messages : messagePc[v] # "out" => v < u /\ v \in Nat
  BY <1>2, <1>3 DEF BotsInv, ChainsInv, UpdatesAreNew, Messages
<1>6. TakenOnce' /\ accepted' \in [Messages -> Nat] /\ batch' \in SUBSET Messages
  BY <1>1, <1>2, <1>3 DEF BotsInv, ChainsInv, TakenOnce
<1>7. \A v \in batch' : v >= offset'
  BY <1>1, <1>2, <1>3, <1>4 DEF Messages
<1>8. \A v \in Messages : accepted'[v] # 0 => v < offset'
  BY <1>1, <1>2, <1>3, <1>4 DEF BotsInv, ChainsInv, UpdatesAreNew, Messages
<1>9. \A d \in Rooms : \A v \in InRoom(d) : v < u /\ v # u /\ v \in Messages /\ v \in Nat
  BY <1>3, <1>5 DEF InRoom, Unfinished, Handling, Slotted
<1>10. ASSUME NEW l \in {"over", "refused"}, messagePc' = [messagePc EXCEPT ![u] = l],
              l = "over" => roomOf[u] \notin Rooms, UNCHANGED chainVars
       PROVE  ChainsInv'
  <2>1. \A v \in Messages : v # u => messagePc'[v] = messagePc[v]
    BY <1>2, <1>10
  <2>2. messagePc'[u] = l /\ l \notin Unfinished /\ messagePc[u] \notin Unfinished
    BY <1>2, <1>3, <1>10 DEF Unfinished, Handling, Slotted
  <2>3. \A d : InRoom(d)' = InRoom(d)
    BY <1>1, <2>1, <2>2 DEF InRoom
  <2>4. UpdatesAreNew'
    BY <1>1, <1>3, <1>4, <1>5, <1>7, <1>8, <2>1, <2>2 DEF UpdatesAreNew, BotsInv, ChainsInv
  <2>5. ChainsFit'
    BY <1>1, <1>10, <2>1, <2>2, <2>3 DEF ChainsFit, BotsInv, ChainsInv, chainVars
  <2>6. EndsInOrder'
    BY <1>1, <1>10, <2>1, <2>2, <2>3 DEF EndsInOrder, BotsInv, ChainsInv
  <2>7. OneAtATime'
    <3>1. \A d \in Rooms : \A v \in InRoom(d) : v # u /\ v \in Messages
      BY <2>2 DEF InRoom
    <3>2. QED
      BY <2>1, <2>3, <3>1 DEF OneAtATime, BotsInv, ChainsInv
  <2>8. QED
    BY <1>6, <1>10, <2>3, <2>4, <2>5, <2>6, <2>7 DEF BotsInv, ChainsInv, chainVars
<1>11. ASSUME NEW c \in Rooms, roomOf[u] = c, pendingCounts[c] < SessionPendingLimit,
              messagePc' = [messagePc EXCEPT ![u] = "chained"],
              pendingCounts' = [pendingCounts EXCEPT ![c] = @ + 1],
              follows' = [follows EXCEPT ![u] = lastOf[c]],
              lastOf' = [lastOf EXCEPT ![c] = u]
       PROVE  /\ ChainsInv' /\ lastOf' \in [Rooms -> 0..MaxMessages]
              /\ follows' \in [Messages -> 0..MaxMessages]
              /\ pendingCounts' \in [Rooms -> 0..SessionPendingLimit]
  <2>1. \A v \in Messages : v # u => messagePc'[v] = messagePc[v] /\ follows'[v] = follows[v]
    BY <1>2, <1>11
  <2>2. messagePc'[u] = "chained" /\ follows'[u] = lastOf[c] /\ lastOf'[c] = u
    BY <1>2, <1>11
  <2>3. /\ InRoom(c)' = InRoom(c) \cup {u} /\ u \notin InRoom(c)
        /\ \A d \in Rooms : d # c => InRoom(d)' = InRoom(d)
    BY <1>1, <1>3, <1>9, <1>11, <2>1, <2>2 DEF InRoom, Unfinished
  <2>4. UpdatesAreNew'
    BY <1>1, <1>3, <1>4, <1>5, <1>7, <1>8, <1>11, <2>1, <2>2 DEF UpdatesAreNew, BotsInv, ChainsInv
  <2>5. /\ \A d \in Rooms : IF lastOf[d] = 0
                            THEN InRoom(d) = {}
                            ELSE lastOf[d] \in InRoom(d) /\ \A v \in InRoom(d) : v <= lastOf[d]
        /\ \A v \in Messages : messagePc[v] = "chained" =>
              /\ \A w \in InRoom(roomOf[v]) : w < v => w <= follows[v]
              /\ follows[v] # 0 => follows[v] < v /\ roomOf[follows[v]] = roomOf[v]
    BY DEF ChainsFit, BotsInv, ChainsInv
  <2>6. \A d \in Rooms : IF lastOf'[d] = 0
                         THEN InRoom(d)' = {}
                         ELSE lastOf'[d] \in InRoom(d)' /\ \A v \in InRoom(d)' : v <= lastOf'[d]
    <3>1. \A d \in Rooms : d # c => lastOf'[d] = lastOf[d]
      BY <1>2, <1>11
    <3>2. lastOf'[c] \in InRoom(c)' /\ \A v \in InRoom(c)' : v <= lastOf'[c]
      BY <1>3, <1>9, <2>2, <2>3
    <3>3. QED
      BY <1>3, <2>2, <2>3, <2>5, <3>1, <3>2
  <2>7. ASSUME NEW v \in Messages, messagePc'[v] = "chained"
        PROVE  /\ \A w \in InRoom(roomOf[v])' : w < v => w <= follows'[v]
               /\ follows'[v] # 0 => follows'[v] < v /\ roomOf[follows'[v]] = roomOf[v]
    <3>1. CASE v = u
      <4>1. \A w \in InRoom(c)' : w < u => w \in InRoom(c)
        BY <1>3, <2>3
      <4>2. lastOf[c] # 0 => lastOf[c] < u /\ roomOf[lastOf[c]] = c
        BY <1>9, <2>5 DEF InRoom
      <4>3. \A w \in InRoom(c) : w <= lastOf[c]
        BY <2>5
      <4>4. QED
        BY <1>1, <1>11, <2>2, <3>1, <4>1, <4>2, <4>3
    <3>2. CASE v # u
      <4>1. messagePc[v] = "chained" /\ follows'[v] = follows[v] /\ v < u /\ v \in Nat
        BY <1>5, <2>1, <2>7, <3>2
      <4>2. roomOf[v] \in Rooms
        BY <4>1, RoomsOfTheUnfinished DEF Unfinished
      <4>3. \A w \in InRoom(roomOf[v])' : w < v => w \in InRoom(roomOf[v])
        BY <1>1, <1>3, <2>3, <4>1, <4>2
      <4>4. QED
        BY <1>1, <2>5, <4>1, <4>3
    <3>3. QED
      BY <3>1, <3>2
  <2>8. ChainsFit'
    BY <1>1, <2>6, <2>7 DEF ChainsFit
  <2>9. EndsInOrder'
    <3>1. SUFFICES ASSUME NEW d \in Rooms, NEW v \in Messages, roomOf[v] = d, messagePc'[v] = "over",
                          NEW w \in InRoom(d)'
                   PROVE  v < w
      BY <1>1 DEF EndsInOrder
    <3>2. v # u /\ messagePc[v] = "over" /\ v < u
      BY <1>5, <2>1, <2>2, <3>1
    <3>3. w = u \/ w \in InRoom(d)
      BY <2>3, <3>1
    <3>4. QED
      BY <3>1, <3>2, <3>3 DEF EndsInOrder, BotsInv, ChainsInv
  <2>10. OneAtATime'
    <3>1. SUFFICES ASSUME NEW d \in Rooms, NEW v \in InRoom(d)', messagePc'[v] \in Handling,
                          NEW w \in InRoom(d)'
                   PROVE  v <= w
      BY DEF OneAtATime
    <3>2. v # u /\ v \in InRoom(d) /\ v \in Messages
      BY <2>2, <2>3, <3>1 DEF InRoom, Handling, Slotted
    <3>3. w = u \/ w \in InRoom(d)
      BY <2>3, <3>1
    <3>4. v < u /\ v \in Nat
      BY <1>9, <3>2
    <3>5. messagePc[v] \in Handling
      BY <2>1, <3>1, <3>2
    <3>6. QED
      BY <1>3, <3>2, <3>3, <3>4, <3>5 DEF OneAtATime, BotsInv, ChainsInv
  <2>11. \A d \in Rooms : pendingCounts'[d] = Cardinality(InRoom(d)')
    <3>1. \A d \in Rooms : pendingCounts[d] = Cardinality(InRoom(d))
      BY DEF BotsInv, ChainsInv
    <3>2. InRoom(c) \in SUBSET Messages
      BY DEF InRoom
    <3>3. Cardinality(InRoom(c) \cup {u}) = Cardinality(InRoom(c)) + 1
      BY <2>3, <3>2, MessagesAreFinite, SetCounts
    <3>4. QED
      BY <1>2, <1>11, <2>3, <3>1, <3>3
  <2>12. ChainsInv'
    BY <1>6, <2>4, <2>8, <2>9, <2>10, <2>11 DEF ChainsInv
  <2>13. u \in 0..MaxMessages /\ pendingCounts[c] + 1 \in 0..SessionPendingLimit
    BY <1>2, <1>3, <1>11
  <2>14. QED
    BY <1>2, <1>11, <2>12, <2>13
<1>12. CASE roomOf[u] = NoRoom
  <2>1. messagePc' = [messagePc EXCEPT ![u] = "over"] /\ UNCHANGED chainVars
    BY <1>12 DEF TakesUpdate
  <2>2. ChainsInv'
    BY <1>2, <1>10, <1>12, <2>1
  <2>3. QED
    BY <1>2, <1>3, <1>4, <1>6, <2>1, <2>2 DEF chainVars
<1>13. CASE roomOf[u] # NoRoom
  <2> DEFINE c == roomOf[u]
  <2>1. c \in Rooms /\ Enqueue(c, u)
    BY <1>2, <1>13 DEF TakesUpdate
  <2>2. CASE pendingCounts[c] >= SessionPendingLimit
    <3>1. messagePc' = [messagePc EXCEPT ![u] = "refused"] /\ UNCHANGED chainVars
      BY <2>1, <2>2 DEF Enqueue
    <3>2. ChainsInv'
      BY <1>10, <3>1
    <3>3. QED
      BY <1>2, <1>3, <1>4, <1>6, <3>1, <3>2 DEF chainVars
  <2>3. CASE ~(pendingCounts[c] >= SessionPendingLimit)
    <3>1. /\ messagePc' = [messagePc EXCEPT ![u] = "chained"]
          /\ pendingCounts' = [pendingCounts EXCEPT ![c] = @ + 1]
          /\ follows' = [follows EXCEPT ![u] = lastOf[c]]
          /\ lastOf' = [lastOf EXCEPT ![c] = u]
      BY <2>1, <2>3 DEF Enqueue
    <3>2. pendingCounts[c] < SessionPendingLimit
      BY <1>2, <2>1, <2>3
    <3>3. QED
      BY <1>3, <1>4, <1>6, <1>11, <2>1, <3>1, <3>2
  <2>4. QED
    BY <2>2, <2>3
<1>14. QED
  BY <1>12, <1>13

\* Where the jobs of a queue are when it is pumped.
LEMMA QueueParts ==
    ASSUME NEW q \in Seq(Messages), NEW k \in 0..1, k <= Len(q)
    PROVE  /\ SubSeq(q, 1, k) \in Seq(Messages) /\ Len(SubSeq(q, 1, k)) = k
           /\ SubSeq(q, k + 1, Len(q)) \in Seq(Messages)
           /\ Len(SubSeq(q, k + 1, Len(q))) = Len(q) - k
           /\ DOMAIN SubSeq(q, k + 1, Len(q)) = 1..(Len(q) - k)
           /\ \A i \in 1..(Len(q) - k) : SubSeq(q, k + 1, Len(q))[i] = q[i + k] /\ i + k \in DOMAIN q
           /\ k = 1 => SubSeq(q, 1, k)[1] = q[1] /\ 1 \in DOMAIN q
           /\ SubSeq(q, k + 1, Len(q)) = <<>> <=> Len(q) = k
<1>1. Len(q) \in Nat /\ DOMAIN q = 1..Len(q) /\ \A i \in 1..Len(q) : q[i] \in Messages
  OBVIOUS
<1>2. CASE k = 0
  BY <1>1, <1>2
<1>3. CASE k = 1
  <2> DEFINE rest == SubSeq(q, 2, Len(q))
  <2>1. SubSeq(q, 1, 1) \in Seq(Messages) /\ Len(SubSeq(q, 1, 1)) = 1 /\ SubSeq(q, 1, 1)[1] = q[1]
    BY <1>1, <1>3
  <2>2. rest \in Seq(Messages) /\ Len(rest) = Len(q) - 1
    BY <1>1, <1>3
  <2>3. DOMAIN rest = 1..(Len(q) - 1)
    BY <1>1, <1>3
  <2>4. \A i \in 1..(Len(q) - 1) : rest[i] = q[i + 1] /\ i + 1 \in DOMAIN q
    BY <1>1, <1>3
  <2>5. \A s \in Seq(Messages) : s = <<>> <=> Len(s) = 0
    OBVIOUS
  <2>6. k + 1 = 2 /\ 1 \in DOMAIN q
    BY <1>1, <1>3
  <2> HIDE DEF rest
  <2>7. rest = SubSeq(q, k + 1, Len(q))
    BY <2>6 DEF rest
  <2>8. rest = <<>> <=> Len(q) = 1
    <3>1. rest = <<>> <=> Len(rest) = 0
      BY <2>2, <2>5
    <3>2. QED
      BY <1>1, <2>2, <3>1
  <2>9. QED
    BY <1>3, <2>1, <2>2, <2>3, <2>4, <2>6, <2>7, <2>8
<1>4. k = 0 \/ k = 1
  OBVIOUS
<1>5. QED
  BY <1>2, <1>3, <1>4

\* The limiter starts a job when one waits and a slot is free, and then the slots are taken
\* or no other job waits.
LEMMA PumpDoes ==
    ASSUME NEW n \in 0..Concurrency, NEW q \in Seq(Messages),
           NEW pcs \in [Messages -> Unfinished \cup {"out", "refused", "over"}],
           \A i \in DOMAIN q : pcs[q[i]] = "queued" /\ \A j \in DOMAIN q : q[j] = q[i] => j = i,
           n = Cardinality({u \in Messages : pcs[u] \in Slotted}),
           Len(q) <= 1 \/ n >= Concurrency - 1,
           Pump(n, q, pcs)
    PROVE  /\ LimiterInv' /\ jobsInflight' \in 0..Concurrency
           /\ limiterQueue' \in Seq(Messages) /\ Len(limiterQueue') <= Len(q)
           /\ messagePc' \in [Messages -> Unfinished \cup {"out", "refused", "over"}]
           /\ \A u \in Messages : \/ messagePc'[u] = pcs[u]
                                  \/ pcs[u] = "queued" /\ messagePc'[u] = "starting"
<1> DEFINE k == IF Len(q) < Concurrency - n THEN Len(q) ELSE Concurrency - n
           Busy == {u \in Messages : pcs[u] \in Slotted}
           jobs == SubSeq(q, 1, k)
<1>1. Concurrency \in Nat /\ Concurrency > 0 /\ n \in Nat /\ n <= Concurrency /\ Len(q) \in Nat
  BY BotSessionsAssumption
<1>2. k \in 0..1 /\ k <= Len(q) /\ n + k \in 0..Concurrency /\ (Len(q) = k \/ n + k = Concurrency)
  <2>1. CASE Len(q) < Concurrency - n
    <3>1. k = Len(q) /\ Len(q) <= 1
      BY <1>1, <2>1
    <3> HIDE DEF k
    <3>2. QED
      BY <1>1, <2>1, <3>1
  <2>2. CASE ~(Len(q) < Concurrency - n)
    <3>1. k = Concurrency - n /\ Concurrency - n <= 1 /\ Concurrency - n <= Len(q)
      BY <1>1, <2>2
    <3> HIDE DEF k
    <3>2. QED
      BY <1>1, <3>1
  <2>3. QED
    BY <2>1, <2>2
<1>3. /\ jobsInflight' = n + Len(jobs) /\ limiterQueue' = SubSeq(q, Len(jobs) + 1, Len(q))
      /\ messagePc' = [u \in Messages |-> IF Contains(jobs, u) THEN "starting" ELSE pcs[u]]
  BY DEF Pump, Started
<1> HIDE DEF k
<1>4. /\ jobs \in Seq(Messages) /\ Len(jobs) = k /\ limiterQueue' = SubSeq(q, k + 1, Len(q))
      /\ limiterQueue' \in Seq(Messages) /\ Len(limiterQueue') = Len(q) - k
      /\ DOMAIN limiterQueue' = 1..(Len(q) - k)
      /\ \A i \in 1..(Len(q) - k) : limiterQueue'[i] = q[i + k] /\ i + k \in DOMAIN q
      /\ k = 1 => jobs[1] = q[1] /\ 1 \in DOMAIN q
      /\ limiterQueue' = <<>> <=> Len(q) = k
  <2>1. jobs \in Seq(Messages) /\ Len(jobs) = k /\ (k = 1 => jobs[1] = q[1] /\ 1 \in DOMAIN q)
    BY <1>2, QueueParts
  <2>2. limiterQueue' = SubSeq(q, k + 1, Len(q))
    BY <1>3, <2>1
  <2>3. QED
    BY <1>2, <2>1, <2>2, QueueParts
<1>typed. k \in Nat /\ \A i \in DOMAIN q : q[i] \in Messages
  BY <1>2
<1>5. \A u : Contains(jobs, u) <=> k = 1 /\ u = q[1]
  BY <1>2, <1>4 DEF Contains
<1> HIDE DEF jobs
<1>6. k = 1 => q[1] \in Messages /\ pcs[q[1]] = "queued"
  BY <1>4
<1>7. /\ \A u \in Messages : \/ messagePc'[u] = pcs[u]
                             \/ pcs[u] = "queued" /\ messagePc'[u] = "starting"
      /\ messagePc' \in [Messages -> Unfinished \cup {"out", "refused", "over"}]
  BY <1>3, <1>5, <1>6 DEF Unfinished, Handling, Slotted
<1>8. QueueIsOfWaiters'
  <2>1. SUFFICES ASSUME NEW i \in DOMAIN limiterQueue'
                 PROVE  /\ messagePc'[limiterQueue'[i]] = "queued"
                        /\ \A j \in DOMAIN limiterQueue' : limiterQueue'[j] = limiterQueue'[i] => j = i
    BY DEF QueueIsOfWaiters
  <2>2. i \in Nat /\ i > 0 /\ limiterQueue'[i] = q[i + k] /\ i + k \in DOMAIN q /\ k \in Nat
        /\ q[i + k] \in Messages
    <3>1. i \in 1..(Len(q) - k)
      BY <1>4
    <3>2. QED
      BY <1>1, <1>4, <1>typed, <3>1
  <2>3. pcs[q[i + k]] = "queued" /\ \A j \in DOMAIN q : q[j] = q[i + k] => j = i + k
    BY <2>2
  <2>4. ~Contains(jobs, q[i + k])
    <3>1. SUFFICES ASSUME k = 1, q[i + k] = q[1] PROVE FALSE
      BY <1>5
    <3>2. 1 = i + k
      BY <1>4, <2>3, <3>1
    <3>3. QED
      BY <2>2, <3>1, <3>2
  <2>5. \A j \in DOMAIN limiterQueue' : j \in Nat /\ limiterQueue'[j] = q[j + k] /\ j + k \in DOMAIN q
    <3>1. SUFFICES ASSUME NEW j \in DOMAIN limiterQueue'
                   PROVE  j \in Nat /\ limiterQueue'[j] = q[j + k] /\ j + k \in DOMAIN q
      OBVIOUS
    <3>2. j \in 1..(Len(q) - k)
      BY <1>4
    <3>3. QED
      BY <1>1, <1>4, <1>typed, <3>2
  <2>6. \A j \in DOMAIN limiterQueue' : limiterQueue'[j] = limiterQueue'[i] => j = i
    <3>1. SUFFICES ASSUME NEW j \in DOMAIN limiterQueue', limiterQueue'[j] = limiterQueue'[i]
                   PROVE  j = i
      OBVIOUS
    <3>2. j + k = i + k
      BY <2>2, <2>3, <2>5, <3>1
    <3>3. QED
      BY <2>2, <2>5, <3>1, <3>2
  <2>7. QED
    BY <1>3, <2>2, <2>3, <2>4, <2>6
<1>9. jobsInflight' = Cardinality({u \in Messages : messagePc'[u] \in Slotted})
  <2>1. IsFiniteSet(Busy) /\ Cardinality(Busy) = n
    BY MessagesAreFinite
  <2>2. CASE k = 0
    <3>1. {u \in Messages : messagePc'[u] \in Slotted} = Busy
      BY <1>3, <1>5, <2>2
    <3>2. jobsInflight' = n
      BY <1>1, <1>3, <1>4, <2>2
    <3> HIDE DEF Busy
    <3>3. QED
      BY <2>1, <3>1, <3>2
  <2>3. CASE k = 1
    <3>1. q[1] \in Messages /\ q[1] \notin Busy
      BY <1>6, <2>3 DEF Slotted
    <3>2. {u \in Messages : messagePc'[u] \in Slotted} = Busy \cup {q[1]}
      BY <1>3, <1>5, <2>3, <3>1 DEF Slotted
    <3> HIDE DEF Busy
    <3>3. Cardinality(Busy \cup {q[1]}) = n + 1
      BY <2>1, <3>1, SetCounts
    <3>4. QED
      BY <1>3, <1>4, <2>3, <3>2, <3>3
  <2>4. QED
    BY <1>2, <2>2, <2>3
<1>10. /\ jobsInflight' \in 0..Concurrency /\ Len(limiterQueue') <= Len(q)
       /\ limiterQueue' # <<>> => jobsInflight' = Concurrency
  BY <1>1, <1>2, <1>3, <1>4
<1>11. QED
  BY <1>4, <1>7, <1>8, <1>9, <1>10 DEF LimiterInv

\* Nobody comes to a slot or leaves one, and nobody leaves the queue.
LEMMA LimiterRests ==
    ASSUME BotsInv, UNCHANGED limiterVars,
           \A v \in Messages : /\ messagePc'[v] \in Slotted <=> messagePc[v] \in Slotted
                               /\ messagePc[v] = "queued" => messagePc'[v] = "queued"
    PROVE  LimiterInv'
<1>1. limiterQueue' = limiterQueue /\ jobsInflight' = jobsInflight
      /\ \A i \in DOMAIN limiterQueue : limiterQueue[i] \in Messages
  BY DEF limiterVars, BotsInv, BotTypeOK
<1>2. {u \in Messages : messagePc'[u] \in Slotted} = {u \in Messages : messagePc[u] \in Slotted}
  OBVIOUS
<1>3. QED
  BY <1>1, <1>2 DEF BotsInv, LimiterInv, QueueIsOfWaiters

\* The maps are left alone, and nobody comes to make a session.
LEMMA EntriesRest ==
    ASSUME BotsInv, UNCHANGED <<roomOf, store, storedOnDisk, sessionToChat, sessionsMade>>,
           \A v \in Messages : messagePc'[v] = "creating" => messagePc[v] = "creating"
    PROVE  EntriesInv'
<1>1. MadeForNone'
  BY DEF BotsInv, EntriesInv, MadeForNone, StoredSession
<1>2. EntriesFit(store)' /\ EntriesFit(storedOnDisk)' /\ MapsAgree'
  BY DEF BotsInv, EntriesInv, EntriesFit, MapsAgree, ToolUpdateGoesTo
<1>3. QED
  BY <1>1, <1>2 DEF EntriesInv

\* A chat that has no session is to get one; one that has goes on with it.
LEMMA EnsuresSessionEntries ==
    ASSUME BotsInv, NEW u \in Messages, EnsuresSession(u)
    PROVE  /\ EntriesInv' /\ sessionToChat' = sessionToChat
           /\ sessionOf' \in [Messages -> 0..MaxMessages]
           /\ messagePc[u] = "starting"
           /\ \E l \in {"creating", "prompting"} : messagePc' = [messagePc EXCEPT ![u] = l]
<1> DEFINE c == roomOf[u]
<1>1. /\ messagePc[u] = "starting" /\ roomOf' = roomOf
      /\ UNCHANGED <<store, storedOnDisk, sessionsMade>>
  BY DEF EnsuresSession, pollVars
<1>2. messagePc \in [Messages -> Unfinished \cup {"out", "refused", "over"}]
      /\ sessionToChat \in [Sessions -> Rooms \cup {NoRoom}]
      /\ sessionOf \in [Messages -> 0..MaxMessages]
  BY DEF BotsInv, BotTypeOK
<1>3. c \in Rooms
  BY <1>1, RoomsOfTheUnfinished DEF Unfinished, Handling, Slotted
<1>4. EntriesFit(store)' /\ EntriesFit(storedOnDisk)'
  BY <1>1 DEF BotsInv, EntriesInv, EntriesFit
<1>5. CASE StoredSession(c) = {}
  <2>1. messagePc' = [messagePc EXCEPT ![u] = "creating"] /\ UNCHANGED <<sessionOf, sessionToChat>>
    BY <1>5 DEF EnsuresSession
  <2>2. MadeForNone'
    <3>1. SUFFICES ASSUME NEW v \in Messages, messagePc'[v] = "creating"
                   PROVE  StoredSession(roomOf[v])' = {}
      BY <1>1 DEF MadeForNone
    <3>2. StoredSession(roomOf[v])' = StoredSession(roomOf[v])
      BY <1>1 DEF StoredSession
    <3>3. QED
      BY <1>2, <1>5, <2>1, <3>1, <3>2 DEF BotsInv, EntriesInv, MadeForNone
  <2>3. MapsAgree'
    BY <1>1, <2>1 DEF BotsInv, EntriesInv, MapsAgree, ToolUpdateGoesTo
  <2>4. QED
    BY <1>1, <1>2, <1>4, <2>1, <2>2, <2>3 DEF EntriesInv
<1>6. CASE StoredSession(c) # {}
  <2>1. PICK s \in StoredSession(c) :
          /\ messagePc' = [messagePc EXCEPT ![u] = "prompting"]
          /\ sessionOf' = [sessionOf EXCEPT ![u] = s]
          /\ sessionToChat' = [sessionToChat EXCEPT ![s] = c]
    BY <1>6 DEF EnsuresSession
  <2>2. s \in Sessions /\ Contains(store, <<c, s>>)
    BY DEF StoredSession
  <2>3. sessionToChat[s] = c
    BY <1>3, <2>2 DEF BotsInv, EntriesInv, MapsAgree, ToolUpdateGoesTo
  <2>4. sessionToChat' = sessionToChat
    BY <1>2, <2>1, <2>2, <2>3
  <2>5. MadeForNone'
    <3>1. \A v \in Messages : messagePc'[v] = "creating" => messagePc[v] = "creating"
      BY <1>2, <2>1
    <3>2. QED
      BY <1>1, <3>1 DEF BotsInv, EntriesInv, MadeForNone, StoredSession
  <2>6. MapsAgree'
    BY <1>1, <2>4 DEF BotsInv, EntriesInv, MapsAgree, ToolUpdateGoesTo
  <2>7. sessionOf' \in [Messages -> 0..MaxMessages]
    BY <1>2, <2>1, <2>2, BotSessionsAssumption DEF Sessions
  <2>8. QED
    BY <1>1, <1>4, <2>1, <2>4, <2>5, <2>6, <2>7 DEF EntriesInv
<1>7. QED
  BY <1>5, <1>6

\* What a store has after one more entry.
LEMMA EntryAdded ==
    ASSUME NEW entries \in Seq(Rooms \X Sessions), NEW e \in Rooms \X Sessions
    PROVE  /\ Append(entries, e) \in Seq(Rooms \X Sessions)
           /\ Len(Append(entries, e)) = Len(entries) + 1
           /\ \A i \in 1..Len(entries) : Append(entries, e)[i] = entries[i]
           /\ Append(entries, e)[Len(entries) + 1] = e
OBVIOUS

\* What is left of a store without its first entries.
LEMMA EntriesDropped ==
    ASSUME NEW entries \in Seq(Rooms \X Sessions), NEW k \in Nat, k <= Len(entries)
    PROVE  /\ SubSeq(entries, k + 1, Len(entries)) \in Seq(Rooms \X Sessions)
           /\ Len(SubSeq(entries, k + 1, Len(entries))) = Len(entries) - k
           /\ \A i \in 1..(Len(entries) - k) :
                 SubSeq(entries, k + 1, Len(entries))[i] = entries[i + k]
OBVIOUS

\* A session is stored for its chat, and what falls out of the store is forgotten.
LEMMA SessionCreatedEntries ==
    ASSUME BotsInv, NEW u \in Messages, SessionCreated(u)
    PROVE  /\ EntriesInv' /\ sessionToChat' \in [Sessions -> Rooms \cup {NoRoom}]
           /\ sessionOf' \in [Messages -> 0..MaxMessages] /\ sessionsMade' \in 0..MaxMessages
           /\ messagePc[u] = "creating" /\ messagePc' = [messagePc EXCEPT ![u] = "sharing"]
<1> DEFINE c == roomOf[u]
           made == sessionsMade + 1
           all == Append(store, <<c, made>>)
           size == Len(store)
           n == Overflow(all)
<1>1. /\ messagePc[u] = "creating" /\ messagePc' = [messagePc EXCEPT ![u] = "sharing"]
      /\ sessionsMade < MaxMessages /\ sessionsMade' = made
      /\ SetStoredSession(c, made)
      /\ sessionOf' = [sessionOf EXCEPT ![u] = made]
      /\ UNCHANGED <<storedOnDisk, roomOf>>
  BY DEF SessionCreated, pollVars
<1>2. /\ messagePc \in [Messages -> Unfinished \cup {"out", "refused", "over"}]
      /\ sessionToChat \in [Sessions -> Rooms \cup {NoRoom}]
      /\ sessionOf \in [Messages -> 0..MaxMessages] /\ sessionsMade \in 0..MaxMessages
      /\ StoreLimit \in Nat /\ StoreLimit > 0 /\ MaxMessages \in Nat /\ NoRoom \notin Rooms
  BY BotSessionsAssumption DEF BotsInv, BotTypeOK
<1>3. c \in Rooms
  BY <1>1, RoomsOfTheUnfinished DEF Unfinished, Handling, Slotted
<1>4. /\ made \in Sessions /\ made \in Nat /\ made = sessionsMade + 1 /\ sessionsMade \in Nat
      /\ <<c, made>> \in Rooms \X Sessions /\ sessionsMade' = made
      /\ sessionsMade' \in 0..MaxMessages /\ sessionOf' \in [Messages -> 0..MaxMessages]
  BY <1>1, <1>2, <1>3 DEF Sessions
<1>5. /\ store \in Seq(Rooms \X Sessions) /\ size \in Nat /\ size <= StoreLimit
      /\ DOMAIN store = 1..size
      /\ \A i \in 1..size : /\ store[i] \in Rooms \X Sessions /\ store[i][2] <= sessionsMade
                            /\ store[i] = <<store[i][1], store[i][2]>>
                            /\ store[i][1] \in Rooms /\ store[i][2] \in Sessions
      /\ \A i, j \in 1..size :
            store[j][1] = store[i][1] \/ store[j][2] = store[i][2] => j = i
  BY DEF BotsInv, EntriesInv, EntriesFit
<1>6. \A i \in 1..size : store[i][1] # c
  <2>1. StoredSession(c) = {}
    BY <1>1 DEF BotsInv, EntriesInv, MadeForNone
  <2>2. SUFFICES ASSUME NEW i \in 1..size, store[i][1] = c PROVE FALSE
    OBVIOUS
  <2>3. store[i] = <<c, store[i][2]>> /\ store[i][2] \in Sessions
    BY <1>5, <2>2
  <2>4. QED
    BY <2>1, <2>2, <2>3 DEF StoredSession, Contains
<1>7. Put(store, c, made) = all
  BY <1>5, <1>6 DEF Put
<1> HIDE DEF made
<1>8. /\ all \in Seq(Rooms \X Sessions) /\ Len(all) = size + 1
      /\ \A i \in 1..size : all[i] = store[i]
      /\ all[size + 1] = <<c, made>>
  BY <1>4, <1>5, EntryAdded
<1> HIDE DEF all
<1>9. n \in Nat /\ n <= size /\ size + 1 - n <= StoreLimit
  BY <1>2, <1>5, <1>8 DEF Overflow
<1> HIDE DEF n
<1>10. /\ store' = SubSeq(all, n + 1, size + 1)
       /\ sessionToChat' = Forget([Forget(sessionToChat, {}) EXCEPT ![made] = c],
                                  {all[i] : i \in 1..n})
  <2>1. {e \in ToSet(store) : e[1] = c /\ e[2] # made} = {}
    BY <1>5, <1>6 DEF ToSet
  <2>2. QED
    BY <1>1, <1>7, <1>8, <2>1 DEF SetStoredSession, n
<1>11. /\ store' \in Seq(Rooms \X Sessions) /\ Len(store') = size + 1 - n
       /\ \A i \in 1..(size + 1 - n) : store'[i] = all[i + n]
  <2>1. n <= Len(all) /\ Len(all) - n = size + 1 - n
    BY <1>5, <1>8, <1>9
  <2>2. /\ SubSeq(all, n + 1, Len(all)) \in Seq(Rooms \X Sessions)
        /\ Len(SubSeq(all, n + 1, Len(all))) = Len(all) - n
        /\ \A i \in 1..(Len(all) - n) : SubSeq(all, n + 1, Len(all))[i] = all[i + n]
    BY <1>8, <1>9, <2>1, EntriesDropped
  <2>3. store' = SubSeq(all, n + 1, Len(all))
    BY <1>8, <1>10
  <2>4. QED
    BY <2>1, <2>2, <2>3
<1>12. /\ \A i \in 1..(size + 1) : all[i][2] <= made /\ all[i] \in Rooms \X Sessions
       /\ \A i, j \in 1..(size + 1) :
            all[j][1] = all[i][1] \/ all[j][2] = all[i][2] => j = i
  <2>1. \A i \in 1..(size + 1) : i \in 1..size \/ i = size + 1
    BY <1>5
  <2>2. \A i \in 1..size : all[i] = store[i] /\ store[i][2] <= sessionsMade /\ store[i][2] \in Nat
                           /\ store[i][1] # c
    BY <1>5, <1>6, <1>8 DEF Sessions
  <2>3. all[size + 1][1] = c /\ all[size + 1][2] = made
    BY <1>8
  <2>4. \A i \in 1..size : all[i][1] # c /\ all[i][2] # made
    BY <1>4, <2>2
  <2>5. \A i \in 1..(size + 1) : all[i][2] <= made /\ all[i] \in Rooms \X Sessions
    BY <1>4, <1>5, <1>8, <2>1, <2>2, <2>3
  <2>6. \A i, j \in 1..(size + 1) :
            all[j][1] = all[i][1] \/ all[j][2] = all[i][2] => j = i
    BY <1>5, <2>1, <2>2, <2>3, <2>4
  <2>7. QED
    BY <2>5, <2>6
<1>13. EntriesFit(store)'
  <2>1. \A i \in DOMAIN store' : i \in Nat /\ i + n \in 1..(size + 1) /\ store'[i] = all[i + n]
    BY <1>5, <1>9, <1>11
  <2>2. \A i \in DOMAIN store' : store'[i][2] <= sessionsMade'
    BY <1>4, <1>12, <2>1
  <2>3. \A i, j \in DOMAIN store' :
            store'[j][1] = store'[i][1] \/ store'[j][2] = store'[i][2] => j + n = i + n
    BY <1>12, <2>1
  <2>4. \A i, j \in DOMAIN store' : j + n = i + n => j = i
    BY <1>9, <2>1
  <2>5. QED
    BY <1>9, <1>11, <2>2, <2>3, <2>4 DEF EntriesFit
<1>14. EntriesFit(storedOnDisk)'
  <2>1. \A i \in DOMAIN storedOnDisk : storedOnDisk[i] \in Rooms \X Sessions /\ storedOnDisk[i][2] <= sessionsMade
    BY DEF BotsInv, EntriesInv, EntriesFit
  <2>2. \A i \in DOMAIN storedOnDisk : storedOnDisk[i][2] <= sessionsMade'
    BY <1>4, <2>1 DEF Sessions
  <2>3. QED
    BY <1>1, <2>2 DEF BotsInv, EntriesInv, EntriesFit
<1>15. \A s \in Sessions :
          sessionToChat'[s] = IF \E i \in 1..n : all[i][2] = s THEN NoRoom
                              ELSE IF s = made THEN c ELSE sessionToChat[s]
  <2>1. Forget(sessionToChat, {}) = sessionToChat
    BY <1>2 DEF Forget
  <2>2. [sessionToChat EXCEPT ![made] = c] \in [Sessions -> Rooms \cup {NoRoom}]
    BY <1>2, <1>3, <1>4
  <2>3. \A s \in Sessions : [sessionToChat EXCEPT ![made] = c][s] = IF s = made THEN c ELSE sessionToChat[s]
    BY <1>2, <1>4
  <2>4. QED
    BY <1>10, <2>1, <2>2, <2>3 DEF Forget
<1>16. sessionToChat' \in [Sessions -> Rooms \cup {NoRoom}]
  <2>1. \A s \in Sessions : sessionToChat'[s] \in Rooms \cup {NoRoom}
    BY <1>2, <1>3, <1>15
  <2>2. sessionToChat' = [s \in Sessions |-> sessionToChat'[s]]
    BY <1>10 DEF Forget
  <2>3. QED
    BY <2>1, <2>2
<1>17. ASSUME NEW s \in Sessions, NEW d \in Rooms
       PROVE  sessionToChat'[s] = d <=> Contains(store', <<d, s>>)
  <2>1. Contains(store', <<d, s>>) <=> \E j \in (n + 1)..(size + 1) : all[j] = <<d, s>>
    <3>1. ASSUME NEW i \in 1..Len(store'), store'[i] = <<d, s>>
          PROVE  \E j \in (n + 1)..(size + 1) : all[j] = <<d, s>>
      <4>1. i + n \in (n + 1)..(size + 1) /\ all[i + n] = <<d, s>>
        BY <1>5, <1>9, <1>11, <3>1
      <4>2. QED
        BY <4>1
    <3>2. ASSUME NEW j \in (n + 1)..(size + 1), all[j] = <<d, s>>
          PROVE  \E i \in 1..Len(store') : store'[i] = <<d, s>>
      <4>1. j - n \in 1..(size + 1 - n) /\ (j - n) + n = j
        BY <1>5, <1>9
      <4>2. store'[j - n] = all[j]
        BY <1>11, <4>1
      <4>3. QED
        BY <1>11, <3>2, <4>1, <4>2
    <3>3. QED
      BY <3>1, <3>2 DEF Contains
  <2>2. sessionToChat[s] = d <=> \E j \in 1..size : store[j] = <<d, s>>
    BY DEF BotsInv, EntriesInv, MapsAgree, ToolUpdateGoesTo, Contains
  <2>3. \A j \in 1..size : store[j][2] # made
    BY <1>4, <1>5 DEF Sessions
  <2>4. CASE s = made
    <3>1. ~\E i \in 1..n : all[i][2] = s
      <4>1. \A i \in 1..n : i \in 1..size
        BY <1>5, <1>9
      <4>2. \A i \in 1..n : all[i][2] = store[i][2] /\ store[i][2] # made
        BY <1>8, <2>3, <4>1
      <4>3. QED
        BY <2>4, <4>2
    <3>2. sessionToChat'[s] = c
      BY <1>15, <2>4, <3>1
    <3>3. size + 1 \in (n + 1)..(size + 1)
      BY <1>5, <1>9
    <3>4. \A j \in (n + 1)..(size + 1) : all[j] = <<d, s>> => j = size + 1
      <4>1. SUFFICES ASSUME NEW j \in (n + 1)..(size + 1), all[j] = <<d, s>>, j # size + 1
                     PROVE  FALSE
        OBVIOUS
      <4>2. j \in 1..size
        BY <1>5, <1>9, <4>1
      <4>3. store[j][2] = s
        BY <1>8, <4>1, <4>2
      <4>4. QED
        BY <2>3, <2>4, <4>2, <4>3
    <3>5. (\E j \in (n + 1)..(size + 1) : all[j] = <<d, s>>) <=> all[size + 1] = <<d, s>>
      BY <3>3, <3>4
    <3>6. all[size + 1] = <<d, s>> <=> d = c
      BY <1>8, <2>4
    <3>7. QED
      BY <2>1, <3>2, <3>5, <3>6
  <2>5. CASE s # made /\ \E i \in 1..n : all[i][2] = s
    <3>1. PICK i \in 1..n : all[i][2] = s
      BY <2>5
    <3>2. sessionToChat'[s] = NoRoom
      BY <1>15, <2>5
    <3>3. ASSUME NEW j \in (n + 1)..(size + 1), all[j] = <<d, s>> PROVE FALSE
      <4>1. i \in 1..(size + 1) /\ j \in 1..(size + 1) /\ i # j
        BY <1>5, <1>9
      <4>2. all[j][2] = all[i][2]
        BY <3>1, <3>3
      <4>3. QED
        BY <1>12, <4>1, <4>2
    <3>4. QED
      BY <1>2, <2>1, <3>2, <3>3
  <2>6. CASE s # made /\ ~\E i \in 1..n : all[i][2] = s
    <3>1. sessionToChat'[s] = sessionToChat[s]
      BY <1>15, <2>6
    <3>2. ASSUME NEW j \in 1..size, store[j] = <<d, s>>
          PROVE  \E i \in (n + 1)..(size + 1) : all[i] = <<d, s>>
      <4>1. all[j] = <<d, s>> /\ all[j][2] = s
        BY <1>8, <3>2
      <4>2. j \notin 1..n
        BY <2>6, <4>1
      <4>3. j \in (n + 1)..(size + 1)
        BY <1>5, <1>9, <4>2
      <4>4. QED
        BY <4>1, <4>3
    <3>3. ASSUME NEW j \in (n + 1)..(size + 1), all[j] = <<d, s>>
          PROVE  \E i \in 1..size : store[i] = <<d, s>>
      <4>1. j # size + 1
        BY <1>8, <2>6, <3>3
      <4>2. j \in 1..size
        BY <1>5, <1>9, <4>1
      <4>3. QED
        BY <1>8, <3>3, <4>2
    <3>4. QED
      BY <2>1, <2>2, <3>1, <3>2, <3>3
  <2>7. QED
    BY <2>4, <2>5, <2>6
<1>18. MapsAgree'
  BY <1>17 DEF MapsAgree, ToolUpdateGoesTo
<1>19. MadeForNone'
  <2>1. SUFFICES ASSUME NEW v \in Messages, messagePc'[v] = "creating",
                        NEW s \in Sessions, Contains(store', <<roomOf[v], s>>)
                 PROVE  FALSE
    BY <1>1 DEF MadeForNone, StoredSession
  <2>2. v # u /\ messagePc[v] = "creating"
    BY <1>1, <1>2, <2>1
  <2>3. roomOf[v] \in Rooms /\ v \in InRoom(roomOf[v]) /\ u \in InRoom(c)
    BY <1>1, <2>2, RoomsOfTheUnfinished DEF Unfinished, Handling, Slotted
  <2>4. roomOf[v] # c
    <3>1. \A x \in InRoom(c) : u <= x
      BY <1>1, WhoRunsIsFirst DEF Handling, Slotted
    <3>2. \A x \in InRoom(roomOf[v]) : v <= x
      BY <2>2, WhoRunsIsFirst DEF Handling, Slotted
    <3>3. QED
      BY <2>2, <2>3, <3>1, <3>2 DEF Messages
  <2>5. PICK i \in 1..Len(store') : store'[i] = <<roomOf[v], s>>
    BY <2>1 DEF Contains
  <2>6. i + n \in 1..(size + 1) /\ all[i + n] = <<roomOf[v], s>>
    BY <1>5, <1>9, <1>11, <2>5
  <2>7. i + n # size + 1
    BY <1>8, <2>4, <2>6
  <2>8. i + n \in 1..size /\ store[i + n] = <<roomOf[v], s>>
    BY <1>5, <1>8, <2>6, <2>7
  <2>9. s \in StoredSession(roomOf[v])
    BY <2>1, <2>8 DEF StoredSession, Contains
  <2>10. QED
    BY <2>2, <2>9 DEF BotsInv, EntriesInv, MadeForNone
<1>20. QED
  BY <1>1, <1>4, <1>13, <1>14, <1>16, <1>18, <1>19 DEF EntriesInv

\* What a process starts with.
LEMMA LoadedEntries ==
    ASSUME NEW entries, NEW m \in 0..MaxMessages, entries \in Seq(Rooms \X Sessions),
           \A i, j \in DOMAIN entries : entries[j][2] = entries[i][2] => j = i
    PROVE  /\ SessionsOf(entries) \in [Sessions -> Rooms \cup {NoRoom}]
           /\ \A s \in Sessions, c \in Rooms :
                 SessionsOf(entries)[s] = c <=> Contains(entries, <<c, s>>)
<1>1. \A s \in Sessions : SessionsOf(entries)[s] =
          IF \E c \in Rooms : Contains(entries, <<c, s>>)
          THEN CHOOSE c \in Rooms : Contains(entries, <<c, s>>) ELSE NoRoom
  BY DEF SessionsOf
<1>2. NoRoom \notin Rooms
  BY BotSessionsAssumption
<1>3. ASSUME NEW s \in Sessions, NEW c \in Rooms, NEW d \in Rooms,
             Contains(entries, <<c, s>>), Contains(entries, <<d, s>>)
      PROVE  c = d
  <2>1. PICK i \in 1..Len(entries) : entries[i] = <<c, s>>
    BY <1>3 DEF Contains
  <2>2. PICK j \in 1..Len(entries) : entries[j] = <<d, s>>
    BY <1>3 DEF Contains
  <2>3. i \in DOMAIN entries /\ j \in DOMAIN entries /\ entries[i][2] = entries[j][2]
    BY <2>1, <2>2
  <2>4. QED
    BY <2>1, <2>2, <2>3
<1>4. ASSUME NEW s \in Sessions
      PROVE  /\ SessionsOf(entries)[s] \in Rooms \cup {NoRoom}
             /\ \A c \in Rooms : SessionsOf(entries)[s] = c <=> Contains(entries, <<c, s>>)
  <2>1. CASE \E c \in Rooms : Contains(entries, <<c, s>>)
    <3> DEFINE r == SessionsOf(entries)[s]
    <3>1. r \in Rooms /\ Contains(entries, <<r, s>>)
      BY <1>1, <2>1
    <3>2. QED
      BY <1>3, <3>1
  <2>2. CASE ~\E c \in Rooms : Contains(entries, <<c, s>>)
    BY <1>1, <1>2, <2>2
  <2>3. QED
    BY <2>1, <2>2
<1>5. SessionsOf(entries) = [s \in Sessions |-> SessionsOf(entries)[s]]
  BY DEF SessionsOf
<1>6. QED
  BY <1>4, <1>5

\* A process that has just started has no message, no job and what was stored.
JustStarted ==
    /\ Fresh(storedOnDisk) /\ EntriesFit(storedOnDisk)
    /\ roomOf \in [Messages -> Rooms \cup {NoRoom}] /\ arrived \in 0..MaxMessages
    /\ confirmed \in 0..MaxMessages + 1 /\ sessionsMade \in 0..MaxMessages
    /\ restarts \in 0..MaxRestarts

LEMMA FreshInv == JustStarted => BotsInv
<1> SUFFICES ASSUME JustStarted PROVE BotsInv
  OBVIOUS
<1> USE DEF JustStarted, Fresh
<1>1. /\ MaxMessages \in Nat /\ SessionPendingLimit \in Nat /\ Concurrency \in Nat /\ QueueLimit \in Nat
      /\ 0 \in 0..MaxMessages /\ 0 \in 0..MaxMessages + 1 /\ 0 \in 0..SessionPendingLimit
      /\ 0 \in 0..Concurrency
  BY BotSessionsAssumption
<1>2. SessionsOf(storedOnDisk) \in [Sessions -> Rooms \cup {NoRoom}] /\ MapsAgree
  BY <1>1, LoadedEntries DEF EntriesFit, MapsAgree, ToolUpdateGoesTo
<1>3. \A c \in Rooms : InRoom(c) = {}
  BY DEF InRoom, Unfinished, Handling, Slotted
<1>4. {u \in Messages : messagePc[u] \in Slotted} = {}
  BY DEF Slotted
<1>5. Cardinality({}) = 0
  BY FS_EmptySet
<1>6. limiterQueue \in Seq(Messages) /\ Len(limiterQueue) = 0 /\ DOMAIN limiterQueue = {}
  OBVIOUS
<1>7. BotTypeOK
  BY <1>1, <1>2, <1>6 DEF BotTypeOK
<1>8. UpdatesAreNew /\ EndsInOrder /\ TakenOnce
  BY DEF UpdatesAreNew, EndsInOrder, TakenOnce, Unfinished, Handling, Slotted
<1>9. ChainsFit /\ OneAtATime /\ \A c \in Rooms : pendingCounts[c] = Cardinality(InRoom(c))
  BY <1>3, <1>5 DEF ChainsFit, OneAtATime
<1>10. LimiterInv
  BY <1>4, <1>5, <1>6 DEF LimiterInv, QueueIsOfWaiters
<1>11. EntriesInv
  BY <1>2 DEF EntriesInv, MadeForNone
<1>12. QED
  BY <1>7, <1>8, <1>9, <1>10, <1>11 DEF BotsInv, ChainsInv

LEMMA BotsInitInv == BotSessionsInit => BotsInv
<1> SUFFICES ASSUME BotSessionsInit PROVE BotsInv
  OBVIOUS
<1>1. /\ MaxMessages \in Nat /\ MaxRestarts \in Nat /\ StoreLimit \in Nat
      /\ 0 \in 0..MaxMessages /\ 0 \in 0..MaxMessages + 1 /\ 0 \in 0..MaxRestarts
  BY BotSessionsAssumption
<1>2. storedOnDisk = <<>>
  BY DEF BotSessionsInit
<1>3. EntriesFit(storedOnDisk)
  BY <1>1, <1>2 DEF EntriesFit
<1>4. QED
  BY <1>1, <1>2, <1>3, FreshInv DEF BotSessionsInit, JustStarted

LEMMA BotRestartsInv == ASSUME BotsInv, BotRestarts PROVE BotsInv'
<1>1. /\ EntriesFit(storedOnDisk)' /\ restarts' \in 0..MaxRestarts
      /\ roomOf' \in [Messages -> Rooms \cup {NoRoom}] /\ arrived' \in 0..MaxMessages
      /\ confirmed' \in 0..MaxMessages + 1 /\ sessionsMade' \in 0..MaxMessages
  BY BotSessionsAssumption DEF BotsInv, BotTypeOK, EntriesInv, EntriesFit, BotRestarts
<1>2. JustStarted'
  BY <1>1 DEF BotRestarts, JustStarted, Fresh, SessionsOf
<1>3. JustStarted' => BotsInv'
  BY FreshInv, PTL
<1>4. QED
  BY <1>2, <1>3

\* The server has one more message, or answers, or its answer is lost.
LEMMA PollsInv == ASSUME BotsInv, Sends \/ PollAnswered \/ PollLost PROVE BotsInv'
<1>1. /\ UNCHANGED <<roomOf, offset, messagePc, accepted, restarts, chainVars, limiterVars, roomVars>>
      /\ arrived' \in 0..MaxMessages /\ confirmed' \in 0..MaxMessages + 1
      /\ batch' \subseteq Messages /\ \A v \in batch' : v >= offset
  <2>1. /\ MaxMessages \in Nat /\ arrived \in 0..MaxMessages /\ offset \in 0..MaxMessages + 1
        /\ confirmed \in 0..MaxMessages + 1 /\ batch \subseteq Messages
        /\ \A v \in batch : v >= offset
    BY BotSessionsAssumption DEF BotsInv, BotTypeOK, ChainsInv, UpdatesAreNew
  <2>2. CASE Sends
    BY <2>1, <2>2 DEF Sends
  <2>3. CASE PollLost
    BY <2>1, <2>3 DEF PollLost
  <2>4. CASE PollAnswered
    <3>1. confirmed' = Larger(confirmed, offset)
          /\ batch' = {u \in 1..arrived : u >= offset /\ u >= confirmed'}
          /\ UNCHANGED <<roomOf, arrived, offset, messagePc, accepted, restarts, chainVars, limiterVars,
                         roomVars>>
      BY <2>4 DEF PollAnswered
    <3>2. 1..arrived \subseteq Messages
      BY <2>1 DEF Messages
    <3>3. QED
      BY <2>1, <3>1, <3>2 DEF Larger
  <2>5. QED
    BY <2>2, <2>3, <2>4
<1>2. /\ roomOf' = roomOf /\ offset' = offset /\ messagePc' = messagePc /\ accepted' = accepted
      /\ restarts' = restarts /\ follows' = follows /\ lastOf' = lastOf
      /\ pendingCounts' = pendingCounts /\ jobsInflight' = jobsInflight
      /\ limiterQueue' = limiterQueue /\ store' = store /\ storedOnDisk' = storedOnDisk
      /\ sessionToChat' = sessionToChat /\ sessionOf' = sessionOf /\ sessionsMade' = sessionsMade
  BY <1>1 DEF chainVars, limiterVars, roomVars
<1>3. BotTypeOK'
  BY <1>1, <1>2 DEF BotsInv, BotTypeOK
<1>4. UpdatesAreNew'
  BY <1>1, <1>2 DEF BotsInv, ChainsInv, UpdatesAreNew
<1>5. \A c : InRoom(c)' = InRoom(c)
  BY <1>2 DEF InRoom
<1>6. ChainsInv'
  BY <1>2, <1>4, <1>5 DEF BotsInv, ChainsInv, ChainsFit, EndsInOrder, OneAtATime, TakenOnce
<1>7. LimiterInv'
  BY <1>2, LimiterRests DEF limiterVars
<1>8. EntriesInv'
  BY <1>2, EntriesRest
<1>9. QED
  BY <1>3, <1>6, <1>7, <1>8 DEF BotsInv

LEMMA TakesUpdateInv == ASSUME BotsInv, NEW u \in Messages, TakesUpdate(u) PROVE BotsInv'
<1>1. /\ ChainsInv' /\ messagePc[u] = "out"
      /\ \E l \in {"over", "refused", "chained"} : messagePc' = [messagePc EXCEPT ![u] = l]
      /\ lastOf' \in [Rooms -> 0..MaxMessages] /\ follows' \in [Messages -> 0..MaxMessages]
      /\ pendingCounts' \in [Rooms -> 0..SessionPendingLimit]
      /\ offset' \in 0..MaxMessages + 1 /\ batch' \in SUBSET Messages
      /\ accepted' \in [Messages -> Nat]
  BY TakesUpdateChains
<1>2. UNCHANGED <<roomOf, arrived, confirmed, restarts, limiterVars, roomVars>>
  BY DEF TakesUpdate
<1>3. PICK l \in {"over", "refused", "chained"} : messagePc' = [messagePc EXCEPT ![u] = l]
  BY <1>1
<1>4. messagePc \in [Messages -> Unfinished \cup {"out", "refused", "over"}]
  BY DEF BotsInv, BotTypeOK
<1>5. messagePc' \in [Messages -> Unfinished \cup {"out", "refused", "over"}]
  BY <1>3, <1>4 DEF Unfinished
<1>6. BotTypeOK'
  BY <1>1, <1>2, <1>5 DEF BotsInv, BotTypeOK, limiterVars, roomVars
<1>7. LimiterInv'
  <2>1. \A v \in Messages : v # u => messagePc'[v] = messagePc[v]
    BY <1>3, <1>4
  <2>2. messagePc'[u] = l
    BY <1>3, <1>4
  <2>3. QED
    BY <1>1, <1>2, <2>1, <2>2, LimiterRests DEF Slotted
<1>8. EntriesInv'
  <2>1. \A v \in Messages : messagePc'[v] = "creating" => messagePc[v] = "creating"
    BY <1>3, <1>4
  <2>2. QED
    BY <1>2, <2>1, EntriesRest DEF roomVars
<1>9. QED
  BY <1>1, <1>6, <1>7, <1>8 DEF BotsInv

\* A message goes on, with its slot or without one.
LEMMA MessageMoves ==
    ASSUME BotsInv, NEW u \in Messages, NEW l \in Handling, l # "queued",
           messagePc' = [messagePc EXCEPT ![u] = l],
           messagePc[u] \in Handling \/ Runs(u), messagePc[u] # "queued",
           l \in Slotted <=> messagePc[u] \in Slotted,
           UNCHANGED <<pollVars, chainVars, limiterVars>>
    PROVE  /\ ChainsInv' /\ LimiterInv'
           /\ messagePc' \in [Messages -> Unfinished \cup {"out", "refused", "over"}]
<1>1. messagePc \in [Messages -> Unfinished \cup {"out", "refused", "over"}]
  BY DEF BotsInv, BotTypeOK
<1>2. messagePc'[u] = l /\ \A v \in Messages : v # u => messagePc'[v] = messagePc[v]
  BY <1>1
<1>3. messagePc' \in [Messages -> Unfinished \cup {"out", "refused", "over"}]
  BY <1>1 DEF Unfinished
<1>4. ChainsInv'
  BY <1>2, <1>3, MessagesGoOn DEF pollVars
<1>5. LimiterInv'
  BY <1>2, LimiterRests
<1>6. QED
  BY <1>3, <1>4, <1>5

LEMMA SlottedMovesInv ==
    ASSUME BotsInv, NEW u \in Messages,
           EnsuresSession(u) \/ SessionCreated(u) \/ SessionFails(u) \/ ShareEnds(u) \/ PromptEnds(u)
    PROVE  BotsInv'
<1>1. UNCHANGED <<pollVars, chainVars, limiterVars>>
  BY DEF EnsuresSession, SessionCreated, SessionFails, ShareEnds, PromptEnds
<1>2. /\ EntriesInv' /\ sessionToChat' \in [Sessions -> Rooms \cup {NoRoom}]
      /\ sessionOf' \in [Messages -> 0..MaxMessages] /\ sessionsMade' \in 0..MaxMessages
      /\ messagePc[u] \in Slotted /\ \E l \in Slotted : messagePc' = [messagePc EXCEPT ![u] = l]
  <2>1. /\ sessionToChat \in [Sessions -> Rooms \cup {NoRoom}] /\ sessionsMade \in 0..MaxMessages
        /\ sessionOf \in [Messages -> 0..MaxMessages]
        /\ messagePc \in [Messages -> Unfinished \cup {"out", "refused", "over"}]
    BY DEF BotsInv, BotTypeOK
  <2>2. CASE EnsuresSession(u)
    <3>1. sessionsMade' = sessionsMade
      BY <2>2 DEF EnsuresSession
    <3>2. QED
      BY <2>1, <2>2, <3>1, EnsuresSessionEntries DEF Slotted
  <2>3. CASE SessionCreated(u)
    BY <2>3, SessionCreatedEntries DEF Slotted
  <2>4. ASSUME SessionFails(u) \/ ShareEnds(u) \/ PromptEnds(u)
        PROVE  /\ UNCHANGED <<roomOf, roomVars>> /\ messagePc[u] \in Slotted
               /\ \E l \in {"replying", "prompting"} : messagePc' = [messagePc EXCEPT ![u] = l]
    BY <2>4 DEF SessionFails, ShareEnds, PromptEnds, Slotted, pollVars
  <2>5. CASE SessionFails(u) \/ ShareEnds(u) \/ PromptEnds(u)
    <3>1. PICK l \in {"replying", "prompting"} : messagePc' = [messagePc EXCEPT ![u] = l]
      BY <2>4, <2>5
    <3>2. \A v \in Messages : messagePc'[v] = "creating" => messagePc[v] = "creating"
      BY <2>1, <3>1
    <3>3. EntriesInv'
      BY <2>4, <2>5, <3>2, EntriesRest DEF roomVars
    <3>4. QED
      BY <2>1, <2>4, <2>5, <3>1, <3>3 DEF roomVars, Slotted
  <2>6. QED
    BY <2>2, <2>3, <2>5
<1>3. PICK l \in Slotted : messagePc' = [messagePc EXCEPT ![u] = l]
  BY <1>2
<1>4. /\ ChainsInv' /\ LimiterInv'
      /\ messagePc' \in [Messages -> Unfinished \cup {"out", "refused", "over"}]
  <2>1. l \in Handling /\ l # "queued" /\ messagePc[u] \in Handling /\ messagePc[u] # "queued"
    BY <1>2, <1>3 DEF Handling, Slotted
  <2>2. QED
    BY <1>1, <1>2, <1>3, <2>1, MessageMoves
<1>5. BotTypeOK'
  BY <1>1, <1>2, <1>4 DEF BotsInv, BotTypeOK, pollVars, chainVars, limiterVars
<1>6. QED
  BY <1>2, <1>4, <1>5 DEF BotsInv

LEMMA AnswersAtOnceInv ==
    ASSUME BotsInv, NEW u \in Messages, Runs(u), messagePc' = [messagePc EXCEPT ![u] = "answering"],
           UNCHANGED <<pollVars, chainVars, limiterVars, roomVars>>
    PROVE  BotsInv'
<1>1. messagePc[u] = "chained"
  BY DEF Runs
<1>2. /\ ChainsInv' /\ LimiterInv'
      /\ messagePc' \in [Messages -> Unfinished \cup {"out", "refused", "over"}]
  <2>1. "answering" \in Handling /\ "answering" \notin Slotted /\ messagePc[u] \notin Slotted
    BY <1>1 DEF Handling, Slotted
  <2>2. QED
    BY <1>1, <2>1, MessageMoves
<1>3. EntriesInv'
  <2>1. \A v \in Messages : messagePc'[v] = "creating" => messagePc[v] = "creating"
    BY DEF BotsInv, BotTypeOK
  <2>2. QED
    BY <2>1, EntriesRest DEF roomVars, pollVars
<1>4. BotTypeOK'
  BY <1>2 DEF BotsInv, BotTypeOK, pollVars, chainVars, limiterVars, roomVars
<1>5. QED
  BY <1>2, <1>3, <1>4 DEF BotsInv

LEMMA AsksLimiterInv == ASSUME BotsInv, NEW u \in Messages, AsksLimiter(u) PROVE BotsInv'
<1> DEFINE q == Append(limiterQueue, u)
           pcs == [messagePc EXCEPT ![u] = "queued"]
<1>1. Runs(u) /\ messagePc[u] = "chained" /\ UNCHANGED <<pollVars, chainVars, roomVars>>
  BY DEF AsksLimiter, Runs
<1>2. CASE Len(limiterQueue) >= QueueLimit
  BY <1>1, <1>2, AnswersAtOnceInv DEF AsksLimiter
<1>3. CASE ~(Len(limiterQueue) >= QueueLimit)
  <2>1. Pump(jobsInflight, q, pcs)
    BY <1>3 DEF AsksLimiter
  <2>2. /\ messagePc \in [Messages -> Unfinished \cup {"out", "refused", "over"}]
        /\ limiterQueue \in Seq(Messages) /\ jobsInflight \in 0..Concurrency
        /\ QueueLimit \in Nat /\ Concurrency \in Nat
    BY BotSessionsAssumption DEF BotsInv, BotTypeOK
  <2>3. /\ q \in Seq(Messages) /\ Len(q) = Len(limiterQueue) + 1 /\ Len(limiterQueue) \in Nat
        /\ DOMAIN q = 1..(Len(limiterQueue) + 1) /\ DOMAIN limiterQueue = 1..Len(limiterQueue)
        /\ \A i \in 1..Len(limiterQueue) : q[i] = limiterQueue[i] /\ limiterQueue[i] \in Messages
        /\ q[Len(limiterQueue) + 1] = u
        /\ limiterQueue = <<>> <=> Len(limiterQueue) = 0
    BY <2>2
  <2>4. /\ pcs \in [Messages -> Unfinished \cup {"out", "refused", "over"}] /\ pcs[u] = "queued"
        /\ \A v \in Messages : v # u => pcs[v] = messagePc[v]
    BY <2>2 DEF Unfinished, Handling
  <2> HIDE DEF q, pcs
  <2>5. /\ \A i \in DOMAIN limiterQueue :
              /\ messagePc[limiterQueue[i]] = "queued" /\ limiterQueue[i] # u
              /\ \A j \in DOMAIN limiterQueue : limiterQueue[j] = limiterQueue[i] => j = i
        /\ jobsInflight = Cardinality({v \in Messages : messagePc[v] \in Slotted})
        /\ limiterQueue # <<>> => jobsInflight = Concurrency
    BY <1>1 DEF BotsInv, LimiterInv, QueueIsOfWaiters
  <2>6. \A i \in DOMAIN q : pcs[q[i]] = "queued" /\ \A j \in DOMAIN q : q[j] = q[i] => j = i
    <3>1. \A i \in DOMAIN q : i \in DOMAIN limiterQueue \/ i = Len(limiterQueue) + 1
      BY <2>3
    <3>2. \A i \in DOMAIN limiterQueue : q[i] = limiterQueue[i] /\ q[i] # u /\ pcs[q[i]] = "queued"
      BY <2>3, <2>4, <2>5
    <3>3. QED
      BY <2>3, <2>4, <2>5, <3>1, <3>2
  <2>7. {v \in Messages : pcs[v] \in Slotted} = {v \in Messages : messagePc[v] \in Slotted}
    BY <1>1, <2>4 DEF Slotted
  <2>8. Len(q) <= 1 \/ jobsInflight >= Concurrency - 1
    BY <2>2, <2>3, <2>5
  <2>9. /\ LimiterInv' /\ jobsInflight' \in 0..Concurrency
        /\ limiterQueue' \in Seq(Messages) /\ Len(limiterQueue') <= Len(q)
        /\ messagePc' \in [Messages -> Unfinished \cup {"out", "refused", "over"}]
        /\ \A v \in Messages : \/ messagePc'[v] = pcs[v]
                               \/ pcs[v] = "queued" /\ messagePc'[v] = "starting"
    BY <2>1, <2>2, <2>3, <2>4, <2>5, <2>6, <2>7, <2>8, PumpDoes
  <2>10. \A v \in Messages : \/ messagePc'[v] = messagePc[v]
                             \/ /\ messagePc'[v] \in Handling \ {"creating"}
                                /\ messagePc[v] \in Handling \/ Runs(v)
    BY <1>1, <2>4, <2>9 DEF Handling, Slotted
  <2>11. ChainsInv'
    BY <1>1, <2>9, <2>10, MessagesGoOn DEF pollVars
  <2>12. EntriesInv'
    BY <1>1, <2>10, EntriesRest DEF roomVars, pollVars
  <2>13. Len(limiterQueue') <= QueueLimit
    BY <1>3, <2>2, <2>3, <2>9
  <2>14. BotTypeOK'
    BY <1>1, <2>9, <2>13 DEF BotsInv, BotTypeOK, pollVars, chainVars, roomVars
  <2>15. QED
    BY <2>9, <2>11, <2>12, <2>14 DEF BotsInv
<1>4. QED
  BY <1>2, <1>3

LEMMA EndsWithoutSlotInv == ASSUME BotsInv, NEW u \in Messages, EndsWithoutSlot(u) PROVE BotsInv'
<1>1. /\ Runs(u) \/ messagePc[u] \in Handling
      /\ messagePc[u] \in {"chained", "answering"}
      /\ messagePc' = [messagePc EXCEPT ![u] = "over"] /\ LeavesChain(u)
      /\ UNCHANGED <<pollVars, limiterVars, roomVars>>
  BY DEF EndsWithoutSlot, Runs, Handling
<1>2. messagePc \in [Messages -> Unfinished \cup {"out", "refused", "over"}]
  BY DEF BotsInv, BotTypeOK
<1>3. /\ messagePc' \in [Messages -> Unfinished \cup {"out", "refused", "over"}]
      /\ messagePc'[u] = "over" /\ \A v \in Messages : v # u => messagePc'[v] = messagePc[v]
  BY <1>1, <1>2
<1>4. /\ ChainsInv' /\ lastOf' \in [Rooms -> 0..MaxMessages]
      /\ pendingCounts' \in [Rooms -> 0..SessionPendingLimit] /\ follows' = follows
  BY <1>1, <1>3, MessageEnds DEF pollVars
<1>5. LimiterInv'
  BY <1>1, <1>3, LimiterRests DEF Slotted
<1>6. EntriesInv'
  BY <1>1, <1>3, EntriesRest DEF roomVars, pollVars
<1>7. BotTypeOK'
  BY <1>1, <1>3, <1>4 DEF BotsInv, BotTypeOK, pollVars, limiterVars, roomVars
<1>8. QED
  BY <1>4, <1>5, <1>6, <1>7 DEF BotsInv

LEMMA ReplyEndsInv == ASSUME BotsInv, NEW u \in Messages, ReplyEnds(u) PROVE BotsInv'
<1> DEFINE pcs == [messagePc EXCEPT ![u] = "over"]
           busy == {v \in Messages : messagePc[v] \in Slotted}
<1>1. /\ messagePc[u] = "replying" /\ Pump(jobsInflight - 1, limiterQueue, pcs) /\ LeavesChain(u)
      /\ UNCHANGED <<pollVars, roomVars>>
  BY DEF ReplyEnds
<1>2. /\ messagePc \in [Messages -> Unfinished \cup {"out", "refused", "over"}]
      /\ limiterQueue \in Seq(Messages) /\ jobsInflight \in 0..Concurrency
      /\ Len(limiterQueue) <= QueueLimit /\ Len(limiterQueue) \in Nat
      /\ QueueLimit \in Nat /\ Concurrency \in Nat
  BY BotSessionsAssumption DEF BotsInv, BotTypeOK
<1>3. /\ pcs \in [Messages -> Unfinished \cup {"out", "refused", "over"}] /\ pcs[u] = "over"
      /\ \A v \in Messages : v # u => pcs[v] = messagePc[v]
  BY <1>2
<1>4. {v \in Messages : pcs[v] \in Slotted} = busy \ {u} /\ u \in busy
  BY <1>1, <1>3 DEF Slotted
<1>5. /\ jobsInflight = Cardinality(busy) /\ jobsInflight - 1 = Cardinality(busy \ {u})
      /\ jobsInflight - 1 \in 0..Concurrency
  <2>1. jobsInflight = Cardinality(busy)
    BY DEF BotsInv, LimiterInv
  <2>2. IsFiniteSet(busy) /\ Cardinality(busy \ {u}) \in Nat
    BY MessagesAreFinite
  <2> HIDE DEF busy
  <2>3. Cardinality(busy \ {u}) = Cardinality(busy) - 1
    BY <1>4, <2>2, SetCounts
  <2>4. QED
    BY <1>2, <2>1, <2>2, <2>3
<1> HIDE DEF pcs, busy
<1>6. /\ \A i \in DOMAIN limiterQueue :
            /\ messagePc[limiterQueue[i]] = "queued" /\ limiterQueue[i] \in Messages
            /\ \A j \in DOMAIN limiterQueue : limiterQueue[j] = limiterQueue[i] => j = i
      /\ limiterQueue # <<>> => jobsInflight = Concurrency
  BY <1>2 DEF BotsInv, LimiterInv, QueueIsOfWaiters
<1>7. \A i \in DOMAIN limiterQueue : pcs[limiterQueue[i]] = "queued"
  BY <1>1, <1>3, <1>6
<1>8. Len(limiterQueue) <= 1 \/ jobsInflight - 1 >= Concurrency - 1
  BY <1>2, <1>6
<1>9. /\ LimiterInv' /\ jobsInflight' \in 0..Concurrency
      /\ limiterQueue' \in Seq(Messages) /\ Len(limiterQueue') <= Len(limiterQueue)
      /\ messagePc' \in [Messages -> Unfinished \cup {"out", "refused", "over"}]
      /\ \A v \in Messages : \/ messagePc'[v] = pcs[v]
                             \/ pcs[v] = "queued" /\ messagePc'[v] = "starting"
  BY <1>1, <1>2, <1>3, <1>4, <1>5, <1>6, <1>7, <1>8, PumpDoes
<1>10. /\ messagePc'[u] = "over"
       /\ \A v \in Messages : v # u => \/ messagePc'[v] = messagePc[v]
                                       \/ messagePc'[v] \in Handling /\ messagePc[v] \in Handling
  BY <1>3, <1>9 DEF Handling, Slotted
<1>11. /\ ChainsInv' /\ lastOf' \in [Rooms -> 0..MaxMessages]
       /\ pendingCounts' \in [Rooms -> 0..SessionPendingLimit] /\ follows' = follows
  <2>1. messagePc[u] \in Handling
    BY <1>1 DEF Handling, Slotted
  <2>2. QED
    BY <1>1, <1>9, <1>10, <2>1, MessageEnds DEF pollVars
<1>12. EntriesInv'
  <2>1. \A v \in Messages : messagePc'[v] = "creating" => messagePc[v] = "creating"
    BY <1>3, <1>9
  <2>2. QED
    BY <1>1, <2>1, EntriesRest DEF roomVars, pollVars
<1>13. Len(limiterQueue') <= QueueLimit
  BY <1>2, <1>9
<1>14. BotTypeOK'
  BY <1>1, <1>9, <1>11, <1>13 DEF BotsInv, BotTypeOK, pollVars, roomVars
<1>15. QED
  BY <1>9, <1>11, <1>12, <1>14 DEF BotsInv

LEMMA BotsQuietInv ==
    ASSUME BotsInv, StoreFlushed \/ UNCHANGED botVars
    PROVE  BotsInv'
<1>1. /\ UNCHANGED <<messagePc, store, sessionToChat, sessionOf, sessionsMade, pollVars, chainVars,
                     limiterVars>>
      /\ storedOnDisk' = store \/ storedOnDisk' = storedOnDisk
  BY DEF StoreFlushed, botVars, pollVars, chainVars, limiterVars
<1>2. BotTypeOK'
  BY <1>1 DEF BotsInv, BotTypeOK, pollVars, chainVars, limiterVars
<1>3. ChainsInv'
  <2>1. messagePc' \in [Messages -> Unfinished \cup {"out", "refused", "over"}]
    BY <1>1 DEF BotsInv, BotTypeOK
  <2>2. QED
    BY <1>1, <2>1, MessagesGoOn DEF pollVars
<1>4. LimiterInv'
  BY <1>1, LimiterRests
<1>5. EntriesInv'
  <2>1. EntriesFit(store)' /\ EntriesFit(storedOnDisk)'
    BY <1>1 DEF BotsInv, EntriesInv, EntriesFit
  <2>2. MadeForNone' /\ MapsAgree'
    BY <1>1 DEF BotsInv, EntriesInv, MadeForNone, MapsAgree, ToolUpdateGoesTo, StoredSession, pollVars
  <2>3. QED
    BY <2>1, <2>2 DEF EntriesInv
<1>6. QED
  BY <1>2, <1>3, <1>4, <1>5 DEF BotsInv

LEMMA BotsStepInv == BotsInv /\ [BotSessionsNext]_botVars => BotsInv'
<1> SUFFICES ASSUME BotsInv, [BotSessionsNext]_botVars PROVE BotsInv'
  OBVIOUS
<1>1. CASE Sends \/ PollAnswered \/ PollLost
  BY <1>1, PollsInv
<1>2. CASE StoreFlushed \/ UNCHANGED botVars
  BY <1>2, BotsQuietInv
<1>3. CASE BotRestarts
  BY <1>3, BotRestartsInv
<1>4. ASSUME NEW u \in Messages,
             TakesUpdate(u) \/ AsksLimiter(u) \/ EndsWithoutSlot(u) \/ ReplyEnds(u) \/ AnswersAtOnce(u)
      PROVE  BotsInv'
  BY <1>4, TakesUpdateInv, AsksLimiterInv, EndsWithoutSlotInv, ReplyEndsInv, AnswersAtOnceInv
  DEF AnswersAtOnce
<1>5. ASSUME NEW u \in Messages,
             EnsuresSession(u) \/ SessionCreated(u) \/ SessionFails(u) \/ ShareEnds(u) \/ PromptEnds(u)
      PROVE  BotsInv'
  BY <1>5, SlottedMovesInv
<1>6. QED
  BY <1>1, <1>2, <1>3, <1>4, <1>5 DEF BotSessionsNext, BotSteps

\* The messages of a chat are handled one at a time, in their order and once each, the counters
\* the limits are tested with are true, and a session reports to the chat that has it, for any
\* chats, limits and messages, whatever fails, is evicted, is lost or restarts.
THEOREM ChatsStayInOrder == BotSessionsSpec => []ChatsAreInOrder
<1>1. BotsInv => ChatsAreInOrder
  BY DEF BotsInv, ChainsInv, LimiterInv, EntriesInv, ChatsAreInOrder, ChatsTakeTurns, CountsAreTrue
<1>2. BotSessionsSpec => []BotsInv
  BY BotsInitInv, BotsStepInv, PTL DEF BotSessionsSpec
<1>3. QED
  BY <1>1, <1>2, PTL

-----------------------------------------------------------------------------
(***************************************************************************)
(* The kits together.  In MCKits one part moves and the others rest, so    *)
(* the parts that the action properties are about keep their invariants.   *)
(***************************************************************************)
KitsInv == (On("hub") => HubInv) /\ (On("store") => StoreInv)

\* The hub moves by steps of the hub only, and so does the store by its own.
LEMMA KitMoves ==
    ASSUME [KitsNext]_kitVars
    PROVE  /\ part' = part
           /\ UNCHANGED hubVars \/ (On("hub") /\ HubNext)
           /\ UNCHANGED storeVars \/ (On("store") /\ SessionStoreNext)
<1>1. CASE UNCHANGED kitVars
  BY <1>1 DEF kitVars
<1>2. CASE \/ TokenOnly \/ BotsOnly \/ CommandOnly \/ CacheOnly \/ ConnectionOnly
           \/ HandlersOnly \/ LoopOnly
  BY <1>2 DEF TokenOnly, BotsOnly, CommandOnly, CacheOnly, ConnectionOnly, HandlersOnly, LoopOnly
<1>3. CASE HubOnly /\ HubNext
  BY <1>3 DEF HubOnly
<1>4. CASE StoreOnly /\ SessionStoreNext
  BY <1>4 DEF StoreOnly
<1>5. QED
  BY <1>1, <1>2, <1>3, <1>4 DEF KitsNext

LEMMA KitsInitInv == KitsInit => KitsInv
BY HubInitInv, StoreInitInv DEF KitsInit, KitsInv

LEMMA KitsStepInv == KitsInv /\ [KitsNext]_kitVars => KitsInv'
<1>1. SUFFICES ASSUME KitsInv, [KitsNext]_kitVars PROVE KitsInv'
  OBVIOUS
<1>2. /\ part' = part
      /\ [HubNext]_hubVars
      /\ [SessionStoreNext]_storeVars
  BY <1>1, KitMoves
<1>3. \A name : On(name)' <=> On(name)
  BY <1>2 DEF On
<1>4. On("hub") => HubInv'
  BY <1>1, <1>2, HubStepInv DEF KitsInv
<1>5. On("store") => StoreInv'
  BY <1>1, <1>2, StoreStepInv DEF KitsInv
<1>6. QED
  BY <1>3, <1>4, <1>5 DEF KitsInv

\* What no step of the kits may undo: the file of the bots' sessions never goes back to an
\* older map (Store.flush and its restarts), and a sink that panicked is given no other
\* event (Hub::send).
THEOREM NothingStepsBack == KitsSpec => NoStepBack
<1>1. KitsInv /\ [KitsNext]_kitVars =>
          [onDisk'.kind = "entries" => onDisk'.edition >= onDisk.edition]_storeVars
  <2>1. SUFFICES ASSUME KitsInv, [KitsNext]_kitVars, On("store"), SessionStoreNext
                 PROVE  onDisk'.kind = "entries" => onDisk'.edition >= onDisk.edition
    BY KitMoves
  <2>2. StoreInv /\ onDisk.edition \in Nat
    BY <2>1 DEF KitsInv, StoreInv, StoreTyped
  <2>3. QED
    BY <2>1, <2>2, StoreStepInv
<1>2. KitsInv /\ [KitsNext]_kitVars =>
        [\A e \in Events, s \in Sinks :
            outcome[e][s] # "sending" /\ outcome'[e][s] = "sending" =>
                \A f \in Events : outcome[f][s] # "panicked"]_hubVars
  <2>1. SUFFICES ASSUME KitsInv, [KitsNext]_kitVars, On("hub"), HubNext
                 PROVE  \A e \in Events, s \in Sinks :
                            outcome[e][s] # "sending" /\ outcome'[e][s] = "sending" =>
                                \A f \in Events : outcome[f][s] # "panicked"
    BY KitMoves
  <2>2. HubInv
    BY <2>1 DEF KitsInv
  <2>3. QED
    BY <2>1, <2>2, SendBeginsAtSoundSink
<1>3. KitsSpec => []KitsInv
  BY KitsInitInv, KitsStepInv, PTL DEF KitsSpec
<1>4. KitsSpec => FileNeverGoesBack
  BY <1>1, <1>3, PTL DEF KitsSpec, FileNeverGoesBack
<1>5. KitsSpec => PanickedSinkIsLeftAlone
  BY <1>2, <1>3, PTL DEF KitsSpec, PanickedSinkIsLeftAlone
<1>6. QED
  BY <1>4, <1>5 DEF NoStepBack
=============================================================================
