--------------------------- MODULE McpClientProofs ---------------------------
(*****************************************************************************)
(* The client of a server: the requesting side of mcp-jsonrpc and the        *)
(* Manager of mcp-kit.                                                       *)
(*   JsonRpcClient: the safety of the requests, for every set of callers,    *)
(*   every number of ids and every limit: ClientInv is inductive, and no     *)
(*   request is stranded by a close.                                         *)
(*   ServerConnection and ServerHandlers: what a Manager keeps of a          *)
(*   connection and of its owner, and what the handlers of a connection do   *)
(*   with what the server asks, for every number of connections, of requests, *)
(*   of tasks and of drops.                                                  *)
(*****************************************************************************)
EXTENDS JsonRpcClient, ServerConnection, ServerHandlers,
        FiniteSetTheorems, SequenceTheorems, WellFoundedInduction, TLAPS

(***************************************************************************)
(* The cache of cancelled ids, for every set of ids and every capacity:    *)
(* its invariant is inductive, and the generations implement the window of *)
(* RecentIds.                                                              *)
(***************************************************************************)

\* How far the kept mentions move when the queue makes room.
Shift(q) == IF Len(q) < CancelledMax THEN 0 ELSE 1

\* Making room keeps the queue a sequence shorter than its capacity and moves
\* every remaining mention by Shift (VecDeque::pop_front on a full queue).
LEMMA DropOldestShifts ==
    ASSUME NEW S, NEW q \in Seq(S), Len(q) <= CancelledMax
    PROVE  /\ DropOldest(q) \in Seq(S)
           /\ Shift(q) \in {0, 1}
           /\ Len(DropOldest(q)) = Len(q) - Shift(q)
           /\ Len(DropOldest(q)) < CancelledMax
           /\ \A i \in 1 .. Len(DropOldest(q)) : DropOldest(q)[i] = q[i + Shift(q)]
<1>1. CASE Len(q) < CancelledMax
  BY <1>1, CancelledAssumption DEF DropOldest, Shift
<1>2. CASE ~(Len(q) < CancelledMax)
  <2>1. Len(q) = CancelledMax /\ q # <<>>
    BY <1>2, CancelledAssumption
  <2>2. /\ Tail(q) \in Seq(S)
        /\ Len(Tail(q)) = Len(q) - 1
        /\ \A i \in 1 .. Len(Tail(q)) : Tail(q)[i] = q[i + 1]
    BY <2>1, HeadTailProperties
  <2>3. QED
    BY <1>2, <2>1, <2>2, CancelledAssumption DEF DropOldest, Shift
<1>3. QED
  BY <1>1, <1>2

\* The queue after one more mention, index by index.
LEMMA AppendedMention ==
    ASSUME NEW S, NEW q \in Seq(S), Len(q) <= CancelledMax, NEW e \in S
    PROVE  LET k == Shift(q)
               r == Append(DropOldest(q), e)
           IN  /\ r \in Seq(S)
               /\ Len(r) = Len(q) - k + 1
               /\ Len(r) <= CancelledMax
               /\ r[Len(r)] = e
               /\ \A i \in 1 .. Len(r) : i # Len(r) =>
                     i + k \in 1 .. Len(q) /\ r[i] = q[i + k]
<1> DEFINE d == DropOldest(q)
           k == Shift(q)
<1>1. /\ d \in Seq(S)
      /\ k \in {0, 1}
      /\ Len(d) = Len(q) - k
      /\ Len(d) < CancelledMax
      /\ \A i \in 1 .. Len(d) : d[i] = q[i + k]
  BY DropOldestShifts
<1>2. Len(q) \in Nat /\ Len(d) \in Nat /\ CancelledMax \in Nat
  BY <1>1, LenProperties, CancelledAssumption
<1> HIDE DEF d, k
<1>3. /\ Append(d, e) \in Seq(S)
      /\ Len(Append(d, e)) = Len(d) + 1
      /\ \A i \in 1 .. Len(d) : Append(d, e)[i] = d[i]
      /\ Append(d, e)[Len(d) + 1] = e
  BY <1>1, AppendProperties
<1>4. QED
  BY <1>1, <1>2, <1>3 DEF d, k

LEMMA CancelledInitInv == CancelledInit => CancelledInv
BY CancelledAssumption
   DEF CancelledInit, CancelledInv, CancelledTypeOK, GenerationsOrdered,
       LatestIsNewestMention

\* A cancelled request joins the cache.
LEMMA RememberInv ==
    ASSUME CancelledInv, NEW id \in Ids, Remember(id)
    PROVE  CancelledInv'
<1> DEFINE k == Shift(order)
           e == [gen |-> nextGeneration, id |-> id]
<1>1. /\ order \in Seq(Entry)
      /\ Len(order) \in Nat
      /\ Len(order) <= CancelledMax
      /\ latest \in [Ids -> Nat \cup {Absent}]
      /\ nextGeneration \in Nat
      /\ CancelledMax \in Nat \ {0}
  BY LenProperties, CancelledAssumption DEF CancelledInv, CancelledTypeOK
<1>2. e \in Entry
  BY <1>1 DEF Entry
<1>3. /\ order' \in Seq(Entry)
      /\ Len(order') = Len(order) - k + 1
      /\ Len(order') <= CancelledMax
      /\ order'[Len(order')] = e
      /\ \A i \in 1 .. Len(order') : i # Len(order') =>
            i + k \in 1 .. Len(order) /\ order'[i] = order[i + k]
      /\ k \in {0, 1}
  BY <1>1, <1>2, AppendedMention, DropOldestShifts DEF Remember
<1>4. /\ DOMAIN order = 1 .. Len(order)
      /\ DOMAIN order' = 1 .. Len(order')
      /\ \A i \in 1 .. Len(order) : order[i] \in Entry
  BY <1>1, <1>3
<1>5. nextGeneration' = nextGeneration + 1
  BY DEF Remember
<1>6. CancelledTypeOK'
  <2>1. latest' \in [Ids -> Nat \cup {Absent}]
    BY <1>1 DEF Remember, AfterEviction, Evict
  <2>2. QED
    BY <1>1, <1>3, <1>5, <2>1 DEF CancelledTypeOK
<1>7. GenerationsOrdered'
  <2>1. GenerationsOrdered
    BY DEF CancelledInv
  <2>2. \A i \in 1 .. Len(order) : order[i].gen \in Nat /\ order[i].gen < nextGeneration
    BY <1>4, <2>1 DEF GenerationsOrdered, Entry
  <2>3. order'[Len(order')].gen = nextGeneration
    BY <1>3
  <2> HIDE DEF k, e
  <2>4. \A i \in DOMAIN order' : i # Len(order') =>
            order'[i].gen \in Nat /\ order'[i].gen < nextGeneration
    BY <1>3, <1>4, <2>2
  <2>5. \A i \in DOMAIN order' : order'[i].gen < nextGeneration'
    <3>1. ASSUME NEW i \in DOMAIN order' PROVE order'[i].gen < nextGeneration + 1
      <4>1. CASE i = Len(order')
        BY <1>1, <2>3, <4>1
      <4>2. CASE i # Len(order')
        BY <1>1, <2>4, <4>2
      <4>3. QED
        BY <4>1, <4>2
    <3>2. QED
      BY <1>5, <3>1
  <2>6. ASSUME NEW i \in DOMAIN order', NEW j \in DOMAIN order', i < j
        PROVE  order'[i].gen < order'[j].gen
    <3>1. i # Len(order')
      BY <1>4, <2>6
    <3>2. CASE j = Len(order')
      BY <2>3, <2>4, <3>1, <3>2
    <3>3. CASE j # Len(order')
      <4>1. /\ i + k \in DOMAIN order /\ j + k \in DOMAIN order
            /\ order'[i] = order[i + k] /\ order'[j] = order[j + k]
        BY <1>3, <1>4, <3>1, <3>3
      <4>2. i + k < j + k
        <5>1. i \in Int /\ j \in Int /\ k \in Int
          BY <1>3, <1>4
        <5>2. QED
          BY <2>6, <5>1
      <4>3. QED
        BY <2>1, <4>1, <4>2 DEF GenerationsOrdered
    <3>4. QED
      BY <3>2, <3>3
  <2>7. QED
    BY <2>5, <2>6 DEF GenerationsOrdered
<1>8. LatestIsNewestMention'
  <2>1. SUFFICES ASSUME NEW x \in Ids, latest'[x] # Absent
                 PROVE  \E i \in DOMAIN order' :
                           /\ order'[i] = [gen |-> latest'[x], id |-> x]
                           /\ \A j \in DOMAIN order' : order'[j].id = x => j <= i
    BY DEF LatestIsNewestMention
  <2>2. Len(order') \in DOMAIN order'
    <3> HIDE DEF k, e
    <3>1. k \in Int /\ k <= 1
      BY <1>3
    <3>2. Len(order') \in Int /\ 1 <= Len(order')
      <4>1. Len(order') = Len(order) - k + 1
        BY <1>3
      <4>2. k <= Len(order)
        BY <1>1, <1>3, <3>1, CancelledAssumption DEF k, Shift
      <4>3. QED
        BY <1>1, <3>1, <4>1, <4>2
    <3>3. QED
      BY <1>4, <3>2
  <2>3. CASE x = id
    <3>1. latest'[x] = nextGeneration
      BY <1>1, <2>3 DEF Remember, AfterEviction, Evict
    <3>2. QED
      BY <1>3, <1>4, <2>2, <2>3, <3>1
  <2>4. CASE x # id
    <3>1. latest'[x] = AfterEviction(latest, order)[x]
      BY <1>1, <2>4 DEF Remember, AfterEviction, Evict
    <3>2. /\ latest'[x] = latest[x]
          /\ k = 1 => order[1] # [gen |-> latest[x], id |-> x]
      <4>1. CASE Len(order) < CancelledMax
        BY <3>1, <4>1 DEF AfterEviction, Shift
      <4>2. CASE ~(Len(order) < CancelledMax)
        <5>1. latest'[x] = Evict(latest, order[1])[x]
          BY <3>1, <4>2 DEF AfterEviction
        <5>2. order[1] \in Entry
          BY <1>1, <1>4, <4>2
        <5>3. order[1].id \in Ids
          BY <5>2 DEF Entry
        <5>4. CASE latest[order[1].id] = order[1].gen
          <6>1. order[1].id # x
            BY <1>1, <2>1, <5>1, <5>3, <5>4 DEF Evict
          <6>2. QED
            BY <1>1, <5>1, <5>3, <5>4, <6>1 DEF Evict
        <5>5. CASE latest[order[1].id] # order[1].gen
          BY <5>1, <5>5 DEF Evict
        <5>6. QED
          BY <5>4, <5>5
      <4>3. QED
        BY <4>1, <4>2
    <3>3. PICK m \in DOMAIN order :
             /\ order[m] = [gen |-> latest[x], id |-> x]
             /\ \A j \in DOMAIN order : order[j].id = x => j <= m
      BY <2>1, <3>2 DEF CancelledInv, LatestIsNewestMention
    <3> HIDE DEF k, e
    <3>4. m # k
      BY <1>1, <1>3, <1>4, <3>2, <3>3
    <3>5. m - k \in DOMAIN order' /\ m - k # Len(order') /\ order'[m - k] = order[m]
      <4>1. m \in Nat /\ 1 <= m /\ m <= Len(order)
        BY <1>1, <1>4
      <4>2. m - k \in 1 .. Len(order') /\ m - k # Len(order')
        BY <1>1, <1>3, <3>4, <4>1
      <4>3. order'[m - k] = order[(m - k) + k] /\ (m - k) + k = m
        BY <1>3, <4>1, <4>2
      <4>4. QED
        BY <1>4, <4>2, <4>3
    <3>6. ASSUME NEW j \in DOMAIN order', order'[j].id = x
          PROVE  j <= m - k
      <4>1. j # Len(order')
        BY <1>3, <2>4, <3>6 DEF e
      <4>2. j + k \in DOMAIN order /\ order[j + k].id = x
        BY <1>3, <1>4, <3>6, <4>1
      <4>3. QED
        BY <1>1, <1>3, <1>4, <3>3, <4>2
    <3>7. QED
      BY <3>2, <3>3, <3>5, <3>6
  <2>5. QED
    BY <2>3, <2>4
<1>9. QED
  BY <1>6, <1>7, <1>8 DEF CancelledInv

\* A late answer takes its id out of the cache.
LEMMA TakeInv ==
    ASSUME CancelledInv, NEW id \in Ids, Take(id)
    PROVE  CancelledInv'
<1> USE DEF CancelledInv, Take
<1>1. CancelledTypeOK'
  BY DEF CancelledTypeOK
<1>2. GenerationsOrdered'
  BY DEF GenerationsOrdered
<1>3. ASSUME NEW x \in Ids, latest'[x] # Absent
      PROVE  latest'[x] = latest[x]
  BY <1>3 DEF CancelledTypeOK
<1>4. LatestIsNewestMention'
  BY <1>3 DEF LatestIsNewestMention
<1>5. QED
  BY <1>1, <1>2, <1>4

\* For every capacity and every history of cancellations and late answers the
\* queue and the map agree: what the map holds is bounded by the queue.
THEOREM CancelledInvariant == CancelledSpec => []CancelledInv
<1>1. CancelledInv /\ [CancelledNext]_cancelledVars => CancelledInv'
  <2> SUFFICES ASSUME CancelledInv, [CancelledNext]_cancelledVars
               PROVE  CancelledInv'
    OBVIOUS
  <2>1. CASE CancelledNext
    BY <2>1, RememberInv, TakeInv DEF CancelledNext
  <2>2. CASE UNCHANGED cancelledVars
    BY <2>2 DEF cancelledVars, CancelledInv, CancelledTypeOK, GenerationsOrdered,
                LatestIsNewestMention
  <2>3. QED
    BY <2>1, <2>2
<1>2. QED
  BY <1>1, CancelledInitInv, PTL DEF CancelledSpec

-----------------------------------------------------------------------------
\* The ids mentioned in a queue, in its order.
IdsOf(q) == [i \in DOMAIN q |-> q[i].id]

\* The window of a queue is a sequence of ids, as long as the queue.
LEMMA WindowIsSequence ==
    ASSUME NEW q \in Seq(Entry)
    PROVE  /\ IdsOf(q) \in Seq(Ids)
           /\ Len(IdsOf(q)) = Len(q)
           /\ Len(q) \in Nat
           /\ DOMAIN q = 1 .. Len(q)
           /\ \A i \in 1 .. Len(q) : IdsOf(q)[i] = q[i].id
<1>1. Len(q) \in Nat /\ DOMAIN q = 1 .. Len(q)
  BY LenProperties
<1>2. \A i \in 1 .. Len(q) : q[i] \in Entry
  BY <1>1
<1>3. \A i \in 1 .. Len(q) : q[i].id \in Ids
  BY <1>2 DEF Entry
<1>4. IdsOf(q) \in [1 .. Len(q) -> Ids]
  BY <1>1, <1>3 DEF IdsOf
<1>5. IdsOf(q) \in Seq(Ids)
  BY <1>1, <1>4, SeqDef
<1>6. QED
  BY <1>1, <1>4, <1>5, LenProperties DEF IdsOf

\* Remembering slides the window by one mention.
LEMMA RememberSlides ==
    ASSUME CancelledInv, NEW id \in Ids, Remember(id)
    PROVE  IdsOf(order') = Recent!Slide(IdsOf(order), id)
<1> DEFINE k == Shift(order)
           e == [gen |-> nextGeneration, id |-> id]
           w == Append(DropOldest(IdsOf(order)), id)
<1>1. CancelledTypeOK /\ CancelledTypeOK'
  BY RememberInv DEF CancelledInv
<1>2. /\ IdsOf(order) \in Seq(Ids) /\ Len(IdsOf(order)) = Len(order)
      /\ Len(order) \in Nat
      /\ \A i \in 1 .. Len(order) : IdsOf(order)[i] = order[i].id
  BY <1>1, WindowIsSequence DEF CancelledTypeOK
<1>3. /\ DOMAIN order' = 1 .. Len(order')
      /\ IdsOf(order') \in Seq(Ids) /\ Len(IdsOf(order')) = Len(order')
      /\ Len(order') \in Nat
      /\ \A i \in 1 .. Len(order') : IdsOf(order')[i] = order'[i].id
  BY <1>1, WindowIsSequence DEF CancelledTypeOK
<1>4. k = Shift(IdsOf(order)) /\ Len(IdsOf(order)) <= CancelledMax /\ e \in Entry
  BY <1>1, <1>2 DEF Shift, CancelledTypeOK, Entry
<1>5. /\ Len(order') = Len(order) - k + 1
      /\ order'[Len(order')] = e
      /\ \A i \in 1 .. Len(order') : i # Len(order') =>
            i + k \in 1 .. Len(order) /\ order'[i] = order[i + k]
  BY <1>1, <1>4, AppendedMention DEF Remember, CancelledTypeOK
<1>6. /\ w \in Seq(Ids)
      /\ Len(w) = Len(IdsOf(order)) - k + 1
      /\ w[Len(w)] = id
      /\ \A i \in 1 .. Len(w) : i # Len(w) => w[i] = IdsOf(order)[i + k]
  BY <1>2, <1>4, AppendedMention
<1>7. \A i \in 1 .. Len(w) : IdsOf(order')[i] = w[i]
  <2> HIDE DEF w, k
  <2>1. Len(w) = Len(order')
    BY <1>2, <1>5, <1>6
  <2>2. \A i \in 1 .. Len(w) : i # Len(w) => IdsOf(order')[i] = w[i]
    BY <1>2, <1>3, <1>5, <1>6, <2>1
  <2>3. Len(w) \in 1 .. Len(w) => IdsOf(order')[Len(w)] = w[Len(w)]
    BY <1>3, <1>5, <1>6, <2>1
  <2>4. QED
    BY <2>2, <2>3
<1>8. Len(IdsOf(order')) = Len(w)
  BY <1>2, <1>3, <1>5, <1>6
<1>9. IdsOf(order') = w
  <2> HIDE DEF w
  <2>1. QED
    BY <1>3, <1>6, <1>7, <1>8, SeqEqual
<1>10. QED
  BY <1>9 DEF Recent!Slide, DropOldest

\* Remembering makes the id live and keeps exactly the ids the window still
\* mentions: an id cancelled again outlives its older mention.
LEMMA RememberLive ==
    ASSUME CancelledInv, NEW id \in Ids, Remember(id), NEW x \in Ids
    PROVE  latest'[x] # Absent <=>
              /\ latest[x] # Absent \/ x = id
              /\ \E i \in DOMAIN order' : order'[i].id = x
<1> DEFINE k == Shift(order)
           e == [gen |-> nextGeneration, id |-> id]
<1>1. /\ CancelledTypeOK /\ GenerationsOrdered /\ LatestIsNewestMention
      /\ CancelledTypeOK' /\ LatestIsNewestMention'
  BY RememberInv DEF CancelledInv
<1>2. /\ order \in Seq(Entry) /\ Len(order) \in Nat
      /\ DOMAIN order = 1 .. Len(order)
      /\ DOMAIN order' = 1 .. Len(order')
      /\ latest \in [Ids -> Nat \cup {Absent}]
      /\ nextGeneration \in Nat
  BY <1>1, WindowIsSequence DEF CancelledTypeOK
<1>3. e \in Entry
  BY <1>2 DEF Entry
<1>4. /\ Len(order') = Len(order) - k + 1
      /\ order'[Len(order')] = e
      /\ \A i \in 1 .. Len(order') : i # Len(order') =>
            i + k \in 1 .. Len(order) /\ order'[i] = order[i + k]
  BY <1>1, <1>3, AppendedMention DEF Remember, CancelledTypeOK
<1>5. latest'[x] # Absent => latest[x] # Absent \/ x = id
  BY <1>2 DEF Remember, AfterEviction, Evict
<1>6. latest'[x] # Absent => \E i \in DOMAIN order' : order'[i].id = x
  BY <1>1 DEF LatestIsNewestMention
<1>7. x = id => latest'[x] # Absent
  BY <1>2 DEF Remember, AfterEviction, Evict, Absent
<1>8. ASSUME latest[x] # Absent, x # id, latest'[x] = Absent,
             NEW n \in DOMAIN order', order'[n].id = x
      PROVE  FALSE
  <2>1. PICK m \in DOMAIN order :
           /\ order[m] = [gen |-> latest[x], id |-> x]
           /\ \A j \in DOMAIN order : order[j].id = x => j <= m
    BY <1>1, <1>8 DEF LatestIsNewestMention
  <2>2. /\ ~(Len(order) < CancelledMax)
        /\ order[1].id = x /\ order[1].gen = latest[x]
    <3>1. AfterEviction(latest, order)[x] = Absent
      BY <1>2, <1>8 DEF Remember, AfterEviction, Evict
    <3>2. ~(Len(order) < CancelledMax)
      BY <1>8, <3>1 DEF AfterEviction
    <3>3. Evict(latest, order[1])[x] = Absent
      BY <3>1, <3>2 DEF AfterEviction
    <3>4. QED
      BY <1>2, <1>8, <3>2, <3>3 DEF Evict
  <2>3. k = 1
    BY <2>2 DEF Shift
  <2>4. m = 1
    <3>1. 1 \in DOMAIN order /\ m \in Nat /\ 1 <= m
      BY <1>2, <2>1
    <3>2. order[m].gen = latest[x] /\ latest[x] \in Int
      BY <1>2, <1>8, <2>1 DEF Absent
    <3>3. ~(1 < m)
      BY <1>1, <2>1, <2>2, <3>1, <3>2 DEF GenerationsOrdered
    <3>4. QED
      BY <3>1, <3>3
  <2>5. n # Len(order')
    BY <1>4, <1>8
  <2>6. n + 1 \in DOMAIN order /\ order[n + 1].id = x
    <3> HIDE DEF k
    <3>1. QED
      BY <1>2, <1>4, <1>8, <2>3, <2>5
  <2>7. n \in Nat /\ 1 <= n /\ n + 1 <= 1
    BY <1>2, <1>8, <2>1, <2>4, <2>6
  <2>8. QED
    BY <2>7
<1>9. QED
  BY <1>5, <1>6, <1>7, <1>8

\* The queue with its generations implements the window: the newest mention
\* decides how long a cancelled id is recognised
\* (cancelled_request_id_eviction_preserves_latest_reinserted_id), for every
\* capacity.
THEOREM CancelledImplementsRecent == CancelledSpec => RecentIdsSpec
<1> USE DEF Recent!RRemember, Recent!RTake, Recent!Mentioned
<1>1. CancelledInit => Recent!RInit
  BY DEF CancelledInit, Recent!RInit
<1>2. ASSUME CancelledInv, NEW id \in Ids, Remember(id)
      PROVE  Recent!RRemember(id)
  <2>1. IdsOf(order') = Recent!Slide(IdsOf(order), id)
    BY <1>2, RememberSlides
  <2>2. \A x \in Ids : latest'[x] # Absent <=>
           /\ latest[x] # Absent \/ x = id
           /\ \E i \in DOMAIN order' : order'[i].id = x
    BY <1>2, RememberLive
  <2>3. {x \in Ids : latest'[x] # Absent}
          = ({x \in Ids : latest[x] # Absent} \cup {id})
              \cap {IdsOf(order')[i] : i \in DOMAIN IdsOf(order')}
    BY <2>2 DEF IdsOf
  <2>4. QED
    BY <2>1, <2>3 DEF IdsOf
<1>3. ASSUME CancelledInv, NEW id \in Ids, Take(id)
      PROVE  Recent!RTake(id)
  <2>1. latest \in [Ids -> Nat \cup {Absent}]
    BY <1>3 DEF CancelledInv, CancelledTypeOK
  <2>2. {x \in Ids : latest'[x] # Absent} = {x \in Ids : latest[x] # Absent} \ {id}
    BY <1>3, <2>1 DEF Take
  <2>3. QED
    BY <1>3, <2>2 DEF Take
<1>4. CancelledInv /\ [CancelledNext]_cancelledVars => [Recent!RNext]_Recent!recentVars
  BY <1>2, <1>3 DEF CancelledNext, Recent!RNext, cancelledVars, Recent!recentVars
<1>5. QED
  BY <1>1, <1>4, CancelledInvariant, PTL DEF CancelledSpec, RecentIdsSpec, Recent!RSpec

-----------------------------------------------------------------------------
(***************************************************************************)
(* The client.                                                             *)
(***************************************************************************)

\* Ids are positive numbers.
LEMMA IdsArePositive == \A id \in Ids : id \in Nat /\ id # NoId /\ id \in Int
BY ClientAssumption DEF NoId

\* So are the ids of the requests and the next id.
LEMMA RequestIdsAreNumbers ==
    ASSUME ClientTypeOK
    PROVE  /\ nextId \in Nat /\ nextId \in Int
           /\ \A c \in Callers : req[c] \in Nat /\ req[c] \in Int
<1>1. \A c \in Callers : req[c] \in Ids \/ req[c] = NoId
  BY DEF ClientTypeOK
<1>2. \A c \in Callers : req[c] \in Nat
  BY <1>1, IdsArePositive DEF NoId
<1>3. QED
  BY <1>2 DEF ClientTypeOK

\* Whatever leaves the cache of cancelled ids alone keeps its invariant.
LEMMA CancelledFrame ==
    ASSUME CancelledInv, UNCHANGED cancelledVars
    PROVE  CancelledInv'
BY DEF cancelledVars, CancelledInv, CancelledTypeOK, GenerationsOrdered,
       LatestIsNewestMention

\* Taking senders out of the map keeps it within its limit.
LEMMA FewerPending ==
    ASSUME ClientTypeOK, NEW S \in SUBSET pending
    PROVE  Cardinality(S) <= MaxPending
<1>1. IsFiniteSet(pending) /\ Cardinality(pending) <= MaxPending
  BY ClientAssumption, FS_Subset DEF ClientTypeOK
<1>2. IsFiniteSet(S) /\ Cardinality(S) <= Cardinality(pending)
  BY <1>1, FS_Subset
<1>3. Cardinality(S) \in Nat /\ Cardinality(pending) \in Nat
  BY <1>1, <1>2, FS_CardinalityType
<1>4. QED
  BY <1>1, <1>2, <1>3, ClientAssumption

\* An id in the map was handed out, and its caller is between its registration
\* and its cleanup.
LEMMA PendingIdsAreOwned ==
    ASSUME ClientInv, NEW id \in pending
    PROVE  /\ id \in Ids
           /\ id < nextId
           /\ \A c \in Callers : req[c] = id => pc[c] \in Registered
<1>1. PICK c \in Callers : /\ Owner(c) /\ req[c] = id
                           /\ \A d \in Callers : req[d] = id => d = c
  BY DEF ClientInv, PendingHasOneOwner
<1>2. QED
  BY <1>1 DEF ClientInv, ClientTypeOK, RequestsDiffer, Owner

\* The initial state.
LEMMA ClientInitInv == ClientInit => ClientInv
<1> SUFFICES ASSUME ClientInit PROVE ClientInv
  OBVIOUS
<1> USE ClientAssumption DEF ClientInit, Agents, NoId, closed, Registered
<1>1. ClientTypeOK
  <2>1. Cardinality(pending) <= MaxPending
    BY FS_EmptySet
  <2>2. pc \in [Agents -> Labels]
    BY DEF Labels
  <2>3. then \in [Agents -> {"none", "idle", "failing", "dropping", "answered",
                            "finishing", "stopped", "dropClient"}]
    OBVIOUS
  <2>4. /\ req \in [Callers -> Ids \cup {NoId}]
        /\ answer \in [Ids -> {"none", "reply", "mismatch", "closed"}]
        /\ nextId \in Nat \ {0} /\ pending \in SUBSET Ids
    OBVIOUS
  <2>5. QED
    BY <2>1, <2>2, <2>3, <2>4 DEF ClientTypeOK
<1>2. CancelledInv
  BY CancelledInitInv
<1>3. RequestsDiffer /\ CallersFollowTheirCode /\ OthersFollowTheirCode
  BY DEF RequestsDiffer, CallersFollowTheirCode, OthersFollowTheirCode
<1>4. UnusedIdsAreClean /\ SettledIdsAreGone
  BY DEF UnusedIdsAreClean, SettledIdsAreGone, CancelledInit
<1>5. PendingHasOneOwner /\ AwaitedSenderIsSafe /\ NoStrandedRequest
  BY DEF PendingHasOneOwner, AwaitedSenderIsSafe, NoStrandedRequest, Drained
<1>6. QED
  BY <1>1, <1>2, <1>3, <1>4, <1>5 DEF ClientInv

\* A new request gets an id nobody has or had.
LEMMA StartInv ==
    ASSUME ClientInv, NEW c \in Callers, Start(c)
    PROVE  ClientInv'
<1> USE ClientAssumption
       DEF ClientInv, Start, Goto, Agents, NoId, Registered, Owner, closed,
           Drained, cancelledVars
<1>1. ClientTypeOK'
  BY DEF ClientTypeOK, Labels
<1>2. CancelledInv'
  BY CancelledFrame
<1>3. RequestsDiffer'
  <2>1. \A d \in Callers : req[d] \in Nat
    BY RequestIdsAreNumbers
  <2>2. /\ \A d \in Callers : d # c => req'[d] = req[d]
        /\ req'[c] = nextId /\ nextId \in Nat \ {0} /\ nextId' = nextId + 1
    BY DEF ClientTypeOK
  <2>3. \A d \in Callers : req[d] # nextId
    BY <2>1, <2>2 DEF RequestsDiffer
  <2>4. ASSUME NEW d \in Callers, req'[d] # NoId
        PROVE  /\ req'[d] < nextId'
               /\ \A e \in Callers : req'[e] = req'[d] => e = d
    <3>1. CASE d = c
      BY <2>2, <2>3, <3>1
    <3>2. CASE d # c
      <4>1. req[d] < nextId /\ \A e \in Callers : req[e] = req[d] => e = d
        BY <2>2, <2>4, <3>2 DEF RequestsDiffer
      <4>2. QED
        BY <2>1, <2>2, <2>3, <3>2, <4>1
    <3>3. QED
      BY <3>1, <3>2
  <2>5. QED
    BY <2>4 DEF RequestsDiffer
<1>4. OthersFollowTheirCode' /\ AwaitedSenderIsSafe' /\ SettledIdsAreGone'
  BY DEF OthersFollowTheirCode, AwaitedSenderIsSafe, SettledIdsAreGone
<1>5. NoStrandedRequest'
  BY DEF NoStrandedRequest
<1>6. CallersFollowTheirCode' /\ UnusedIdsAreClean'
  BY DEF CallersFollowTheirCode, UnusedIdsAreClean, ClientTypeOK
<1>7. PendingHasOneOwner'
  BY DEF PendingHasOneOwner, ClientTypeOK, CallersFollowTheirCode, RequestsDiffer
<1>8. QED
  BY <1>1, <1>2, <1>3, <1>4, <1>5, <1>6, <1>7

\* A caller that returns takes its sender along, if it is still in the map, and
\* its channel; no other request notices.
LEMMA ReturnInv ==
    ASSUME ClientInv, NEW c \in Callers, req[c] # NoId, Return(c),
           pending' = pending \ {req[c]},
           UNCHANGED <<then, nextId, closedBy, writeLock, writer, cleanup, aborted,
                       cancelledVars>>,
           pc[c] # "draining"
    PROVE  ClientInv'
<1> USE ClientAssumption
       DEF ClientInv, Return, Goto, Agents, NoId, Registered, Owner, closed, Drained,
           cancelledVars
<1>1. ClientTypeOK'
  <2>1. Cardinality(pending') <= MaxPending
    BY FewerPending
  <2>2. QED
    BY <2>1 DEF ClientTypeOK, Labels
<1>2. CancelledInv'
  BY CancelledFrame
<1>3. RequestsDiffer' /\ CallersFollowTheirCode' /\ OthersFollowTheirCode'
  BY DEF RequestsDiffer, CallersFollowTheirCode, OthersFollowTheirCode, ClientTypeOK
<1>4. UnusedIdsAreClean'
  BY DEF UnusedIdsAreClean, RequestsDiffer, CallersFollowTheirCode, ClientTypeOK,
         cancelledVars
<1>5. PendingHasOneOwner'
  BY DEF PendingHasOneOwner, RequestsDiffer, ClientTypeOK
<1>6. AwaitedSenderIsSafe'
  BY DEF AwaitedSenderIsSafe, RequestsDiffer, ClientTypeOK
<1>7. SettledIdsAreGone'
  BY DEF SettledIdsAreGone, ClientTypeOK, cancelledVars
<1>8. NoStrandedRequest'
  BY DEF NoStrandedRequest, ClientTypeOK
<1>9. QED
  BY <1>1, <1>2, <1>3, <1>4, <1>5, <1>6, <1>7, <1>8

\* Registering adds a fresh id, or refuses the request at the limit.
LEMMA RegisterInv ==
    ASSUME ClientInv, NEW c \in Callers, Register(c)
    PROVE  ClientInv'
<1> USE ClientAssumption DEF Goto, NoId, Registered, Owner, Agents
<1>1. /\ pc[c] = "opened" /\ req[c] \in Ids /\ req[c] # NoId /\ req[c] \notin pending
      /\ ClientTypeOK /\ RequestsDiffer
  BY PendingIdsAreOwned
     DEF Register, ClientInv, ClientTypeOK, CallersFollowTheirCode
<1>2. CASE Cardinality(pending) >= MaxPending
  <2>1. pending' = pending \ {req[c]}
    BY <1>1, <1>2 DEF Register
  <2>2. QED
    BY <1>1, <1>2, <2>1, ReturnInv DEF Register
<1>3. CASE ~(Cardinality(pending) >= MaxPending)
  <2>1. /\ pc' = [pc EXCEPT ![c] = "registered"]
        /\ pending' = pending \cup {req[c]}
        /\ UNCHANGED <<then, req, answer, nextId, closedBy, writeLock, writer,
                       cleanup, aborted, cancelledVars>>
    BY <1>3 DEF Register
  <2> USE <1>1, <2>1
  <2>2. ClientTypeOK'
    <3>1. IsFiniteSet(pending) /\ Cardinality(pending) \in Nat
      BY FS_Subset, FS_CardinalityType DEF ClientTypeOK
    <3>2. Cardinality(pending') = Cardinality(pending) + 1
      BY <3>1, FS_AddElement
    <3>3. Cardinality(pending') <= MaxPending
      BY <1>3, <3>1, <3>2
    <3>4. QED
      BY <3>3 DEF ClientTypeOK, Labels
  <2>3. CancelledInv'
    BY CancelledFrame DEF ClientInv
  <2>4. RequestsDiffer' /\ CallersFollowTheirCode' /\ OthersFollowTheirCode'
    BY DEF ClientInv, ClientTypeOK, RequestsDiffer, CallersFollowTheirCode,
           OthersFollowTheirCode
  <2>5. UnusedIdsAreClean'
    BY DEF ClientInv, ClientTypeOK, UnusedIdsAreClean, RequestsDiffer, cancelledVars,
           CallersFollowTheirCode
  <2>6. PendingHasOneOwner'
    <3>1. ASSUME NEW id \in pending'
          PROVE  \E d \in Callers : /\ Owner(d)' /\ req'[d] = id
                                    /\ \A e \in Callers : req'[e] = id => e = d
      <4>1. CASE id = req[c]
        <5>1. req' = req /\ pc'[c] = "registered"
          BY DEF ClientTypeOK
        <5>2. Owner(c)' /\ req'[c] = id
          BY <4>1, <5>1
        <5>3. \A e \in Callers : req'[e] = id => e = c
          BY <4>1, <5>1 DEF RequestsDiffer
        <5>4. QED
          BY <5>2, <5>3
      <4>2. CASE id # req[c]
        <5>1. req' = req /\ id \in pending
          BY <3>1, <4>2
        <5>2. PICK d \in Callers : /\ Owner(d) /\ req[d] = id
                                   /\ \A e \in Callers : req[e] = id => e = d
          BY <5>1 DEF ClientInv, PendingHasOneOwner
        <5>3. d # c /\ pc'[d] = pc[d]
          BY <4>2, <5>2 DEF ClientTypeOK
        <5>4. QED
          BY <5>1, <5>2, <5>3
      <4>3. QED
        BY <4>1, <4>2
    <3>2. QED
      BY <3>1 DEF PendingHasOneOwner
  <2>7. AwaitedSenderIsSafe'
    BY DEF ClientInv, ClientTypeOK, AwaitedSenderIsSafe, RequestsDiffer
  <2>8. SettledIdsAreGone'
    BY DEF ClientInv, ClientTypeOK, SettledIdsAreGone, UnusedIdsAreClean, cancelledVars
  <2>9. NoStrandedRequest'
    BY DEF ClientInv, ClientTypeOK, NoStrandedRequest, Drained, closed, RequestsDiffer
  <2>10. QED
    BY <2>2, <2>3, <2>4, <2>5, <2>6, <2>7, <2>8, <2>9 DEF ClientInv
<1>4. QED
  BY <1>2, <1>3

\* The second look at `closed`: past it, a caller's sender is still in the map or
\* was answered by the drain.
LEMMA WriteCheckInv ==
    ASSUME ClientInv, NEW c \in Callers, WriteCheck(c)
    PROVE  ClientInv'
<1> USE ClientAssumption
       DEF ClientInv, WriteCheck, Goto, Agents, NoId, Registered,
           Owner, closed, Drained, cancelledVars
<1>1. ClientTypeOK'
  BY DEF ClientTypeOK, Labels
<1>2. CancelledInv'
  BY CancelledFrame
<1>3. RequestsDiffer' /\ SettledIdsAreGone'
  BY DEF RequestsDiffer, SettledIdsAreGone
<1>4. /\ CallersFollowTheirCode'
      /\ OthersFollowTheirCode'
      /\ UnusedIdsAreClean'
      /\ PendingHasOneOwner'
      /\ AwaitedSenderIsSafe'
      /\ NoStrandedRequest'
  BY DEF CallersFollowTheirCode, OthersFollowTheirCode, UnusedIdsAreClean,
         PendingHasOneOwner, AwaitedSenderIsSafe, NoStrandedRequest,
         ClientTypeOK
<1>5. QED
  BY <1>1, <1>2, <1>3, <1>4

\* A notification has no request.
LEMMA NotifyInv ==
    ASSUME ClientInv, NEW c \in Callers, Notify(c)
    PROVE  ClientInv'
<1> USE ClientAssumption
       DEF ClientInv, Notify, Goto, Agents, NoId, Registered,
           Owner, closed, Drained, cancelledVars
<1>1. ClientTypeOK'
  BY DEF ClientTypeOK, Labels
<1>2. CancelledInv'
  BY CancelledFrame
<1>3. /\ RequestsDiffer'
      /\ CallersFollowTheirCode'
      /\ OthersFollowTheirCode'
      /\ UnusedIdsAreClean'
      /\ PendingHasOneOwner'
      /\ SettledIdsAreGone'
      /\ NoStrandedRequest'
  BY DEF RequestsDiffer, CallersFollowTheirCode, OthersFollowTheirCode,
         UnusedIdsAreClean, PendingHasOneOwner, SettledIdsAreGone,
         NoStrandedRequest
<1>4. AwaitedSenderIsSafe'
  BY DEF AwaitedSenderIsSafe, ClientTypeOK, CallersFollowTheirCode
<1>5. QED
  BY <1>1, <1>2, <1>3, <1>4

\* Waiting for the lock and getting it changes no request.
LEMMA AcquireWriteInv ==
    ASSUME ClientInv, NEW c \in Callers, AcquireWrite(c)
    PROVE  ClientInv'
<1> USE ClientAssumption
       DEF ClientInv, AcquireWrite, Goto, Agents, NoId, Registered,
           Owner, closed, Drained, cancelledVars
<1>1. ClientTypeOK'
  BY DEF ClientTypeOK, Labels
<1>2. CancelledInv'
  BY CancelledFrame
<1>3. /\ RequestsDiffer'
      /\ CallersFollowTheirCode'
      /\ OthersFollowTheirCode'
      /\ UnusedIdsAreClean'
      /\ PendingHasOneOwner'
      /\ AwaitedSenderIsSafe'
      /\ SettledIdsAreGone'
      /\ NoStrandedRequest'
  BY DEF RequestsDiffer, CallersFollowTheirCode, OthersFollowTheirCode,
         UnusedIdsAreClean, PendingHasOneOwner, AwaitedSenderIsSafe,
         SettledIdsAreGone, NoStrandedRequest
<1>4. QED
  BY <1>1, <1>2, <1>3

\* A written request waits with its sender still safe.
LEMMA WriteDoneInv ==
    ASSUME ClientInv, NEW c \in Callers, WriteDone(c)
    PROVE  ClientInv'
<1> USE ClientAssumption
       DEF ClientInv, WriteDone, Goto, AfterWrite, Release, Agents, NoId, Registered,
           Owner, closed, Drained, cancelledVars
<1>1. ClientTypeOK'
  BY DEF ClientTypeOK, Labels
<1>2. CancelledInv'
  BY CancelledFrame
<1>3. /\ RequestsDiffer'
      /\ CallersFollowTheirCode'
      /\ OthersFollowTheirCode'
      /\ UnusedIdsAreClean'
      /\ PendingHasOneOwner'
      /\ AwaitedSenderIsSafe'
      /\ SettledIdsAreGone'
      /\ NoStrandedRequest'
  BY DEF RequestsDiffer, CallersFollowTheirCode, OthersFollowTheirCode,
         UnusedIdsAreClean, PendingHasOneOwner, AwaitedSenderIsSafe,
         SettledIdsAreGone, NoStrandedRequest
<1>4. QED
  BY <1>1, <1>2, <1>3

\* A failed write leads through the close path back to the request's own cleanup.
LEMMA WriteFailInv ==
    ASSUME ClientInv, NEW c \in Callers, WriteFail(c)
    PROVE  ClientInv'
<1> USE ClientAssumption
       DEF ClientInv, WriteFail, Goto, AfterWrite, Release, CloseThen, Agents, NoId, Registered,
           Owner, closed, Drained, cancelledVars
<1>1. ClientTypeOK'
  BY DEF ClientTypeOK, Labels
<1>2. CancelledInv'
  BY CancelledFrame
<1>3. /\ RequestsDiffer'
      /\ OthersFollowTheirCode'
      /\ UnusedIdsAreClean'
      /\ PendingHasOneOwner'
      /\ AwaitedSenderIsSafe'
      /\ SettledIdsAreGone'
      /\ NoStrandedRequest'
  BY DEF RequestsDiffer, OthersFollowTheirCode, UnusedIdsAreClean,
         PendingHasOneOwner, AwaitedSenderIsSafe, SettledIdsAreGone,
         NoStrandedRequest
<1>4. CallersFollowTheirCode'
  BY DEF CallersFollowTheirCode, ClientTypeOK
<1>5. QED
  BY <1>1, <1>2, <1>3, <1>4

\* A timeout in the write leads through the close path to the guard.
LEMMA ExpireWriteInv ==
    ASSUME ClientInv, NEW c \in Callers, ExpireWrite(c)
    PROVE  ClientInv'
<1> USE ClientAssumption
       DEF ClientInv, ExpireWrite, Goto, Release, CloseThen, InWrite, Agents, NoId, Registered,
           Owner, closed, Drained, cancelledVars
<1>1. ClientTypeOK'
  BY DEF ClientTypeOK, Labels
<1>2. CancelledInv'
  BY CancelledFrame
<1>3. /\ RequestsDiffer'
      /\ OthersFollowTheirCode'
      /\ UnusedIdsAreClean'
      /\ PendingHasOneOwner'
      /\ AwaitedSenderIsSafe'
      /\ SettledIdsAreGone'
      /\ NoStrandedRequest'
  BY DEF RequestsDiffer, OthersFollowTheirCode, UnusedIdsAreClean,
         PendingHasOneOwner, AwaitedSenderIsSafe, SettledIdsAreGone,
         NoStrandedRequest
<1>4. CallersFollowTheirCode'
  BY DEF CallersFollowTheirCode, ClientTypeOK
<1>5. QED
  BY <1>1, <1>2, <1>3, <1>4

\* A timeout in the wait leads to the guard.
LEMMA ExpireWaitInv ==
    ASSUME ClientInv, NEW c \in Callers, ExpireWait(c)
    PROVE  ClientInv'
<1> USE ClientAssumption
       DEF ClientInv, ExpireWait, Goto, Agents, NoId, Registered,
           Owner, closed, Drained, cancelledVars
<1>1. ClientTypeOK'
  BY DEF ClientTypeOK, Labels
<1>2. CancelledInv'
  BY CancelledFrame
<1>3. /\ RequestsDiffer'
      /\ CallersFollowTheirCode'
      /\ OthersFollowTheirCode'
      /\ UnusedIdsAreClean'
      /\ PendingHasOneOwner'
      /\ AwaitedSenderIsSafe'
      /\ SettledIdsAreGone'
      /\ NoStrandedRequest'
  BY DEF RequestsDiffer, CallersFollowTheirCode, OthersFollowTheirCode,
         UnusedIdsAreClean, PendingHasOneOwner, AwaitedSenderIsSafe,
         SettledIdsAreGone, NoStrandedRequest
<1>4. QED
  BY <1>1, <1>2, <1>3

\* A dropped future leads to the guard.
LEMMA CancelInv ==
    ASSUME ClientInv, NEW c \in Callers, Cancel(c)
    PROVE  ClientInv'
<1> USE ClientAssumption
       DEF ClientInv, Cancel, Goto, Release, InWrite, Agents, NoId, Registered,
           Owner, closed, Drained, cancelledVars
<1>1. ClientTypeOK'
  BY DEF ClientTypeOK, Labels
<1>2. CancelledInv'
  BY CancelledFrame
<1>3. /\ RequestsDiffer'
      /\ CallersFollowTheirCode'
      /\ OthersFollowTheirCode'
      /\ UnusedIdsAreClean'
      /\ PendingHasOneOwner'
      /\ AwaitedSenderIsSafe'
      /\ SettledIdsAreGone'
      /\ NoStrandedRequest'
  BY DEF RequestsDiffer, CallersFollowTheirCode, OthersFollowTheirCode,
         UnusedIdsAreClean, PendingHasOneOwner, AwaitedSenderIsSafe,
         SettledIdsAreGone, NoStrandedRequest
<1>4. QED
  BY <1>1, <1>2, <1>3

\* A request that could not be written takes its sender back.
LEMMA FailInv ==
    ASSUME ClientInv, NEW c \in Callers, Fail(c)
    PROVE  ClientInv'
BY ReturnInv DEF Fail, ClientInv, CallersFollowTheirCode

\* An answered request has no sender in the map any more.
LEMMA TakeAnswerInv ==
    ASSUME ClientInv, NEW c \in Callers, TakeAnswer(c)
    PROVE  ClientInv'
<1>1. req[c] # NoId /\ req[c] \in Ids
  BY DEF TakeAnswer, ClientInv, CallersFollowTheirCode, ClientTypeOK
<1>2. pending' = pending \ {req[c]}
  BY <1>1 DEF TakeAnswer, ClientInv, SettledIdsAreGone
<1>3. QED
  BY <1>1, <1>2, ReturnInv DEF TakeAnswer

\* The guard takes the sender out of the map.
LEMMA GuardRemovesInv ==
    ASSUME ClientInv, NEW c \in Callers, GuardRemoves(c)
    PROVE  ClientInv'
<1> USE ClientAssumption
       DEF ClientInv, GuardRemoves, Goto, Agents, NoId, Registered, Owner, closed,
           Drained, cancelledVars
<1>1. ClientTypeOK'
  <2>1. Cardinality(pending') <= MaxPending
    BY FewerPending
  <2>2. QED
    BY <2>1 DEF ClientTypeOK, Labels
<1>2. CancelledInv'
  BY CancelledFrame
<1>3. /\ RequestsDiffer' /\ CallersFollowTheirCode' /\ OthersFollowTheirCode'
      /\ UnusedIdsAreClean' /\ PendingHasOneOwner'
  BY DEF RequestsDiffer, CallersFollowTheirCode, OthersFollowTheirCode,
         UnusedIdsAreClean, PendingHasOneOwner
<1>4. AwaitedSenderIsSafe'
  BY DEF AwaitedSenderIsSafe, ClientTypeOK, CallersFollowTheirCode, RequestsDiffer
<1>5. SettledIdsAreGone' /\ NoStrandedRequest'
  BY DEF SettledIdsAreGone, NoStrandedRequest
<1>6. QED
  BY <1>1, <1>2, <1>3, <1>4, <1>5

\* The guard's id joins the cancelled ids after it has left the map.
LEMMA GuardRemembersInv ==
    ASSUME ClientInv, NEW c \in Callers, GuardRemembers(c)
    PROVE  ClientInv'
<1> DEFINE id == req[c]
<1>1. /\ pc[c] = "forgetting" /\ id \in Ids /\ id # NoId /\ id \notin pending
      /\ Remember(id) /\ Return(c)
      /\ UNCHANGED <<then, nextId, pending, closedBy, writeLock, writer, cleanup,
                     aborted>>
      /\ CancelledInv
  BY DEF GuardRemembers, ClientInv, ClientTypeOK, CallersFollowTheirCode,
         UnusedIdsAreClean
<1>2. CancelledInv'
  BY <1>1, RememberInv
<1>3. \A x \in Ids : latest'[x] # Absent => latest[x] # Absent \/ x = id
  BY <1>1, RememberLive
<1> USE ClientAssumption
       DEF ClientInv, Return, Goto, Agents, NoId, Registered, Owner, closed, Drained
<1>4. ClientTypeOK'
  BY <1>1 DEF ClientTypeOK, Labels
<1>5. RequestsDiffer' /\ CallersFollowTheirCode' /\ OthersFollowTheirCode'
  BY <1>1 DEF RequestsDiffer, CallersFollowTheirCode, OthersFollowTheirCode,
              ClientTypeOK
<1>6. UnusedIdsAreClean'
  <2>1. id < nextId /\ \A d \in Callers : req[d] = id => d = c
    BY <1>1 DEF RequestsDiffer
  <2>2. id \in Int /\ nextId \in Int
    BY <1>1, IdsArePositive, RequestIdsAreNumbers
  <2>3. \A x \in Ids : x >= nextId => x # id
    BY <2>1, <2>2, IdsArePositive
  <2>4. \A d \in Callers : pc'[d] = "opened" =>
           d # c /\ pc[d] = "opened" /\ req'[d] = req[d] /\ req[d] # id /\ req[d] \in Ids
    BY <1>1, <2>1 DEF ClientTypeOK, CallersFollowTheirCode
  <2>5. \A x \in Ids : answer[x] = "none" => answer'[x] = "none"
    BY <1>1 DEF ClientTypeOK
  <2>6. \A x \in Ids : x # id /\ latest[x] = Absent => latest'[x] = Absent
    BY <1>3
  <2>7. \A d \in Callers : pc'[d] = "forgetting" =>
           pc[d] = "forgetting" /\ req'[d] = req[d]
    BY <1>1 DEF ClientTypeOK
  <2>8. QED
    <3>1. \A x \in Ids : x >= nextId' => answer'[x] = "none" /\ latest'[x] = Absent
      BY <1>1, <2>3, <2>5, <2>6 DEF UnusedIdsAreClean
    <3>2. \A d \in Callers : pc'[d] = "opened" =>
             answer'[req'[d]] = "none" /\ latest'[req'[d]] = Absent
      BY <2>4, <2>5, <2>6 DEF UnusedIdsAreClean
    <3>3. \A d \in Callers : pc'[d] = "forgetting" => req'[d] \notin pending'
      BY <1>1, <2>7 DEF UnusedIdsAreClean
    <3>4. QED
      BY <3>1, <3>2, <3>3 DEF UnusedIdsAreClean
<1>7. PendingHasOneOwner'
  BY <1>1 DEF PendingHasOneOwner, ClientTypeOK
<1>8. AwaitedSenderIsSafe'
  BY <1>1 DEF AwaitedSenderIsSafe, RequestsDiffer, ClientTypeOK
<1>9. SettledIdsAreGone'
  BY <1>1, <1>3 DEF SettledIdsAreGone, ClientTypeOK
<1>10. NoStrandedRequest'
  BY <1>1 DEF NoStrandedRequest, ClientTypeOK
<1>11. QED
  BY <1>2, <1>4, <1>5, <1>6, <1>7, <1>8, <1>9, <1>10

\* The first closer is still draining, so nothing is promised yet; a later one goes
\* straight on.
LEMMA BeginCloseInv ==
    ASSUME ClientInv, NEW x \in Agents, BeginClose(x)
    PROVE  ClientInv'
<1> USE ClientAssumption
       DEF ClientInv, BeginClose, Goto, GoOn, Claim, Agents, NoId, Registered,
           Owner, closed, Drained, cancelledVars
<1>1. ClientTypeOK'
  BY DEF ClientTypeOK, Labels, CallersFollowTheirCode, OthersFollowTheirCode
<1>2. CancelledInv'
  BY CancelledFrame
<1>3. RequestsDiffer' /\ SettledIdsAreGone'
  BY DEF RequestsDiffer, SettledIdsAreGone
<1>4. /\ CallersFollowTheirCode'
      /\ OthersFollowTheirCode'
      /\ UnusedIdsAreClean'
      /\ AwaitedSenderIsSafe'
      /\ NoStrandedRequest'
  BY DEF CallersFollowTheirCode, OthersFollowTheirCode, UnusedIdsAreClean,
         AwaitedSenderIsSafe, NoStrandedRequest, ClientTypeOK
<1>5. PendingHasOneOwner'
  BY DEF PendingHasOneOwner, ClientTypeOK, CallersFollowTheirCode
<1>6. QED
  BY <1>1, <1>2, <1>3, <1>4, <1>5

\* The inline cleanup is over.
LEMMA InlineDoneInv ==
    ASSUME ClientInv, NEW x \in Agents, InlineDone(x)
    PROVE  ClientInv'
<1> USE ClientAssumption
       DEF ClientInv, InlineDone, Goto, GoOn, Agents, NoId, Registered,
           Owner, closed, Drained, cancelledVars
<1>1. ClientTypeOK'
  BY DEF ClientTypeOK, Labels, CallersFollowTheirCode, OthersFollowTheirCode
<1>2. CancelledInv'
  BY CancelledFrame
<1>3. RequestsDiffer' /\ SettledIdsAreGone' /\ NoStrandedRequest'
  BY DEF RequestsDiffer, SettledIdsAreGone, NoStrandedRequest
<1>4. /\ CallersFollowTheirCode'
      /\ OthersFollowTheirCode'
      /\ UnusedIdsAreClean'
      /\ AwaitedSenderIsSafe'
  BY DEF CallersFollowTheirCode, OthersFollowTheirCode, UnusedIdsAreClean,
         AwaitedSenderIsSafe, ClientTypeOK
<1>5. PendingHasOneOwner'
  BY DEF PendingHasOneOwner, ClientTypeOK, CallersFollowTheirCode
<1>6. QED
  BY <1>1, <1>2, <1>3, <1>4, <1>5

\* The drain answers every request that was in the map.
LEMMA DrainInv ==
    ASSUME ClientInv, NEW x \in Agents, DrainAndSchedule(x) \/ DrainAndFinish(x)
    PROVE  ClientInv'
<1> USE ClientAssumption
       DEF ClientInv, DrainAndSchedule, DrainAndFinish, DrainPending, GoOn, Goto,
           Schedules, Agents, NoId, Registered, Owner, closed, Drained,
           cancelledVars
<1>0. \A c \in Callers :
         \/ pc'[c] = pc[c]
         \/ pc'[c] \in {"inline", "idle", "failing", "dropping"}
  BY DEF ClientTypeOK, CallersFollowTheirCode
<1>1. ClientTypeOK'
  <2>1. Cardinality(pending') <= MaxPending
    BY FewerPending
  <2>2. answer' \in [Ids -> {"none", "reply", "mismatch", "closed"}]
    BY DEF ClientTypeOK
  <2>3. QED
    BY <2>1, <2>2 DEF ClientTypeOK, Labels, CallersFollowTheirCode,
                      OthersFollowTheirCode
<1>2. CancelledInv'
  BY CancelledFrame
<1>3. RequestsDiffer' /\ SettledIdsAreGone' /\ PendingHasOneOwner' /\ NoStrandedRequest'
  BY DEF RequestsDiffer, SettledIdsAreGone, PendingHasOneOwner, NoStrandedRequest
<1>4. CallersFollowTheirCode' /\ OthersFollowTheirCode'
  BY DEF CallersFollowTheirCode, OthersFollowTheirCode, ClientTypeOK
<1>5. UnusedIdsAreClean'
  <2>1. \A id \in Ids : id \notin pending => answer'[id] = answer[id]
    OBVIOUS
  <2>2. \A id \in pending : ~(id >= nextId)
    BY PendingIdsAreOwned DEF ClientTypeOK
  <2>3. ASSUME NEW c \in Callers, pc'[c] = "opened"
        PROVE  pc[c] = "opened" /\ req[c] \in Ids /\ req[c] \notin pending
    <3>1. pc[c] = "opened"
      BY <1>0, <2>3
    <3>2. req[c] \in Ids
      BY <3>1 DEF ClientTypeOK, CallersFollowTheirCode
    <3>3. QED
      BY <3>1, <3>2, PendingIdsAreOwned
  <2>4. \A c \in Callers : pc'[c] = "forgetting" => pending' = {}
    OBVIOUS
  <2>5. \A id \in Ids : id >= nextId' => answer'[id] = "none" /\ latest'[id] = Absent
    BY <2>1, <2>2 DEF UnusedIdsAreClean
  <2>6. \A c \in Callers : pc'[c] = "opened" =>
           answer'[req'[c]] = "none" /\ latest'[req'[c]] = Absent
    <3>1. req' = req /\ latest' = latest
      OBVIOUS
    <3>2. \A c \in Callers : pc[c] = "opened" =>
             answer[req[c]] = "none" /\ latest[req[c]] = Absent
      BY DEF UnusedIdsAreClean
    <3>3. QED
      BY <2>1, <2>3, <3>1, <3>2
  <2>7. QED
    BY <2>4, <2>5, <2>6 DEF UnusedIdsAreClean
<1>6. AwaitedSenderIsSafe'
  <2>1. \A id \in Ids : id \in pending \/ answer[id] # "none" => answer'[id] # "none"
    OBVIOUS
  <2>2. \A c \in Callers : req[c] # NoId => req[c] \in Ids
    BY DEF ClientTypeOK
  <2>3. QED
    BY <1>0, <2>1, <2>2 DEF AwaitedSenderIsSafe
<1>7. QED
  BY <1>1, <1>2, <1>3, <1>4, <1>5, <1>6

\* An answer ends the one request it is for; a late one only clears its mark.
LEMMA ReceiveInv ==
    ASSUME ClientInv, NEW id \in Ids, ReceiveAnswer(id) \/ ReceiveMistyped(id)
    PROVE  ClientInv'
<1> USE ClientAssumption
       DEF ClientInv, Goto, AfterMessage, Agents, NoId, Registered, Owner, closed,
           Drained
<1>1. /\ pc[Reader] = "reading"
      /\ pc' = [pc EXCEPT ![Reader] = IF closed THEN "stopped" ELSE "reading"]
      /\ UNCHANGED <<then, req, nextId, closedBy, writeLock, writer, cleanup, aborted>>
      /\ \/ /\ id \in pending /\ pending' = pending \ {id}
            /\ \E what \in {"reply", "mismatch"} :
                  answer' = [answer EXCEPT ![id] = what]
            /\ UNCHANGED cancelledVars
         \/ UNCHANGED <<pending, answer>> /\ (Take(id) \/ UNCHANGED cancelledVars)
  BY DEF ReceiveAnswer, ReceiveMistyped, Send
<1>2. CancelledInv'
  BY <1>1, CancelledFrame, TakeInv
<1>3. \A y \in Ids : latest'[y] # Absent => latest[y] # Absent
  BY <1>1 DEF Take, cancelledVars, CancelledInv, CancelledTypeOK
<1>4. \A c \in Callers : pc'[c] = pc[c]
  BY <1>1 DEF ClientTypeOK
<1>5. \A y \in Ids : answer'[y] # "none" =>
         answer[y] # "none" \/ (y = id /\ id \in pending /\ id \notin pending')
  BY <1>1 DEF ClientTypeOK
<1>6. pending' \in SUBSET pending
  BY <1>1
<1>7. ClientTypeOK'
  <2>1. Cardinality(pending') <= MaxPending
    BY <1>6, FewerPending
  <2>2. pc' \in [Agents -> Labels]
    BY <1>1 DEF ClientTypeOK, Labels
  <2>3. answer' \in [Ids -> {"none", "reply", "mismatch", "closed"}]
    BY <1>1 DEF ClientTypeOK
  <2>4. QED
    BY <1>1, <1>6, <2>1, <2>2, <2>3 DEF ClientTypeOK
<1>8. RequestsDiffer' /\ CallersFollowTheirCode' /\ OthersFollowTheirCode'
  BY <1>1, <1>4 DEF RequestsDiffer, CallersFollowTheirCode, OthersFollowTheirCode,
                    ClientTypeOK
<1>9. UnusedIdsAreClean'
  <2>1. id \in pending =>
           ~(id >= nextId) /\ \A c \in Callers : req[c] = id => pc[c] \in Registered
    BY PendingIdsAreOwned DEF ClientTypeOK
  <2>2. \A c \in Callers : pc[c] = "opened" => req[c] \in Ids
    BY DEF ClientTypeOK, CallersFollowTheirCode
  <2>3. \A y \in Ids : y >= nextId => answer'[y] = "none" /\ latest'[y] = Absent
    BY <1>3, <1>5, <2>1 DEF UnusedIdsAreClean
  <2>4. \A c \in Callers : pc[c] = "opened" =>
           answer'[req[c]] = "none" /\ latest'[req[c]] = Absent
    BY <1>3, <1>5, <2>1, <2>2 DEF UnusedIdsAreClean
  <2>5. QED
    BY <1>1, <1>4, <1>6, <2>3, <2>4 DEF UnusedIdsAreClean
<1>10. PendingHasOneOwner'
  BY <1>1, <1>4, <1>6 DEF PendingHasOneOwner
<1>11. AwaitedSenderIsSafe'
  BY <1>1, <1>4 DEF AwaitedSenderIsSafe, ClientTypeOK
<1>12. SettledIdsAreGone'
  BY <1>3, <1>5, <1>6 DEF SettledIdsAreGone
<1>13. NoStrandedRequest'
  BY <1>1, <1>4, <1>6 DEF NoStrandedRequest, ClientTypeOK
<1>14. QED
  BY <1>2, <1>7, <1>8, <1>9, <1>10, <1>11, <1>12, <1>13

\* A step that touches no caller, no request and not who closed keeps all that
\* is said about requests.
LEMMA CallersFrame ==
    ASSUME ClientInv, ClientTypeOK', OthersFollowTheirCode',
           UNCHANGED <<req, nextId, pending, answer, closedBy, cancelledVars>>,
           \A c \in Callers : pc'[c] = pc[c] /\ then'[c] = then[c],
           Drained' => Drained
    PROVE  ClientInv'
<1> USE DEF ClientInv, Owner
<1>1. CancelledInv'
  BY CancelledFrame
<1>2. RequestsDiffer' /\ CallersFollowTheirCode'
  BY DEF RequestsDiffer, CallersFollowTheirCode
<1>3. UnusedIdsAreClean' /\ SettledIdsAreGone'
  BY DEF UnusedIdsAreClean, SettledIdsAreGone, cancelledVars
<1>4. PendingHasOneOwner' /\ AwaitedSenderIsSafe' /\ NoStrandedRequest'
  BY DEF PendingHasOneOwner, AwaitedSenderIsSafe, NoStrandedRequest
<1>5. QED
  BY <1>1, <1>2, <1>3, <1>4

\* What the reader does besides receiving.
LEMMA ReaderInv ==
    ASSUME ClientInv,
           \/ ReaderAnswers \/ ReaderFlushed \/ ReaderCloses \/ ReaderStops
           \/ AcquireWrite(Reader) \/ WriteDone(Reader) \/ WriteFail(Reader)
    PROVE  ClientInv'
<1> USE ClientAssumption
       DEF ClientInv, ReaderAnswers, ReaderFlushed, ReaderCloses, ReaderStops,
           AcquireWrite, WriteDone, WriteFail, AfterWrite, AfterMessage, CloseThen,
           Release, Goto, InWrite, Agents
<1>1. ClientTypeOK'
  <2>1. pc' \in [Agents -> Labels]
    BY DEF ClientTypeOK, Labels, Registered
  <2>2. then' \in [Agents -> {"none", "idle", "failing", "dropping", "answered",
                              "finishing", "stopped", "dropClient"}]
    BY DEF ClientTypeOK
  <2>3. QED
    BY <2>1, <2>2 DEF ClientTypeOK
<1>2. OthersFollowTheirCode'
  BY DEF OthersFollowTheirCode, ClientTypeOK
<1>3. \A c \in Callers : pc'[c] = pc[c] /\ then'[c] = then[c]
  BY DEF ClientTypeOK
<1>4. Drained' => Drained
  BY DEF Drained, closed, ClientTypeOK
<1>5. QED
  BY <1>1, <1>2, <1>3, <1>4, CallersFrame

\* What the owner of the client and the detached cleanup do.
LEMMA OwnerInv ==
    ASSUME ClientInv, UserStep \/ CleanupStep
    PROVE  ClientInv'
<1> USE ClientAssumption
       DEF ClientInv, UserStep, UserCloses, UserClosesInBackground, UserDropsClient,
           UserGivesUp, CleanupStep, CleanupAborts, CleanupFinishes, CloseThen, Goto,
           SinkIfFree, Agents
<1>1. ClientTypeOK'
  <2>1. pc' \in [Agents -> Labels]
    BY DEF ClientTypeOK, Labels, Registered
  <2>2. then' \in [Agents -> {"none", "idle", "failing", "dropping", "answered",
                              "finishing", "stopped", "dropClient"}]
    BY DEF ClientTypeOK
  <2>3. QED
    BY <2>1, <2>2 DEF ClientTypeOK
<1>2. OthersFollowTheirCode'
  BY DEF OthersFollowTheirCode, ClientTypeOK
<1>3. \A c \in Callers : pc'[c] = pc[c] /\ then'[c] = then[c]
  BY DEF ClientTypeOK
<1>4. Drained' => Drained
  BY DEF Drained, closed, ClientTypeOK
<1>5. QED
  BY <1>1, <1>2, <1>3, <1>4, CallersFrame

\* The closers that finish the close themselves are no callers.
LEMMA FinishInv ==
    ASSUME ClientInv, NEW x \in Agents, FinishClose(x) \/ LastTry(x)
    PROVE  ClientInv'
<1> USE ClientAssumption
       DEF ClientInv, FinishClose, LastTry, Goto, SinkIfFree, Agents
<1>1. x \notin Callers
  BY DEF CallersFollowTheirCode, Registered
<1>2. ClientTypeOK'
  BY DEF ClientTypeOK, Labels, Registered
<1>3. OthersFollowTheirCode'
  BY <1>1 DEF OthersFollowTheirCode, ClientTypeOK
<1>4. \A c \in Callers : pc'[c] = pc[c] /\ then'[c] = then[c]
  BY <1>1 DEF ClientTypeOK
<1>5. Drained' => Drained
  BY DEF Drained, closed, ClientTypeOK
<1>6. QED
  BY <1>2, <1>3, <1>4, <1>5, CallersFrame

\* The invariant is inductive.
LEMMA ClientStepInv == ClientInv /\ [ClientNext]_vars => ClientInv'
<1> SUFFICES ASSUME ClientInv, [ClientNext]_vars
             PROVE  ClientInv'
  OBVIOUS
<1>1. ASSUME NEW c \in Callers, CallerStep(c)
      PROVE  ClientInv'
  BY <1>1, StartInv, RegisterInv, WriteCheckInv, NotifyInv, AcquireWriteInv,
     WriteDoneInv, WriteFailInv, FailInv, ExpireWriteInv, ExpireWaitInv, CancelInv,
     TakeAnswerInv, GuardRemovesInv, GuardRemembersInv DEF CallerStep
<1>2. CASE ReaderStep
  BY <1>2, ReceiveInv, ReaderInv DEF ReaderStep
<1>3. CASE UserStep \/ CleanupStep
  BY <1>3, OwnerInv
<1>4. ASSUME NEW x \in Agents, CloseStep(x)
      PROVE  ClientInv'
  BY <1>4, BeginCloseInv, DrainInv, InlineDoneInv, FinishInv DEF CloseStep
<1>5. CASE UNCHANGED vars
  <2>1. UNCHANGED stateVars /\ UNCHANGED cancelledVars
    BY <1>5 DEF vars
  <2>2. ClientTypeOK' /\ OthersFollowTheirCode'
    BY <2>1 DEF ClientInv, stateVars, ClientTypeOK, OthersFollowTheirCode
  <2>3. QED
    BY <2>1, <2>2, CallersFrame DEF stateVars, Drained, closed
<1>6. QED
  BY <1>1, <1>2, <1>3, <1>4, <1>5 DEF ClientNext

\* Every reachable state satisfies the invariant, whatever the constants.
THEOREM ClientInvariant == ClientSpec => []ClientInv
BY ClientInitInv, ClientStepInv, PTL DEF ClientSpec

\* Types hold, and the pending map never exceeds its limit.
THEOREM ClientTypeCorrect == ClientSpec => []ClientTypeOK
<1>1. ClientInv => ClientTypeOK
  BY DEF ClientInv
<1>2. QED
  BY <1>1, ClientInvariant, PTL

\* A close strands no request, however many callers register while it drains.
THEOREM CloseStrandsNoRequest == ClientSpec => []NoStrandedRequest
<1>1. ClientInv => NoStrandedRequest
  BY DEF ClientInv
<1>2. QED
  BY <1>1, ClientInvariant, PTL

\* Every awaited request can still be answered, and nothing leaks in the map.
THEOREM AwaitedRequestsStayAnswerable ==
    ClientSpec => [](AwaitedSenderIsSafe /\ PendingHasOneOwner /\ SettledIdsAreGone)
<1>1. ClientInv => AwaitedSenderIsSafe /\ PendingHasOneOwner /\ SettledIdsAreGone
  BY DEF ClientInv
<1>2. QED
  BY <1>1, ClientInvariant, PTL

\* Nothing leaks in the map and nothing is answered twice: each pending request has one
\* caller who is not done with it, and the id of a settled one is in the map no more.
THEOREM RequestsStayOwned == ClientSpec => []RequestsAreOwned
<1>1. ClientInv => RequestsAreOwned
  BY DEF ClientInv, RequestsAreOwned
<1>2. QED
  BY <1>1, ClientInvariant, PTL

(***************************************************************************)
(* The connections of a server name.                                       *)
(***************************************************************************)

LEMMA NoConnectionIsZero == 0 \notin ConnIds
BY ServerConnectionAssumption DEF ConnIds

\* The first of the connections that are still to be made.
LEMMA FirstToMake ==
    ASSUME NEW c \in ConnIds, kid[c] = "unmade"
    PROVE  \E d \in ConnIds : kid[d] = "unmade" /\ \A e \in 1 .. d - 1 : kid[e] # "unmade"
<1> DEFINE T == {d \in ConnIds : kid[d] = "unmade"}
           R == {ss \in Nat \X Nat : ss[1] < ss[2]}
<1>1. T \subseteq Nat /\ T # {}
  BY DEF ConnIds
<1>2. IsWellFoundedOn(R, Nat)
  BY NatLessThanWellFounded DEF OpToRel
<1>3. PICK x \in T : \A y \in T : ~ (<<y, x>> \in R)
  <2> HIDE DEF T, R
  <2>1. QED
    BY <1>1, <1>2, WFMin
<1>4. ASSUME NEW e \in 1 .. x - 1 PROVE kid[e] # "unmade"
  <2>1. x \in Nat /\ x \in 1 .. MaxConnections /\ MaxConnections \in Nat
    BY <1>3, ServerConnectionAssumption DEF ConnIds
  <2>2. e \in Nat /\ e < x /\ e \in 1 .. MaxConnections
    BY <2>1
  <2>3. <<e, x>> \in R
    BY <2>1, <2>2
  <2>4. e \notin T
    BY <1>3, <2>3
  <2>5. QED
    BY <2>2, <2>4 DEF ConnIds
<1>5. QED
  BY <1>3, <1>4

LEMMA ConnectionInitInv == ServerConnectionInit => ServerConnectionInv
BY NoConnectionIsZero
   DEF ServerConnectionInit, ServerConnectionInv, ServerConnectionTypeOK, RecordsFitConnection,
       NoChildIsLost, OperationsFit, OneIsToMake, KidStates

\* A dead connection goes to the reaper, and what was kept beside it is forgotten.
LEMMA StartConnectInv ==
    ASSUME ServerConnectionInv, NEW kind \in {"transport", "custom"}, StartConnect(kind) PROVE ServerConnectionInv'
<1>1. ServerConnectionTypeOK'
  BY DEF ServerConnectionInv, ServerConnectionTypeOK, KidStates, StartConnect, DropDead, RemovesConnection, ClearCwd
<1>2. RecordsFitConnection'
  BY NoConnectionIsZero
  DEF ServerConnectionInv, RecordsFitConnection, ServerConnectionTypeOK, OperationsFit, StartConnect, DropDead, RemovesConnection, ClearCwd
<1>3. NoChildIsLost'
  BY NoConnectionIsZero
  DEF ServerConnectionInv, NoChildIsLost, ServerConnectionTypeOK, OperationsFit, StartConnect, DropDead, RemovesConnection, ClearCwd
<1>4. OperationsFit'
  BY NoConnectionIsZero
  DEF ServerConnectionInv, OperationsFit, ServerConnectionTypeOK, StartConnect, DropDead, RemovesConnection, ClearCwd
<1>5. OneIsToMake'
  BY NoConnectionIsZero
  DEF ServerConnectionInv, OneIsToMake, NoChildIsLost, OperationsFit, ServerConnectionTypeOK,
      StartConnect, DropDead, RemovesConnection, ClearCwd
<1>6. QED
  BY <1>1, <1>2, <1>3, <1>4, <1>5 DEF ServerConnectionInv

LEMMA TransportFailsInv ==
    ASSUME ServerConnectionInv, TransportFails PROVE ServerConnectionInv'
<1>1. ServerConnectionTypeOK'
  BY DEF ServerConnectionInv, ServerConnectionTypeOK, KidStates, TransportFails
<1>2. RecordsFitConnection'
  BY NoConnectionIsZero
  DEF ServerConnectionInv, RecordsFitConnection, ServerConnectionTypeOK, OperationsFit, TransportFails
<1>3. NoChildIsLost'
  BY NoConnectionIsZero
  DEF ServerConnectionInv, NoChildIsLost, ServerConnectionTypeOK, OperationsFit, TransportFails
<1>4. OperationsFit'
  BY NoConnectionIsZero
  DEF ServerConnectionInv, OperationsFit, ServerConnectionTypeOK, TransportFails
<1>5. OneIsToMake'
  BY NoConnectionIsZero
  DEF ServerConnectionInv, OneIsToMake, NoChildIsLost, OperationsFit, ServerConnectionTypeOK,
      TransportFails
<1>6. QED
  BY <1>1, <1>2, <1>3, <1>4, <1>5 DEF ServerConnectionInv

LEMMA InitializeFailsInv ==
    ASSUME ServerConnectionInv, InitializeFails PROVE ServerConnectionInv'
<1>1. ServerConnectionTypeOK'
  BY DEF ServerConnectionInv, ServerConnectionTypeOK, KidStates, InitializeFails, Initialising
<1>2. RecordsFitConnection'
  BY NoConnectionIsZero
  DEF ServerConnectionInv, RecordsFitConnection, ServerConnectionTypeOK, OperationsFit, InitializeFails, Initialising
<1>3. NoChildIsLost'
  BY NoConnectionIsZero
  DEF ServerConnectionInv, NoChildIsLost, ServerConnectionTypeOK, OperationsFit, InitializeFails, Initialising
<1>4. OperationsFit'
  BY NoConnectionIsZero
  DEF ServerConnectionInv, OperationsFit, ServerConnectionTypeOK, InitializeFails, Initialising
<1>5. OneIsToMake'
  BY NoConnectionIsZero
  DEF ServerConnectionInv, OneIsToMake, NoChildIsLost, OperationsFit, ServerConnectionTypeOK,
      InitializeFails, Initialising
<1>6. QED
  BY <1>1, <1>2, <1>3, <1>4, <1>5 DEF ServerConnectionInv

\* The connection is in the map, with what was recorded for it and for no other.
LEMMA InstallsInv ==
    ASSUME ServerConnectionInv, Installs PROVE ServerConnectionInv'
<1>1. ServerConnectionTypeOK'
  BY DEF ServerConnectionInv, ServerConnectionTypeOK, KidStates, Installs, Initialising
<1>2. RecordsFitConnection'
  BY NoConnectionIsZero
  DEF ServerConnectionInv, RecordsFitConnection, ServerConnectionTypeOK, OperationsFit, Installs, Initialising
<1>3. NoChildIsLost'
  BY NoConnectionIsZero
  DEF ServerConnectionInv, NoChildIsLost, ServerConnectionTypeOK, OperationsFit, Installs, Initialising
<1>4. OperationsFit'
  BY NoConnectionIsZero
  DEF ServerConnectionInv, OperationsFit, ServerConnectionTypeOK, Installs, Initialising
<1>5. OneIsToMake'
  BY NoConnectionIsZero
  DEF ServerConnectionInv, OneIsToMake, NoChildIsLost, OperationsFit, ServerConnectionTypeOK,
      Installs, Initialising
<1>6. QED
  BY <1>1, <1>2, <1>3, <1>4, <1>5 DEF ServerConnectionInv

LEMMA ProbeInv ==
    ASSUME ServerConnectionInv, Probe PROVE ServerConnectionInv'
<1>1. ServerConnectionTypeOK'
  BY DEF ServerConnectionInv, ServerConnectionTypeOK, KidStates, Probe, DropDead, RemovesConnection, ClearCwd
<1>2. RecordsFitConnection'
  BY NoConnectionIsZero
  DEF ServerConnectionInv, RecordsFitConnection, ServerConnectionTypeOK, OperationsFit, Probe, DropDead, RemovesConnection, ClearCwd
<1>3. NoChildIsLost'
  BY NoConnectionIsZero
  DEF ServerConnectionInv, NoChildIsLost, ServerConnectionTypeOK, OperationsFit, Probe, DropDead, RemovesConnection, ClearCwd
<1>4. OperationsFit'
  BY NoConnectionIsZero
  DEF ServerConnectionInv, OperationsFit, ServerConnectionTypeOK, Probe, DropDead, RemovesConnection, ClearCwd
<1>5. OneIsToMake'
  BY NoConnectionIsZero
  DEF ServerConnectionInv, OneIsToMake, NoChildIsLost, OperationsFit, ServerConnectionTypeOK,
      Probe, DropDead, RemovesConnection, ClearCwd
<1>6. QED
  BY <1>1, <1>2, <1>3, <1>4, <1>5 DEF ServerConnectionInv

LEMMA DisconnectInv ==
    ASSUME ServerConnectionInv, Disconnect PROVE ServerConnectionInv'
<1>1. ServerConnectionTypeOK'
  BY DEF ServerConnectionInv, ServerConnectionTypeOK, KidStates, Disconnect, RemovesConnection, ClearCwd
<1>2. RecordsFitConnection'
  BY NoConnectionIsZero
  DEF ServerConnectionInv, RecordsFitConnection, ServerConnectionTypeOK, OperationsFit, Disconnect, RemovesConnection, ClearCwd
<1>3. NoChildIsLost'
  BY NoConnectionIsZero
  DEF ServerConnectionInv, NoChildIsLost, ServerConnectionTypeOK, OperationsFit, Disconnect, RemovesConnection, ClearCwd
<1>4. OperationsFit'
  BY NoConnectionIsZero
  DEF ServerConnectionInv, OperationsFit, ServerConnectionTypeOK, Disconnect, RemovesConnection, ClearCwd
<1>5. OneIsToMake'
  BY NoConnectionIsZero
  DEF ServerConnectionInv, OneIsToMake, NoChildIsLost, OperationsFit, ServerConnectionTypeOK,
      Disconnect, RemovesConnection, ClearCwd
<1>6. QED
  BY <1>1, <1>2, <1>3, <1>4, <1>5 DEF ServerConnectionInv

LEMMA DisconnectAndWaitInv ==
    ASSUME ServerConnectionInv, DisconnectAndWait PROVE ServerConnectionInv'
<1>1. ServerConnectionTypeOK'
  BY DEF ServerConnectionInv, ServerConnectionTypeOK, KidStates, DisconnectAndWait, RemovesConnection, ClearCwd
<1>2. RecordsFitConnection'
  BY NoConnectionIsZero
  DEF ServerConnectionInv, RecordsFitConnection, ServerConnectionTypeOK, OperationsFit, DisconnectAndWait, RemovesConnection, ClearCwd
<1>3. NoChildIsLost'
  BY NoConnectionIsZero
  DEF ServerConnectionInv, NoChildIsLost, ServerConnectionTypeOK, OperationsFit, DisconnectAndWait, RemovesConnection, ClearCwd
<1>4. OperationsFit'
  BY NoConnectionIsZero
  DEF ServerConnectionInv, OperationsFit, ServerConnectionTypeOK, DisconnectAndWait, RemovesConnection, ClearCwd
<1>5. OneIsToMake'
  BY NoConnectionIsZero
  DEF ServerConnectionInv, OneIsToMake, NoChildIsLost, OperationsFit, ServerConnectionTypeOK,
      DisconnectAndWait, RemovesConnection, ClearCwd
<1>6. QED
  BY <1>1, <1>2, <1>3, <1>4, <1>5 DEF ServerConnectionInv

LEMMA TakeConnectionInv ==
    ASSUME ServerConnectionInv, TakeConnection PROVE ServerConnectionInv'
<1>1. ServerConnectionTypeOK'
  BY DEF ServerConnectionInv, ServerConnectionTypeOK, KidStates, TakeConnection, RemovesConnection, ClearCwd
<1>2. RecordsFitConnection'
  BY NoConnectionIsZero
  DEF ServerConnectionInv, RecordsFitConnection, ServerConnectionTypeOK, OperationsFit, TakeConnection, RemovesConnection, ClearCwd
<1>3. NoChildIsLost'
  BY NoConnectionIsZero
  DEF ServerConnectionInv, NoChildIsLost, ServerConnectionTypeOK, OperationsFit, TakeConnection, RemovesConnection, ClearCwd
<1>4. OperationsFit'
  BY NoConnectionIsZero
  DEF ServerConnectionInv, OperationsFit, ServerConnectionTypeOK, TakeConnection, RemovesConnection, ClearCwd
<1>5. OneIsToMake'
  BY NoConnectionIsZero
  DEF ServerConnectionInv, OneIsToMake, NoChildIsLost, OperationsFit, ServerConnectionTypeOK,
      TakeConnection, RemovesConnection, ClearCwd
<1>6. QED
  BY <1>1, <1>2, <1>3, <1>4, <1>5 DEF ServerConnectionInv

LEMMA StartCallInv ==
    ASSUME ServerConnectionInv, StartCall PROVE ServerConnectionInv'
<1>1. ServerConnectionTypeOK'
  BY DEF ServerConnectionInv, ServerConnectionTypeOK, KidStates, StartCall, Live
<1>2. RecordsFitConnection'
  BY NoConnectionIsZero
  DEF ServerConnectionInv, RecordsFitConnection, ServerConnectionTypeOK, OperationsFit, StartCall, Live
<1>3. NoChildIsLost'
  BY NoConnectionIsZero
  DEF ServerConnectionInv, NoChildIsLost, ServerConnectionTypeOK, OperationsFit, StartCall, Live
<1>4. OperationsFit'
  BY NoConnectionIsZero
  DEF ServerConnectionInv, OperationsFit, ServerConnectionTypeOK, StartCall, Live
<1>5. OneIsToMake'
  BY NoConnectionIsZero
  DEF ServerConnectionInv, OneIsToMake, NoChildIsLost, OperationsFit, ServerConnectionTypeOK,
      StartCall, Live
<1>6. QED
  BY <1>1, <1>2, <1>3, <1>4, <1>5 DEF ServerConnectionInv

LEMMA CallEndsInv ==
    ASSUME ServerConnectionInv, CallEnds PROVE ServerConnectionInv'
<1>1. ServerConnectionTypeOK'
  BY DEF ServerConnectionInv, ServerConnectionTypeOK, KidStates, CallEnds
<1>2. RecordsFitConnection'
  BY NoConnectionIsZero
  DEF ServerConnectionInv, RecordsFitConnection, ServerConnectionTypeOK, OperationsFit, CallEnds
<1>3. NoChildIsLost'
  BY NoConnectionIsZero
  DEF ServerConnectionInv, NoChildIsLost, ServerConnectionTypeOK, OperationsFit, CallEnds
<1>4. OperationsFit'
  BY NoConnectionIsZero
  DEF ServerConnectionInv, OperationsFit, ServerConnectionTypeOK, CallEnds
<1>5. OneIsToMake'
  BY NoConnectionIsZero
  DEF ServerConnectionInv, OneIsToMake, NoChildIsLost, OperationsFit, ServerConnectionTypeOK,
      CallEnds
<1>6. QED
  BY <1>1, <1>2, <1>3, <1>4, <1>5 DEF ServerConnectionInv

LEMMA CallBreaksInv ==
    ASSUME ServerConnectionInv, CallBreaks PROVE ServerConnectionInv'
<1>1. ServerConnectionTypeOK'
  BY DEF ServerConnectionInv, ServerConnectionTypeOK, KidStates, CallBreaks, RemovesConnection
<1>2. RecordsFitConnection'
  BY NoConnectionIsZero
  DEF ServerConnectionInv, RecordsFitConnection, ServerConnectionTypeOK, OperationsFit, CallBreaks, RemovesConnection
<1>3. NoChildIsLost'
  BY NoConnectionIsZero
  DEF ServerConnectionInv, NoChildIsLost, ServerConnectionTypeOK, OperationsFit, CallBreaks, RemovesConnection
<1>4. OperationsFit'
  BY NoConnectionIsZero
  DEF ServerConnectionInv, OperationsFit, ServerConnectionTypeOK, CallBreaks, RemovesConnection
<1>5. OneIsToMake'
  BY NoConnectionIsZero
  DEF ServerConnectionInv, OneIsToMake, NoChildIsLost, OperationsFit, ServerConnectionTypeOK,
      CallBreaks, RemovesConnection
<1>6. QED
  BY <1>1, <1>2, <1>3, <1>4, <1>5 DEF ServerConnectionInv

\* The wait has joined the child, or has left it to the reaper.
LEMMA WaitIsOverInv ==
    ASSUME ServerConnectionInv, WaitIsOver PROVE ServerConnectionInv'
<1>1. ServerConnectionTypeOK'
  BY DEF ServerConnectionInv, ServerConnectionTypeOK, KidStates, WaitIsOver, ClearCwd
<1>2. RecordsFitConnection'
  BY NoConnectionIsZero
  DEF ServerConnectionInv, RecordsFitConnection, ServerConnectionTypeOK, OperationsFit, WaitIsOver, ClearCwd
<1>3. NoChildIsLost'
  BY NoConnectionIsZero
  DEF ServerConnectionInv, NoChildIsLost, ServerConnectionTypeOK, OperationsFit, WaitIsOver, ClearCwd
<1>4. OperationsFit'
  BY NoConnectionIsZero
  DEF ServerConnectionInv, OperationsFit, ServerConnectionTypeOK, WaitIsOver, ClearCwd
<1>5. OneIsToMake'
  BY NoConnectionIsZero
  DEF ServerConnectionInv, OneIsToMake, NoChildIsLost, OperationsFit, ServerConnectionTypeOK,
      WaitIsOver, ClearCwd
<1>6. QED
  BY <1>1, <1>2, <1>3, <1>4, <1>5 DEF ServerConnectionInv

\* A dropped future takes the connection in its hand along.
LEMMA OpDroppedInv ==
    ASSUME ServerConnectionInv, OpDropped PROVE ServerConnectionInv'
<1>1. ServerConnectionTypeOK'
  BY DEF ServerConnectionInv, ServerConnectionTypeOK, KidStates, OpDropped
<1>2. RecordsFitConnection'
  BY NoConnectionIsZero
  DEF ServerConnectionInv, RecordsFitConnection, ServerConnectionTypeOK, OperationsFit, OpDropped
<1>3. NoChildIsLost'
  BY NoConnectionIsZero
  DEF ServerConnectionInv, NoChildIsLost, ServerConnectionTypeOK, OperationsFit, OpDropped
<1>4. OperationsFit'
  BY NoConnectionIsZero
  DEF ServerConnectionInv, OperationsFit, ServerConnectionTypeOK, OpDropped
<1>5. OneIsToMake'
  BY NoConnectionIsZero
  DEF ServerConnectionInv, OneIsToMake, NoChildIsLost, OperationsFit, ServerConnectionTypeOK,
      OpDropped
<1>6. QED
  BY <1>1, <1>2, <1>3, <1>4, <1>5 DEF ServerConnectionInv

LEMMA KidExitsInv ==
    ASSUME ServerConnectionInv, NEW c \in ConnIds, KidExits(c) PROVE ServerConnectionInv'
<1>1. ServerConnectionTypeOK'
  BY DEF ServerConnectionInv, ServerConnectionTypeOK, KidStates, KidExits
<1>2. RecordsFitConnection'
  BY NoConnectionIsZero
  DEF ServerConnectionInv, RecordsFitConnection, ServerConnectionTypeOK, OperationsFit, KidExits
<1>3. NoChildIsLost'
  BY NoConnectionIsZero
  DEF ServerConnectionInv, NoChildIsLost, ServerConnectionTypeOK, OperationsFit, KidExits
<1>4. OperationsFit'
  BY NoConnectionIsZero
  DEF ServerConnectionInv, OperationsFit, ServerConnectionTypeOK, KidExits
<1>5. OneIsToMake'
  BY NoConnectionIsZero
  DEF ServerConnectionInv, OneIsToMake, NoChildIsLost, OperationsFit, ServerConnectionTypeOK,
      KidExits
<1>6. QED
  BY <1>1, <1>2, <1>3, <1>4, <1>5 DEF ServerConnectionInv

LEMMA GoesDeafInv ==
    ASSUME ServerConnectionInv, NEW c \in ConnIds, GoesDeaf(c) PROVE ServerConnectionInv'
<1>1. ServerConnectionTypeOK'
  BY DEF ServerConnectionInv, ServerConnectionTypeOK, KidStates, GoesDeaf
<1>2. RecordsFitConnection'
  BY NoConnectionIsZero
  DEF ServerConnectionInv, RecordsFitConnection, ServerConnectionTypeOK, OperationsFit, GoesDeaf
<1>3. NoChildIsLost'
  BY NoConnectionIsZero
  DEF ServerConnectionInv, NoChildIsLost, ServerConnectionTypeOK, OperationsFit, GoesDeaf
<1>4. OperationsFit'
  BY NoConnectionIsZero
  DEF ServerConnectionInv, OperationsFit, ServerConnectionTypeOK, GoesDeaf
<1>5. OneIsToMake'
  BY NoConnectionIsZero
  DEF ServerConnectionInv, OneIsToMake, NoChildIsLost, OperationsFit, ServerConnectionTypeOK,
      GoesDeaf
<1>6. QED
  BY <1>1, <1>2, <1>3, <1>4, <1>5 DEF ServerConnectionInv

\* The reaper kills, then waits.
LEMMA ReapInv ==
    ASSUME ServerConnectionInv, NEW c \in ConnIds, Reap(c) PROVE ServerConnectionInv'
<1>1. ServerConnectionTypeOK'
  BY DEF ServerConnectionInv, ServerConnectionTypeOK, KidStates, Reap
<1>2. RecordsFitConnection'
  BY NoConnectionIsZero
  DEF ServerConnectionInv, RecordsFitConnection, ServerConnectionTypeOK, OperationsFit, Reap
<1>3. NoChildIsLost'
  BY NoConnectionIsZero
  DEF ServerConnectionInv, NoChildIsLost, ServerConnectionTypeOK, OperationsFit, Reap
<1>4. OperationsFit'
  BY NoConnectionIsZero
  DEF ServerConnectionInv, OperationsFit, ServerConnectionTypeOK, Reap
<1>5. OneIsToMake'
  BY NoConnectionIsZero
  DEF ServerConnectionInv, OneIsToMake, NoChildIsLost, OperationsFit, ServerConnectionTypeOK,
      Reap
<1>6. QED
  BY <1>1, <1>2, <1>3, <1>4, <1>5 DEF ServerConnectionInv

LEMMA UserDropsInv ==
    ASSUME ServerConnectionInv, NEW c \in ConnIds, UserDrops(c) PROVE ServerConnectionInv'
<1>1. ServerConnectionTypeOK'
  BY DEF ServerConnectionInv, ServerConnectionTypeOK, KidStates, UserDrops
<1>2. RecordsFitConnection'
  BY NoConnectionIsZero
  DEF ServerConnectionInv, RecordsFitConnection, ServerConnectionTypeOK, OperationsFit, UserDrops
<1>3. NoChildIsLost'
  BY NoConnectionIsZero
  DEF ServerConnectionInv, NoChildIsLost, ServerConnectionTypeOK, OperationsFit, UserDrops
<1>4. OperationsFit'
  BY NoConnectionIsZero
  DEF ServerConnectionInv, OperationsFit, ServerConnectionTypeOK, UserDrops
<1>5. OneIsToMake'
  BY NoConnectionIsZero
  DEF ServerConnectionInv, OneIsToMake, NoChildIsLost, OperationsFit, ServerConnectionTypeOK,
      UserDrops
<1>6. QED
  BY <1>1, <1>2, <1>3, <1>4, <1>5 DEF ServerConnectionInv


\* The transport is up: the connection is one that was not made before.
LEMMA TransportIsUpInv ==
    ASSUME ServerConnectionInv, TransportIsUp PROVE ServerConnectionInv'
<1> DEFINE c == CHOOSE d \in ConnIds : kid[d] = "unmade" /\ \A e \in 1 .. d - 1 : kid[e] # "unmade"
<1>1. c \in ConnIds /\ kid[c] = "unmade"
  <2>1. \E d \in ConnIds : kid[d] = "unmade"
    BY DEF ServerConnectionInv, OneIsToMake, TransportIsUp
  <2>2. \E d \in ConnIds : kid[d] = "unmade" /\ \A e \in 1 .. d - 1 : kid[e] # "unmade"
    BY <2>1, FirstToMake
  <2>3. QED
    BY <2>2
<1>2. /\ manOp \in {"transport", "custom"} /\ opConn' = c
      /\ \E k \in {"none", "running"} : kid' = [kid EXCEPT ![c] = k]
      /\ holder' = [holder EXCEPT ![c] = "operation"]
      /\ manOp' = IF manOp = "transport" THEN "initialising" ELSE "custom initialising"
      /\ UNCHANGED <<conn, initOf, cwdOf, configOf, mismatchOf, deaf>>
  BY DEF TransportIsUp
<1> HIDE DEF c
<1>3. ServerConnectionTypeOK'
  BY <1>1, <1>2 DEF ServerConnectionInv, ServerConnectionTypeOK, KidStates
<1>4. RecordsFitConnection'
  BY <1>2 DEF ServerConnectionInv, RecordsFitConnection
<1>5. OperationsFit'
  BY <1>1, <1>2, NoConnectionIsZero DEF ServerConnectionInv, OperationsFit
<1>6. conn = 0 /\ opConn = 0 /\ c # 0
  BY <1>1, <1>2, NoConnectionIsZero DEF ServerConnectionInv, OperationsFit
<1>7. NoChildIsLost'
  BY <1>1, <1>2, <1>6, NoConnectionIsZero
  DEF ServerConnectionInv, NoChildIsLost, ServerConnectionTypeOK
<1>8. OneIsToMake'
  BY <1>1, <1>2 DEF ServerConnectionInv, OneIsToMake, ServerConnectionTypeOK
<1>9. QED
  BY <1>3, <1>4, <1>5, <1>7, <1>8 DEF ServerConnectionInv

LEMMA ConnectionStepInv ==
    ServerConnectionInv /\ [ServerConnectionNext]_manVars => ServerConnectionInv'
<1> SUFFICES ASSUME ServerConnectionInv, [ServerConnectionNext]_manVars
             PROVE  ServerConnectionInv'
  OBVIOUS
<1>1. ASSUME NEW kind \in {"transport", "custom"}, StartConnect(kind) PROVE ServerConnectionInv'
  BY <1>1, StartConnectInv
<1>2. CASE TransportFails
  BY <1>2, TransportFailsInv
<1>3. CASE TransportIsUp
  BY <1>3, TransportIsUpInv
<1>4. CASE InitializeFails
  BY <1>4, InitializeFailsInv
<1>5. CASE Installs
  BY <1>5, InstallsInv
<1>6. CASE Probe
  BY <1>6, ProbeInv
<1>7. CASE Disconnect
  BY <1>7, DisconnectInv
<1>8. CASE DisconnectAndWait
  BY <1>8, DisconnectAndWaitInv
<1>9. CASE TakeConnection
  BY <1>9, TakeConnectionInv
<1>10. CASE StartCall
  BY <1>10, StartCallInv
<1>11. CASE CallEnds
  BY <1>11, CallEndsInv
<1>12. CASE CallBreaks
  BY <1>12, CallBreaksInv
<1>13. CASE WaitIsOver
  BY <1>13, WaitIsOverInv
<1>14. CASE OpDropped
  BY <1>14, OpDroppedInv
<1>15. ASSUME NEW c \in ConnIds, KidExits(c) \/ GoesDeaf(c) \/ Reap(c) \/ UserDrops(c)
       PROVE  ServerConnectionInv'
  BY <1>15, KidExitsInv, GoesDeafInv, ReapInv, UserDropsInv
<1>16. CASE UNCHANGED manVars
  BY <1>16
  DEF manVars, ServerConnectionInv, ServerConnectionTypeOK, RecordsFitConnection, NoChildIsLost,
      OperationsFit, OneIsToMake
<1>17. QED
  BY <1>1, <1>2, <1>3, <1>4, <1>5, <1>6, <1>7, <1>8, <1>9, <1>10, <1>11, <1>12, <1>13, <1>14,
     <1>15, <1>16
  DEF ServerConnectionNext

\* However connects, calls, disconnects, dropped futures and dying servers follow on each
\* other: what the manager keeps beside a connection was recorded for that connection,
\* every connection has one owner, and no child is left without one.
THEOREM ConnectionsStayTracked == ServerConnectionSpec => []ConnectionsAreTracked
<1>1. ServerConnectionInv => ConnectionsAreTracked
  BY DEF ServerConnectionInv, ConnectionsAreTracked
<1>2. QED
  BY <1>1, ConnectionInitInv, ConnectionStepInv, PTL DEF ServerConnectionSpec

\* What is appended to a sequence is its last place, and the others stay.
LEMMA AppendedIs ==
    ASSUME NEW S, NEW s \in Seq(S), NEW e \in S, NEW r, r = Append(s, e)
    PROVE  /\ Len(s) \in Nat /\ DOMAIN s = 1 .. Len(s) /\ DOMAIN r = 1 .. Len(s) + 1
           /\ r[Len(s) + 1] = e
           /\ \A n \in 1 .. Len(s) : r[n] = s[n]
<1>1. /\ r \in Seq(S) /\ Len(r) = Len(s) + 1
      /\ \A n \in 1 .. Len(s) : r[n] = s[n]
      /\ r[Len(s) + 1] = e
  BY AppendProperties
<1>2. Len(s) \in Nat /\ DOMAIN s = 1 .. Len(s) /\ DOMAIN r = 1 .. Len(r)
  BY <1>1, LenProperties
<1>3. QED
  BY <1>1, <1>2

\* Taking the head leaves the rest, one place further on.
LEMMA TailIs ==
    ASSUME NEW S, NEW s \in Seq(S), s # <<>>
    PROVE  /\ Tail(s) \in Seq(S) /\ Head(s) \in S /\ Head(s) = s[1]
           /\ Len(s) \in Nat \ {0}
           /\ DOMAIN s = 1 .. Len(s) /\ DOMAIN Tail(s) = 1 .. Len(s) - 1
           /\ \A n \in 1 .. Len(s) - 1 : Tail(s)[n] = s[n + 1]
<1>1. /\ Head(s) \in S /\ Tail(s) \in Seq(S) /\ Len(Tail(s)) = Len(s) - 1
      /\ \A n \in 1 .. Len(Tail(s)) : Tail(s)[n] = s[n + 1]
  BY HeadTailProperties
<1>2. Len(s) \in Nat /\ Len(s) # 0 /\ DOMAIN s = 1 .. Len(s)
  BY LenProperties, EmptySeq
<1>3. Tail(s) \in Seq(S) /\ DOMAIN Tail(s) = 1 .. Len(Tail(s))
  BY <1>1, LenProperties
<1>4. Head(s) = s[1]
  OBVIOUS
<1>5. QED
  BY <1>1, <1>2, <1>3, <1>4

-----------------------------------------------------------------------------
(***************************************************************************)
(* The handlers of what the server asks and tells.                         *)
(***************************************************************************)

LEMMA ItemsHaveDrivers == \A i \in Items : DriverOf(i) \in Drivers
BY DEF DriverOf, Drivers

LEMMA AsksAreItems == Asks \subseteq Items
BY DEF Items

\* The types of what a step starts from.
LEMMA HandlersTypes ==
    ASSUME HandlersInv
    PROVE  /\ itemPc \in [Items -> {"away", "queued", "handling", "answering", "finished",
                                    "panicked", "over"}]
           /\ reply \in [Items -> {"none", "sent", "dropped", "cut"}]
           /\ driverPc \in [Drivers -> {"running", "over"}]
           /\ itemQueue \in [Drivers -> Seq(Items)]
           /\ \A d \in Drivers : IsFiniteSet(InFlight(d))
           /\ IsFiniteSet(BeingHandled)
<1>1. HandlersTyped
  BY DEF HandlersInv
<1>2. IsFiniteSet(InFlight("asks") \cup InFlight("tells"))
  BY <1>1, FS_Union DEF HandlersTyped, Drivers
<1>3. BeingHandled \subseteq InFlight("asks") \cup InFlight("tells")
  BY DEF BeingHandled, InFlight, DriverOf
<1>4. IsFiniteSet(BeingHandled)
  BY <1>2, <1>3, FS_Subset
<1>5. QED
  BY <1>1, <1>4 DEF HandlersTyped

\* The two sets the counters count do not change.
LEMMA CountsStay ==
    ASSUME HandlersInv, UNCHANGED handlerScopes, BeingHandled' = BeingHandled,
           \A d \in Drivers : InFlight(d)' = InFlight(d)
    PROVE  /\ handlerScopes' = Cardinality(BeingHandled)'
           /\ \A d \in Drivers : /\ Cardinality(InFlight(d))' <= HandlerConcurrency
                                 /\ IsFiniteSet(InFlight(d))'
<1>1. handlerScopes = Cardinality(BeingHandled)
  BY DEF HandlersInv, HandlersAreCounted, BeingHandled
<1>2. \A d \in Drivers : Cardinality(InFlight(d)) <= HandlerConcurrency /\ IsFiniteSet(InFlight(d))
  BY HandlersTypes DEF HandlersInv, HandlersAreCounted
<1>3. QED
  BY <1>1, <1>2

\* What is over stays so, and what comes to its end is answered.
LEMMA AnswersStay ==
    ASSUME HandlersInv, connDropped => connDropped',
           \A i \in Items : itemPc[i] = "over" => itemPc'[i] = "over" /\ reply'[i] = reply[i],
           \A i \in Asks : itemPc'[i] = "over" /\ itemPc[i] # "over" =>
               /\ reply'[i] # "none"
               /\ reply'[i] = "cut" =>
                     connDropped' \/ \E j \in Asks \ {i} : itemPc'[j] = "over" /\ reply'[j] = "dropped"
    PROVE  RequestsAreAnswered'
<1>1. RequestsAreAnswered
  BY DEF HandlersInv
<1>2. SUFFICES ASSUME NEW i \in Asks, itemPc'[i] = "over", itemPc[i] = "over"
               PROVE  /\ reply'[i] # "none"
                      /\ reply'[i] = "cut" =>
                            \/ connDropped'
                            \/ \E j \in Asks \ {i} : itemPc'[j] = "over" /\ reply'[j] = "dropped"
  BY DEF RequestsAreAnswered
<1>3. reply'[i] = reply[i] /\ reply[i] # "none"
  BY <1>1, <1>2, AsksAreItems DEF RequestsAreAnswered
<1>4. CASE reply[i] = "cut" /\ ~connDropped
  <2>1. PICK j \in Asks \ {i} : itemPc[j] = "over" /\ reply[j] = "dropped"
    BY <1>1, <1>2, <1>4 DEF RequestsAreAnswered
  <2>2. itemPc'[j] = "over" /\ reply'[j] = "dropped"
    BY <2>1, AsksAreItems
  <2>3. QED
    BY <1>3, <2>1, <2>2
<1>5. CASE connDropped \/ reply[i] # "cut"
  BY <1>3, <1>5
<1>6. QED
  BY <1>4, <1>5

\* Nothing moves in a channel.
LEMMA QueuesStay ==
    ASSUME HandlersInv, UNCHANGED itemQueue,
           \A i \in Items : itemPc[i] = "queued" => itemPc'[i] = "queued"
    PROVE  QueuesFit'
<1>1. QueuesFit /\ HandlersTyped
  BY DEF HandlersInv
<1>2. \A d \in Drivers : \A n \in DOMAIN itemQueue[d] : itemQueue[d][n] \in Items
  BY <1>1 DEF HandlersTyped
<1>3. QED
  BY <1>1, <1>2 DEF QueuesFit

\* Whatever leaves the count of the timeouts alone.
LEMMA TasksMove ==
    ASSUME HandlersInv, UNCHANGED timeoutVars, HandlersTyped', QueuesFit', RepliesFit',
           HandlersAreCounted', RequestsAreAnswered',
           \A d \in Drivers : driverPc[d] = "over" => driverPc'[d] = "over"
    PROVE  HandlersInv'
<1>1. TimeoutsAreCounted'
  BY DEF HandlersInv, TimeoutsAreCounted, timeoutVars
<1>2. TakeFits'
  BY DEF HandlersInv, TakeFits, timeoutVars
<1>3. QED
  BY <1>1, <1>2 DEF HandlersInv

LEMMA HandlersInitInv == ServerHandlersInit => HandlersInv
<1> SUFFICES ASSUME ServerHandlersInit PROVE HandlersInv
  OBVIOUS
<1>1. /\ \A i \in Items : itemPc[i] = "away" /\ reply[i] = "none"
      /\ \A d \in Drivers : itemQueue[d] = <<>> /\ driverPc[d] = "running"
  BY DEF ServerHandlersInit
<1>2. BeingHandled = {} /\ \A d \in Drivers : InFlight(d) = {}
  BY <1>1 DEF BeingHandled, InFlight
<1>3. HandlersTyped
  BY <1>2, FS_EmptySet, EmptySeq DEF ServerHandlersInit, HandlersTyped
<1>4. QueuesFit
  BY <1>1 DEF QueuesFit
<1>5. RepliesFit /\ RequestsAreAnswered
  BY <1>1, AsksAreItems DEF RepliesFit, RequestsAreAnswered
<1>6. HandlersAreCounted
  <2>1. handlerScopes = Cardinality(BeingHandled)
    BY <1>2, FS_EmptySet DEF ServerHandlersInit
  <2>2. \A d \in Drivers : Cardinality(InFlight(d)) <= HandlerConcurrency
    <3>1. 0 <= HandlerConcurrency
      BY ServerHandlersAssumption
    <3>2. QED
      BY <1>2, <3>1, FS_EmptySet
  <2>3. QED
    BY <1>1, <1>2, <2>1, <2>2 DEF HandlersAreCounted, BeingHandled
<1>7. TimeoutsAreCounted /\ TakeFits
  BY DEF ServerHandlersInit, TimeoutsAreCounted, TakeFits
<1>8. QED
  BY <1>3, <1>4, <1>5, <1>6, <1>7 DEF HandlersInv

\* What the server sends waits in its driver's channel, or is dropped where that is closed.
LEMMA ArrivesInv ==
    ASSUME HandlersInv, NEW i \in Items, Arrives(i) PROVE HandlersInv'
<1> DEFINE d == DriverOf(i)
<1>1. d \in Drivers /\ itemPc[i] = "away" /\ reply[i] = "none"
  BY ItemsHaveDrivers DEF Arrives, HandlersInv, RepliesFit
<1>2. UNCHANGED <<driverPc, handlerScopes, clientOpen, connDropped, timeoutVars>>
  BY DEF Arrives
<1>3. PICK to \in {"queued", "over"} : itemPc' = [itemPc EXCEPT ![i] = to]
  BY DEF Arrives
<1>4. \A j \in Items : itemPc'[j] = IF j = i THEN to ELSE itemPc[j]
  BY <1>3, HandlersTypes
<1>5. /\ BeingHandled' = BeingHandled
      /\ \A e \in Drivers : InFlight(e)' = InFlight(e)
  BY <1>1, <1>4 DEF BeingHandled, InFlight
<1>6. /\ handlerScopes' = Cardinality(BeingHandled)'
      /\ \A e \in Drivers : /\ Cardinality(InFlight(e))' <= HandlerConcurrency
                            /\ IsFiniteSet(InFlight(e))'
  BY <1>2, <1>5, CountsStay
<1>7. CASE driverPc[d] = "running"
  <2>1. /\ itemPc'[i] = "queued" /\ UNCHANGED reply
        /\ itemQueue' = [itemQueue EXCEPT ![d] = Append(@, i)]
    BY <1>1, <1>4, <1>7, HandlersTypes DEF Arrives
  <2>2. /\ itemQueue[d] \in Seq(Items) /\ itemQueue'[d] = Append(itemQueue[d], i)
        /\ itemQueue' \in [Drivers -> Seq(Items)]
        /\ \A e \in Drivers \ {d} : itemQueue'[e] = itemQueue[e]
    BY <1>1, <2>1, HandlersTypes
  <2>3. /\ Len(itemQueue[d]) \in Nat /\ DOMAIN itemQueue[d] = 1 .. Len(itemQueue[d])
        /\ DOMAIN itemQueue'[d] = 1 .. Len(itemQueue[d]) + 1
        /\ itemQueue'[d][Len(itemQueue[d]) + 1] = i
        /\ \A n \in 1 .. Len(itemQueue[d]) : itemQueue'[d][n] = itemQueue[d][n]
    BY <2>2, AppendedIs
  <2>4. HandlersTyped'
    BY <1>2, <1>3, <1>6, <2>1, <2>2 DEF HandlersInv, HandlersTyped, timeoutVars
  <2>5. QueuesFit'
    <3>1. QueuesFit
      BY DEF HandlersInv
    <3>2. ASSUME NEW e \in Drivers, NEW n \in DOMAIN itemQueue[e]
          PROVE  itemQueue[e][n] \in Items /\ itemQueue[e][n] # i
      BY <1>1, <3>1, <3>2, HandlersTypes DEF QueuesFit
    <3>3. ASSUME NEW e \in Drivers \ {d}, NEW n \in DOMAIN itemQueue'[e]
          PROVE  /\ DriverOf(itemQueue'[e][n]) = e /\ itemPc'[itemQueue'[e][n]] = "queued"
                 /\ \A m \in DOMAIN itemQueue'[e] : itemQueue'[e][m] = itemQueue'[e][n] => m = n
      BY <1>4, <2>2, <3>1, <3>2, <3>3 DEF QueuesFit
    <3>4. ASSUME NEW n \in DOMAIN itemQueue'[d]
          PROVE  /\ DriverOf(itemQueue'[d][n]) = d /\ itemPc'[itemQueue'[d][n]] = "queued"
                 /\ \A m \in DOMAIN itemQueue'[d] : itemQueue'[d][m] = itemQueue'[d][n] => m = n
      <4>1. \A m \in DOMAIN itemQueue'[d] :
                m \in DOMAIN itemQueue[d] \/ m = Len(itemQueue[d]) + 1
        BY <2>3
      <4>2. CASE n = Len(itemQueue[d]) + 1
        BY <1>1, <2>1, <2>3, <3>2, <4>1, <4>2
      <4>3. CASE n \in DOMAIN itemQueue[d]
        <5>1. itemQueue'[d][n] = itemQueue[d][n] /\ itemQueue[d][n] # i
          BY <1>1, <2>3, <3>2, <4>3
        <5>2. DriverOf(itemQueue[d][n]) = d /\ itemPc'[itemQueue[d][n]] = "queued"
          BY <1>1, <1>4, <3>1, <3>2, <4>3 DEF QueuesFit
        <5>3. \A m \in DOMAIN itemQueue'[d] : itemQueue'[d][m] = itemQueue'[d][n] => m = n
          BY <1>1, <2>3, <3>1, <4>1, <4>3, <5>1 DEF QueuesFit
        <5>4. QED
          BY <5>1, <5>2, <5>3
      <4>4. QED
        BY <3>4, <4>1, <4>2, <4>3
    <3>5. QED
      BY <3>3, <3>4 DEF QueuesFit
  <2>6. RepliesFit'
    BY <1>1, <1>4, <2>1 DEF HandlersInv, RepliesFit
  <2>7. HandlersAreCounted'
    <3>1. \A e \in Drivers : driverPc[e] = "over" => e # d
      BY <1>7
    <3>2. QED
      BY <1>2, <1>5, <1>6, <2>2, <3>1 DEF HandlersInv, HandlersAreCounted, BeingHandled
  <2>8. RequestsAreAnswered'
    <3>1. \A j \in Items : itemPc'[j] = "over" <=> itemPc[j] = "over"
      BY <1>1, <1>4, <2>1
    <3>2. QED
      BY <1>2, <2>1, <3>1, AnswersStay, AsksAreItems
  <2>9. QED
    BY <1>2, <2>4, <2>5, <2>6, <2>7, <2>8, TasksMove
<1>8. CASE driverPc[d] # "running"
  <2>1. itemPc'[i] = "over" /\ reply' = [reply EXCEPT ![i] = "dropped"] /\ UNCHANGED itemQueue
    BY <1>1, <1>4, <1>8, HandlersTypes DEF Arrives
  <2>2. /\ reply' \in [Items -> {"none", "sent", "dropped", "cut"}]
        /\ \A j \in Items : reply'[j] = IF j = i THEN "dropped" ELSE reply[j]
    BY <2>1, HandlersTypes
  <2>3. HandlersTyped'
    BY <1>2, <1>3, <1>6, <2>1, <2>2 DEF HandlersInv, HandlersTyped, timeoutVars
  <2>4. QueuesFit'
    BY <1>1, <1>4, <2>1, QueuesStay
  <2>5. RepliesFit'
    BY <1>4, <2>1, <2>2 DEF HandlersInv, RepliesFit
  <2>6. HandlersAreCounted'
    BY <1>2, <1>5, <1>6, <2>1 DEF HandlersInv, HandlersAreCounted, BeingHandled
  <2>7. RequestsAreAnswered'
    BY <1>1, <1>2, <1>4, <2>2, AnswersStay, AsksAreItems
  <2>8. QED
    BY <1>2, <2>3, <2>4, <2>5, <2>6, <2>7, TasksMove
<1>9. QED
  BY <1>7, <1>8

\* A task goes on to its next stage, outside the channels.
LEMMA TaskGoesOn ==
    ASSUME HandlersInv, NEW i \in Items, itemPc[i] \in {"handling", "answering", "finished"},
           NEW to \in {"answering", "finished", "panicked", "over"},
           itemPc' = [itemPc EXCEPT ![i] = to], UNCHANGED <<itemQueue, driverPc>>
    PROVE  /\ \A j \in Items : itemPc'[j] = IF j = i THEN to ELSE itemPc[j]
           /\ QueuesFit'
           /\ to # "over" => \A d \in Drivers : InFlight(d)' = InFlight(d)
           /\ BeingHandled' = BeingHandled \ {i}
           /\ \A d \in Drivers : driverPc'[d] = "over" => itemQueue'[d] = <<>>
<1>1. \A j \in Items : itemPc'[j] = IF j = i THEN to ELSE itemPc[j]
  BY HandlersTypes
<1>2. QueuesFit'
  BY <1>1, QueuesStay
<1>3. to # "over" => \A d \in Drivers : InFlight(d)' = InFlight(d)
  BY <1>1 DEF InFlight
<1>4. BeingHandled' = BeingHandled \ {i}
  BY <1>1 DEF BeingHandled
<1>5. \A d \in Drivers : driverPc'[d] = "over" => itemQueue'[d] = <<>>
  BY DEF HandlersInv, HandlersAreCounted
<1>6. QED
  BY <1>1, <1>2, <1>3, <1>4, <1>5

\* A task that stays in flight keeps the counts.
LEMMA StaysInFlight ==
    ASSUME HandlersInv, NEW i \in Items, itemPc[i] \in {"answering", "finished"},
           NEW to \in {"answering", "finished", "panicked"},
           itemPc' = [itemPc EXCEPT ![i] = to], UNCHANGED <<itemQueue, driverPc, handlerScopes>>
    PROVE  /\ HandlersAreCounted'
           /\ \A d \in Drivers : IsFiniteSet(InFlight(d))'
<1>1. /\ \A d \in Drivers : InFlight(d)' = InFlight(d)
      /\ BeingHandled' = BeingHandled \ {i}
      /\ \A d \in Drivers : driverPc'[d] = "over" => itemQueue'[d] = <<>>
  BY TaskGoesOn
<1>2. BeingHandled' = BeingHandled
  BY <1>1 DEF BeingHandled
<1>3. /\ handlerScopes' = Cardinality(BeingHandled)'
      /\ \A d \in Drivers : /\ Cardinality(InFlight(d))' <= HandlerConcurrency
                            /\ IsFiniteSet(InFlight(d))'
  BY <1>1, <1>2, CountsStay
<1>4. \A d \in Drivers : driverPc'[d] = "over" => InFlight(d)' = {}
  BY <1>1 DEF HandlersInv, HandlersAreCounted
<1>5. QED
  BY <1>1, <1>3, <1>4 DEF HandlersAreCounted, BeingHandled

\* The driver takes the first item of its channel, while it has a task to spare.
LEMMA TakesItemInv ==
    ASSUME HandlersInv, NEW d \in Drivers, TakesItem(d) PROVE HandlersInv'
<1> DEFINE q == itemQueue[d]
           i == Head(q)
<1>1. q \in Seq(Items) /\ q # <<>> /\ driverPc[d] = "running"
  BY HandlersTypes DEF TakesItem
<1>2. /\ Tail(q) \in Seq(Items) /\ i \in Items /\ i = q[1] /\ Len(q) \in Nat \ {0}
      /\ DOMAIN q = 1 .. Len(q) /\ DOMAIN Tail(q) = 1 .. Len(q) - 1
      /\ \A n \in 1 .. Len(q) - 1 : Tail(q)[n] = q[n + 1]
  BY <1>1, TailIs
<1>3. 1 \in DOMAIN q
  BY <1>2
<1>4. itemPc[i] = "queued" /\ DriverOf(i) = d /\ reply[i] = "none"
  <2>1. itemPc[q[1]] = "queued" /\ DriverOf(q[1]) = d
    BY <1>3 DEF HandlersInv, QueuesFit
  <2>2. QED
    BY <1>2, <2>1 DEF HandlersInv, RepliesFit
<1>5. /\ itemPc' = [itemPc EXCEPT ![i] = "handling"]
      /\ itemQueue' = [itemQueue EXCEPT ![d] = Tail(q)]
      /\ handlerScopes' = handlerScopes + 1 /\ MayTake(d)
      /\ UNCHANGED <<reply, driverPc, clientOpen, connDropped, timeoutVars>>
  BY DEF TakesItem
<1> HIDE DEF i
<1>6. \A j \in Items : itemPc'[j] = IF j = i THEN "handling" ELSE itemPc[j]
  BY <1>2, <1>5, HandlersTypes
<1>7. /\ itemQueue' \in [Drivers -> Seq(Items)] /\ itemQueue'[d] = Tail(q)
      /\ \A e \in Drivers \ {d} : itemQueue'[e] = itemQueue[e]
  BY <1>2, <1>5, HandlersTypes
<1>8. /\ BeingHandled' = BeingHandled \cup {i} /\ i \notin BeingHandled
      /\ InFlight(d)' = InFlight(d) \cup {i} /\ i \notin InFlight(d)
      /\ \A e \in Drivers \ {d} : InFlight(e)' = InFlight(e)
  BY <1>2, <1>4, <1>6 DEF BeingHandled, InFlight
<1>9. /\ IsFiniteSet(InFlight(d))' /\ Cardinality(InFlight(d))' = Cardinality(InFlight(d)) + 1
      /\ Cardinality(BeingHandled)' = Cardinality(BeingHandled) + 1
      /\ Cardinality(InFlight(d)) \in Nat
  <2>1. IsFiniteSet(InFlight(d)) /\ IsFiniteSet(BeingHandled)
    BY HandlersTypes
  <2>2. Cardinality(InFlight(d)) \in Nat
    BY <2>1, FS_CardinalityType
  <2>3. /\ IsFiniteSet(InFlight(d) \cup {i})
        /\ Cardinality(InFlight(d) \cup {i}) = Cardinality(InFlight(d)) + 1
    BY <1>8, <2>1, FS_AddElement
  <2>4. Cardinality(BeingHandled \cup {i}) = Cardinality(BeingHandled) + 1
    BY <1>8, <2>1, FS_AddElement
  <2>5. QED
    BY <1>8, <2>2, <2>3, <2>4
<1>10. HandlersTyped'
  <2>1. \A e \in Drivers : IsFiniteSet(InFlight(e))'
    BY <1>8, <1>9, HandlersTypes
  <2>2. QED
    BY <1>5, <1>7, <2>1, HandlersTypes DEF HandlersInv, HandlersTyped, timeoutVars
<1>11. QueuesFit'
  <2>1. QueuesFit
    BY DEF HandlersInv
  <2>2. ASSUME NEW e \in Drivers \ {d}, NEW n \in DOMAIN itemQueue'[e]
        PROVE  /\ DriverOf(itemQueue'[e][n]) = e /\ itemPc'[itemQueue'[e][n]] = "queued"
               /\ \A m \in DOMAIN itemQueue'[e] : itemQueue'[e][m] = itemQueue'[e][n] => m = n
    <3>1. itemQueue'[e] = itemQueue[e] /\ itemQueue[e][n] \in Items
      BY <1>7, <2>2, HandlersTypes
    <3>2. itemQueue[e][n] # i
      BY <1>4, <2>1, <2>2, <3>1 DEF QueuesFit
    <3>3. QED
      BY <1>6, <2>1, <2>2, <3>1, <3>2 DEF QueuesFit
  <2>3. ASSUME NEW n \in DOMAIN itemQueue'[d]
        PROVE  /\ DriverOf(itemQueue'[d][n]) = d /\ itemPc'[itemQueue'[d][n]] = "queued"
               /\ \A m \in DOMAIN itemQueue'[d] : itemQueue'[d][m] = itemQueue'[d][n] => m = n
    <3>1. \A m \in DOMAIN itemQueue'[d] :
              m + 1 \in DOMAIN q /\ m + 1 # 1 /\ itemQueue'[d][m] = q[m + 1] /\ m \in Int
      BY <1>2, <1>7
    <3>2. q[n + 1] \in Items /\ q[n + 1] # i
      BY <1>1, <1>2, <1>3, <2>1, <2>3, <3>1 DEF QueuesFit
    <3>3. DriverOf(q[n + 1]) = d /\ itemPc'[q[n + 1]] = "queued"
      BY <1>6, <2>1, <2>3, <3>1, <3>2 DEF QueuesFit
    <3>4. ASSUME NEW m \in DOMAIN itemQueue'[d], itemQueue'[d][m] = itemQueue'[d][n] PROVE m = n
      <4>1. m + 1 = n + 1
        BY <2>1, <2>3, <3>1, <3>4 DEF QueuesFit
      <4>2. QED
        BY <2>3, <3>1, <4>1
    <3>5. QED
      BY <2>3, <3>1, <3>3, <3>4
  <2>4. QED
    BY <2>2, <2>3 DEF QueuesFit
<1>12. RepliesFit'
  BY <1>4, <1>5, <1>6 DEF HandlersInv, RepliesFit
<1>13. HandlersAreCounted'
  <2>1. handlerScopes' = Cardinality(BeingHandled)'
    BY <1>5, <1>9 DEF HandlersInv, HandlersAreCounted, BeingHandled
  <2>2. Cardinality(InFlight(d))' <= HandlerConcurrency
    <3>1. Cardinality(InFlight(d)) < HandlerConcurrency /\ HandlerConcurrency \in Nat
      BY <1>5, ServerHandlersAssumption DEF MayTake
    <3>2. QED
      BY <1>9, <3>1
  <2>3. \A e \in Drivers \ {d} : Cardinality(InFlight(e))' <= HandlerConcurrency
    BY <1>8 DEF HandlersInv, HandlersAreCounted
  <2>4. \A e \in Drivers : driverPc'[e] = "over" => InFlight(e)' = {} /\ itemQueue'[e] = <<>>
    BY <1>1, <1>5, <1>7, <1>8 DEF HandlersInv, HandlersAreCounted
  <2>5. QED
    BY <2>1, <2>2, <2>3, <2>4 DEF HandlersAreCounted, BeingHandled
<1>14. RequestsAreAnswered'
  <2>1. \A j \in Items : itemPc'[j] = "over" <=> itemPc[j] = "over"
    BY <1>4, <1>6
  <2>2. QED
    BY <1>5, <2>1, AnswersStay, AsksAreItems
<1>15. QED
  BY <1>5, <1>10, <1>11, <1>12, <1>13, <1>14, TasksMove

\* The handler is through: its scope is left, and a request of it has its answer to get.
LEMMA HandlerLeftKeeps ==
    ASSUME HandlersInv, NEW i \in Items, itemPc[i] = "handling", HandlerLeft(i)
    PROVE  /\ itemPc' \in [Items -> {"away", "queued", "handling", "answering", "finished",
                                     "panicked", "over"}]
           /\ \A d \in Drivers : IsFiniteSet(InFlight(d))'
           /\ QueuesFit' /\ RepliesFit' /\ HandlersAreCounted' /\ RequestsAreAnswered'
<1> DEFINE to == IF i \in Asks THEN "answering" ELSE "finished"
<1>1. /\ itemPc' = [itemPc EXCEPT ![i] = to] /\ handlerScopes' = handlerScopes - 1
      /\ UNCHANGED <<reply, itemQueue, driverPc, clientOpen, connDropped>>
  BY DEF HandlerLeft
<1>2. to \in {"answering", "finished"} /\ (to = "answering" <=> i \in Asks)
  OBVIOUS
<1> HIDE DEF to
<1>3. /\ \A j \in Items : itemPc'[j] = IF j = i THEN to ELSE itemPc[j]
      /\ QueuesFit'
      /\ \A d \in Drivers : InFlight(d)' = InFlight(d)
      /\ BeingHandled' = BeingHandled \ {i}
      /\ \A d \in Drivers : driverPc'[d] = "over" => itemQueue'[d] = <<>>
  <2>1. itemPc[i] \in {"handling", "answering", "finished"} /\ to # "over"
        /\ to \in {"answering", "finished", "panicked", "over"}
        /\ UNCHANGED <<itemQueue, driverPc>>
    BY <1>1, <1>2
  <2>2. QED
    BY <1>1, <2>1, TaskGoesOn
<1>4. itemPc' \in [Items -> {"away", "queued", "handling", "answering", "finished",
                             "panicked", "over"}]
  BY <1>1, <1>2, HandlersTypes
<1>5. \A d \in Drivers : IsFiniteSet(InFlight(d))'
  BY <1>3, HandlersTypes
<1>6. RepliesFit'
  BY <1>1, <1>2, <1>3 DEF HandlersInv, RepliesFit
<1>7. HandlersAreCounted'
  <2>1. i \in BeingHandled
    BY DEF BeingHandled
  <2>2. Cardinality(BeingHandled)' = Cardinality(BeingHandled) - 1
    BY <1>3, <2>1, HandlersTypes, FS_RemoveElement
  <2>3. handlerScopes' = Cardinality(BeingHandled)'
    BY <1>1, <2>2 DEF HandlersInv, HandlersAreCounted, BeingHandled
  <2>4. QED
    BY <1>1, <1>3, <2>3 DEF HandlersInv, HandlersAreCounted, BeingHandled
<1>8. RequestsAreAnswered'
  <2>1. \A j \in Items : itemPc'[j] = "over" <=> itemPc[j] = "over"
    BY <1>2, <1>3
  <2>2. QED
    BY <1>1, <2>1, AnswersStay, AsksAreItems
<1>9. QED
  BY <1>3, <1>4, <1>5, <1>6, <1>7, <1>8

LEMMA HandlerReturnsInv ==
    ASSUME HandlersInv, NEW i \in Items, HandlerReturns(i) PROVE HandlersInv'
<1>1. itemPc[i] = "handling" /\ HandlerLeft(i) /\ UNCHANGED timeoutVars
  BY DEF HandlerReturns
<1>2. HandlersTyped'
  BY <1>1, HandlerLeftKeeps DEF HandlersInv, HandlersTyped, HandlerLeft, timeoutVars
<1>3. UNCHANGED driverPc
  BY <1>1 DEF HandlerLeft
<1>4. QED
  BY <1>1, <1>2, <1>3, HandlerLeftKeeps, TasksMove

\* The numbers of a state that the invariant holds in.
LEMMA TimeoutFacts ==
    ASSUME HandlersInv
    PROVE  /\ timeoutCount \in Nat /\ timedOut \in Nat /\ timeoutsTaken \in Nat /\ takes \in Nat
           /\ loaded \in Nat /\ lookedAt \in 0..timedOut
           /\ timeoutsTaken + timeoutCount = timedOut
           /\ HandlerTimeout /\ ~tracked /\ ~forgotten =>
                 /\ takes > 0 /\ \A d \in Drivers : driverPc[d] = "over"
                 /\ timeoutCount = timedOut - lookedAt
           /\ takePc # "idle" => takes > 0 /\ tracked
           /\ takePc = "counts" => timeoutCount = loaded + (timedOut - lookedAt)
BY DEF HandlersInv, HandlersTyped, TimeoutsAreCounted, TakeFits

\* A handler that is cut off is counted.
LEMMA HandlerIsCutOffInv ==
    ASSUME HandlersInv, NEW i \in Items, HandlerIsCutOff(i) PROVE HandlersInv'
<1>1. /\ itemPc[i] = "handling" /\ HandlerLeft(i)
      /\ timeoutCount' = timeoutCount + 1 /\ timedOut' = timedOut + 1
      /\ UNCHANGED <<tracked, timeoutsTaken, takePc, loaded, lookedAt, takes, forgotten>>
      /\ HandlerTimeout
  BY DEF HandlerIsCutOff
<1>2. timeoutCount \in Nat /\ timedOut \in Nat /\ timeoutsTaken \in Nat
  BY DEF HandlersInv, HandlersTyped
<1>3. HandlersTyped'
  <2>1. timeoutCount' \in Nat /\ timedOut' \in Nat /\ timeoutsTaken' \in Nat /\ takes' \in Nat
    BY <1>1, <1>2 DEF HandlersInv, HandlersTyped
  <2>2. UNCHANGED <<reply, itemQueue, driverPc>>
    BY <1>1 DEF HandlerLeft
  <2>3. QED
    BY <1>1, <2>1, <2>2, HandlerLeftKeeps, HandlersTypes DEF HandlersTyped
<1>4. TimeoutsAreCounted'
  <2>1. timeoutsTaken + timeoutCount = timedOut
    BY TimeoutFacts
  <2>2. timeoutsTaken' + timeoutCount' = timedOut'
    BY <1>1, <1>2, <2>1
  <2>3. tracked \/ forgotten
    <3>1. driverPc[DriverOf(i)] # "over"
      <4>1. i \in InFlight(DriverOf(i))
        BY <1>1 DEF InFlight
      <4>2. QED
        BY <4>1, ItemsHaveDrivers DEF HandlersInv, HandlersAreCounted
    <3>2. QED
      BY <1>1, <3>1, ItemsHaveDrivers, TimeoutFacts
  <2>4. QED
    BY <1>1, <2>2, <2>3 DEF TimeoutsAreCounted
<1>5. TakeFits'
  <2>1. /\ loaded' \in Nat /\ lookedAt' \in 0..timedOut'
        /\ takePc' = "counts" => timeoutCount' = loaded' + (timedOut' - lookedAt')
    BY <1>1, <1>2, TimeoutFacts
  <2>2. takePc' # "idle" => takes' > 0 /\ tracked'
    BY <1>1, TimeoutFacts
  <2>3. QED
    BY <2>1, <2>2 DEF TakeFits
<1>6. QED
  BY <1>1, <1>3, <1>4, <1>5, HandlerLeftKeeps DEF HandlersInv

LEMMA RespondsToInv ==
    ASSUME HandlersInv, NEW i \in Items, RespondsTo(i) PROVE HandlersInv'
<1>1. /\ itemPc[i] = "answering" /\ itemPc' = [itemPc EXCEPT ![i] = "finished"]
      /\ reply' = [reply EXCEPT ![i] = "sent"]
      /\ UNCHANGED <<itemQueue, driverPc, handlerScopes, clientOpen, connDropped, timeoutVars>>
  BY DEF RespondsTo
<1>2. HandlersAreCounted' /\ \A d \in Drivers : IsFiniteSet(InFlight(d))'
  BY <1>1, StaysInFlight
<1>3. /\ \A j \in Items : itemPc'[j] = IF j = i THEN "finished" ELSE itemPc[j]
      /\ QueuesFit'
  BY <1>1, TaskGoesOn
<1>4. \A j \in Items : reply'[j] = IF j = i THEN "sent" ELSE reply[j]
  BY <1>1, HandlersTypes
<1>5. HandlersTyped'
  BY <1>1, <1>2, HandlersTypes DEF HandlersInv, HandlersTyped, timeoutVars
<1>6. RepliesFit'
  BY <1>3, <1>4 DEF HandlersInv, RepliesFit
<1>7. RequestsAreAnswered'
  <2>1. \A j \in Items : itemPc'[j] = "over" <=> itemPc[j] = "over" /\ j # i
    BY <1>1, <1>3
  <2>2. \A j \in Items : itemPc[j] = "over" => j # i
    BY <1>1
  <2>3. QED
    BY <1>1, <1>4, <2>1, <2>2, AnswersStay, AsksAreItems
<1>8. QED
  BY <1>1, <1>2, <1>3, <1>5, <1>6, <1>7, TasksMove

LEMMA AnswerPanicsInv ==
    ASSUME HandlersInv, NEW i \in Items, AnswerPanics(i) PROVE HandlersInv'
<1>1. /\ itemPc[i] = "answering" /\ itemPc' = [itemPc EXCEPT ![i] = "panicked"]
      /\ reply' = [reply EXCEPT ![i] = "dropped"]
      /\ UNCHANGED <<itemQueue, driverPc, handlerScopes, clientOpen, connDropped, timeoutVars>>
  BY DEF AnswerPanics
<1>2. HandlersAreCounted' /\ \A d \in Drivers : IsFiniteSet(InFlight(d))'
  BY <1>1, StaysInFlight
<1>3. /\ \A j \in Items : itemPc'[j] = IF j = i THEN "panicked" ELSE itemPc[j]
      /\ QueuesFit'
  BY <1>1, TaskGoesOn
<1>4. \A j \in Items : reply'[j] = IF j = i THEN "dropped" ELSE reply[j]
  BY <1>1, HandlersTypes
<1>5. HandlersTyped'
  BY <1>1, <1>2, HandlersTypes DEF HandlersInv, HandlersTyped, timeoutVars
<1>6. RepliesFit'
  BY <1>1, <1>3, <1>4 DEF HandlersInv, RepliesFit
<1>7. RequestsAreAnswered'
  <2>1. \A j \in Items : itemPc'[j] = "over" <=> itemPc[j] = "over" /\ j # i
    BY <1>1, <1>3
  <2>2. \A j \in Items : itemPc[j] = "over" => j # i
    BY <1>1
  <2>3. QED
    BY <1>1, <1>4, <2>1, <2>2, AnswersStay, AsksAreItems
<1>8. QED
  BY <1>1, <1>2, <1>3, <1>5, <1>6, <1>7, TasksMove

\* A task that ended is joined: it has its answer.
LEMMA JoinsInv ==
    ASSUME HandlersInv, NEW i \in Items, Joins(i) PROVE HandlersInv'
<1>1. /\ itemPc[i] = "finished" /\ itemPc' = [itemPc EXCEPT ![i] = "over"]
      /\ UNCHANGED <<reply, itemQueue, driverPc, handlerScopes, clientOpen, connDropped, timeoutVars>>
  BY DEF Joins
<1>2. /\ \A j \in Items : itemPc'[j] = IF j = i THEN "over" ELSE itemPc[j]
      /\ QueuesFit'
      /\ BeingHandled' = BeingHandled \ {i}
      /\ \A d \in Drivers : driverPc'[d] = "over" => itemQueue'[d] = <<>>
  BY <1>1, TaskGoesOn
<1>3. \A d \in Drivers : InFlight(d)' \subseteq InFlight(d)
  BY <1>2 DEF InFlight
<1>4. \A d \in Drivers : /\ IsFiniteSet(InFlight(d))'
                         /\ Cardinality(InFlight(d))' <= Cardinality(InFlight(d))
                         /\ Cardinality(InFlight(d)) \in Nat /\ Cardinality(InFlight(d))' \in Nat
  <2>1. ASSUME NEW d \in Drivers
        PROVE  /\ IsFiniteSet(InFlight(d)') /\ Cardinality(InFlight(d)') <= Cardinality(InFlight(d))
               /\ Cardinality(InFlight(d)) \in Nat /\ Cardinality(InFlight(d)') \in Nat
    BY <1>3, HandlersTypes, FS_Subset, FS_CardinalityType
  <2>2. QED
    BY <2>1
<1>5. HandlersTyped'
  BY <1>1, <1>4, HandlersTypes DEF HandlersInv, HandlersTyped, timeoutVars
<1>6. RepliesFit'
  BY <1>1, <1>2 DEF HandlersInv, RepliesFit
<1>7. HandlersAreCounted'
  <2>1. BeingHandled' = BeingHandled
    BY <1>1, <1>2 DEF BeingHandled
  <2>2. handlerScopes' = Cardinality(BeingHandled)'
    BY <1>1, <2>1 DEF HandlersInv, HandlersAreCounted, BeingHandled
  <2>3. \A d \in Drivers : Cardinality(InFlight(d))' <= HandlerConcurrency
    <3>1. ASSUME NEW d \in Drivers PROVE Cardinality(InFlight(d))' <= HandlerConcurrency
      <4>1. Cardinality(InFlight(d)) <= HandlerConcurrency /\ HandlerConcurrency \in Nat
        BY ServerHandlersAssumption DEF HandlersInv, HandlersAreCounted
      <4>2. QED
        BY <1>4, <4>1
    <3>2. QED
      BY <3>1
  <2>4. \A d \in Drivers : driverPc'[d] = "over" => InFlight(d)' = {}
    BY <1>1, <1>3 DEF HandlersInv, HandlersAreCounted
  <2>5. QED
    BY <1>2, <2>2, <2>3, <2>4 DEF HandlersAreCounted, BeingHandled
<1>8. RequestsAreAnswered'
  <2>1. i \in Asks => reply[i] = "sent"
    BY <1>1 DEF HandlersInv, RepliesFit
  <2>2. QED
    BY <1>1, <1>2, <2>1, AnswersStay, AsksAreItems
<1>9. QED
  BY <1>1, <1>2, <1>5, <1>6, <1>7, <1>8, TasksMove

\* What allows that an answer is cut: the connection is gone, or a task beside it panicked.
MayCut(d) ==
    \/ connDropped
    \/ \E j \in Items : DriverOf(j) = d /\ itemPc[j] = "panicked"
    \/ InFlight(d) = {}

\* Whom a driver takes with it: nobody who is another driver's or over already.
LEMMA GoesWithIs ==
    ASSUME HandlersInv, NEW d \in Drivers
    PROVE  /\ \A i \in GoesWith(d) :
                  /\ i \in Items /\ DriverOf(i) = d
                  /\ itemPc[i] \in {"queued", "handling", "answering", "finished", "panicked"}
           /\ \A i \in InFlight(d) : i \in GoesWith(d)
           /\ \A i \in GoesWith(d) : i \in InFlight(d) \/ itemPc[i] = "queued"
<1>1. ToSet(itemQueue[d]) = {itemQueue[d][n] : n \in DOMAIN itemQueue[d]}
  BY DEF ToSet
<1>2. \A n \in DOMAIN itemQueue[d] :
          /\ itemQueue[d][n] \in Items /\ DriverOf(itemQueue[d][n]) = d
          /\ itemPc[itemQueue[d][n]] = "queued"
  BY HandlersTypes DEF HandlersInv, QueuesFit
<1>3. QED
  BY <1>1, <1>2 DEF GoesWith, InFlight

\* A driver that goes leaves nothing behind: its tasks and its channel are done with, their
\* scopes are left, and who had no answer yet got one or was cut with a reason.
LEMMA DriverGoesInv ==
    ASSUME HandlersInv, NEW d \in Drivers, DriverGoes(d), MayCut(d) PROVE HandlersInv'
<1> DEFINE G == GoesWith(d)
           Cut == {i \in InFlight(d) : itemPc[i] = "handling"}
<1>1. /\ driverPc' = [driverPc EXCEPT ![d] = "over"]
      /\ itemPc' = [i \in Items |-> IF i \in G THEN "over" ELSE itemPc[i]]
      /\ reply' = [i \in Items |-> IF i \in G THEN ReplyOfDropped(i) ELSE reply[i]]
      /\ itemQueue' = [itemQueue EXCEPT ![d] = <<>>]
      /\ handlerScopes' = handlerScopes - Cardinality(Cut)
      /\ UNCHANGED <<clientOpen, connDropped, timeoutVars>>
  BY DEF DriverGoes, ScopesLeft
<1>2. /\ \A i \in G : i \in Items /\ DriverOf(i) = d
      /\ \A i \in G : itemPc[i] \in {"queued", "handling", "answering", "finished", "panicked"}
      /\ \A i \in InFlight(d) : i \in G
      /\ \A i \in G : i \in InFlight(d) \/ itemPc[i] = "queued"
  BY GoesWithIs
<1> HIDE DEF G
<1>3. \A i \in Items : itemPc'[i] = IF i \in G THEN "over" ELSE itemPc[i]
  BY <1>1
<1>4. \A i \in Items : reply'[i] = IF i \in G THEN ReplyOfDropped(i) ELSE reply[i]
  BY <1>1
<1>5. /\ driverPc' \in [Drivers -> {"running", "over"}] /\ driverPc'[d] = "over"
      /\ \A e \in Drivers \ {d} : driverPc'[e] = driverPc[e] /\ itemQueue'[e] = itemQueue[e]
      /\ itemQueue' \in [Drivers -> Seq(Items)] /\ itemQueue'[d] = <<>>
  <2>1. <<>> \in Seq(Items)
    BY EmptySeq
  <2>2. QED
    BY <1>1, <2>1, HandlersTypes
<1>6. InFlight(d)' = {}
  BY <1>2, <1>3 DEF InFlight
<1>7. \A e \in Drivers \ {d} : InFlight(e)' = InFlight(e)
  BY <1>2, <1>3 DEF InFlight
<1>8. BeingHandled' = BeingHandled \ Cut
  BY <1>2, <1>3 DEF BeingHandled
<1>9. \A i \in Items : ReplyOfDropped(i) \in {"none", "sent", "dropped", "cut"} \ {"none"}
  BY HandlersTypes DEF ReplyOfDropped
<1>10. HandlersTyped'
  <2>1. \A e \in Drivers : IsFiniteSet(InFlight(e))'
    BY <1>6, <1>7, HandlersTypes, FS_EmptySet
  <2>2. itemPc' \in [Items -> {"away", "queued", "handling", "answering", "finished", "panicked",
                               "over"}]
    BY <1>1, HandlersTypes
  <2>3. reply' \in [Items -> {"none", "sent", "dropped", "cut"}]
    BY <1>1, <1>9, HandlersTypes
  <2>4. timeoutCount' \in Nat /\ timedOut' \in Nat /\ timeoutsTaken' \in Nat /\ takes' \in Nat
    BY <1>1 DEF HandlersInv, HandlersTyped, timeoutVars
  <2>5. QED
    BY <1>5, <2>1, <2>2, <2>3, <2>4 DEF HandlersTyped
<1>11. QueuesFit'
  <2>1. QueuesFit
    BY DEF HandlersInv
  <2>2. DOMAIN itemQueue'[d] = {}
    BY <1>5
  <2>3. ASSUME NEW e \in Drivers \ {d}, NEW n \in DOMAIN itemQueue'[e]
        PROVE  /\ DriverOf(itemQueue'[e][n]) = e /\ itemPc'[itemQueue'[e][n]] = "queued"
               /\ \A m \in DOMAIN itemQueue'[e] : itemQueue'[e][m] = itemQueue'[e][n] => m = n
    <3>1. itemQueue'[e] = itemQueue[e] /\ itemQueue[e][n] \in Items
      BY <1>5, <2>3, HandlersTypes
    <3>2. DriverOf(itemQueue[e][n]) = e /\ itemPc[itemQueue[e][n]] = "queued"
      BY <2>1, <2>3, <3>1 DEF QueuesFit
    <3>3. itemPc'[itemQueue[e][n]] = "queued"
      BY <1>2, <1>3, <2>3, <3>1, <3>2
    <3>4. QED
      BY <2>1, <2>3, <3>1, <3>2, <3>3 DEF QueuesFit
  <2>4. QED
    BY <2>2, <2>3 DEF QueuesFit
<1>12. RepliesFit'
  <2>1. RepliesFit
    BY DEF HandlersInv
  <2>2. QED
    BY <1>3, <1>4, <2>1 DEF RepliesFit
<1>13. HandlersAreCounted'
  <2>1. handlerScopes' = Cardinality(BeingHandled)'
    <3>1. BeingHandled \cap Cut = Cut
      BY DEF BeingHandled, InFlight
    <3>2. Cardinality(BeingHandled \ Cut) = Cardinality(BeingHandled) - Cardinality(BeingHandled \cap Cut)
      <4>1. IsFiniteSet(BeingHandled)
        BY HandlersTypes
      <4> HIDE DEF Cut
      <4>2. QED
        BY <4>1, FS_Difference
    <3>3. handlerScopes = Cardinality(BeingHandled)
      BY DEF HandlersInv, HandlersAreCounted, BeingHandled
    <3> HIDE DEF Cut
    <3>4. QED
      BY <1>1, <1>8, <3>1, <3>2, <3>3
  <2>2. \A e \in Drivers : Cardinality(InFlight(e))' <= HandlerConcurrency
    <3>1. Cardinality(InFlight(d))' <= HandlerConcurrency
      BY <1>6, FS_EmptySet, ServerHandlersAssumption
    <3>2. \A e \in Drivers \ {d} : Cardinality(InFlight(e))' <= HandlerConcurrency
      BY <1>7 DEF HandlersInv, HandlersAreCounted
    <3>3. QED
      BY <3>1, <3>2
  <2>3. \A e \in Drivers : driverPc'[e] = "over" => InFlight(e)' = {} /\ itemQueue'[e] = <<>>
    BY <1>5, <1>6, <1>7 DEF HandlersInv, HandlersAreCounted
  <2>4. QED
    BY <2>1, <2>2, <2>3 DEF HandlersAreCounted, BeingHandled
<1>14. RequestsAreAnswered'
  <2>1. \A i \in Items : itemPc[i] = "over" => itemPc'[i] = "over" /\ reply'[i] = reply[i]
    BY <1>2, <1>3, <1>4
  <2>2. ASSUME NEW i \in Asks, itemPc'[i] = "over", itemPc[i] # "over"
        PROVE  /\ reply'[i] # "none"
               /\ reply'[i] = "cut" =>
                     connDropped' \/ \E j \in Asks \ {i} : itemPc'[j] = "over" /\ reply'[j] = "dropped"
    <3>1. i \in Items /\ i \in G /\ reply'[i] = ReplyOfDropped(i)
      BY <1>3, <1>4, <2>2, AsksAreItems
    <3>2. reply'[i] = "cut" => itemPc[i] = "answering"
      <4>1. reply[i] # "cut"
        BY <1>2, <3>1 DEF HandlersInv, RepliesFit
      <4>2. QED
        BY <3>1, <4>1 DEF ReplyOfDropped
    <3>3. ASSUME NEW j \in Items, DriverOf(j) = d, itemPc[j] = "panicked"
          PROVE  j \in Asks /\ itemPc'[j] = "over" /\ reply'[j] = "dropped"
      <4>1. j \in Asks /\ reply[j] = "dropped"
        BY <3>3 DEF HandlersInv, RepliesFit
      <4>2. j \in G
        BY <1>2, <3>3 DEF InFlight
      <4>3. QED
        BY <1>3, <1>4, <4>1, <4>2 DEF ReplyOfDropped
    <3>4. ASSUME itemPc[i] = "answering"
          PROVE  connDropped' \/ \E j \in Asks \ {i} : itemPc'[j] = "over" /\ reply'[j] = "dropped"
      <4>1. i \in InFlight(d)
        BY <1>2, <3>1, <3>4
      <4>2. connDropped \/ \E j \in Items : DriverOf(j) = d /\ itemPc[j] = "panicked"
        BY <4>1 DEF MayCut
      <4>3. CASE connDropped
        BY <1>1, <4>3
      <4>4. CASE \E j \in Items : DriverOf(j) = d /\ itemPc[j] = "panicked"
        BY <3>3, <3>4, <4>4
      <4>5. QED
        BY <4>2, <4>3, <4>4
    <3>5. QED
      BY <1>9, <3>1, <3>2, <3>4
  <2>3. QED
    BY <1>1, <2>1, <2>2, AnswersStay
<1>15. QED
  BY <1>1, <1>10, <1>11, <1>12, <1>13, <1>14, TasksMove

LEMMA JoinsPanickedInv ==
    ASSUME HandlersInv, NEW i \in Items, JoinsPanicked(i) PROVE HandlersInv'
<1>1. itemPc[i] = "panicked" /\ DriverGoes(DriverOf(i)) /\ DriverOf(i) \in Drivers
  BY ItemsHaveDrivers DEF JoinsPanicked
<1>2. MayCut(DriverOf(i))
  BY <1>1 DEF MayCut
<1>3. QED
  BY <1>1, <1>2, DriverGoesInv

\* What touches no task: the client, the connection and the count of the timeouts.
LEMMA TasksStay ==
    ASSUME HandlersInv, UNCHANGED taskVars, connDropped => connDropped',
           timeoutCount' \in Nat, timedOut' \in Nat, timeoutsTaken' \in Nat, takes' \in Nat,
           TimeoutsAreCounted', TakeFits'
    PROVE  HandlersInv'
<1>1. /\ \A d \in Drivers : InFlight(d)' = InFlight(d)
      /\ BeingHandled' = BeingHandled
  BY DEF taskVars, InFlight, BeingHandled
<1>2. HandlersTyped'
  BY <1>1 DEF HandlersInv, HandlersTyped, taskVars
<1>3. QueuesFit' /\ RepliesFit'
  BY DEF HandlersInv, QueuesFit, RepliesFit, taskVars
<1>4. HandlersAreCounted'
  BY <1>1 DEF HandlersInv, HandlersAreCounted, BeingHandled, taskVars
<1>5. RequestsAreAnswered'
  <2>1. UNCHANGED itemPc /\ UNCHANGED reply
    BY DEF taskVars
  <2>2. QED
    BY <2>1, AnswersStay, AsksAreItems
<1>6. QED
  BY <1>2, <1>3, <1>4, <1>5 DEF HandlersInv

LEMMA ConnectionGoesInv == ASSUME HandlersInv, ConnectionGoes PROVE HandlersInv'
<1>1. /\ UNCHANGED <<timeoutCount, timedOut, timeoutsTaken, takePc, loaded, lookedAt, takes>>
      /\ connDropped' /\ UNCHANGED taskVars
      /\ \/ tracked' = tracked /\ forgotten' = forgotten
         \/ forgotten' /\ takePc = "idle"
  BY DEF ConnectionGoes, timeoutVars
<1>2. TimeoutsAreCounted'
  BY <1>1, TimeoutFacts DEF TimeoutsAreCounted, taskVars
<1>3. TakeFits'
  BY <1>1, TimeoutFacts DEF TakeFits
<1>4. QED
  BY <1>1, <1>2, <1>3, TimeoutFacts, TasksStay

\* A take moves what it swaps out to what was taken, and counts itself.
LEMMA TakeSwapsInv == ASSUME HandlersInv, TakeSwaps PROVE HandlersInv'
<1>1. /\ takes' = takes + 1 /\ timeoutsTaken' = timeoutsTaken + timeoutCount /\ timeoutCount' = 0
      /\ UNCHANGED <<tracked, timedOut, loaded, lookedAt, forgotten, taskVars, connDropped>>
      /\ tracked /\ takePc' = "loads"
  BY DEF TakeSwaps
<1>2. timeoutCount \in Nat /\ timedOut \in Nat /\ timeoutsTaken \in Nat /\ takes \in Nat
  BY TimeoutFacts
<1>3. /\ timeoutCount' \in Nat /\ timedOut' \in Nat /\ timeoutsTaken' \in Nat /\ takes' \in Nat
      /\ timeoutsTaken' + timeoutCount' = timedOut' /\ takes' > 0
  <2>1. timeoutsTaken + timeoutCount = timedOut
    BY TimeoutFacts
  <2>2. QED
    BY <1>1, <1>2, <2>1
<1>4. TimeoutsAreCounted'
  BY <1>1, <1>3 DEF TimeoutsAreCounted
<1>5. TakeFits'
  BY <1>1, <1>3, TimeoutFacts DEF TakeFits
<1>6. QED
  BY <1>1, <1>3, <1>4, <1>5, TasksStay

LEMMA TakeLoadsInv == ASSUME HandlersInv, TakeLoads PROVE HandlersInv'
<1>1. /\ takePc = "loads" /\ loaded' = timeoutCount /\ lookedAt' = timedOut
      /\ UNCHANGED <<timeoutCount, tracked, timedOut, timeoutsTaken, takes, forgotten, taskVars,
                     connDropped>>
  BY DEF TakeLoads
<1>2. tracked /\ takes > 0
  BY <1>1, TimeoutFacts
<1>3. TimeoutsAreCounted'
  BY <1>1, <1>2, TimeoutFacts DEF TimeoutsAreCounted
<1>4. TakeFits'
  <2>1. /\ loaded' \in Nat /\ lookedAt' \in 0..timedOut'
        /\ timeoutCount' = loaded' + (timedOut' - lookedAt')
    BY <1>1, TimeoutFacts
  <2>2. QED
    BY <1>1, <1>2, <2>1 DEF TakeFits
<1>5. QED
  BY <1>1, <1>3, <1>4, TimeoutFacts, TasksStay

\* A counter is let go only when what was read of it is nothing, and nobody adds to it: what is
\* in it then came in between.
LEMMA TakeCountsInv == ASSUME HandlersInv, TakeCounts PROVE HandlersInv'
<1>1. /\ takePc = "counts" /\ takePc' = "idle" /\ loaded' = 0
      /\ tracked' = (loaded > 0 \/ CounterIsShared)
      /\ UNCHANGED <<timeoutCount, timedOut, timeoutsTaken, lookedAt, takes, forgotten, taskVars,
                     connDropped>>
  BY DEF TakeCounts
<1>2. ASSUME ~tracked'
      PROVE  /\ takes > 0 /\ \A d \in Drivers : driverPc[d] = "over"
             /\ timeoutCount = timedOut - lookedAt
  <2>1. ~(loaded > 0) /\ ~CounterIsShared
    BY <1>1, <1>2, Zenon
  <2>2. \A d \in Drivers : driverPc[d] = "over"
    BY <2>1, HandlersTypes DEF CounterIsShared
  <2>3. timeoutCount = timedOut - lookedAt
    BY <1>1, <2>1, TimeoutFacts
  <2>4. QED
    BY <1>1, <2>2, <2>3, TimeoutFacts
<1>3. TimeoutsAreCounted'
  <2>1. driverPc' = driverPc
    BY <1>1 DEF taskVars
  <2>2. QED
    BY <1>1, <1>2, <2>1, TimeoutFacts DEF TimeoutsAreCounted
<1>4. TakeFits'
  BY <1>1, TimeoutFacts DEF TakeFits
<1>5. QED
  BY <1>1, <1>3, <1>4, TimeoutFacts, TasksStay

\* Neither a task nor the count moves.
LEMMA TimeoutsStay ==
    ASSUME HandlersInv, UNCHANGED <<timeoutVars, taskVars, connDropped>> PROVE HandlersInv'
<1>1. UNCHANGED <<timeoutCount, tracked, timedOut, timeoutsTaken, takePc, loaded, lookedAt, takes,
                  forgotten, driverPc>>
  BY DEF taskVars, timeoutVars
<1>2. TimeoutsAreCounted'
  BY <1>1, TimeoutFacts DEF TimeoutsAreCounted
<1>3. TakeFits'
  BY <1>1, TimeoutFacts DEF TakeFits
<1>4. QED
  BY <1>1, <1>2, <1>3, TimeoutFacts, TasksStay

LEMMA HandlersStutterInv == ASSUME HandlersInv, UNCHANGED handlersVars PROVE HandlersInv'
<1>1. UNCHANGED <<timeoutVars, taskVars, connDropped>>
  BY DEF handlersVars, taskVars, timeoutVars
<1>2. QED
  BY <1>1, TimeoutsStay

LEMMA HandlersStepInv == HandlersInv /\ [ServerHandlersNext]_handlersVars => HandlersInv'
<1> SUFFICES ASSUME HandlersInv, [ServerHandlersNext]_handlersVars PROVE HandlersInv'
  OBVIOUS
<1>1. ASSUME NEW i \in Items, Arrives(i) \/ HandlerReturns(i) \/ AnswerPanics(i)
      PROVE  HandlersInv'
  BY <1>1, ArrivesInv, HandlerReturnsInv, AnswerPanicsInv
<1>2. CASE ClientCloses
  <2>1. UNCHANGED <<timeoutVars, taskVars, connDropped>>
    BY <1>2 DEF ClientCloses
  <2>2. QED
    BY <2>1, TimeoutsStay
<1>3. CASE ConnectionGoes
  BY <1>3, ConnectionGoesInv
<1>4. CASE TakeSwaps \/ TakeLoads \/ TakeCounts
  BY <1>4, TakeSwapsInv, TakeLoadsInv, TakeCountsInv
<1>5. ASSUME NEW d \in Drivers, TakesItem(d) PROVE HandlersInv'
  BY <1>5, TakesItemInv
<1>6. ASSUME NEW d \in Drivers, DriverEnds(d) PROVE HandlersInv'
  <2>1. DriverGoes(d) /\ MayCut(d)
    BY <1>6 DEF DriverEnds, MayCut
  <2>2. QED
    BY <2>1, DriverGoesInv
<1>7. ASSUME NEW d \in Drivers, Aborted(d) PROVE HandlersInv'
  <2>1. DriverGoes(d) /\ MayCut(d)
    BY <1>7 DEF Aborted, MayCut
  <2>2. QED
    BY <2>1, DriverGoesInv
<1>8. ASSUME NEW i \in Items, HandlerIsCutOff(i) \/ RespondsTo(i) \/ Joins(i) \/ JoinsPanicked(i)
      PROVE  HandlersInv'
  BY <1>8, HandlerIsCutOffInv, RespondsToInv, JoinsInv, JoinsPanickedInv
<1>9. CASE UNCHANGED handlersVars
  BY <1>9, HandlersStutterInv
<1>10. QED
  BY <1>1, <1>2, <1>3, <1>4, <1>5, <1>6, <1>7, <1>8, <1>9 DEF ServerHandlersNext, HandlersSteps

\* Whatever the handlers do, return, panic, hang or be aborted with their driver: every request
\* that is done with has its answer, the counter of running handlers is true, no driver runs
\* more than it may, no timeout is taken twice, and none is lost but to a disconnect and between
\* the two looks of a take that lets the counter go.
THEOREM HandlersServe == ServerHandlersSpec => []HandlersServeAll
<1>1. HandlersInv => HandlersServeAll
  BY DEF HandlersInv, HandlersServeAll, HandlerCountsAreTrue
<1>2. QED
  BY <1>1, HandlersInitInv, HandlersStepInv, PTL DEF ServerHandlersSpec

==============================================================================
