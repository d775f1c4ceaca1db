------------------------- MODULE JsonRpcPartsProofs -------------------------
(***************************************************************************)
(* The parts of mcp-jsonrpc beside the client: a batch is answered once    *)
(* and whole; what the caller of the detached spawner is told is true; and *)
(* the streamable HTTP transport loses and mixes no messages and follows   *)
(* the session.                                                            *)
(***************************************************************************)
EXTENDS BatchResponse, DetachedSpawner, StreamableHttp,
        FiniteSetTheorems, SequenceTheorems, TLAPS

(***************************************************************************)
(* The batch, for any set of requests, any number of clones and any        *)
(* interleaving of the reader, the owners, the detached tasks and a close: *)
(* BatchInv is inductive.                                                  *)
(***************************************************************************)

Holding == {"push", "locking", "complete"}

\* The reader is neither an owner nor a task, and an agent answers its own request.
LEMMA AgentsAnswerTheirRequest ==
    /\ Owners \subseteq Agents /\ Requests \subseteq Agents /\ Reader \in Agents
    /\ Reader \notin Requests /\ Reader \notin Owners
    /\ Req(Reader) = Reader
    /\ \A x \in Owners \cup Requests : Req(x) \in Requests /\ x # Reader
    /\ \A r \in Requests : Req(r) = r /\ r \notin Owners
    /\ \A o \in Owners : Req(o) = RequestOf[o] /\ RequestOf[o] \in Requests
BY BatchAssumption DEF Agents, Req

\* Where one agent goes, the others stay.
LEMMA OneMoves ==
    ASSUME BatchTypeOK, NEW x \in Agents, NEW l \in Labels, Goto(x, l)
    PROVE  /\ pc' \in [Agents -> Labels]
           /\ pc'[x] = l
           /\ \A y \in Agents : y # x => pc'[y] = pc[y]
           /\ l \in Holding => OpenSlots' = OpenSlots \cup {x}
           /\ l \notin Holding => OpenSlots' = OpenSlots \ {x}
<1>1. /\ pc' \in [Agents -> Labels]
      /\ pc'[x] = l
      /\ \A y \in Agents : y # x => pc'[y] = pc[y]
  BY DEF BatchTypeOK, Goto
<1>2. QED
  BY <1>1 DEF OpenSlots, Holding

\* The requests are finitely many, and so are the unanswered ones.
LEMMA UnansweredAreFinite == IsFiniteSet(Unanswered) /\ IsFiniteSet(Unanswered')
BY BatchAssumption, FS_Subset DEF Unanswered

\* Two finite counts are numbers.
LEMMA OpenCounts ==
    ASSUME IsFiniteSet(OpenSlots)
    PROVE  /\ Cardinality(OpenSlots) \in Nat /\ Cardinality(Unanswered) \in Nat
           /\ OpenSlots # {} => Cardinality(OpenSlots) > 0
           /\ Unanswered # {} => Cardinality(Unanswered) > 0
BY UnansweredAreFinite, FS_CardinalityType, FS_EmptySet

\* No slot is the reader's.
LEMMA SlotsAreOthers ==
    ASSUME BatchInv, NEW x \in OpenSlots
    PROVE  x \in Owners \cup Requests /\ x \in Agents /\ Req(x) \in Requests
BY AgentsAnswerTheirRequest DEF BatchInv, ReaderGoesOneWay, OpenSlots, Agents

\* A step that opens, closes and answers no slot keeps the accounts of slots.
LEMMA SlotsFrame ==
    ASSUME BatchInv, pc' \in [Agents -> Labels], UNCHANGED <<todo, responded, pending>>,
           closed' \in BOOLEAN, closed => closed',
           \A x \in Agents : pc'[x] \in Holding <=> pc[x] \in Holding
    PROVE  SlotsAreWon' /\ IsFiniteSet(OpenSlots)' /\ SlotsMatchRequests'
<1>1. OpenSlots' = OpenSlots /\ Unanswered' = Unanswered
  BY DEF OpenSlots, Unanswered, Holding
<1>2. SlotsAreWon' /\ IsFiniteSet(OpenSlots)'
  BY <1>1 DEF BatchInv, SlotsAreWon
<1>3. SlotsMatchRequests'
  BY <1>1, OpenCounts DEF BatchInv, SlotsMatchRequests, BatchTypeOK
<1>4. QED
  BY <1>2, <1>3

\* A step that writes to none of the sequences and lets nobody to the lock keeps them apart.
LEMMA NamesFrame ==
    ASSUME BatchInv, UNCHANGED <<responses, line, wire>>,
           \A r \in Requests : responded[r] => responded'[r],
           \A x \in Agents : pc'[x] \in {"push", "locking"} => pc[x] \in {"push", "locking"}
    PROVE  NamedOnce'
BY DEF BatchInv, NamedOnce, Named, AnswersDiffer, Mentions

\* What has been won for a request that no sequence names yet.
LEMMA NamesFrameWon ==
    ASSUME BatchInv, UNCHANGED <<responses, line, wire>>, NEW w \in Agents, Req(w) \in Requests,
           ~responded[Req(w)],
           \A r \in Requests : responded[r] => responded'[r],
           \A x \in Agents : x # w /\ pc'[x] \in {"push", "locking"} => pc[x] \in {"push", "locking"}
    PROVE  NamedOnce'
BY DEF BatchInv, NamedOnce, Named, AnswersDiffer, Mentions

\* Before the reader comes to a request nobody has it.
LEMMA BatchInitInv == BatchInit => BatchInv
<1> SUFFICES ASSUME BatchInit PROVE BatchInv
  OBVIOUS
<1> USE AgentsAnswerTheirRequest DEF BatchInit
<1>1. BatchTypeOK
  <2>1. pc \in [Agents -> Labels]
    BY DEF Labels
  <2>2. responded \in [Requests -> BOOLEAN]
    OBVIOUS
  <2>3. {responses, line, wire} \subseteq Seq(Requests \cup {Reader})
    OBVIOUS
  <2>4. todo \in SUBSET Requests /\ pending \in Nat
    OBVIOUS
  <2>5. {finished, flushed, abandoned, invalid, closed} \subseteq BOOLEAN
    OBVIOUS
  <2>6. QED
    BY <2>1, <2>2, <2>3, <2>4, <2>5 DEF BatchTypeOK
<1>2. ReaderGoesOneWay
  BY DEF ReaderGoesOneWay
<1>3. OpenSlots = {} /\ Unanswered = {}
  BY DEF OpenSlots, Unanswered
<1>4. SlotsAreWon /\ IsFiniteSet(OpenSlots)
  BY <1>3, FS_EmptySet DEF SlotsAreWon
<1>5. SlotsMatchRequests
  BY <1>3, FS_EmptySet DEF SlotsMatchRequests
<1>6. NamedOnce
  BY DEF NamedOnce, Named, AnswersDiffer, Mentions
<1>7. FlushersComeLast
  BY DEF FlushersComeLast
<1>8. QED
  BY <1>1, <1>2, <1>4, <1>5, <1>6, <1>7 DEF BatchInv


(***************************************************************************)
(* One lemma for each action.                                              *)
(***************************************************************************)

\* A new owner gets the request: one slot more, and one request more that is unanswered.
LEMMA DispatchInv ==
    ASSUME BatchInv, NEW r \in Requests, Dispatch(r)
    PROVE  BatchInv'
<1> USE AgentsAnswerTheirRequest
<1>1. PICK o \in Owners : RequestOf[o] = r /\ Goto(o, "held")
  BY DEF Dispatch
<1>2. /\ BatchTypeOK /\ r \in todo /\ ~responded[r] /\ pc[o] = "none" /\ ~finished
      /\ "held" \in Labels /\ "held" \notin Holding /\ pc[o] \notin Holding
      /\ \A x \in Owners \cup Requests : Req(x) = r => pc[x] = "none"
  BY <1>1 DEF BatchInv, ReaderGoesOneWay, Dispatch, Labels, Holding
<1>3. /\ pc' \in [Agents -> Labels] /\ pc'[o] = "held"
      /\ \A y \in Agents : y # o => pc'[y] = pc[y]
      /\ OpenSlots' = OpenSlots
  BY <1>1, <1>2, OneMoves DEF OpenSlots, Holding
<1>4. Unanswered' = Unanswered \cup {r} /\ r \notin Unanswered
  BY <1>2 DEF Dispatch, Unanswered, BatchTypeOK
<1>5. BatchTypeOK'
  BY <1>2, <1>3 DEF BatchTypeOK, Dispatch
<1>6. ReaderGoesOneWay'
  BY <1>1, <1>2, <1>3 DEF BatchInv, ReaderGoesOneWay, Dispatch
<1>7. SlotsAreWon' /\ IsFiniteSet(OpenSlots)'
  BY <1>3 DEF BatchInv, SlotsAreWon, Dispatch
<1>8. SlotsMatchRequests'
  <2>1. Cardinality(Unanswered') = Cardinality(Unanswered) + 1
    BY <1>4, UnansweredAreFinite, FS_AddElement
  <2>2. QED
    BY <1>2, <1>3, <2>1, OpenCounts DEF BatchInv, SlotsMatchRequests, Dispatch, BatchTypeOK
<1>9. NamedOnce'
  BY <1>3, NamesFrame DEF Dispatch
<1>10. FlushersComeLast'
  BY <1>2, <1>3 DEF BatchInv, FlushersComeLast, Dispatch
<1>11. QED
  BY <1>5, <1>6, <1>7, <1>8, <1>9, <1>10 DEF BatchInv

\* A request that is not dispatched goes to its task, is answered on the spot, or keeps its slot on
\* a closed client.
LEMMA RefuseRequestInv ==
    ASSUME BatchInv, NEW r \in Requests, RefuseRequest(r)
    PROVE  BatchInv'
<1> USE AgentsAnswerTheirRequest
<1>0. /\ todo' = todo \ {r} /\ pending' = pending + 1
      /\ UNCHANGED <<finished, flushed, responses, line, wire, abandoned, invalid>>
  BY DEF RefuseRequest
<1>1. /\ BatchTypeOK /\ r \in todo /\ ~responded[r] /\ pc[r] = "none" /\ ~finished /\ ~closed
      /\ {"respond", "push"} \subseteq Labels /\ "push" \in Holding /\ "respond" \notin Holding
      /\ r \notin OpenSlots
      /\ \A x \in Owners \cup Requests : Req(x) = r => pc[x] = "none"
  BY DEF BatchInv, ReaderGoesOneWay, RefuseRequest, Labels, Holding, OpenSlots
<1>2. /\ pc' \in [Agents -> Labels]
      /\ \A y \in Agents : y # r => pc'[y] = pc[y]
      /\ pc'[r] \in {"none", "respond", "push"}
      /\ pc'[r] = "push" => responded'[r]
      /\ pc'[r] = "push" => OpenSlots' = OpenSlots \cup {r}
      /\ pc'[r] # "push" => OpenSlots' = OpenSlots
  <2>1. CASE Goto(r, "respond") /\ UNCHANGED <<closed, responded>>
    BY <1>1, <2>1, OneMoves DEF OpenSlots, Holding
  <2>2. CASE Goto(r, "push") /\ responded' = [responded EXCEPT ![r] = TRUE]
    BY <1>1, <2>2, OneMoves DEF BatchTypeOK
  <2>3. CASE UNCHANGED pc
    BY <1>1, <2>3 DEF BatchTypeOK, OpenSlots
  <2>4. QED
    BY <2>1, <2>2, <2>3 DEF RefuseRequest
<1>3. /\ responded' \in [Requests -> BOOLEAN]
      /\ \A s \in Requests : s # r => responded'[s] = responded[s]
      /\ closed' \in BOOLEAN
      /\ responded'[r] => closed'
  BY <1>1, <1>2 DEF RefuseRequest, BatchTypeOK
<1>4. BatchTypeOK'
  BY <1>0, <1>1, <1>2, <1>3 DEF BatchTypeOK
<1>5. ReaderGoesOneWay'
  <2>1. todo' \subseteq Requests /\ todo' \subseteq todo
    BY <1>0, <1>1 DEF BatchTypeOK
  <2>2. QED
    BY <1>0, <1>1, <1>2, <1>3, <2>1 DEF BatchInv, ReaderGoesOneWay
<1>6. SlotsAreWon'
  <2>1. \A x \in OpenSlots : pc[x] # "none"
    BY DEF OpenSlots
  <2>2. \A x \in OpenSlots : Req(x) # r /\ Req(x) \in Requests /\ responded'[Req(x)]
    BY <1>1, <1>3, <2>1, SlotsAreOthers DEF BatchInv, SlotsAreWon
  <2>3. QED
    BY <1>2, <2>2 DEF BatchInv, SlotsAreWon
<1>7. IsFiniteSet(OpenSlots)'
  BY <1>2, FS_AddElement DEF BatchInv
<1>8. SlotsMatchRequests'
  <2>1. /\ Unanswered' = IF responded'[r] THEN Unanswered ELSE Unanswered \cup {r}
        /\ r \notin Unanswered
    BY <1>1, <1>3 DEF RefuseRequest, Unanswered, BatchTypeOK
  <2>2. Cardinality(Unanswered') = Cardinality(Unanswered) + (IF responded'[r] THEN 0 ELSE 1)
    BY <2>1, UnansweredAreFinite, FS_AddElement, OpenCounts DEF BatchInv
  <2>3. Cardinality(OpenSlots') = Cardinality(OpenSlots) + (IF pc'[r] = "push" THEN 1 ELSE 0)
    BY <1>1, <1>2, FS_AddElement, OpenCounts DEF BatchInv
  <2>4. pending' = pending + 1 /\ pending = Cardinality(OpenSlots) + Cardinality(Unanswered)
    BY <1>1 DEF BatchInv, SlotsMatchRequests, RefuseRequest
  <2>5. ~responded'[r] => pc'[r] # "push"
    BY <1>2
  <2>6. ~closed' => ~responded'[r]
    BY <1>3
  <2>7. QED
    BY <2>2, <2>3, <2>4, <2>5, <2>6, OpenCounts DEF BatchInv, SlotsMatchRequests
<1>9. NamedOnce'
  BY <1>1, <1>2, <1>3, NamesFrameWon DEF RefuseRequest
<1>10. FlushersComeLast'
  BY <1>1, <1>2 DEF BatchInv, FlushersComeLast, RefuseRequest
<1>11. QED
  BY <1>4, <1>5, <1>6, <1>7, <1>8, <1>9, <1>10 DEF BatchInv


(***************************************************************************)
(* Four kinds of step that several actions share: an agent moves, a slot   *)
(* is won, one is given back, an answer is collected.                      *)
(***************************************************************************)

\* An agent moves without touching a slot.
LEMMA MoveInv ==
    ASSUME BatchInv, NEW x \in Agents, NEW l \in Labels, Goto(x, l),
           UNCHANGED <<todo, responded, pending, finished>>,
           responses' \in Seq(Requests \cup {Reader}),
           line' \in Seq(Requests \cup {Reader}), wire' \in Seq(Requests \cup {Reader}),
           NamedOnce',
           flushed' \in BOOLEAN, abandoned' \in BOOLEAN, invalid' \in BOOLEAN,
           closed' \in BOOLEAN, closed => closed',
           l \in Holding <=> pc[x] \in Holding,
           l # "none" => x = Reader \/ Req(x) \notin todo,
           x = Reader => l \in {"finish", "flush", "taking", "writing", "done"},
           x = Reader /\ finished => l # "finish",
           flushed' \/ l \in {"flush", "taking", "writing"} => finished /\ pending = 0
    PROVE  BatchInv'
<1> USE AgentsAnswerTheirRequest
<1>1. /\ pc' \in [Agents -> Labels] /\ pc'[x] = l
      /\ \A y \in Agents : y # x => pc'[y] = pc[y]
  BY OneMoves DEF BatchInv
<1>2. BatchTypeOK'
  BY <1>1 DEF BatchInv, BatchTypeOK
<1>3. ReaderGoesOneWay'
  <2>1. pc'[Reader] = pc[Reader] \/ (x = Reader /\ pc'[Reader] = l)
    BY <1>1
  <2>2. \A r \in todo : \A y \in Owners \cup Requests : Req(y) = r => pc'[y] = "none"
    BY <1>1 DEF BatchInv, ReaderGoesOneWay, Agents
  <2>3. QED
    BY <2>1, <2>2 DEF BatchInv, ReaderGoesOneWay
<1>4. SlotsAreWon' /\ IsFiniteSet(OpenSlots)' /\ SlotsMatchRequests'
  BY <1>1, SlotsFrame
<1>5. FlushersComeLast'
  BY <1>1 DEF BatchInv, FlushersComeLast
<1>6. QED
  BY <1>2, <1>3, <1>4, <1>5 DEF BatchInv

\* An agent or a request is the first to set `responded`: the slot of the request gets a holder, w,
\* or the client is closed.
LEMMA WinInv ==
    ASSUME BatchInv, NEW w \in Owners \cup Requests, Req(w) \notin todo, ~responded[Req(w)],
           responded' = [responded EXCEPT ![Req(w)] = TRUE],
           UNCHANGED <<todo, pending, finished, flushed, responses, line, wire, abandoned, invalid>>,
           closed' \in BOOLEAN, closed => closed',
           pc' \in [Agents -> Labels],
           \A y \in Agents : y # w =>
               pc'[y] = pc[y] \/ (pc[y] = "last" /\ pc'[y] = "releasing"),
           pc'[w] = "push" \/ (closed' /\ pc'[w] = pc[w])
    PROVE  BatchInv'
<1> USE AgentsAnswerTheirRequest
<1> DEFINE r == Req(w)
<1>1. /\ w \in Agents /\ r \in Requests /\ BatchTypeOK
      /\ responded' \in [Requests -> BOOLEAN] /\ responded'[r]
      /\ \A s \in Requests : responded[s] => responded'[s]
      /\ \A s \in Requests : s # r => responded'[s] = responded[s]
  BY DEF BatchInv, BatchTypeOK
<1>2. w \notin OpenSlots /\ \A x \in OpenSlots : Req(x) # r
  BY DEF BatchInv, SlotsAreWon
<1>3. /\ pc'[w] = "push" => OpenSlots' = OpenSlots \cup {w}
      /\ pc'[w] # "push" => OpenSlots' = OpenSlots
  <2>1. \A y \in Agents : y # w => (pc'[y] \in Holding <=> pc[y] \in Holding)
    BY DEF Holding
  <2>2. pc[w] \notin Holding
    BY <1>1, <1>2 DEF OpenSlots, Holding
  <2>3. QED
    BY <1>1, <2>1, <2>2 DEF OpenSlots, Holding
<1>4. Unanswered' = Unanswered \ {r} /\ r \in Unanswered
  BY <1>1 DEF Unanswered
<1>5. BatchTypeOK'
  BY <1>1 DEF BatchTypeOK
<1>6. ReaderGoesOneWay'
  <2>1. pc'[Reader] = pc[Reader]
    BY DEF BatchInv, ReaderGoesOneWay
  <2>2. \A s \in todo : s \in Requests /\ s # r
    BY <1>1 DEF BatchTypeOK
  <2>3. \A s \in todo : \A y \in Owners \cup Requests : Req(y) = s => pc'[y] = "none"
    BY <2>2 DEF BatchInv, ReaderGoesOneWay, Agents
  <2>4. QED
    BY <1>1, <2>1, <2>2, <2>3 DEF BatchInv, ReaderGoesOneWay
<1>7. SlotsAreWon'
  <2>1. \A x \in OpenSlots : responded'[Req(x)]
    BY <1>1, SlotsAreOthers DEF BatchInv, SlotsAreWon
  <2>2. QED
    BY <1>1, <1>2, <1>3, <2>1 DEF BatchInv, SlotsAreWon
<1>8. IsFiniteSet(OpenSlots)'
  BY <1>3, FS_AddElement DEF BatchInv
<1>9. SlotsMatchRequests'
  <2>1. Cardinality(Unanswered') = Cardinality(Unanswered) - 1
    BY <1>4, UnansweredAreFinite, FS_RemoveElement
  <2>2. pending \in Nat /\ pending' = pending
    BY <1>1 DEF BatchTypeOK
  <2>3. CASE pc'[w] = "push"
    <3>1. Cardinality(OpenSlots') = Cardinality(OpenSlots) + 1
      BY <1>2, <1>3, <2>3, FS_AddElement DEF BatchInv
    <3>2. QED
      BY <2>1, <2>2, <3>1, OpenCounts DEF BatchInv, SlotsMatchRequests
  <2>4. CASE pc'[w] # "push"
    <3>1. Cardinality(OpenSlots') = Cardinality(OpenSlots) /\ closed'
      BY <1>3, <2>4
    <3>2. QED
      BY <2>1, <2>2, <3>1, OpenCounts DEF BatchInv, SlotsMatchRequests
  <2>5. QED
    BY <2>3, <2>4
<1>10. NamedOnce'
  <2>1. \A x \in Agents : x # w /\ pc'[x] \in {"push", "locking"} => pc[x] \in {"push", "locking"}
    OBVIOUS
  <2>2. QED
    BY <1>1, <2>1, NamesFrameWon
<1>11. FlushersComeLast'
  BY <1>1 DEF BatchInv, FlushersComeLast
<1>12. QED
  BY <1>5, <1>6, <1>7, <1>8, <1>9, <1>10, <1>11 DEF BatchInv

\* A slot is given back; if it was the last one of a finished batch, by who goes to flush.
LEMMA GiveBackInv ==
    ASSUME BatchInv, NEW x \in Agents, NEW l \in Labels, pc[x] \in Holding, Goto(x, l),
           l \in {"held", "done", "flush"}, l = "flush" => pending = 1 /\ finished,
           pending' = pending - 1,
           UNCHANGED <<todo, responded, finished, flushed, responses, line, wire, invalid>>,
           closed' \in BOOLEAN, closed => closed', abandoned' \in BOOLEAN
    PROVE  BatchInv'
<1> USE AgentsAnswerTheirRequest
<1>1. /\ pc' \in [Agents -> Labels] /\ pc'[x] = l
      /\ \A y \in Agents : y # x => pc'[y] = pc[y]
      /\ OpenSlots' = OpenSlots \ {x}
  BY OneMoves DEF BatchInv, Holding
<1>2. /\ BatchTypeOK /\ pending \in Nat /\ x \in OpenSlots /\ x \in Owners \cup Requests
      /\ Unanswered' = Unanswered
  BY SlotsAreOthers DEF BatchInv, BatchTypeOK, Holding, OpenSlots, Unanswered
<1>3. pending >= Cardinality(OpenSlots) + Cardinality(Unanswered) /\ pending > 0
  BY <1>2, OpenCounts DEF BatchInv, SlotsMatchRequests
<1>4. BatchTypeOK'
  BY <1>1, <1>2, <1>3 DEF BatchTypeOK
<1>5. ReaderGoesOneWay'
  BY <1>1, <1>2 DEF BatchInv, ReaderGoesOneWay, Holding, Agents
<1>6. SlotsAreWon'
  BY <1>1 DEF BatchInv, SlotsAreWon
<1>7. IsFiniteSet(OpenSlots)' /\ Cardinality(OpenSlots') = Cardinality(OpenSlots) - 1
  BY <1>1, <1>2, FS_RemoveElement DEF BatchInv
<1>8. SlotsMatchRequests'
  BY <1>2, <1>3, <1>7, OpenCounts DEF BatchInv, SlotsMatchRequests
<1>9. NamedOnce'
  BY <1>1, NamesFrame
<1>10. FlushersComeLast'
  BY <1>1, <1>2, <1>3 DEF BatchInv, FlushersComeLast
<1>11. QED
  BY <1>4, <1>5, <1>6, <1>7, <1>8, <1>9, <1>10 DEF BatchInv


\* The answer of a slot's holder is collected; it is the first that names the request.
LEMMA PushInv ==
    ASSUME BatchInv, NEW x \in Agents, Push(x)
    PROVE  BatchInv'
<1> USE AgentsAnswerTheirRequest
<1>1. /\ BatchTypeOK /\ pc[x] = "locking" /\ Goto(x, "complete") /\ "complete" \in Labels
      /\ x \in OpenSlots /\ x \in Owners \cup Requests /\ Req(x) \in Requests
      /\ responded[Req(x)]
  BY SlotsAreOthers DEF BatchInv, SlotsAreWon, Push, OpenSlots, Labels
<1>2. /\ pc' \in [Agents -> Labels] /\ pc'[x] = "complete"
      /\ \A y \in Agents : y # x => pc'[y] = pc[y]
  BY <1>1, OneMoves
<1>3. /\ responses \in Seq(Requests \cup {Reader})
      /\ responses' = Append(responses, Req(x)) /\ UNCHANGED <<responded, line, wire>>
  BY <1>1 DEF BatchTypeOK, Push
<1>4. /\ responses' \in Seq(Requests \cup {Reader}) /\ Len(responses) \in Nat
      /\ Len(responses') = Len(responses) + 1
      /\ \A i \in 1..Len(responses) : responses'[i] = responses[i]
      /\ responses'[Len(responses')] = Req(x)
  BY <1>1, <1>3
<1>5. ~Named(Req(x))
  BY <1>1 DEF BatchInv, NamedOnce
<1>6. \A r \in Requests : Mentions(responses', r) <=> Mentions(responses, r) \/ r = Req(x)
  BY <1>4 DEF Mentions
<1>7. NamedOnce'
  <2>1. \A r \in Requests : Named(r)' => responded'[r]
    BY <1>1, <1>3, <1>6 DEF BatchInv, NamedOnce, Named
  <2>2. ASSUME NEW y \in Agents, pc'[y] \in {"push", "locking"}
        PROVE  ~Named(Req(y))'
    <3>1. y # x /\ pc[y] \in {"push", "locking"} /\ y \in OpenSlots
      BY <1>2, <2>2 DEF OpenSlots
    <3>2. Req(y) # Req(x) /\ Req(y) \in Requests
      BY <1>1, <3>1, SlotsAreOthers DEF BatchInv, SlotsAreWon
    <3>3. QED
      BY <1>3, <1>6, <3>1, <3>2 DEF BatchInv, NamedOnce, Named
  <2>3. AnswersDiffer(responses)'
    BY <1>4, <1>5 DEF BatchInv, NamedOnce, Named, AnswersDiffer, Mentions
  <2>4. AnswersDiffer(line)' /\ AnswersDiffer(wire)'
    BY <1>3 DEF BatchInv, NamedOnce, AnswersDiffer
  <2>5. \A r \in Requests :
          /\ ~(Mentions(responses', r) /\ Mentions(line', r))
          /\ ~(Mentions(responses', r) /\ Mentions(wire', r))
          /\ ~(Mentions(line', r) /\ Mentions(wire', r))
    BY <1>3, <1>5, <1>6 DEF BatchInv, NamedOnce, Named
  <2>6. QED
    BY <2>1, <2>2, <2>3, <2>4, <2>5 DEF NamedOnce
<1>8. BatchTypeOK'
  BY <1>1, <1>2, <1>4 DEF BatchTypeOK, Push
<1>9. ReaderGoesOneWay'
  BY <1>1, <1>2 DEF BatchInv, ReaderGoesOneWay, Push, Agents
<1>10. SlotsAreWon' /\ IsFiniteSet(OpenSlots)' /\ SlotsMatchRequests'
  BY <1>1, <1>2, SlotsFrame DEF Push, BatchTypeOK, Holding
<1>11. FlushersComeLast'
  BY <1>1, <1>2 DEF BatchInv, FlushersComeLast, Push
<1>12. QED
  BY <1>7, <1>8, <1>9, <1>10, <1>11 DEF BatchInv

\* An invalid item adds an error of the reader's own, which names no request.
LEMMA RefuseItemInv ==
    ASSUME BatchInv, RefuseItem
    PROVE  BatchInv'
<1> USE AgentsAnswerTheirRequest
<1>1. /\ BatchTypeOK /\ pc[Reader] = "reading" /\ Goto(Reader, "finish") /\ "finish" \in Labels
      /\ responses \in Seq(Requests \cup {Reader})
      /\ responses' = Append(responses, Reader)
      /\ UNCHANGED <<todo, responded, pending, finished, flushed, line, wire, abandoned, closed>>
      /\ invalid' \in BOOLEAN
  BY DEF BatchInv, BatchTypeOK, RefuseItem, Labels
<1>2. /\ responses' \in Seq(Requests \cup {Reader}) /\ Len(responses) \in Nat
      /\ Len(responses') = Len(responses) + 1
      /\ \A i \in 1..Len(responses) : responses'[i] = responses[i]
      /\ responses'[Len(responses')] = Reader
  BY <1>1
<1>3. \A r \in Requests : Mentions(responses', r) <=> Mentions(responses, r)
  BY <1>2 DEF Mentions
<1>4. /\ pc'[Reader] = "finish" /\ \A y \in Agents : y # Reader => pc'[y] = pc[y]
  BY <1>1, OneMoves
<1>5. NamedOnce'
  <2>1. \A r \in Requests : Named(r)' => responded'[r]
    BY <1>1, <1>3 DEF BatchInv, NamedOnce, Named
  <2>2. ASSUME NEW y \in Agents, pc'[y] \in {"push", "locking"}
        PROVE  ~Named(Req(y))'
    <3>1. pc[y] \in {"push", "locking"} /\ y \in OpenSlots
      BY <1>4, <2>2 DEF OpenSlots
    <3>2. Req(y) \in Requests
      BY <3>1, SlotsAreOthers
    <3>3. QED
      BY <1>1, <1>3, <3>1, <3>2 DEF BatchInv, NamedOnce, Named
  <2>3. AnswersDiffer(responses)'
    BY <1>2 DEF BatchInv, NamedOnce, AnswersDiffer
  <2>4. AnswersDiffer(line)' /\ AnswersDiffer(wire)'
    BY <1>1 DEF BatchInv, NamedOnce, AnswersDiffer
  <2>5. \A r \in Requests :
          /\ ~(Mentions(responses', r) /\ Mentions(line', r))
          /\ ~(Mentions(responses', r) /\ Mentions(wire', r))
          /\ ~(Mentions(line', r) /\ Mentions(wire', r))
    BY <1>1, <1>3 DEF BatchInv, NamedOnce, Named
  <2>6. QED
    BY <2>1, <2>2, <2>3, <2>4, <2>5 DEF NamedOnce
<1>6. /\ line' \in Seq(Requests \cup {Reader}) /\ wire' \in Seq(Requests \cup {Reader})
      /\ flushed' \in BOOLEAN /\ abandoned' \in BOOLEAN /\ closed' \in BOOLEAN
      /\ ~finished /\ ~flushed' /\ "finish" \notin Holding /\ pc[Reader] \notin Holding
  BY <1>1 DEF BatchInv, BatchTypeOK, ReaderGoesOneWay, FlushersComeLast, Holding
<1>7. QED
  BY <1>1, <1>2, <1>5, <1>6, MoveInv

\* The reader sets the bit; it flushes itself if no slot is open.
LEMMA FinishInv ==
    ASSUME BatchInv, Finish
    PROVE  BatchInv'
<1> USE AgentsAnswerTheirRequest
<1> DEFINE l == IF pending = 0 THEN "flush" ELSE "done"
<1>1. /\ BatchTypeOK /\ pc[Reader] = "finish" /\ Goto(Reader, l) /\ l \in Labels
      /\ l \notin Holding /\ ~finished /\ finished' = TRUE
      /\ ~flushed /\ \A x \in Agents : pc[x] \notin {"flush", "taking", "writing"}
  BY DEF BatchInv, ReaderGoesOneWay, FlushersComeLast, Finish, Labels, Holding
<1>2. /\ pc' \in [Agents -> Labels] /\ pc'[Reader] = l
      /\ \A y \in Agents : y # Reader => pc'[y] = pc[y]
  BY <1>1, OneMoves
<1>3. BatchTypeOK'
  BY <1>1, <1>2 DEF BatchTypeOK, Finish
<1>4. ReaderGoesOneWay'
  BY <1>1, <1>2 DEF BatchInv, ReaderGoesOneWay, Finish, Agents
<1>5. SlotsAreWon' /\ IsFiniteSet(OpenSlots)' /\ SlotsMatchRequests'
  BY <1>1, <1>2, SlotsFrame DEF Finish, BatchTypeOK, Holding
<1>6. NamedOnce'
  BY <1>1, <1>2, NamesFrame DEF Finish
<1>7. FlushersComeLast'
  BY <1>1, <1>2 DEF FlushersComeLast, Finish
<1>8. QED
  BY <1>3, <1>4, <1>5, <1>6, <1>7 DEF BatchInv

\* Somebody closes the client.
LEMMA CloseInv ==
    ASSUME BatchInv, CloseForInvalid \/ CloseElsewhere
    PROVE  BatchInv'
<1>1. closed' = TRUE
  BY DEF CloseForInvalid, CloseElsewhere
<1>2. UNCHANGED <<pc, todo, responded, pending, finished, flushed, responses, line, wire, abandoned, invalid>>
  BY DEF CloseForInvalid, CloseElsewhere
<1>3. BatchTypeOK' /\ ReaderGoesOneWay' /\ FlushersComeLast'
  BY <1>1, <1>2 DEF BatchInv, BatchTypeOK, ReaderGoesOneWay, FlushersComeLast
<1>4. SlotsAreWon' /\ IsFiniteSet(OpenSlots)' /\ SlotsMatchRequests'
  BY <1>1, <1>2, SlotsFrame DEF BatchInv, BatchTypeOK
<1>5. NamedOnce'
  BY <1>2, NamesFrame
<1>6. QED
  BY <1>3, <1>4, <1>5 DEF BatchInv


\* What the steps of the agents have in common: labels, types and where an agent goes back to.
LEMMA AgentFacts ==
    ASSUME BatchInv, NEW x \in Agents
    PROVE  /\ BatchTypeOK /\ Through(x) \in {"held", "done"}
           /\ Through(Reader) = "done"
           /\ {"none", "finish", "done", "held", "last", "releasing", "gone", "push", "locking",
               "flush", "taking", "writing"} \subseteq Labels
           /\ {"none", "finish", "done", "held", "last", "releasing", "gone", "flush", "taking",
               "writing", "respond"} \cap Holding = {}
           /\ {"push", "locking", "complete"} = Holding
           /\ responses \in Seq(Requests \cup {Reader}) /\ line \in Seq(Requests \cup {Reader})
           /\ wire \in Seq(Requests \cup {Reader}) /\ <<>> \in Seq(Requests \cup {Reader})
           /\ flushed \in BOOLEAN /\ abandoned \in BOOLEAN /\ invalid \in BOOLEAN
           /\ closed \in BOOLEAN /\ pending \in Nat
           /\ pc[x] # "none" => x = Reader \/ (x \in Owners \cup Requests /\ Req(x) \notin todo)
           /\ flushed \/ pc[x] \in {"flush", "taking", "writing"} => finished /\ pending = 0
<1>1. BatchTypeOK
  BY DEF BatchInv
<1>2. /\ Through(x) \in {"held", "done"} /\ Through(Reader) = "done"
  BY AgentsAnswerTheirRequest DEF Through
<1>3. /\ responses \in Seq(Requests \cup {Reader}) /\ line \in Seq(Requests \cup {Reader})
      /\ wire \in Seq(Requests \cup {Reader}) /\ <<>> \in Seq(Requests \cup {Reader})
      /\ flushed \in BOOLEAN /\ abandoned \in BOOLEAN /\ invalid \in BOOLEAN
      /\ closed \in BOOLEAN /\ pending \in Nat
  BY <1>1 DEF BatchTypeOK
<1>4. pc[x] # "none" => x = Reader \/ (x \in Owners \cup Requests /\ Req(x) \notin todo)
  BY DEF BatchInv, ReaderGoesOneWay, Agents
<1>5. flushed \/ pc[x] \in {"flush", "taking", "writing"} => finished /\ pending = 0
  BY DEF BatchInv, FlushersComeLast
<1>6. QED
  BY <1>1, <1>2, <1>3, <1>4, <1>5 DEF Labels, Holding

\* The reader comes to the end of the batch, or leaves it to the close.
LEMMA ReaderMovesInv ==
    ASSUME BatchInv, EndOfBatch \/ ReaderLeaves
    PROVE  BatchInv'
<1> USE AgentsAnswerTheirRequest
<1>1. pc[Reader] \notin Holding /\ (pc[Reader] = "reading" => ~finished)
  BY DEF BatchInv, ReaderGoesOneWay, Holding
<1>2. CASE EndOfBatch
  <2>1. ~flushed
    BY <1>1, <1>2 DEF BatchInv, FlushersComeLast, EndOfBatch
  <2>2. NamedOnce'
    BY <1>2, OneMoves, AgentFacts, NamesFrame DEF EndOfBatch
  <2>3. QED
    BY <1>1, <1>2, <2>1, <2>2, AgentFacts, MoveInv DEF EndOfBatch
<1>3. CASE ReaderLeaves
  <2>1. NamedOnce'
    BY <1>3, OneMoves, AgentFacts, NamesFrame DEF ReaderLeaves
  <2>2. QED
    BY <1>1, <1>3, <2>1, AgentFacts, MoveInv DEF ReaderLeaves
<1>4. QED
  BY <1>2, <1>3

\* An owner or a task answers: the first to set `responded` goes on to push.
LEMMA RespondInv ==
    ASSUME BatchInv, NEW x \in Owners \cup Requests, Respond(x)
    PROVE  BatchInv'
<1> USE AgentsAnswerTheirRequest
<1>1. x \in Agents /\ Req(x) \in Requests /\ Req(x) \notin todo /\ pc[x] \notin Holding
  BY AgentFacts DEF Respond, Holding, Agents
<1>2. CASE responded[Req(x)]
  <2>1. Goto(x, Through(x)) /\ UNCHANGED responded
    BY <1>2 DEF Respond
  <2>2. NamedOnce'
    BY <1>1, <2>1, OneMoves, AgentFacts, NamesFrame DEF Respond
  <2>3. QED
    BY <1>1, <2>1, <2>2, AgentFacts, MoveInv DEF Respond
<1>3. CASE ~responded[Req(x)]
  <2>1. responded' = [responded EXCEPT ![Req(x)] = TRUE] /\ Goto(x, "push")
    BY <1>3 DEF Respond
  <2>2. QED
    BY <1>1, <1>3, <2>1, OneMoves, AgentFacts, WinInv DEF Respond
<1>4. QED
  BY <1>2, <1>3

\* On a closed client the slot is given back, else its holder goes to the lock.
LEMMA PushCheckInv ==
    ASSUME BatchInv, NEW x \in Agents, PushCheck(x)
    PROVE  BatchInv'
<1>1. pc[x] \in Holding
  BY DEF PushCheck, Holding
<1>2. CASE closed
  BY <1>1, <1>2, AgentFacts, GiveBackInv DEF PushCheck
<1>3. CASE ~closed
  <2>1. Goto(x, "locking") /\ UNCHANGED pending
    BY <1>3 DEF PushCheck
  <2>2. NamedOnce'
    BY <2>1, OneMoves, AgentFacts, NamesFrame DEF PushCheck
  <2>3. x # Reader
    BY <1>1 DEF BatchInv, ReaderGoesOneWay, Holding
  <2>4. QED
    BY <1>1, <2>1, <2>2, <2>3, AgentFacts, MoveInv DEF PushCheck
<1>4. QED
  BY <1>2, <1>3

\* An answer is complete; the last one of a finished batch goes to flush it.
LEMMA CompleteInv ==
    ASSUME BatchInv, NEW x \in Agents, Complete(x)
    PROVE  BatchInv'
<1>1. pc[x] \in Holding
  BY DEF Complete, Holding
<1>2. QED
  BY <1>1, AgentFacts, GiveBackInv DEF Complete

\* The flush is claimed once.
LEMMA FlushOnceInv ==
    ASSUME BatchInv, NEW x \in Agents, FlushOnce(x)
    PROVE  BatchInv'
<1> DEFINE l == IF flushed THEN Through(x) ELSE "taking"
<1>1. /\ Goto(x, l) /\ l \in Labels /\ l \in {"held", "done", "taking"} /\ flushed' = TRUE
      /\ pc[x] = "flush"
  BY AgentFacts DEF FlushOnce
<1>2. NamedOnce'
  BY <1>1, OneMoves, AgentFacts, NamesFrame DEF FlushOnce
<1>3. x = Reader => l \in {"done", "taking"}
  BY AgentFacts
<1> HIDE DEF l
<1>4. QED
  BY <1>1, <1>2, <1>3, AgentFacts, MoveInv DEF FlushOnce

\* An empty sequence names nobody.
LEMMA EmptyNames == AnswersDiffer(<<>>) /\ \A r : ~Mentions(<<>>, r)
BY DEF AnswersDiffer, Mentions

\* The collected answers move from hand to hand, or are gone with who had them.
LEMMA HandOverInv ==
    ASSUME BatchInv, NEW x \in Agents, TakeBatch(x) \/ WriteBatch(x) \/ WriteFails(x)
    PROVE  BatchInv'
<1>1. PICK l \in {"held", "done", "writing"} : Goto(x, l) /\ (x = Reader => l \in {"done", "writing"})
  BY AgentFacts DEF TakeBatch, WriteBatch, WriteFails
<1>2. /\ UNCHANGED <<todo, responded, pending, finished, flushed, invalid>>
      /\ pc[x] \in {"taking", "writing"}
      /\ \/ responses' = <<>> /\ line' = responses /\ wire' = wire
         \/ responses' = responses /\ line' = <<>> /\ wire' = line
         \/ responses' = responses /\ line' = <<>> /\ wire' = wire
      /\ closed' \in BOOLEAN /\ (closed => closed') /\ abandoned' \in BOOLEAN
  BY AgentFacts DEF TakeBatch, WriteBatch, WriteFails
<1>3. \A y \in Agents : pc'[y] \in {"push", "locking"} => pc[y] \in {"push", "locking"}
  BY <1>1, OneMoves, AgentFacts
<1>4. NamedOnce'
  BY <1>2, <1>3, EmptyNames DEF BatchInv, NamedOnce, Named
<1>5. QED
  BY <1>1, <1>2, <1>4, AgentFacts, MoveInv

\* A future that is dropped gives a slot back, or loses the line it had.
LEMMA GiveUpInv ==
    ASSUME BatchInv, NEW x \in Owners \cup Requests, GiveUp(x)
    PROVE  BatchInv'
<1>1. x \in Agents /\ x # Reader /\ Goto(x, Through(x)) /\ Through(x) \in {"held", "done"}
  BY AgentsAnswerTheirRequest, AgentFacts DEF GiveUp
<1>2. CASE pc[x] = "locking"
  BY <1>1, <1>2, AgentFacts, GiveBackInv DEF GiveUp
<1>3. CASE pc[x] \in {"taking", "writing"}
  <2>1. /\ UNCHANGED <<todo, responded, pending, finished, flushed, responses, wire, invalid>>
        /\ line' \in {line, <<>>} /\ closed' \in BOOLEAN /\ abandoned' \in BOOLEAN
        /\ closed => closed'
    BY <1>3, AgentFacts, <1>1 DEF GiveUp
  <2>2. \A y \in Agents : pc'[y] \in {"push", "locking"} => pc[y] \in {"push", "locking"}
    BY <1>1, OneMoves, AgentFacts
  <2>3. NamedOnce'
    BY <2>1, <2>2, EmptyNames DEF BatchInv, NamedOnce, Named
  <2>4. QED
    BY <1>1, <1>3, <2>1, <2>3, AgentFacts, MoveInv
<1>4. QED
  BY <1>2, <1>3 DEF GiveUp

\* Owners come and go.
LEMMA OwnerMovesInv ==
    ASSUME BatchInv, NEW o \in Owners,
           DropOwner(o) \/ ReleaseFields(o) \/ \E copy \in Owners : Clone(o, copy)
    PROVE  BatchInv'
<1> USE AgentsAnswerTheirRequest
<1>1. PICK x \in Owners, l \in {"held", "last", "releasing", "gone"} :
          /\ Goto(x, l) /\ Req(x) = Req(o) /\ pc[o] # "none"
          /\ pc[x] \in {"none", "held", "releasing"}
  BY DEF DropOwner, ReleaseFields, Clone
<1>2. UNCHANGED <<todo, responded, pending, finished, flushed, responses, line, wire, abandoned, invalid, closed>>
  BY DEF DropOwner, ReleaseFields, Clone
<1>3. /\ x \in Agents /\ o \in Agents /\ l \in Labels /\ Req(x) \notin todo /\ x # Reader
      /\ l \notin Holding /\ pc[x] \notin Holding
  BY <1>1, AgentFacts DEF Holding
<1>4. NamedOnce'
  BY <1>1, <1>2, <1>3, OneMoves, AgentFacts, NamesFrame
<1>5. QED
  BY <1>1, <1>2, <1>3, <1>4, AgentFacts, MoveInv

\* The last owner leaves the answer to a task, or closes the client, or has nothing to do.
LEMMA AnswerDroppedInv ==
    ASSUME BatchInv, NEW o \in Owners, AnswerDropped(o)
    PROVE  BatchInv'
<1> USE AgentsAnswerTheirRequest
<1> DEFINE r == RequestOf[o]
<1>1. /\ o \in Agents /\ r \in Agents /\ r \in Requests /\ Req(o) = r /\ Req(r) = r /\ o # r
      /\ pc[o] = "last" /\ r \notin todo /\ BatchTypeOK
      /\ UNCHANGED <<todo, pending, finished, flushed, responses, line, wire, abandoned, invalid>>
  BY AgentFacts DEF AnswerDropped
<1> HIDE DEF r
<1>2. CASE Goto(o, "releasing") /\ UNCHANGED <<responded, closed>>
  <2>1. NamedOnce'
    BY <1>1, <1>2, OneMoves, AgentFacts, NamesFrame
  <2>2. QED
    BY <1>1, <1>2, <2>1, AgentFacts, MoveInv
<1>3. CASE /\ ~responded[r] /\ responded' = [responded EXCEPT ![r] = TRUE]
           /\ pc' = [pc EXCEPT ![o] = "releasing", ![r] = "push"] /\ UNCHANGED closed
  <2>1. /\ pc' \in [Agents -> Labels] /\ pc'[r] = "push"
        /\ \A y \in Agents : y # r => pc'[y] = pc[y] \/ (pc[y] = "last" /\ pc'[y] = "releasing")
    BY <1>1, <1>3, AgentFacts DEF BatchTypeOK
  <2>2. closed' \in BOOLEAN /\ (closed => closed') /\ ~responded[Req(r)] /\ Req(r) \notin todo
        /\ responded' = [responded EXCEPT ![Req(r)] = TRUE]
    BY <1>1, <1>3, AgentFacts
  <2>3. QED
    BY <1>1, <2>1, <2>2, WinInv
<1>4. CASE /\ ~responded[r] /\ responded' = [responded EXCEPT ![r] = TRUE]
           /\ Goto(o, "releasing") /\ closed' = TRUE
  <2>1. /\ pc' \in [Agents -> Labels] /\ pc'[r] = pc[r]
        /\ \A y \in Agents : y # r => pc'[y] = pc[y] \/ (pc[y] = "last" /\ pc'[y] = "releasing")
    BY <1>1, <1>4, OneMoves, AgentFacts
  <2>2. closed' \in BOOLEAN /\ closed' /\ ~responded[Req(r)] /\ Req(r) \notin todo
    BY <1>1, <1>4
  <2>3. QED
    BY <1>1, <1>4, <2>1, <2>2, WinInv
<1>5. QED
  BY <1>2, <1>3, <1>4 DEF AnswerDropped, r


\* Every step of a request task or of the reader keeps the invariant.
LEMMA BatchStepInv == BatchInv /\ [BatchNext]_batchVars => BatchInv'
<1> SUFFICES ASSUME BatchInv, [BatchNext]_batchVars PROVE BatchInv'
  OBVIOUS
<1>1. CASE ReaderStep
  BY <1>1, DispatchInv, RefuseRequestInv, RefuseItemInv, ReaderMovesInv, FinishInv, CloseInv
     DEF ReaderStep
<1>2. ASSUME NEW x \in Owners \cup Requests, Respond(x) \/ GiveUp(x)
      PROVE  BatchInv'
  BY <1>2, RespondInv, GiveUpInv
<1>3. ASSUME NEW x \in Agents, AnswerStep(x) \/ WriteBatch(x) \/ WriteFails(x)
      PROVE  BatchInv'
  BY <1>3, PushCheckInv, PushInv, CompleteInv, FlushOnceInv, HandOverInv DEF AnswerStep
<1>4. ASSUME NEW o \in Owners, OwnerStep(o)
      PROVE  BatchInv'
  BY <1>4, OwnerMovesInv, AnswerDroppedInv DEF OwnerStep
<1>5. CASE CloseElsewhere
  BY <1>5, CloseInv
<1>6. CASE UNCHANGED batchVars
  <2>1. BatchTypeOK' /\ ReaderGoesOneWay' /\ FlushersComeLast'
    BY <1>6 DEF batchVars, BatchInv, BatchTypeOK, ReaderGoesOneWay, FlushersComeLast
  <2>2. SlotsAreWon' /\ IsFiniteSet(OpenSlots)' /\ SlotsMatchRequests'
    BY <1>6, SlotsFrame DEF batchVars, BatchInv, BatchTypeOK
  <2>3. NamedOnce'
    BY <1>6, NamesFrame DEF batchVars
  <2>4. QED
    BY <2>1, <2>2, <2>3 DEF BatchInv
<1>7. QED
  BY <1>1, <1>2, <1>3, <1>4, <1>5, <1>6 DEF BatchNext

\* Where each answer of the batch is - with its task, among the collected ones, in the
\* line or on the wire - holds in every reachable state.
THEOREM BatchInvariant == BatchSpec => []BatchInv
BY BatchInitInv, BatchStepInv, PTL DEF BatchSpec

\* A sequence whose names differ, in three parts that share none, has a name at most once.
LEMMA NameIsSingle ==
    ASSUME BatchInv, NEW r \in Requests
    PROVE  Cardinality(Answers(responses \o line \o wire, r)) <= 1
<1> DEFINE q == responses \o line \o wire
           S == Answers(q, r)
<1>1. /\ responses \in Seq(Requests \cup {Reader}) /\ line \in Seq(Requests \cup {Reader})
      /\ wire \in Seq(Requests \cup {Reader}) /\ r # Reader
  BY AgentsAnswerTheirRequest DEF BatchInv, BatchTypeOK
<1>2. /\ AnswersDiffer(responses) /\ AnswersDiffer(line) /\ AnswersDiffer(wire)
      /\ ~(Mentions(responses, r) /\ Mentions(line, r))
      /\ ~(Mentions(responses, r) /\ Mentions(wire, r))
      /\ ~(Mentions(line, r) /\ Mentions(wire, r))
  BY DEF BatchInv, NamedOnce
<1>3. /\ q \in Seq(Requests \cup {Reader})
      /\ Len(q) = Len(responses) + Len(line) + Len(wire)
      /\ \A i \in 1..Len(q) :
            q[i] = IF i <= Len(responses) THEN responses[i]
                   ELSE IF i <= Len(responses) + Len(line) THEN line[i - Len(responses)]
                   ELSE wire[i - Len(responses) - Len(line)]
  BY <1>1
<1>4. \A i, j \in S : i = j
  <2>1. SUFFICES ASSUME NEW i \in 1..Len(q), NEW j \in 1..Len(q), q[i] = r, q[j] = r
                 PROVE  i = j
    BY <1>3 DEF Answers
  <2>2. /\ Len(responses) \in Nat /\ Len(line) \in Nat /\ Len(wire) \in Nat
    BY <1>1
  <2>3. QED
    BY <1>1, <1>2, <1>3, <2>1, <2>2 DEF AnswersDiffer, Mentions
<1>5. CASE S = {}
  BY <1>5, FS_EmptySet
<1>6. CASE S # {}
  <2>1. PICK i : S = {i}
    BY <1>4, <1>6
  <2>2. QED
    BY <2>1, FS_Singleton
<1>7. QED
  BY <1>5, <1>6

\* A batch goes out whole, whatever the clones of its requests, the tasks and a close do: at most one
\* answer for each request, nothing collected after the flush, no slot leaked or given back twice.
THEOREM BatchGoesOutWhole == BatchSpec => []BatchIsWhole
<1>1. BatchInv => AnsweredAtMostOnce
  BY NameIsSingle DEF AnsweredAtMostOnce
<1>2. BatchInv => FlushedWhenComplete
  <2>1. SUFFICES ASSUME BatchInv, flushed PROVE FlushedWhenComplete
    BY DEF FlushedWhenComplete
  <2>2. finished /\ pending = 0
    BY <2>1 DEF BatchInv, FlushersComeLast
  <2>3. OpenSlots = {}
    BY <2>1, <2>2, OpenCounts DEF BatchInv, SlotsMatchRequests
  <2>4. QED
    BY <2>2, <2>3 DEF FlushedWhenComplete, OpenSlots
<1>3. BatchInv => BatchIsWhole
  BY <1>1, <1>2 DEF BatchInv, BatchIsWhole
<1>4. QED
  BY <1>3, BatchInvariant, PTL

-----------------------------------------------------------------------------
(***************************************************************************)
(* The spawner, for any set of jobs, whichever of them call from the task  *)
(* of another, any number of workers and whenever they stop: SpawnerInv is *)
(* inductive.                                                              *)
(***************************************************************************)

\* No worker is named like the thread of a job or like no worker.
LEMMA WorkersAreNumbers ==
    /\ \A w \in Workers : w \in Nat /\ w # NoWorker /\ w # OwnThread
    /\ MaxWorkers \in Nat
BY SpawnerAssumption DEF Workers, NoWorker, OwnThread

\* A queue and what is appended to it.
LEMMA Appended ==
    ASSUME NEW q \in Seq(Jobs), NEW j \in Jobs
    PROVE  /\ Append(q, j) \in Seq(Jobs) /\ Len(q) \in Nat
           /\ Len(Append(q, j)) = Len(q) + 1
           /\ \A i \in 1..Len(q) : Append(q, j)[i] = q[i]
           /\ Append(q, j)[Len(q) + 1] = j
OBVIOUS

\* A queue and what is taken from it.
LEMMA Taken ==
    ASSUME NEW q \in Seq(Jobs), q # <<>>
    PROVE  /\ Head(q) \in Jobs /\ Tail(q) \in Seq(Jobs) /\ Len(q) \in Nat /\ Len(q) > 0
           /\ Len(Tail(q)) = Len(q) - 1 /\ Head(q) = q[1]
           /\ \A i \in 1..Len(Tail(q)) : Tail(q)[i] = q[i + 1] /\ i + 1 \in 1..Len(q)
OBVIOUS

\* Nobody has called yet, and no worker runs.
LEMMA SpawnerInitInv == SpawnerInit => SpawnerInv
<1> SUFFICES ASSUME SpawnerInit PROVE SpawnerInv
  OBVIOUS
<1> USE SpawnerAssumption DEF SpawnerInit
<1>1. SpawnerTypeOK
  BY DEF SpawnerTypeOK, Over
<1>2. /\ starts \in [Jobs -> Nat]
      /\ workerQueue \in [Workers -> Seq(Jobs)] /\ workerHand \in [Workers -> SUBSET Jobs]
  OBVIOUS
<1>3. OutcomeIsTrue /\ CallsHaveTheirTask
  BY DEF OutcomeIsTrue, CallsHaveTheirTask
<1>4. EnvelopesAreAwaited
  BY DEF EnvelopesAreAwaited
<1>5. QED
  BY <1>1, <1>2, <1>3, <1>4 DEF SpawnerInv

\* What a worker has is a job whose call waits for it.
LEMMA EnvelopeFacts ==
    ASSUME SpawnerInv, NEW w \in Workers
    PROVE  /\ Len(workerQueue[w]) \in Nat /\ workerQueue[w] \in Seq(Jobs)
           /\ \A i \in 1..Len(workerQueue[w]) :
                workerQueue[w][i] \in Jobs /\ IsAwaited(workerQueue[w][i], w, "sent")
           /\ \A j \in workerHand[w] : j \in Jobs /\ IsAwaited(j, w, "taken")
BY DEF SpawnerInv, EnvelopesAreAwaited

\* Envelopes stay awaited while nobody who waits is told anything.
LEMMA AwaitedAsBefore ==
    ASSUME SpawnerInv, UNCHANGED <<workerQueue, workerHand>>,
           \A j \in Jobs, w \in Workers : callPc[j] = "wait" /\ callTx[j] = w /\ w \in alive =>
              /\ callPc'[j] = "wait" /\ callTx'[j] = w
              /\ taskState'[j] = taskState[j] /\ w \in alive'
    PROVE  EnvelopesAreAwaited'
<1> SUFFICES ASSUME NEW w \in Workers
             PROVE  /\ \A i \in 1..Len(workerQueue[w]) : IsAwaited(workerQueue[w][i], w, "sent")'
                    /\ \A i, k \in 1..Len(workerQueue[w]) :
                         workerQueue[w][i] = workerQueue[w][k] => i = k
                    /\ \A j \in workerHand[w] : IsAwaited(j, w, "taken")'
  BY DEF EnvelopesAreAwaited
<1>1. \A i, k \in 1..Len(workerQueue[w]) : workerQueue[w][i] = workerQueue[w][k] => i = k
  BY DEF SpawnerInv, EnvelopesAreAwaited
<1>2. \A j \in Jobs : IsAwaited(j, w, "sent") => IsAwaited(j, w, "sent")'
  BY DEF IsAwaited
<1>3. \A j \in Jobs : IsAwaited(j, w, "taken") => IsAwaited(j, w, "taken")'
  BY DEF IsAwaited
<1>4. QED
  BY <1>1, <1>2, <1>3, EnvelopeFacts

\* A call that goes on without its task, its envelope or a worker's being touched.
LEMMA CallMovesInv ==
    ASSUME SpawnerInv, NEW j \in Jobs, NEW l \in {"choose", "send", "forget", "fallback"},
           callPc[j] \in {"none", "choose", "send", "forget"}, callPc' = [callPc EXCEPT ![j] = l],
           UNCHANGED <<taskState, runsOn, starts, workerQueue, workerHand, deaths>>,
           tries' \in [Jobs -> 0..2], callTx' \in [Jobs -> Workers \cup {NoWorker}],
           \A k \in Jobs : k # j => callTx'[k] = callTx[k],
           workerTx' \in Workers \cup {NoWorker}, started' \in 0..MaxWorkers,
           alive' \subseteq 1..started', alive \subseteq alive'
    PROVE  SpawnerInv'
<1>1. callPc' \in [Jobs -> Over \cup {"choose", "send", "forget", "wait", "fallback"}]
  BY DEF SpawnerInv, SpawnerTypeOK
<1>2. /\ callPc'[j] = l /\ \A k \in Jobs : k # j => callPc'[k] = callPc[k]
  BY DEF SpawnerInv, SpawnerTypeOK
<1>3. SpawnerTypeOK'
  BY <1>1 DEF SpawnerInv, SpawnerTypeOK
<1>4. OutcomeIsTrue'
  BY <1>2 DEF SpawnerInv, OutcomeIsTrue, CallsHaveTheirTask
<1>5. CallsHaveTheirTask'
  BY <1>2 DEF SpawnerInv, CallsHaveTheirTask
<1>6. EnvelopesAreAwaited'
  BY <1>2, AwaitedAsBefore
<1>7. QED
  BY <1>3, <1>4, <1>5, <1>6 DEF SpawnerInv

\* Another attempt or the fallback: the call goes on with its task in hand.
LEMMA TryAgainFacts ==
    ASSUME SpawnerInv, NEW j \in Jobs, TryAgain(j)
    PROVE  /\ tries' \in [Jobs -> 0..2]
           /\ \E l \in {"choose", "fallback"} : callPc' = [callPc EXCEPT ![j] = l]
<1>1. CASE tries[j] < 2
  BY <1>1 DEF TryAgain, SpawnerInv, SpawnerTypeOK
<1>2. CASE ~(tries[j] < 2)
  BY <1>2 DEF TryAgain, SpawnerInv, SpawnerTypeOK
<1>3. QED
  BY <1>1, <1>2

\* The steps of a call that leave its task with it.
LEMMA CallStepsWithTask ==
    ASSUME SpawnerInv, NEW j \in Jobs,
           Calls(j) \/ TakeSender(j) \/ StartWorker(j) \/ StartWorkerFails(j)
             \/ SendFails(j) \/ ForgetWorker(j)
    PROVE  SpawnerInv'
<1> USE SpawnerAssumption
<1>1. /\ tries \in [Jobs -> 0..2] /\ callTx \in [Jobs -> Workers \cup {NoWorker}]
      /\ workerTx \in Workers \cup {NoWorker} /\ started \in 0..MaxWorkers
      /\ alive \subseteq 1..started
  BY DEF SpawnerInv, SpawnerTypeOK
<1>2. CASE Calls(j)
  <2>1. callPc[j] = "none" /\ callPc' = [callPc EXCEPT ![j] = "choose"]
    BY <1>2 DEF Calls
  <2>2. /\ tries' = [tries EXCEPT ![j] = 1]
        /\ UNCHANGED <<callTx, taskState, runsOn, starts, workerTx, alive, workerQueue, workerHand,
                       started, deaths>>
    BY <1>2 DEF Calls, workerVars
  <2>3. tries' \in [Jobs -> 0..2]
    BY <1>1, <2>2
  <2>4. QED
    BY <1>1, <2>1, <2>2, <2>3, CallMovesInv
<1>3. CASE TakeSender(j)
  BY <1>1, <1>3, CallMovesInv DEF TakeSender, workerVars
<1>4. CASE StartWorker(j)
  <2>1. /\ started' \in 0..MaxWorkers /\ started' \in Workers /\ alive' \subseteq 1..started'
        /\ alive \subseteq alive'
    BY <1>1, <1>4 DEF StartWorker, Workers
  <2>2. QED
    BY <1>1, <1>4, <2>1, CallMovesInv DEF StartWorker
<1>5. CASE StartWorkerFails(j)
  BY <1>1, <1>5, TryAgainFacts, CallMovesInv DEF StartWorkerFails, workerVars
<1>6. CASE SendFails(j)
  BY <1>1, <1>6, CallMovesInv DEF SendFails, workerVars
<1>7. CASE ForgetWorker(j)
  BY <1>1, <1>7, TryAgainFacts, CallMovesInv DEF ForgetWorker, workerVars
<1>8. QED
  BY <1>2, <1>3, <1>4, <1>5, <1>6, <1>7

\* What is left to show of a step once it keeps the envelopes awaited.
LEMMA SpawnerInvHolds ==
    ASSUME SpawnerInv, SpawnerTypeOK', starts' \in [Jobs -> Nat],
           workerQueue' \in [Workers -> Seq(Jobs)], workerHand' \in [Workers -> SUBSET Jobs],
           EnvelopesAreAwaited',
           \A j \in Jobs :
               \/ callPc'[j] = callPc[j] /\ taskState'[j] = taskState[j] /\ starts'[j] = starts[j]
               \/ callPc'[j] = "wait" /\ taskState'[j] \in {"sent", "taken", "dropped"} /\ starts'[j] = 0
               \/ callPc'[j] = "fallback" /\ taskState'[j] = "held" /\ starts'[j] = 0
               \/ callPc'[j] \in {"lost", "failed"} /\ starts'[j] = 0
               \/ callPc'[j] = "ok" /\ starts'[j] = 1
    PROVE  SpawnerInv'
<1>1. OutcomeIsTrue'
  BY DEF SpawnerInv, OutcomeIsTrue
<1>2. CallsHaveTheirTask'
  BY DEF SpawnerInv, CallsHaveTheirTask
<1>3. QED
  BY <1>1, <1>2 DEF SpawnerInv

\* An envelope goes to the back of the queue of a worker that lives.
LEMMA SendInv ==
    ASSUME SpawnerInv, NEW j \in Jobs, Send(j)
    PROVE  SpawnerInv'
<1> DEFINE v == callTx[j]
<1> DEFINE AwaitedNow(k, w, state) ==
             callPc'[k] = "wait" /\ taskState'[k] = state /\ callTx'[k] = w /\ w \in alive'
<1>1. /\ callPc[j] = "send" /\ v \in Workers /\ v \in alive /\ taskState[j] = "held" /\ starts[j] = 0
  <2>1. callPc[j] = "send" /\ v \in alive
    BY DEF Send
  <2>2. v \in Workers
    <3>1. callTx[j] \in Workers \cup {NoWorker} /\ alive \subseteq 1..started
      BY DEF SpawnerInv, SpawnerTypeOK
    <3>2. NoWorker \notin 1..started
      BY DEF NoWorker
    <3>3. QED
      BY <2>1, <3>1, <3>2
  <2>3. taskState[j] = "held" /\ starts[j] = 0
    BY <2>1 DEF SpawnerInv, CallsHaveTheirTask, OutcomeIsTrue
  <2>4. QED
    BY <2>1, <2>2, <2>3
<1>2. /\ callPc' = [callPc EXCEPT ![j] = "wait"] /\ taskState' = [taskState EXCEPT ![j] = "sent"]
      /\ workerQueue' = [workerQueue EXCEPT ![v] = Append(workerQueue[v], j)]
      /\ UNCHANGED <<tries, callTx, runsOn, starts, workerTx, alive, workerHand, started, deaths>>
  BY DEF Send
<1>3. /\ workerQueue \in [Workers -> Seq(Jobs)] /\ Append(workerQueue[v], j) \in Seq(Jobs)
      /\ callPc'[j] = "wait" /\ taskState'[j] = "sent"
      /\ \A k \in Jobs : k # j => callPc'[k] = callPc[k] /\ taskState'[k] = taskState[k]
      /\ workerQueue'[v] = Append(workerQueue[v], j)
      /\ \A w \in Workers : w # v => workerQueue'[w] = workerQueue[w]
  BY <1>1, <1>2, Appended DEF SpawnerInv, SpawnerTypeOK
<1>4. workerQueue' \in [Workers -> Seq(Jobs)]
  BY <1>1, <1>2, <1>3
<1>5. \A w \in Workers, k \in Jobs :
        /\ IsAwaited(k, w, "sent") => k # j /\ AwaitedNow(k, w, "sent")
        /\ IsAwaited(k, w, "taken") => k # j /\ AwaitedNow(k, w, "taken")
  BY <1>1, <1>2, <1>3 DEF IsAwaited
<1>6. ASSUME NEW w \in Workers
      PROVE  /\ \A i \in 1..Len(workerQueue'[w]) : AwaitedNow(workerQueue'[w][i], w, "sent")
             /\ \A i, k \in 1..Len(workerQueue'[w]) :
                  workerQueue'[w][i] = workerQueue'[w][k] => i = k
             /\ \A k \in workerHand'[w] : AwaitedNow(k, w, "taken")
  <2>1. \A k \in workerHand'[w] : AwaitedNow(k, w, "taken")
    BY <1>2, <1>5, EnvelopeFacts
  <2>2. \A i, k \in 1..Len(workerQueue[w]) : workerQueue[w][i] = workerQueue[w][k] => i = k
    BY DEF SpawnerInv, EnvelopesAreAwaited
  <2>3. \A i \in 1..Len(workerQueue[w]) :
          workerQueue[w][i] # j /\ AwaitedNow(workerQueue[w][i], w, "sent")
    BY <1>5, EnvelopeFacts
  <2>4. CASE w # v
    <3>1. workerQueue'[w] = workerQueue[w]
      BY <1>3, <2>4
    <3> HIDE DEF AwaitedNow
    <3>2. QED
      BY <2>1, <2>2, <2>3, <3>1
  <2>5. CASE w = v
    <3>1. /\ Len(workerQueue[w]) \in Nat /\ Len(workerQueue'[w]) = Len(workerQueue[w]) + 1
          /\ \A i \in 1..Len(workerQueue[w]) : workerQueue'[w][i] = workerQueue[w][i]
          /\ workerQueue'[w][Len(workerQueue[w]) + 1] = j
      BY <1>1, <1>3, <2>5, Appended
    <3>2. \A i \in 1..Len(workerQueue'[w]) : i \in 1..Len(workerQueue[w]) \/ i = Len(workerQueue[w]) + 1
      BY <3>1
    <3>3. AwaitedNow(j, w, "sent")
      BY <1>1, <1>2, <1>3, <2>5
    <3>4. \A i \in 1..Len(workerQueue'[w]) : AwaitedNow(workerQueue'[w][i], w, "sent")
      <4> HIDE DEF AwaitedNow
      <4>1. QED
        BY <2>3, <3>1, <3>2, <3>3
    <3>5. \A i, k \in 1..Len(workerQueue'[w]) :
                  workerQueue'[w][i] = workerQueue'[w][k] => i = k
      BY <2>2, <2>3, <3>1, <3>2
    <3>6. QED
      BY <2>1, <3>4, <3>5
  <2>6. QED
    BY <2>4, <2>5
<1>7. EnvelopesAreAwaited'
  BY <1>6 DEF EnvelopesAreAwaited, IsAwaited
<1>8. SpawnerTypeOK'
  BY <1>2, <1>4 DEF SpawnerInv, SpawnerTypeOK
<1>9. \A k \in Jobs :
        \/ callPc'[k] = callPc[k] /\ taskState'[k] = taskState[k] /\ starts'[k] = starts[k]
        \/ callPc'[k] = "wait" /\ taskState'[k] \in {"sent", "taken", "dropped"} /\ starts'[k] = 0
  BY <1>1, <1>2, <1>3
<1>10. starts' \in [Jobs -> Nat] /\ workerHand' \in [Workers -> SUBSET Jobs]
  BY <1>2 DEF SpawnerInv
<1>11. QED
  BY <1>4, <1>7, <1>8, <1>9, <1>10, SpawnerInvHolds

\* A caller whose worker is gone takes its task back or finds it was taken.
LEMMA ReclaimInv ==
    ASSUME SpawnerInv, NEW j \in Jobs, Reclaim(j)
    PROVE  SpawnerInv'
<1>1. /\ callPc[j] = "wait" /\ callTx[j] \notin alive /\ starts[j] = 0
      /\ UNCHANGED <<tries, runsOn, starts, alive, workerQueue, workerHand, started, deaths>>
      /\ workerTx' = NoWorker /\ callTx' = [callTx EXCEPT ![j] = NoWorker]
  BY DEF Reclaim, workerVars, SpawnerInv, OutcomeIsTrue
<1>2. /\ \/ callPc' = [callPc EXCEPT ![j] = "fallback"] /\ taskState' = [taskState EXCEPT ![j] = "held"]
         \/ callPc' = [callPc EXCEPT ![j] = "lost"] /\ UNCHANGED taskState
  BY DEF Reclaim
<1>3. SpawnerTypeOK'
  <2>1. callTx' \in [Jobs -> Workers \cup {NoWorker}]
    BY <1>1 DEF SpawnerInv, SpawnerTypeOK
  <2>2. callPc' \in [Jobs -> Over \cup {"choose", "send", "forget", "wait", "fallback"}]
    BY <1>2 DEF SpawnerInv, SpawnerTypeOK, Over
  <2>3. taskState' \in [Jobs -> {"held", "sent", "taken", "running", "finished", "dropped"}]
    BY <1>2 DEF SpawnerInv, SpawnerTypeOK
  <2>4. QED
    BY <1>1, <2>1, <2>2, <2>3 DEF SpawnerInv, SpawnerTypeOK
<1>4. /\ \A k \in Jobs : k # j => callPc'[k] = callPc[k] /\ taskState'[k] = taskState[k]
                                  /\ callTx'[k] = callTx[k]
      /\ (callPc'[j] = "fallback" /\ taskState'[j] = "held") \/ callPc'[j] = "lost"
  BY <1>1, <1>2 DEF SpawnerInv, SpawnerTypeOK
<1>5. EnvelopesAreAwaited'
  BY <1>1, <1>4, AwaitedAsBefore
<1>6. /\ starts' \in [Jobs -> Nat] /\ workerHand' \in [Workers -> SUBSET Jobs]
      /\ workerQueue' \in [Workers -> Seq(Jobs)]
  BY <1>1 DEF SpawnerInv
<1>7. QED
  BY <1>1, <1>3, <1>4, <1>5, <1>6, SpawnerInvHolds

\* The fallback runs the task the caller still has, or drops it.
LEMMA FallbackInv ==
    ASSUME SpawnerInv, NEW j \in Jobs, Fallback(j) \/ FallbackFails(j)
    PROVE  SpawnerInv'
<1>1. /\ callPc[j] = "fallback" /\ starts[j] = 0
      /\ UNCHANGED <<tries, callTx, workerTx, alive, workerQueue, workerHand, started, deaths>>
  BY DEF Fallback, FallbackFails, workerVars, SpawnerInv, OutcomeIsTrue
<1>2. \/ /\ callPc' = [callPc EXCEPT ![j] = "ok"] /\ taskState' = [taskState EXCEPT ![j] = "running"]
         /\ runsOn' = [runsOn EXCEPT ![j] = OwnThread] /\ starts' = [starts EXCEPT ![j] = starts[j] + 1]
      \/ /\ callPc' = [callPc EXCEPT ![j] = "failed"] /\ taskState' = [taskState EXCEPT ![j] = "dropped"]
         /\ UNCHANGED <<runsOn, starts>>
  BY DEF Fallback, FallbackFails, Runs
<1>3. starts \in [Jobs -> Nat] /\ starts' \in [Jobs -> Nat]
  <2>1. starts \in [Jobs -> Nat]
    BY DEF SpawnerInv
  <2>2. starts' = [starts EXCEPT ![j] = 1] \/ starts' = starts
    BY <1>1, <1>2
  <2>3. QED
    BY <2>1, <2>2
<1>4. SpawnerTypeOK'
  <2>1. callPc' \in [Jobs -> Over \cup {"choose", "send", "forget", "wait", "fallback"}]
    BY <1>2 DEF SpawnerInv, SpawnerTypeOK, Over
  <2>2. taskState' \in [Jobs -> {"held", "sent", "taken", "running", "finished", "dropped"}]
    BY <1>2 DEF SpawnerInv, SpawnerTypeOK
  <2>3. runsOn' \in [Jobs -> Workers \cup {NoWorker, OwnThread}]
    BY <1>2 DEF SpawnerInv, SpawnerTypeOK
  <2>4. QED
    BY <1>1, <2>1, <2>2, <2>3 DEF SpawnerInv, SpawnerTypeOK
<1>5. /\ \A k \in Jobs : k # j => callPc'[k] = callPc[k] /\ taskState'[k] = taskState[k]
                                  /\ starts'[k] = starts[k]
      /\ \/ callPc'[j] = "ok" /\ starts'[j] = 1
         \/ callPc'[j] = "failed" /\ starts'[j] = 0
  BY <1>1, <1>2, <1>3 DEF SpawnerInv, SpawnerTypeOK
<1>6. EnvelopesAreAwaited'
  BY <1>1, <1>5, AwaitedAsBefore
<1>7. /\ workerHand' \in [Workers -> SUBSET Jobs] /\ workerQueue' \in [Workers -> Seq(Jobs)]
  BY <1>1 DEF SpawnerInv
<1>8. QED
  BY <1>3, <1>4, <1>5, <1>6, <1>7, SpawnerInvHolds

\* A task that runs is no call's any more, so its end touches no call.
LEMMA TaskEndsInv ==
    ASSUME SpawnerInv, NEW j \in Jobs, TaskEnds(j)
    PROVE  SpawnerInv'
<1>1. /\ taskState[j] = "running" /\ taskState' = [taskState EXCEPT ![j] = "finished"]
      /\ UNCHANGED <<callPc, tries, callTx, runsOn, starts, workerTx, alive, workerQueue, workerHand,
                     started, deaths>>
  BY DEF TaskEnds, workerVars
<1>2. callPc[j] \in {"ok", "lost", "failed"}
  <2>1. callPc[j] \in Over \cup {"choose", "send", "forget", "wait", "fallback"}
    BY DEF SpawnerInv, SpawnerTypeOK
  <2>2. callPc[j] \notin {"none", "choose", "send", "forget", "fallback"}
    BY <1>1 DEF SpawnerInv, CallsHaveTheirTask
  <2>3. callPc[j] # "wait"
    BY <1>1 DEF SpawnerInv, CallsHaveTheirTask
  <2>4. QED
    BY <2>1, <2>2, <2>3 DEF Over
<1>3. \A k \in Jobs : k # j => taskState'[k] = taskState[k]
  BY <1>1 DEF SpawnerInv, SpawnerTypeOK
<1>4. SpawnerTypeOK'
  BY <1>1 DEF SpawnerInv, SpawnerTypeOK
<1>5. EnvelopesAreAwaited'
  BY <1>1, <1>2, <1>3, AwaitedAsBefore
<1>6. starts[j] = (IF callPc[j] = "ok" THEN 1 ELSE 0)
  BY DEF SpawnerInv, OutcomeIsTrue
<1>7. /\ workerHand' \in [Workers -> SUBSET Jobs] /\ workerQueue' \in [Workers -> Seq(Jobs)]
      /\ starts' \in [Jobs -> Nat]
  BY <1>1 DEF SpawnerInv
<1>8. QED
  BY <1>1, <1>2, <1>3, <1>4, <1>5, <1>6, <1>7, SpawnerInvHolds

\* A worker takes the first envelope out of its queue.
LEMMA WorkerTakesInv ==
    ASSUME SpawnerInv, NEW w \in Workers, WorkerTakes(w)
    PROVE  SpawnerInv'
<1> DEFINE h == Head(workerQueue[w])
<1> DEFINE AwaitedNow(k, v, state) ==
             callPc'[k] = "wait" /\ taskState'[k] = state /\ callTx'[k] = v /\ v \in alive'
<1>1. /\ w \in alive /\ workerHand[w] = {} /\ workerQueue[w] # <<>>
      /\ workerQueue' = [workerQueue EXCEPT ![w] = Tail(workerQueue[w])]
      /\ workerHand' = [workerHand EXCEPT ![w] = {h}]
      /\ taskState' = [taskState EXCEPT ![h] = "taken"]
      /\ UNCHANGED <<callPc, tries, callTx, runsOn, starts, workerTx, alive, started, deaths>>
  BY DEF WorkerTakes
<1>2. /\ h \in Jobs /\ Tail(workerQueue[w]) \in Seq(Jobs)
      /\ Len(workerQueue[w]) \in Nat /\ Len(workerQueue[w]) > 0 /\ h = workerQueue[w][1]
      /\ Len(Tail(workerQueue[w])) = Len(workerQueue[w]) - 1
      /\ \A i \in 1..Len(Tail(workerQueue[w])) :
           Tail(workerQueue[w])[i] = workerQueue[w][i + 1] /\ i + 1 \in 1..Len(workerQueue[w])
  BY <1>1, EnvelopeFacts, Taken
<1>3. IsAwaited(h, w, "sent") /\ starts[h] = 0
  BY <1>2, EnvelopeFacts DEF IsAwaited, SpawnerInv, OutcomeIsTrue
<1>4. /\ workerQueue'[w] = Tail(workerQueue[w]) /\ workerHand'[w] = {h}
      /\ taskState'[h] = "taken"
      /\ \A k \in Jobs : k # h => taskState'[k] = taskState[k]
      /\ \A v \in Workers : v # w => workerQueue'[v] = workerQueue[v] /\ workerHand'[v] = workerHand[v]
  BY <1>1, <1>2 DEF SpawnerInv, SpawnerTypeOK
<1>5. /\ workerQueue' \in [Workers -> Seq(Jobs)] /\ workerHand' \in [Workers -> SUBSET Jobs]
      /\ starts' \in [Jobs -> Nat]
  BY <1>1, <1>2 DEF SpawnerInv
<1>6. SpawnerTypeOK'
  BY <1>1, <1>2, <1>5 DEF SpawnerInv, SpawnerTypeOK
<1>7. \A k \in Jobs, v \in Workers :
        /\ k # h /\ IsAwaited(k, v, "sent") => AwaitedNow(k, v, "sent")
        /\ IsAwaited(k, v, "taken") => AwaitedNow(k, v, "taken")
  BY <1>1, <1>3, <1>4 DEF IsAwaited
<1>8. ASSUME NEW v \in Workers
      PROVE  /\ \A i \in 1..Len(workerQueue'[v]) : AwaitedNow(workerQueue'[v][i], v, "sent")
             /\ \A i, k \in 1..Len(workerQueue'[v]) :
                  workerQueue'[v][i] = workerQueue'[v][k] => i = k
             /\ \A k \in workerHand'[v] : AwaitedNow(k, v, "taken")
  <2>1. \A i, k \in 1..Len(workerQueue[v]) : workerQueue[v][i] = workerQueue[v][k] => i = k
    BY DEF SpawnerInv, EnvelopesAreAwaited
  <2>2. \A i \in 1..Len(workerQueue[v]) :
          workerQueue[v][i] \in Jobs /\ IsAwaited(workerQueue[v][i], v, "sent")
    BY EnvelopeFacts
  <2>3. CASE v # w
    <3>1. \A i \in 1..Len(workerQueue[v]) : workerQueue[v][i] # h
      BY <1>3, <2>2, <2>3 DEF IsAwaited
    <3>2. \A k \in workerHand[v] : k \in Jobs /\ IsAwaited(k, v, "taken")
      BY EnvelopeFacts
    <3> HIDE DEF h, AwaitedNow
    <3>3. QED
      BY <1>4, <1>7, <2>1, <2>2, <2>3, <3>1, <3>2
  <2>4. CASE v = w
    <3>1. AwaitedNow(h, w, "taken")
      BY <1>1, <1>3, <1>4 DEF IsAwaited
    <3>2. \A i \in 1..Len(workerQueue'[w]) : i + 1 \in 1..Len(workerQueue[w])
                                             /\ workerQueue'[w][i] = workerQueue[w][i + 1]
      BY <1>2, <1>4
    <3>3. \A i \in 1..Len(workerQueue'[w]) : i + 1 # 1 /\ i \in Nat
      BY <1>2, <1>4
    <3>4. 1 \in 1..Len(workerQueue[w])
      BY <1>2
    <3>5. \A i \in 1..Len(workerQueue'[w]) : workerQueue'[w][i] # h
      BY <1>2, <2>1, <2>4, <3>2, <3>3, <3>4
    <3>6. \A i, k \in 1..Len(workerQueue'[w]) : workerQueue'[w][i] = workerQueue'[w][k] => i = k
      BY <2>1, <2>4, <3>2, <3>3
    <3> HIDE DEF h, AwaitedNow
    <3>7. \A i \in 1..Len(workerQueue'[w]) : AwaitedNow(workerQueue'[w][i], w, "sent")
      BY <1>7, <2>2, <2>4, <3>2, <3>5
    <3>8. QED
      BY <1>4, <2>4, <3>1, <3>6, <3>7
  <2>5. QED
    BY <2>3, <2>4
<1>9. EnvelopesAreAwaited'
  BY <1>8 DEF EnvelopesAreAwaited, IsAwaited
<1>10. callPc'[h] = "wait"
  BY <1>1, <1>3 DEF IsAwaited
<1>11. QED
  BY <1>1, <1>3, <1>4, <1>5, <1>6, <1>9, <1>10, SpawnerInvHolds

\* A worker starts the task it has in hand and tells the caller.
LEMMA WorkerStartsInv ==
    ASSUME SpawnerInv, NEW w \in Workers, WorkerStarts(w)
    PROVE  SpawnerInv'
<1> DEFINE AwaitedNow(k, v, state) ==
             callPc'[k] = "wait" /\ taskState'[k] = state /\ callTx'[k] = v /\ v \in alive'
<1>1. PICK j \in workerHand[w] :
        /\ taskState' = [taskState EXCEPT ![j] = "running"] /\ runsOn' = [runsOn EXCEPT ![j] = w]
        /\ starts' = [starts EXCEPT ![j] = starts[j] + 1]
        /\ callPc' = [callPc EXCEPT ![j] = "ok"] /\ callTx' = [callTx EXCEPT ![j] = NoWorker]
  BY DEF WorkerStarts, Runs
<1>2. /\ workerHand' = [workerHand EXCEPT ![w] = {}]
      /\ UNCHANGED <<tries, workerTx, alive, workerQueue, started, deaths>>
  BY DEF WorkerStarts
<1>3. j \in Jobs /\ IsAwaited(j, w, "taken")
  BY <1>1, EnvelopeFacts
<1>4. starts[j] = 0
  BY <1>3 DEF IsAwaited, SpawnerInv, OutcomeIsTrue
<1>5. /\ callPc'[j] = "ok" /\ starts'[j] = 1
      /\ \A k \in Jobs : k # j => /\ callPc'[k] = callPc[k] /\ taskState'[k] = taskState[k]
                                  /\ starts'[k] = starts[k] /\ callTx'[k] = callTx[k]
      /\ workerHand'[w] = {} /\ \A v \in Workers : v # w => workerHand'[v] = workerHand[v]
  BY <1>1, <1>2, <1>3, <1>4 DEF SpawnerInv, SpawnerTypeOK
<1>6. /\ workerQueue' \in [Workers -> Seq(Jobs)] /\ workerHand' \in [Workers -> SUBSET Jobs]
      /\ starts' \in [Jobs -> Nat]
  BY <1>1, <1>2, <1>3 DEF SpawnerInv
<1>7. SpawnerTypeOK'
  <2>1. callPc' \in [Jobs -> Over \cup {"choose", "send", "forget", "wait", "fallback"}]
    BY <1>1, <1>3 DEF SpawnerInv, SpawnerTypeOK, Over
  <2>2. taskState' \in [Jobs -> {"held", "sent", "taken", "running", "finished", "dropped"}]
    BY <1>1, <1>3 DEF SpawnerInv, SpawnerTypeOK
  <2>3. runsOn' \in [Jobs -> Workers \cup {NoWorker, OwnThread}]
    BY <1>1, <1>3 DEF SpawnerInv, SpawnerTypeOK
  <2>4. callTx' \in [Jobs -> Workers \cup {NoWorker}]
    BY <1>1, <1>3 DEF SpawnerInv, SpawnerTypeOK
  <2>5. QED
    BY <1>2, <1>6, <2>1, <2>2, <2>3, <2>4 DEF SpawnerInv, SpawnerTypeOK
<1>8. \A k \in Jobs, v \in Workers :
        /\ IsAwaited(k, v, "sent") => AwaitedNow(k, v, "sent")
        /\ k # j /\ IsAwaited(k, v, "taken") => AwaitedNow(k, v, "taken")
  BY <1>2, <1>3, <1>5 DEF IsAwaited
<1>9. ASSUME NEW v \in Workers
      PROVE  /\ \A i \in 1..Len(workerQueue'[v]) : AwaitedNow(workerQueue'[v][i], v, "sent")
             /\ \A i, k \in 1..Len(workerQueue'[v]) :
                  workerQueue'[v][i] = workerQueue'[v][k] => i = k
             /\ \A k \in workerHand'[v] : AwaitedNow(k, v, "taken")
  <2>1. \A i, k \in 1..Len(workerQueue[v]) : workerQueue[v][i] = workerQueue[v][k] => i = k
    BY DEF SpawnerInv, EnvelopesAreAwaited
  <2>2. \A k \in workerHand'[v] : k \in Jobs /\ k # j /\ IsAwaited(k, v, "taken")
    BY <1>3, <1>5, EnvelopeFacts DEF IsAwaited
  <2> HIDE DEF AwaitedNow
  <2>3. QED
    BY <1>2, <1>8, <2>1, <2>2, EnvelopeFacts
<1>10. EnvelopesAreAwaited'
  BY <1>9 DEF EnvelopesAreAwaited, IsAwaited
<1>11. QED
  BY <1>5, <1>6, <1>7, <1>10, SpawnerInvHolds

\* A worker that goes takes with it what it runs, what it has in hand and its envelopes.
LEMMA WorkerGoneInv ==
    ASSUME SpawnerInv, NEW w \in Workers, WorkerGone(w), deaths' \in 0..MaxDeaths
    PROVE  SpawnerInv'
<1> DEFINE AwaitedNow(k, v, state) ==
             callPc'[k] = "wait" /\ taskState'[k] = state /\ callTx'[k] = v /\ v \in alive'
<1> DEFINE gone(k) == (taskState[k] = "running" /\ runsOn[k] = w) \/ k \in workerHand[w]
<1>1. /\ alive' = alive \ {w} /\ workerQueue' = [workerQueue EXCEPT ![w] = <<>>]
      /\ workerHand' = [workerHand EXCEPT ![w] = {}]
      /\ taskState' = [k \in Jobs |-> IF gone(k) THEN "dropped" ELSE taskState[k]]
      /\ UNCHANGED <<callPc, tries, callTx, runsOn, starts, workerTx, started>>
  BY DEF WorkerGone
<1>2. /\ workerQueue'[w] = <<>> /\ workerHand'[w] = {}
      /\ \A v \in Workers : v # w => workerQueue'[v] = workerQueue[v] /\ workerHand'[v] = workerHand[v]
      /\ \A k \in Jobs : taskState'[k] = IF gone(k) THEN "dropped" ELSE taskState[k]
  BY <1>1 DEF SpawnerInv
<1>3. /\ workerQueue' \in [Workers -> Seq(Jobs)] /\ workerHand' \in [Workers -> SUBSET Jobs]
      /\ starts' \in [Jobs -> Nat]
  BY <1>1 DEF SpawnerInv
<1>4. SpawnerTypeOK'
  <2>1. taskState' \in [Jobs -> {"held", "sent", "taken", "running", "finished", "dropped"}]
    BY <1>1 DEF SpawnerInv, SpawnerTypeOK
  <2>2. QED
    BY <1>1, <1>3, <2>1 DEF SpawnerInv, SpawnerTypeOK
<1>5. \A k \in Jobs, v \in Workers : v # w =>
        /\ IsAwaited(k, v, "sent") => AwaitedNow(k, v, "sent")
        /\ IsAwaited(k, v, "taken") => AwaitedNow(k, v, "taken")
  <2>1. \A k \in workerHand[w] : callTx[k] = w
    BY EnvelopeFacts DEF IsAwaited
  <2>2. QED
    BY <1>1, <1>2, <2>1 DEF IsAwaited
<1>6. ASSUME NEW v \in Workers
      PROVE  /\ \A i \in 1..Len(workerQueue'[v]) : AwaitedNow(workerQueue'[v][i], v, "sent")
             /\ \A i, k \in 1..Len(workerQueue'[v]) :
                  workerQueue'[v][i] = workerQueue'[v][k] => i = k
             /\ \A k \in workerHand'[v] : AwaitedNow(k, v, "taken")
  <2>1. CASE v = w
    BY <1>2, <2>1
  <2>2. CASE v # w
    <3>1. \A i, k \in 1..Len(workerQueue[v]) : workerQueue[v][i] = workerQueue[v][k] => i = k
      BY DEF SpawnerInv, EnvelopesAreAwaited
    <3> HIDE DEF AwaitedNow
    <3>2. QED
      BY <1>2, <1>5, <2>2, <3>1, EnvelopeFacts
  <2>3. QED
    BY <2>1, <2>2
<1>7. EnvelopesAreAwaited'
  BY <1>6 DEF EnvelopesAreAwaited, IsAwaited
<1>8. ASSUME NEW k \in Jobs
      PROVE  \/ callPc'[k] = callPc[k] /\ taskState'[k] = taskState[k] /\ starts'[k] = starts[k]
             \/ callPc'[k] = "wait" /\ taskState'[k] \in {"sent", "taken", "dropped"} /\ starts'[k] = 0
             \/ callPc'[k] \in {"lost", "failed"} /\ starts'[k] = 0
             \/ callPc'[k] = "ok" /\ starts'[k] = 1
  <2>1. starts[k] = IF callPc[k] = "ok" THEN 1 ELSE 0
    BY DEF SpawnerInv, OutcomeIsTrue
  <2>2. CASE k \in workerHand[w]
    BY <1>1, <1>2, <2>1, <2>2, EnvelopeFacts DEF IsAwaited
  <2>3. CASE k \notin workerHand[w] /\ taskState[k] = "running"
    <3>1. callPc[k] \in {"ok", "lost", "failed"}
      <4>1. callPc[k] \in Over \cup {"choose", "send", "forget", "wait", "fallback"}
        BY DEF SpawnerInv, SpawnerTypeOK
      <4>2. callPc[k] \notin {"none", "choose", "send", "forget", "fallback"} /\ callPc[k] # "wait"
        BY <2>3 DEF SpawnerInv, CallsHaveTheirTask
      <4>3. QED
        BY <4>1, <4>2 DEF Over
    <3>2. QED
      BY <1>1, <2>1, <3>1
  <2>4. CASE k \notin workerHand[w] /\ taskState[k] # "running"
    BY <1>1, <1>2, <2>4
  <2>5. QED
    BY <2>2, <2>3, <2>4
<1>9. QED
  BY <1>3, <1>4, <1>7, <1>8, SpawnerInvHolds

\* No step of a call, of a worker or of a task breaks the invariant.
LEMMA SpawnerStepInv ==
    ASSUME SpawnerInv, [SpawnerNext]_spawnerVars
    PROVE  SpawnerInv'
<1>1. ASSUME NEW j \in Jobs, Calls(j) \/ CallStep(j) \/ TaskEnds(j)
      PROVE  SpawnerInv'
  BY <1>1, CallStepsWithTask, SendInv, ReclaimInv, FallbackInv, TaskEndsInv DEF CallStep
<1>2. ASSUME NEW w \in Workers, WorkerStep(w) \/ WorkerDies(w)
      PROVE  SpawnerInv'
  <2>1. CASE WorkerTakes(w)
    BY <2>1, WorkerTakesInv
  <2>2. CASE WorkerStarts(w)
    BY <2>2, WorkerStartsInv
  <2>3. CASE WorkerExits(w)
    <3>1. WorkerGone(w) /\ deaths' \in 0..MaxDeaths
      BY <2>3 DEF WorkerExits, SpawnerInv, SpawnerTypeOK
    <3>2. QED
      BY <3>1, WorkerGoneInv
  <2>4. CASE WorkerDies(w)
    <3>1. WorkerGone(w) /\ deaths' \in 0..MaxDeaths
      BY <2>4, SpawnerAssumption DEF WorkerDies, SpawnerInv, SpawnerTypeOK
    <3>2. QED
      BY <3>1, WorkerGoneInv
  <2>5. QED
    BY <1>2, <2>1, <2>2, <2>3, <2>4 DEF WorkerStep
<1>3. CASE UNCHANGED spawnerVars
  BY <1>3 DEF spawnerVars, workerVars, SpawnerInv, SpawnerTypeOK, OutcomeIsTrue, CallsHaveTheirTask,
              EnvelopesAreAwaited, IsAwaited
<1>4. QED
  BY <1>1, <1>2, <1>3 DEF SpawnerNext

\* The invariant holds of every run, whichever workers stop when.
THEOREM SpawnerInvariant == SpawnerSpec => []SpawnerInv
<1>1. SpawnerInit => SpawnerInv
  BY SpawnerInitInv
<1>2. SpawnerInv /\ [SpawnerNext]_spawnerVars => SpawnerInv'
  BY SpawnerStepInv
<1>3. QED
  BY <1>1, <1>2, PTL DEF SpawnerSpec

\* What DetachedSpawner::spawn tells its caller is true: a task is started once
\* if the call succeeds, and never if it fails.
THEOREM SpawnersOutcomeIsTrue == SpawnerSpec => []OutcomeIsTrue
<1>1. SpawnerInv => OutcomeIsTrue
  BY DEF SpawnerInv
<1>2. QED
  BY <1>1, SpawnerInvariant, PTL

-----------------------------------------------------------------------------
(***************************************************************************)
(* The transport, for all sets of ids and all bounds: the two tasks never  *)
(* mix their lines, no waiting request is forgotten, and the stream        *)
(* follows the session of a server that names it on POSTs alone: HttpInv   *)
(* is inductive.                                                           *)
(***************************************************************************)

\* A text is never a line end.
LEMMA TextsAreNotEnds == \A t \in Texts : t # LineEnd
<1>1. ASSUME NEW t \in Texts PROVE t.kind # "end"
  <2>1. CASE t \in {NoLine, Line("push", 0)}
    BY <2>1 DEF NoLine, Line
  <2>2. CASE t \in [kind : {"reply", "request failed"}, id : PostIds]
    BY <2>2
  <2>3. CASE t \in [kind : {"ask", "answer failed"}, id : AskIds]
    BY <2>3
  <2>4. QED
    BY <2>1, <2>2, <2>3 DEF Texts
<1>2. LineEnd.kind = "end"
  BY DEF LineEnd
<1>3. QED
  BY <1>1, <1>2

\* The texts and the lines there are.
LEMMA TheTexts ==
    /\ NoLine \in Texts /\ Line("push", 0) \in Texts
    /\ Line("note", 0) \in OutLines
    /\ \A id \in PostIds : /\ Line("reply", id) \in Texts
                           /\ Line("request failed", id) \in Texts
                           /\ Line("request", id) \in OutLines
    /\ \A id \in AskIds : /\ Line("ask", id) \in Texts
                          /\ Line("answer failed", id) \in Texts
                          /\ Line("answer", id) \in OutLines
BY DEF Texts, OutLines, Line

LEMMA TheParts ==
    ASSUME NEW l, NEW kind, NEW id, l = Line(kind, id) PROVE l.kind = kind /\ l.id = id
BY DEF Line

\* What the kind of a line says of it.
LEMMA TheKinds ==
    ASSUME NEW l \in OutLines \cup {NoLine}
    PROVE  /\ l.kind \in {"none", "note", "request", "answer"}
           /\ l.kind = "none" <=> l = NoLine
           /\ l.kind = "request" => l.id \in PostIds /\ l = Line("request", l.id)
           /\ l.kind = "answer" => l.id \in AskIds
           /\ \A id : l = Line("request", id) <=> l.kind = "request" /\ l.id = id
<1>1. CASE l \in {NoLine, Line("note", 0)}
  BY <1>1 DEF NoLine, Line
<1>2. CASE l \in [kind : {"request"}, id : PostIds]
  BY <1>2 DEF NoLine, Line
<1>3. CASE l \in [kind : {"answer"}, id : AskIds]
  BY <1>3 DEF NoLine, Line
<1>4. QED
  BY <1>1, <1>2, <1>3 DEF OutLines

LEMMA LinesAreLines == \A l \in OutLines : l # NoLine
<1>1. ASSUME NEW l \in OutLines PROVE l.kind # "none"
  <2>1. CASE l = Line("note", 0)
    BY <2>1 DEF Line
  <2>2. CASE l \in [kind : {"request"}, id : PostIds]
    BY <2>2
  <2>3. CASE l \in [kind : {"answer"}, id : AskIds]
    BY <2>3
  <2>4. QED
    BY <2>1, <2>2, <2>3 DEF OutLines
<1>2. NoLine.kind = "none"
  BY DEF NoLine
<1>3. QED
  BY <1>1, <1>2

\* A request of the server bears one of its ids.
LEMMA TheAsks == \A t \in Texts : t.kind = "ask" => t.id \in AskIds
<1>1. ASSUME NEW t \in Texts, t.kind = "ask" PROVE t.id \in AskIds
  <2>1. CASE t \in {NoLine, Line("push", 0)}
    BY <1>1, <2>1 DEF NoLine, Line
  <2>2. CASE t \in [kind : {"reply", "request failed"}, id : PostIds]
    BY <1>1, <2>2
  <2>3. CASE t \in [kind : {"ask", "answer failed"}, id : AskIds]
    BY <2>3
  <2>4. QED
    BY <2>1, <2>2, <2>3 DEF Texts
<1>2. QED
  BY <1>1

\* A reply is to one of the client's requests.
LEMMA TheReplies == \A t \in Texts : t.kind = "reply" => t.id \in PostIds
<1>1. ASSUME NEW t \in Texts, t.kind = "reply" PROVE t.id \in PostIds
  <2>1. CASE t \in {NoLine, Line("push", 0)}
    BY <1>1, <2>1 DEF NoLine, Line
  <2>2. CASE t \in [kind : {"reply", "request failed"}, id : PostIds]
    BY <2>2
  <2>3. CASE t \in [kind : {"ask", "answer failed"}, id : AskIds]
    BY <1>1, <2>3
  <2>4. QED
    BY <2>1, <2>2, <2>3 DEF Texts
<1>2. QED
  BY <1>1

\* What can become of a request.
Fates == {"unsent", "waiting", "replied", "failed", "failed by an answer", "closed"}

\* A sequence that is longer by one, place by place.
Longer(p, q, e) ==
    /\ q # <<>> /\ Len(p) \in Nat /\ Len(q) = Len(p) + 1
    /\ DOMAIN p = 1 .. Len(p) /\ DOMAIN q = 1 .. Len(p) + 1
    /\ q[Len(p) + 1] = e
    /\ \A n \in 1 .. Len(p) : q[n] = p[n]

\* What is appended to a sequence is its last place, and the others stay.
LEMMA AppendedIsLonger ==
    ASSUME NEW S, NEW s \in Seq(S), NEW e \in S, NEW r, r = Append(s, e)
    PROVE  r \in Seq(S) /\ Longer(s, r, e)
<1>1. /\ r \in Seq(S) /\ r # <<>>
      /\ Len(r) = Len(s) + 1
      /\ \A n \in 1 .. Len(s) : r[n] = s[n]
      /\ r[Len(s) + 1] = e
  BY AppendProperties
<1>2. Len(s) \in Nat /\ DOMAIN s = 1 .. Len(s) /\ DOMAIN r = 1 .. Len(r)
  BY <1>1, LenProperties
<1>3. QED
  BY <1>1, <1>2 DEF Longer

\* Taking the head leaves the rest, one place further on.
LEMMA TailIs ==
    ASSUME NEW S, NEW s \in Seq(S), s # <<>>
    PROVE  /\ Tail(s) \in Seq(S) /\ Head(s) \in S /\ Head(s) = s[1]
           /\ Len(s) \in Nat \ {0}
           /\ DOMAIN s = 1 .. Len(s) /\ DOMAIN Tail(s) = 1 .. Len(s) - 1
           /\ \A n \in 1 .. Len(s) - 1 : Tail(s)[n] = s[n + 1]
<1>1. /\ Head(s) \in S /\ Tail(s) \in Seq(S) /\ Len(Tail(s)) = Len(s) - 1
      /\ \A n \in 1 .. Len(Tail(s)) : Tail(s)[n] = s[n + 1]
  BY HeadTailProperties
<1>2. Len(s) \in Nat /\ Len(s) # 0 /\ DOMAIN s = 1 .. Len(s)
  BY LenProperties, EmptySeq
<1>3. Tail(s) \in Seq(S) /\ DOMAIN Tail(s) = 1 .. Len(Tail(s))
  BY <1>1, LenProperties
<1>4. Head(s) = s[1]
  OBVIOUS
<1>5. QED
  BY <1>1, <1>2, <1>3, <1>4

\* The reader drops a text and its end.
LEMMA DroppedLine ==
    ASSUME NEW S, NEW s \in Seq(S), Len(s) > 1, NEW r, r = SubSeq(s, 3, Len(s))
    PROVE  /\ r \in Seq(S) /\ Len(r) = Len(s) - 2
           /\ DOMAIN s = 1 .. Len(s) /\ DOMAIN r = 1 .. Len(s) - 2
           /\ \A n \in 1 .. Len(s) - 2 : r[n] = s[n + 2]
<1>1. Len(s) \in Nat /\ DOMAIN s = 1 .. Len(s)
  BY LenProperties
<1>2. \A n \in 3 .. Len(s) : n \in 1 .. Len(s)
  BY <1>1
<1>3. r \in Seq(S) /\ Len(r) = IF 3 <= Len(s) THEN Len(s) - 3 + 1 ELSE 0
  BY <1>1, <1>2, SubSeqProperties
<1>4. Len(r) = Len(s) - 2 /\ DOMAIN r = 1 .. Len(r)
  BY <1>1, <1>3, LenProperties
<1>5. \A n \in 1 .. Len(s) - 2 : r[n] = s[n + 2]
  BY <1>1, <1>2, <1>4, SubSeqProperties
<1>6. QED
  BY <1>1, <1>3, <1>4, <1>5

-----------------------------------------------------------------------------
LEMMA HttpInitInv == HttpInit => HttpInv
<1> SUFFICES ASSUME HttpInit PROVE HttpInv
  OBVIOUS
<1>1. HttpTypeOK
  <2>1. /\ outbox \in Seq(OutLines) /\ wakes \in Seq({"connect", "session changed"})
        /\ pipe \in Seq(Texts \cup {LineEnd})
    BY EmptySeq DEF HttpInit
  <2>2. postLine \in OutLines \cup {NoLine} /\ postText \in Texts /\ sseText \in Texts
    BY TheTexts DEF HttpInit
  <2>3. /\ streamSession \in 0..MaxSession /\ sessionId \in 0..MaxSession
        /\ serverSession \in 1..MaxSession /\ announced \in 0..MaxSession
        /\ pushes \in 0..MaxPushes /\ notes \in 0..MaxPostNotes
    BY StreamableAssumption DEF HttpInit
  <2>4. QED
    BY <2>1, <2>2, <2>3 DEF HttpInit, HttpTypeOK
<1>2. DOMAIN pipe = {} /\ pipeOwner = "nobody" /\ pipe = <<>>
  BY DEF HttpInit
<1>3. EndsFollowTexts /\ LinesDoNotMix /\ WritersHaveTheirText
  BY <1>2 DEF EndsFollowTexts, LinesDoNotMix, LinesAreWhole, WritersHaveTheirText
<1>4. TextsAnswerLines
  BY DEF HttpInit, TextsAnswerLines
<1>5. RequestsAreTraced
  BY DEF HttpInit, RequestsAreTraced
<1>6. SessionsAgree
  BY DEF HttpInit, SessionsAgree
<1>7. QED
  BY <1>1, <1>3, <1>4, <1>5, <1>6 DEF HttpInv

\* Closing leaves nothing that could be wrong.
LEMMA CloseTransportInv == ASSUME HttpInv, CloseTransport PROVE HttpInv'
<1>1. HttpTypeOK'
  <2>1. /\ outbox' \in Seq(OutLines) /\ wakes' \in Seq({"connect", "session changed"})
        /\ pipe' \in Seq(Texts \cup {LineEnd})
    BY EmptySeq DEF CloseTransport
  <2>2. postLine' \in OutLines \cup {NoLine} /\ postText' \in Texts /\ sseText' \in Texts
    BY TheTexts DEF CloseTransport
  <2>3. streamSession' \in 0..MaxSession
    BY StreamableAssumption DEF CloseTransport
  <2>4. fate' \in [PostIds -> Fates]
    <3>1. fate \in [PostIds -> Fates]
      BY DEF HttpInv, HttpTypeOK, Fates
    <3>2. QED
      BY <3>1 DEF CloseTransport, Fates
  <2>5. QED
    BY <2>1, <2>2, <2>3, <2>4 DEF Fates, HttpInv, HttpTypeOK, CloseTransport, countVars
<1>2. DOMAIN pipe' = {} /\ pipeOwner' = "nobody"
  BY DEF CloseTransport
<1>3. EndsFollowTexts' /\ LinesDoNotMix' /\ WritersHaveTheirText'
  BY <1>2 DEF EndsFollowTexts, LinesDoNotMix, LinesAreWhole, WritersHaveTheirText
<1>4. TextsAnswerLines'
  BY DEF CloseTransport, TextsAnswerLines
<1>5. RequestsAreTraced'
  <2>1. \A id \in PostIds : fate'[id] # "waiting"
    BY DEF CloseTransport
  <2>2. QED
    BY <2>1 DEF RequestsAreTraced
<1>6. SessionsAgree'
  BY DEF CloseTransport, SessionsAgree, HttpInv
<1>7. QED
  BY <1>1, <1>3, <1>4, <1>5, <1>6 DEF HttpInv

\* Neither the pipe, its lock nor the two writers move.
LEMMA PipeStays ==
    ASSUME HttpInv, UNCHANGED <<pipe, pipeOwner, torn>>,
           pipeOwner # "post" \/ UNCHANGED <<postPc, postText>>,
           pipeOwner # "sse" \/ UNCHANGED <<ssePc, sseText>>
    PROVE  EndsFollowTexts' /\ LinesDoNotMix' /\ WritersHaveTheirText'
<1>1. EndsFollowTexts'
  BY DEF HttpInv, EndsFollowTexts
<1>2. LinesDoNotMix'
  BY DEF HttpInv, LinesDoNotMix, LinesAreWhole
<1>3. WritersHaveTheirText'
  BY DEF HttpInv, WritersHaveTheirText
<1>4. QED
  BY <1>1, <1>2, <1>3

\* One of the tasks has the lock and writes the text.
Writes(t) ==
    \/ pipeOwner = "post" /\ postPc \in {"write", "stream write"} /\ postText = t
    \/ pipeOwner = "sse" /\ ssePc = "writing" /\ sseText = t

\* A text goes into a pipe nobody writes into.
LEMMA TextGoesIn ==
    ASSUME HttpInv, NEW t \in Texts, pipeOwner = "nobody",
           Longer(pipe, pipe', t), UNCHANGED torn, Writes(t)'
    PROVE  /\ EndsFollowTexts' /\ LinesDoNotMix' /\ WritersHaveTheirText'
           /\ \A id : InPipe(id) => InPipe(id)'
<1> DEFINE len == Len(pipe)
<1>1. /\ pipe' # <<>> /\ Len(pipe') = len + 1 /\ len \in Nat
      /\ DOMAIN pipe' = 1 .. len + 1 /\ DOMAIN pipe = 1 .. len
      /\ pipe'[len + 1] = t
      /\ \A n \in 1 .. len : pipe'[n] = pipe[n]
  BY DEF Longer
<1>2. t # LineEnd
  BY TextsAreNotEnds
<1> HIDE DEF len
<1>3. EndsFollowTexts'
  <2>1. SUFFICES ASSUME NEW n \in 1 .. len + 1, pipe'[n] = LineEnd
                 PROVE  n > 1 /\ pipe'[n - 1] # LineEnd
    BY <1>1 DEF EndsFollowTexts
  <2>2. n \in 1 .. len /\ pipe[n] = LineEnd
    BY <1>1, <1>2, <2>1
  <2>3. n > 1 /\ pipe[n - 1] # LineEnd
    BY <2>2, <1>1 DEF HttpInv, EndsFollowTexts
  <2>4. n - 1 \in 1 .. len
    BY <2>2, <2>3, <1>1
  <2>5. QED
    BY <2>3, <2>4, <1>1
<1>4. LinesDoNotMix'
  <2>1. SUFFICES ASSUME ~torn, NEW n \in 1 .. len + 1, pipe'[n] # LineEnd
                 PROVE  IF n = Len(pipe') THEN pipeOwner' # "nobody" ELSE pipe'[n + 1] = LineEnd
    BY <1>1 DEF LinesDoNotMix, LinesAreWhole
  <2>2. CASE n = len + 1
    <3>1. pipeOwner' # "nobody"
      BY DEF Writes
    <3>2. QED
      BY <3>1, <2>2, <1>1
  <2>3. CASE n # len + 1
    <3>1. n \in 1 .. len
      BY <1>1, <2>3
    <3>2. pipe[n] # LineEnd
      BY <3>1, <2>1, <1>1
    <3>3. n # len /\ pipe[n + 1] = LineEnd
      BY <2>1, <3>1, <3>2, <1>1 DEF HttpInv, LinesDoNotMix, LinesAreWhole, len
    <3>4. n + 1 \in 1 .. len
      BY <3>1, <3>3, <1>1
    <3>5. QED
      BY <2>3, <3>3, <3>4, <1>1
  <2>4. QED
    BY <2>2, <2>3
<1>5. WritersHaveTheirText'
  BY <1>1 DEF WritersHaveTheirText, Writes
<1>6. \A id : InPipe(id) => InPipe(id)'
  <2>1. SUFFICES ASSUME NEW id, NEW n \in 1 .. len, pipe[n].kind \in {"reply", "request failed"},
                        pipe[n].id = id
                 PROVE  \E m \in 1 .. len + 1 :
                           pipe'[m].kind \in {"reply", "request failed"} /\ pipe'[m].id = id
    BY <1>1 DEF InPipe
  <2>2. pipe'[n] = pipe[n] /\ n \in 1 .. len + 1
    BY <1>1
  <2>3. QED
    BY <2>1, <2>2
<1>7. QED
  BY <1>3, <1>4, <1>5, <1>6

\* The writer ends its line and lets go of the lock.
LEMMA EndGoesIn ==
    ASSUME HttpInv, pipeOwner # "nobody", Longer(pipe, pipe', LineEnd),
           pipeOwner' = "nobody", UNCHANGED torn
    PROVE  /\ EndsFollowTexts' /\ LinesDoNotMix' /\ WritersHaveTheirText'
           /\ \A id : InPipe(id) => InPipe(id)'
<1> DEFINE len == Len(pipe)
<1>1. /\ pipe' # <<>> /\ Len(pipe') = len + 1 /\ len \in Nat
      /\ DOMAIN pipe' = 1 .. len + 1 /\ DOMAIN pipe = 1 .. len
      /\ pipe'[len + 1] = LineEnd
      /\ \A n \in 1 .. len : pipe'[n] = pipe[n]
  BY DEF Longer
<1>2. pipe # <<>> /\ pipe[len] \in Texts
  BY DEF HttpInv, HttpTypeOK, WritersHaveTheirText
<1>3. len # 0
  BY <1>2, EmptySeq DEF HttpInv, HttpTypeOK
<1>4. pipe[len] # LineEnd
  BY <1>2, TextsAreNotEnds
<1> HIDE DEF len
<1>5. EndsFollowTexts'
  <2>1. SUFFICES ASSUME NEW n \in 1 .. len + 1, pipe'[n] = LineEnd
                 PROVE  n > 1 /\ pipe'[n - 1] # LineEnd
    BY <1>1 DEF EndsFollowTexts
  <2>2. CASE n = len + 1
    BY <2>2, <1>1, <1>3, <1>4
  <2>3. CASE n # len + 1
    <3>1. n \in 1 .. len
      BY <1>1, <2>3
    <3>2. pipe[n] = LineEnd
      BY <3>1, <2>1, <1>1
    <3>3. n > 1 /\ pipe[n - 1] # LineEnd
      BY <3>1, <3>2, <1>1 DEF HttpInv, EndsFollowTexts
    <3>4. n - 1 \in 1 .. len
      BY <3>1, <3>3, <1>1
    <3>5. QED
      BY <3>3, <3>4, <1>1
  <2>4. QED
    BY <2>2, <2>3
<1>6. LinesDoNotMix'
  <2>1. SUFFICES ASSUME ~torn, NEW n \in 1 .. len + 1, pipe'[n] # LineEnd
                 PROVE  n # Len(pipe') /\ pipe'[n + 1] = LineEnd
    BY <1>1 DEF LinesDoNotMix, LinesAreWhole
  <2>2. n \in 1 .. len
    BY <1>1, <2>1
  <2>3. pipe[n] # LineEnd
    BY <1>1, <2>1, <2>2
  <2>4. CASE n = len
    BY <2>4, <1>1
  <2>5. CASE n # len
    <3>1. pipe[n + 1] = LineEnd
      BY <2>1, <2>2, <2>3, <2>5, <1>1 DEF HttpInv, LinesDoNotMix, LinesAreWhole, len
    <3>2. n + 1 \in 1 .. len
      BY <2>2, <2>5, <1>1
    <3>3. QED
      BY <2>2, <3>1, <3>2, <1>1
  <2>6. QED
    BY <2>4, <2>5
<1>7. WritersHaveTheirText'
  BY DEF WritersHaveTheirText
<1>8. \A id : InPipe(id) => InPipe(id)'
  <2>1. SUFFICES ASSUME NEW id, NEW n \in 1 .. len, pipe[n].kind \in {"reply", "request failed"},
                        pipe[n].id = id
                 PROVE  \E m \in 1 .. len + 1 :
                           pipe'[m].kind \in {"reply", "request failed"} /\ pipe'[m].id = id
    BY <1>1 DEF InPipe
  <2>2. pipe'[n] = pipe[n] /\ n \in 1 .. len + 1
    BY <1>1
  <2>3. QED
    BY <2>1, <2>2
<1>9. QED
  BY <1>5, <1>6, <1>7, <1>8

\* A request that is still waiting keeps its trace.
LEMMA TracesStay ==
    ASSUME HttpInv,
           \A id \in PostIds : fate'[id] = "waiting" => fate[id] = "waiting",
           \A id \in PostIds : fate'[id] = "waiting" /\ WithTheBridge(id) =>
                WithTheBridge(id)' \/ Traced(id)',
           \A id \in PostIds : fate'[id] = "waiting" /\ Traced(id) => Traced(id)'
    PROVE  RequestsAreTraced'
BY DEF HttpInv, RequestsAreTraced

\* What the session of the stream has to agree with does not move.
LEMMA SessionsStay ==
    ASSUME HttpInv, UNCHANGED <<sessionId, wakes>>,
           \/ UNCHANGED <<ssePc, streamSession>>
           \/ ssePc' \in {"idle", "backoff", "stopped"}
           \/ ssePc \in {"pumping", "writing"} /\ UNCHANGED streamSession
           \/ streamSession' = sessionId
    PROVE  SessionsAgree'
BY DEF HttpInv, SessionsAgree

\* The request joins the lines to post.
LEMMA SendRequestInv ==
    ASSUME HttpInv, NEW i \in PostIds, SendRequest(i) PROVE HttpInv'
<1>1. Line("request", i) \in OutLines /\ outbox \in Seq(OutLines)
  BY TheTexts DEF HttpInv, HttpTypeOK
<1>2. outbox' \in Seq(OutLines) /\ Longer(outbox, outbox', Line("request", i))
  BY <1>1, AppendedIsLonger DEF SendRequest
<1>3. HttpTypeOK'
  <2>1. fate' \in [PostIds -> Fates]
    BY DEF SendRequest, HttpInv, HttpTypeOK, Fates
  <2>2. QED
    BY <1>2, <2>1 DEF SendRequest, HttpInv, HttpTypeOK, Fates, sseVars, sessionVars, askVars,
                      countVars
<1>4. EndsFollowTexts' /\ LinesDoNotMix' /\ WritersHaveTheirText'
  BY PipeStays DEF SendRequest, sseVars, countVars
<1>5. TextsAnswerLines'
  BY DEF HttpInv, TextsAnswerLines, SendRequest, sseVars
<1>6. RequestsAreTraced'
  <2>1. SUFFICES ASSUME NEW id \in PostIds, fate'[id] = "waiting"
                 PROVE  WithTheBridge(id)' \/ Traced(id)'
    BY DEF RequestsAreTraced
  <2>2. CASE id = i
    <3>1. Len(outbox) + 1 \in DOMAIN outbox' /\ outbox'[Len(outbox) + 1] = Line("request", i)
      BY <1>2 DEF Longer
    <3>2. QED
      BY <2>2, <3>1 DEF WithTheBridge
  <2>3. CASE id # i
    <3>1. fate[id] = "waiting"
      BY <2>1, <2>3 DEF SendRequest, HttpInv, HttpTypeOK
    <3>2. CASE Traced(id)
      BY <3>2 DEF Traced, InPipe, SendRequest, sseVars, countVars
    <3>3. CASE WithTheBridge(id)
      <4>1. CASE \E n \in DOMAIN outbox : outbox[n] = Line("request", id)
        BY <4>1, <1>2 DEF WithTheBridge, Longer
      <4>2. CASE postLine = Line("request", id) /\ postPc \notin {"accepted", "tail"}
        BY <4>2 DEF WithTheBridge, SendRequest
      <4>3. QED
        BY <3>3, <4>1, <4>2 DEF WithTheBridge
    <3>4. QED
      BY <3>1, <3>2, <3>3 DEF HttpInv, RequestsAreTraced
  <2>4. QED
    BY <2>2, <2>3
<1>7. SessionsAgree'
  BY SessionsStay DEF SendRequest, sseVars, sessionVars
<1>8. QED
  BY <1>3, <1>4, <1>5, <1>6, <1>7 DEF HttpInv

\* Whatever joins the lines, those before it stay.
LEMMA LinesStay ==
    ASSUME HttpInv, NEW l \in OutLines, outbox' = Append(outbox, l),
           UNCHANGED <<postPc, postLine>>
    PROVE  /\ outbox' \in Seq(OutLines)
           /\ \A id \in PostIds : WithTheBridge(id) => WithTheBridge(id)'
<1>1. outbox' \in Seq(OutLines) /\ Longer(outbox, outbox', l)
  BY AppendedIsLonger DEF HttpInv, HttpTypeOK
<1>2. ASSUME NEW id, \E n \in DOMAIN outbox : outbox[n] = Line("request", id)
      PROVE  \E n \in DOMAIN outbox' : outbox'[n] = Line("request", id)
  BY <1>1, <1>2 DEF Longer
<1>3. QED
  BY <1>1, <1>2 DEF WithTheBridge

LEMMA SendNoteInv == ASSUME HttpInv, SendNote PROVE HttpInv'
<1>1. /\ outbox' \in Seq(OutLines)
      /\ \A id \in PostIds : WithTheBridge(id) => WithTheBridge(id)'
  BY LinesStay, TheTexts DEF SendNote
<1>2. HttpTypeOK'
  <2>1. notes' \in 0..MaxPostNotes
    <3>1. notes \in 0..MaxPostNotes
      BY DEF HttpInv, HttpTypeOK
    <3>2. notes' = notes + 1 /\ notes < MaxPostNotes /\ MaxPostNotes \in Nat
      BY StreamableAssumption DEF SendNote
    <3>3. QED
      BY <3>1, <3>2
  <2>2. QED
    BY <1>1, <2>1 DEF SendNote, HttpInv, HttpTypeOK, sseVars, sessionVars, askVars
<1>3. EndsFollowTexts' /\ LinesDoNotMix' /\ WritersHaveTheirText'
  BY PipeStays DEF SendNote, sseVars
<1>4. TextsAnswerLines'
  BY DEF HttpInv, TextsAnswerLines, SendNote, sseVars
<1>5. RequestsAreTraced'
  <2>1. \A id \in PostIds : Traced(id) => Traced(id)'
    BY DEF Traced, InPipe, SendNote, sseVars
  <2>2. QED
    BY <1>1, <2>1, TracesStay DEF SendNote
<1>6. SessionsAgree'
  BY SessionsStay DEF SendNote, sseVars, sessionVars
<1>7. QED
  BY <1>2, <1>3, <1>4, <1>5, <1>6 DEF HttpInv

LEMMA SendAnswerInv ==
    ASSUME HttpInv, NEW i \in AskIds, SendAnswer(i) PROVE HttpInv'
<1>1. /\ outbox' \in Seq(OutLines)
      /\ \A id \in PostIds : WithTheBridge(id) => WithTheBridge(id)'
  BY LinesStay, TheTexts DEF SendAnswer
<1>2. HttpTypeOK'
  BY <1>1 DEF SendAnswer, HttpInv, HttpTypeOK, sseVars, sessionVars, countVars
<1>3. EndsFollowTexts' /\ LinesDoNotMix' /\ WritersHaveTheirText'
  BY PipeStays DEF SendAnswer, sseVars, countVars
<1>4. TextsAnswerLines'
  BY DEF HttpInv, TextsAnswerLines, SendAnswer, sseVars
<1>5. RequestsAreTraced'
  <2>1. \A id \in PostIds : Traced(id) => Traced(id)'
    BY DEF Traced, InPipe, SendAnswer, sseVars, countVars
  <2>2. QED
    BY <1>1, <2>1, TracesStay DEF SendAnswer
<1>6. SessionsAgree'
  BY SessionsStay DEF SendAnswer, sseVars, sessionVars
<1>7. QED
  BY <1>2, <1>3, <1>4, <1>5, <1>6 DEF HttpInv

\* The reader takes the first text of the pipe and its end; what had been read
\* is what settles a request.
LEMMA ReadLineInv == ASSUME HttpInv, ReadLine PROVE HttpInv'
<1>1. CASE pipe[2] # LineEnd
  BY <1>1, CloseTransportInv DEF ReadLine
<1>2. CASE pipe[2] = LineEnd
  <2> DEFINE len == Len(pipe)
             Settled(id) == pipe[1].kind \in {"reply", "request failed"} /\ pipe[1].id = id
  <2>1. pipe \in Seq(Texts \cup {LineEnd}) /\ len \in Nat /\ DOMAIN pipe = 1 .. len
    BY LenProperties DEF HttpInv, HttpTypeOK
  <2>2. PICK m \in 1 .. len : pipe[m] = LineEnd
    BY <2>1 DEF ReadLine, Range
  <2>3. m > 1
    BY <2>1, <2>2 DEF HttpInv, EndsFollowTexts
  <2>4. len > 1 /\ 1 \in DOMAIN pipe /\ 2 \in DOMAIN pipe
    BY <2>1, <2>2, <2>3
  <2>5. pipe[1] \in Texts
    <3>1. pipe[1] # LineEnd
      <4>1. EndsFollowTexts
        BY DEF HttpInv
      <4>2. pipe[1] = LineEnd => 1 > 1
        BY <2>4, <4>1 DEF EndsFollowTexts
      <4>3. QED
        BY <4>2
    <3>2. pipe[1] \in Texts \cup {LineEnd}
      BY <2>1, <2>4
    <3>3. QED
      BY <3>1, <3>2
  <2>6. /\ pipe' = SubSeq(pipe, 3, Len(pipe))
        /\ UNCHANGED <<postVars, sseVars, sessionVars, pipeOwner, transportClosed, owed, unasked,
                       unanswered, countVars>>
        /\ asked' = IF pipe[1].kind = "ask" THEN asked \cup {pipe[1].id} ELSE asked
    BY <1>2 DEF ReadLine
  <2>7. /\ pipe' \in Seq(Texts \cup {LineEnd}) /\ Len(pipe') = len - 2
        /\ DOMAIN pipe' = 1 .. len - 2
        /\ \A n \in 1 .. len - 2 : pipe'[n] = pipe[n + 2]
    BY <2>1, <2>4, <2>6, DroppedLine
  <2>8. /\ fate \in [PostIds -> Fates] /\ fate' \in [PostIds -> Fates]
        /\ \A id \in PostIds : fate'[id] = "waiting" => fate[id] = "waiting" /\ ~Settled(id)
    <3>1. fate \in [PostIds -> Fates]
      BY DEF HttpInv, HttpTypeOK, Fates
    <3>2. CASE pipe[1].kind = "reply"
      BY <1>2, <3>1, <3>2 DEF ReadLine, SettleRequest, Fates
    <3>3. CASE pipe[1].kind = "request failed"
      BY <1>2, <3>1, <3>3 DEF ReadLine, SettleRequest, Fates
    <3>4. CASE pipe[1].kind = "answer failed"
      BY <1>2, <3>1, <3>4 DEF ReadLine, SettleRequest, Fates
    <3>5. CASE pipe[1].kind \notin {"reply", "request failed", "answer failed"}
      BY <1>2, <3>1, <3>5 DEF ReadLine
    <3>6. QED
      BY <3>2, <3>3, <3>4, <3>5
  <2>9. asked' \subseteq AskIds
    <3>1. pipe[1].kind = "ask" => pipe[1].id \in AskIds
      BY <2>5, TheAsks
    <3>2. QED
      BY <2>6, <3>1 DEF HttpInv, HttpTypeOK
  <2> HIDE DEF len, Settled
  <2>10. HttpTypeOK'
    BY <2>6, <2>7, <2>8, <2>9
    DEF HttpInv, HttpTypeOK, Fates, postVars, sseVars, sessionVars, countVars
  <2>11. EndsFollowTexts'
    <3>1. SUFFICES ASSUME NEW n \in 1 .. len - 2, pipe'[n] = LineEnd
                   PROVE  n > 1 /\ pipe'[n - 1] # LineEnd
      BY <2>7 DEF EndsFollowTexts
    <3>2. pipe[n + 2] = LineEnd /\ n + 2 \in 1 .. len
      BY <2>1, <2>7, <3>1
    <3>3. pipe[(n + 2) - 1] # LineEnd
      BY <2>1, <3>2 DEF HttpInv, EndsFollowTexts
    <3>4. n # 1
      BY <1>2, <3>3
    <3>5. n - 1 \in 1 .. len - 2 /\ n > 1 /\ (n + 2) - 1 = (n - 1) + 2
      BY <2>1, <3>4
    <3>6. QED
      BY <2>7, <3>3, <3>5
  <2>12. LinesDoNotMix'
    <3>1. SUFFICES ASSUME ~torn, NEW n \in 1 .. len - 2, pipe'[n] # LineEnd
                   PROVE  IF n = len - 2 THEN pipeOwner # "nobody" ELSE pipe'[n + 1] = LineEnd
      BY <2>6, <2>7 DEF LinesDoNotMix, LinesAreWhole, countVars
    <3>2. pipe[n + 2] # LineEnd /\ n + 2 \in 1 .. len
      BY <2>1, <2>7, <3>1
    <3>3. IF n + 2 = len THEN pipeOwner # "nobody" ELSE pipe[(n + 2) + 1] = LineEnd
      BY <2>1, <3>1, <3>2 DEF HttpInv, LinesDoNotMix, LinesAreWhole, len
    <3>4. CASE n = len - 2
      BY <2>1, <3>3, <3>4
    <3>5. CASE n # len - 2
      <4>1. n + 1 \in 1 .. len - 2 /\ n + 2 # len /\ (n + 2) + 1 = (n + 1) + 2
        BY <2>1, <3>5
      <4>2. QED
        BY <2>7, <3>3, <3>5, <4>1
    <3>6. QED
      BY <3>4, <3>5
  <2>13. WritersHaveTheirText'
    <3>1. ASSUME pipeOwner # "nobody" PROVE pipe' # <<>> /\ pipe'[Len(pipe')] = pipe[len]
      <4>1. pipe[len] \in Texts
        BY <3>1 DEF HttpInv, HttpTypeOK, WritersHaveTheirText, len
      <4>2. pipe[len] # LineEnd
        BY <4>1, TextsAreNotEnds
      <4>3. len # 2
        BY <1>2, <4>2
      <4>4. len - 2 \in 1 .. len - 2 /\ (len - 2) + 2 = len
        BY <2>1, <2>4, <4>3
      <4>5. pipe'[len - 2] = pipe[len]
        BY <2>7, <4>4
      <4>6. Len(pipe') # 0
        BY <2>7, <4>4
      <4>7. pipe' # <<>>
        BY <4>6
      <4>8. QED
        BY <2>7, <4>5, <4>7
    <3>2. QED
      BY <2>6, <3>1 DEF HttpInv, WritersHaveTheirText, postVars, sseVars, len
  <2>14. TextsAnswerLines'
    BY <2>6 DEF HttpInv, TextsAnswerLines, postVars, sseVars
  <2>15. RequestsAreTraced'
    <3>1. \A id \in PostIds : WithTheBridge(id) => WithTheBridge(id)'
      BY <2>6 DEF WithTheBridge, postVars
    <3>2. ASSUME NEW id \in PostIds, fate'[id] = "waiting", InPipe(id) PROVE InPipe(id)'
      <4>1. PICK n \in 1 .. len : /\ pipe[n].kind \in {"reply", "request failed"}
                                  /\ pipe[n].id = id
        BY <2>1, <3>2 DEF InPipe
      <4>2. n # 1
        BY <2>8, <3>2, <4>1 DEF Settled
      <4>3. n # 2
        <5>1. LineEnd.kind = "end"
          BY DEF LineEnd
        <5>2. QED
          BY <1>2, <4>1, <5>1
      <4>4. n - 2 \in 1 .. len - 2 /\ (n - 2) + 2 = n
        BY <2>1, <4>2, <4>3
      <4>5. pipe'[n - 2] = pipe[n]
        BY <2>7, <4>4
      <4>6. QED
        BY <2>7, <4>1, <4>4, <4>5 DEF InPipe
    <3>3. \A id \in PostIds : fate'[id] = "waiting" /\ Traced(id) => Traced(id)'
      BY <2>6, <3>2 DEF Traced, sseVars, countVars
    <3>4. QED
      BY <2>8, <3>1, <3>3, TracesStay
  <2>16. SessionsAgree'
    BY <2>6, SessionsStay DEF sseVars, sessionVars
  <2>17. QED
    BY <2>10, <2>11, <2>12, <2>13, <2>14, <2>15, <2>16 DEF HttpInv
<1>3. QED
  BY <1>1, <1>2

-----------------------------------------------------------------------------
\* The POST bridge.  It takes the next line.
LEMMA PostTakeInv == ASSUME HttpInv, PostTake PROVE HttpInv'
<1>1. outbox \in Seq(OutLines) /\ outbox # <<>>
  BY DEF HttpInv, HttpTypeOK, PostTake
<1>2. /\ outbox' \in Seq(OutLines) /\ postLine' \in OutLines /\ postLine' = outbox[1]
      /\ Len(outbox) \in Nat \ {0}
      /\ DOMAIN outbox = 1 .. Len(outbox) /\ DOMAIN outbox' = 1 .. Len(outbox) - 1
      /\ \A n \in 1 .. Len(outbox) - 1 : outbox'[n] = outbox[n + 1]
  BY <1>1, TailIs DEF PostTake
<1>3. postLine' # NoLine
  BY <1>2, LinesAreLines
<1>4. pipeOwner # "post"
  BY DEF HttpInv, WritersHaveTheirText, PostTake
<1>5. HttpTypeOK'
  BY <1>2 DEF HttpInv, HttpTypeOK, PostTake, sseVars, sessionVars, askVars, countVars
<1>6. EndsFollowTexts' /\ LinesDoNotMix' /\ WritersHaveTheirText'
  BY <1>4, PipeStays DEF PostTake, sseVars, countVars
<1>7. TextsAnswerLines'
  BY <1>3 DEF HttpInv, TextsAnswerLines, PostTake, sseVars
<1>8. RequestsAreTraced'
  <2>1. ASSUME NEW id \in PostIds, WithTheBridge(id) PROVE WithTheBridge(id)'
    <3>1. postLine # Line("request", id)
      <4>1. postLine = NoLine
        BY DEF HttpInv, TextsAnswerLines, PostTake
      <4>2. QED
        BY <4>1 DEF NoLine, Line
    <3>2. PICK n \in 1 .. Len(outbox) : outbox[n] = Line("request", id)
      BY <1>2, <2>1, <3>1 DEF WithTheBridge
    <3>3. CASE n = 1
      BY <1>2, <3>2, <3>3 DEF WithTheBridge, PostTake
    <3>4. CASE n # 1
      <4>1. n - 1 \in 1 .. Len(outbox) - 1 /\ (n - 1) + 1 = n
        BY <1>2, <3>4
      <4>2. outbox'[n - 1] = Line("request", id)
        BY <1>2, <3>2, <4>1
      <4>3. QED
        BY <1>2, <4>1, <4>2 DEF WithTheBridge
    <3>5. QED
      BY <3>3, <3>4
  <2>2. \A id \in PostIds : Traced(id) => Traced(id)'
    BY DEF Traced, InPipe, PostTake, sseVars, countVars
  <2>3. QED
    BY <2>1, <2>2, TracesStay DEF PostTake
<1>9. SessionsAgree'
  BY SessionsStay DEF PostTake, sseVars, sessionVars
<1>10. QED
  BY <1>5, <1>6, <1>7, <1>8, <1>9 DEF HttpInv

\* The bridge is done with its line: a request that still waits has a trace.
LEMMA LineIsServed ==
    ASSUME HttpInv, postPc \notin {"write", "stream write"},
           PostGoto("reading"), postLine' = NoLine,
           UNCHANGED <<sessionVars, owed, askVars, pushes, notes, torn>>,
           fate' \in [PostIds -> Fates],
           \A id \in PostIds : fate'[id] = "waiting" => fate[id] = "waiting",
           lost \subseteq lost', lost' \subseteq PostIds,
           \A id \in PostIds : fate'[id] = "waiting" /\ postLine = Line("request", id) =>
                postPc \in {"accepted", "tail"} \/ id \in lost'
    PROVE  HttpInv'
<1>1. pipeOwner # "post"
  BY DEF HttpInv, WritersHaveTheirText
<1>2. HttpTypeOK'
  BY DEF HttpInv, HttpTypeOK, PostGoto, sseVars, sessionVars, askVars, Fates
<1>3. EndsFollowTexts' /\ LinesDoNotMix' /\ WritersHaveTheirText'
  BY <1>1, PipeStays DEF PostGoto, sseVars
<1>4. TextsAnswerLines'
  BY DEF HttpInv, TextsAnswerLines, PostGoto, sseVars
<1>5. RequestsAreTraced'
  <2>1. \A id \in PostIds : fate'[id] = "waiting" /\ WithTheBridge(id) =>
            WithTheBridge(id)' \/ Traced(id)'
    BY DEF WithTheBridge, Traced, PostGoto
  <2>2. \A id \in PostIds : Traced(id) => Traced(id)'
    BY DEF Traced, InPipe, PostGoto, sseVars
  <2>3. QED
    BY <2>1, <2>2, TracesStay
<1>6. SessionsAgree'
  BY SessionsStay DEF PostGoto, sseVars, sessionVars
<1>7. QED
  BY <1>2, <1>3, <1>4, <1>5, <1>6 DEF HttpInv

LEMMA PostAcceptedInv == ASSUME HttpInv, PostAccepted PROVE HttpInv'
<1>1. fate \in [PostIds -> Fates] /\ lost \subseteq PostIds
  BY DEF HttpInv, HttpTypeOK, Fates
<1>2. QED
  BY <1>1, LineIsServed DEF PostAccepted, countVars

\* What the bridge was writing for its line is its own.
LEMMA TextForLine ==
    ASSUME HttpInv, NEW t \in Texts, postPc \notin {"write", "stream write", "reading", "stopped"},
           postPc' = "write" \/ postPc' = "stream write", postText' = t,
           postPc' = "write" /\ postLine.kind = "request" =>
               t \in {Line("reply", postLine.id), Line("request failed", postLine.id)},
           postPc' = "stream write" /\ t.kind = "reply" => t.id = postLine.id,
           UNCHANGED <<outbox, postLine, sseVars, sessionVars, pipe, pipeOwner, fate,
                       transportClosed, owed, notes, lost, torn>>,
           unasked' \subseteq AskIds, unanswered' \subseteq AskIds, asked' \subseteq AskIds,
           pushes' \in 0..MaxPushes
    PROVE  HttpInv'
<1>1. pipeOwner # "post"
  BY DEF HttpInv, WritersHaveTheirText
<1>2. HttpTypeOK'
  BY DEF HttpInv, HttpTypeOK, sseVars, sessionVars
<1>3. EndsFollowTexts' /\ LinesDoNotMix' /\ WritersHaveTheirText'
  BY <1>1, PipeStays DEF sseVars
<1>4. TextsAnswerLines'
  BY DEF HttpInv, TextsAnswerLines, sseVars
<1>5. RequestsAreTraced'
  <2>1. \A id \in PostIds : WithTheBridge(id) => WithTheBridge(id)'
    BY DEF WithTheBridge
  <2>2. \A id \in PostIds : Traced(id) => Traced(id)'
    BY DEF Traced, InPipe, sseVars
  <2>3. QED
    BY <2>1, <2>2, TracesStay
<1>6. SessionsAgree'
  BY SessionsStay DEF sseVars, sessionVars
<1>7. QED
  BY <1>2, <1>3, <1>4, <1>5, <1>6 DEF HttpInv

LEMMA BridgeErrorInv ==
    ASSUME HttpInv, BridgeError, postPc \notin {"write", "stream write", "reading", "stopped"}
    PROVE  HttpInv'
<1>1. CASE postLine.kind = "note"
  BY <1>1, CloseTransportInv DEF BridgeError
<1>2. CASE postLine.kind # "note"
  <2>1. postLine \in OutLines \cup {NoLine} /\ postLine # NoLine
    BY DEF HttpInv, HttpTypeOK, TextsAnswerLines
  <2>2. postLine.kind \in {"request", "answer"}
    BY <1>2, <2>1, TheKinds
  <2>3. /\ postLine.kind = "request" => postLine.id \in PostIds
        /\ postLine.kind = "answer" => postLine.id \in AskIds
    BY <2>1, TheKinds
  <2>4. postText' \in Texts
    BY <1>2, <2>2, <2>3, TheTexts DEF BridgeError
  <2>5. /\ unasked' \subseteq AskIds /\ unanswered' \subseteq AskIds /\ asked' \subseteq AskIds
        /\ pushes' \in 0..MaxPushes
    BY <1>2 DEF BridgeError, HttpInv, HttpTypeOK, askVars, countVars
  <2>6. QED
    BY <1>2, <2>4, <2>5, TextForLine DEF BridgeError, countVars
<1>3. QED
  BY <1>1, <1>2

LEMMA PostFailsInv == ASSUME HttpInv, PostFails PROVE HttpInv'
BY BridgeErrorInv DEF PostFails

LEMMA PostStreamFailsInv == ASSUME HttpInv, PostStreamFails PROVE HttpInv'
BY BridgeErrorInv DEF PostStreamFails

LEMMA PostEmptyInv == ASSUME HttpInv, PostEmpty PROVE HttpInv'
<1>1. CASE postLine.kind = "note"
  <2>1. \A id \in PostIds : postLine # Line("request", id)
    BY <1>1 DEF Line
  <2>2. fate \in [PostIds -> Fates] /\ lost \subseteq PostIds
    BY DEF HttpInv, HttpTypeOK, Fates
  <2>3. QED
    BY <1>1, <2>1, <2>2, LineIsServed DEF PostEmpty, countVars
<1>2. CASE postLine.kind # "note"
  BY <1>2, BridgeErrorInv DEF PostEmpty
<1>3. QED
  BY <1>1, <1>2

LEMMA PostTimesOutInv == ASSUME HttpInv, PostTimesOut PROVE HttpInv'
<1>1. CASE postLine.kind = "note"
  BY <1>1, CloseTransportInv DEF PostTimesOut
<1>2. CASE postLine.kind # "note"
  <2>1. fate \in [PostIds -> Fates] /\ lost \subseteq PostIds
    BY DEF HttpInv, HttpTypeOK, Fates
  <2>2. PICK how \in {"failed", "failed by an answer"} : SettleRequest(postLine.id, how)
    BY <1>2 DEF PostTimesOut
  <2>3. /\ fate' \in [PostIds -> Fates]
        /\ \A id \in PostIds : fate'[id] = "waiting" => fate[id] = "waiting" /\ postLine.id # id
    BY <2>1, <2>2 DEF SettleRequest, Fates
  <2>4. \A id \in PostIds : fate'[id] = "waiting" => postLine # Line("request", id)
    <3>1. ASSUME NEW id \in PostIds, postLine = Line("request", id) PROVE postLine.id = id
      BY <3>1, TheParts
    <3>2. QED
      BY <2>3, <3>1
  <2>5. QED
    BY <1>2, <2>1, <2>3, <2>4, LineIsServed DEF PostTimesOut, countVars
<1>3. QED
  BY <1>1, <1>2

LEMMA PostReplyInv == ASSUME HttpInv, PostReply PROVE HttpInv'
<1>1. postLine \in OutLines \cup {NoLine} /\ postLine.kind = "request"
  BY DEF HttpInv, HttpTypeOK, TextsAnswerLines, PostReply
<1>2. postText' \in Texts
  BY <1>1, TheKinds, TheTexts DEF PostReply
<1>3. /\ unasked' \subseteq AskIds /\ unanswered' \subseteq AskIds /\ asked' \subseteq AskIds
      /\ pushes' \in 0..MaxPushes
  BY DEF PostReply, HttpInv, HttpTypeOK, askVars, countVars
<1>4. QED
  BY <1>2, <1>3, TextForLine DEF PostReply, countVars

\* An event of a stream is a text, no reply, and keeps the server's side in its bounds.
LEMMA TheEvents ==
    ASSUME HttpInv, NEW t \in StreamTexts, ServerEvent(t)
    PROVE  /\ t \in Texts /\ t.kind # "reply"
           /\ unasked' \subseteq AskIds /\ unanswered' \subseteq AskIds /\ asked' \subseteq AskIds
           /\ pushes' \in 0..MaxPushes /\ UNCHANGED <<notes, lost, torn>>
<1>1. /\ unasked \subseteq AskIds /\ unanswered \subseteq AskIds /\ asked \subseteq AskIds
      /\ pushes \in 0..MaxPushes
  BY DEF HttpInv, HttpTypeOK
<1>2. t \in Texts
  BY TheTexts DEF StreamTexts
<1>3. t.kind # "reply"
  BY DEF StreamTexts, Line
<1>4. CASE UNCHANGED <<askVars, notes, lost, torn>> /\ pushes < MaxPushes /\ pushes' = pushes + 1
  <2>1. MaxPushes \in Nat
    BY StreamableAssumption
  <2>2. pushes' \in 0..MaxPushes
    BY <1>1, <1>4, <2>1
  <2>3. QED
    BY <1>1, <1>2, <1>3, <1>4, <2>2 DEF askVars
<1>5. CASE \E id \in unasked : /\ unasked' = unasked \ {id} /\ unanswered' = unanswered \cup {id}
                               /\ UNCHANGED <<asked, countVars>>
  BY <1>1, <1>2, <1>3, <1>5 DEF countVars
<1>6. QED
  BY <1>4, <1>5 DEF ServerEvent

LEMMA PostStreamsInv == ASSUME HttpInv, PostStreams PROVE HttpInv'
<1>1. CASE \E text \in StreamTexts : postText' = text /\ ServerEvent(text)
  <2>1. PICK text \in StreamTexts : postText' = text /\ ServerEvent(text)
    BY <1>1
  <2>2. /\ text \in Texts /\ text.kind # "reply"
        /\ unasked' \subseteq AskIds /\ unanswered' \subseteq AskIds /\ asked' \subseteq AskIds
        /\ pushes' \in 0..MaxPushes /\ UNCHANGED <<notes, lost, torn>>
    BY <2>1, TheEvents
  <2>3. QED
    BY <2>1, <2>2, TextForLine DEF PostStreams
<1>2. CASE /\ postLine.kind = "request" /\ postText' = Line("reply", postLine.id)
           /\ UNCHANGED <<askVars, countVars>>
  <2>1. postLine \in OutLines \cup {NoLine}
    BY DEF HttpInv, HttpTypeOK
  <2>2. postText' \in Texts /\ postText'.id = postLine.id
    <3>1. Line("reply", postLine.id).id = postLine.id
      BY DEF Line
    <3>2. QED
      BY <1>2, <2>1, <3>1, TheKinds, TheTexts
  <2>3. /\ unasked' \subseteq AskIds /\ unanswered' \subseteq AskIds /\ asked' \subseteq AskIds
        /\ pushes' \in 0..MaxPushes
    BY <1>2 DEF HttpInv, HttpTypeOK, askVars, countVars
  <2>4. QED
    BY <1>2, <2>2, <2>3, TextForLine DEF PostStreams, countVars
<1>3. QED
  BY <1>1, <1>2 DEF PostStreams

LEMMA PostStreamEndsInv == ASSUME HttpInv, PostStreamEnds PROVE HttpInv'
<1>1. fate \in [PostIds -> Fates] /\ lost \subseteq PostIds /\ postLine \in OutLines \cup {NoLine}
  BY DEF HttpInv, HttpTypeOK, Fates
<1>2. CASE postPc = "tail" /\ UNCHANGED countVars
  BY <1>1, <1>2, LineIsServed DEF PostStreamEnds, countVars
<1>3. CASE /\ postPc = "stream"
           /\ lost' = IF postLine.kind = "request" THEN lost \cup {postLine.id} ELSE lost
           /\ UNCHANGED <<pushes, notes, torn>>
  <2>1. postLine.kind = "request" => postLine.id \in PostIds
    BY <1>1, TheKinds
  <2>2. lost \subseteq lost' /\ lost' \subseteq PostIds
    BY <1>1, <1>3, <2>1
  <2>3. \A id : postLine = Line("request", id) => postLine.kind = "request" /\ postLine.id = id
    BY DEF Line
  <2>4. \A id \in PostIds : postLine = Line("request", id) => id \in lost'
    BY <1>3, <2>3
  <2>5. QED
    BY <1>1, <1>3, <2>2, <2>4, LineIsServed DEF PostStreamEnds
<1>4. QED
  BY <1>2, <1>3 DEF PostStreamEnds

\* Under the lock the bridge writes the text, then its end.
LEMMA PostWritesTextInv == ASSUME HttpInv, PostWritesText PROVE HttpInv'
<1>1. pipe \in Seq(Texts \cup {LineEnd}) /\ postText \in Texts
  BY DEF HttpInv, HttpTypeOK
<1>2. pipe' \in Seq(Texts \cup {LineEnd}) /\ Longer(pipe, pipe', postText)
  BY <1>1, AppendedIsLonger DEF PostWritesText
<1>3. HttpTypeOK'
  BY <1>2 DEF HttpInv, HttpTypeOK, PostWritesText, postVars, sseVars, sessionVars, askVars, countVars
<1>4. /\ EndsFollowTexts' /\ LinesDoNotMix' /\ WritersHaveTheirText'
      /\ \A id : InPipe(id) => InPipe(id)'
  <2>1. PICK t \in Texts : t = postText
    BY <1>1
  <2>2. Writes(t)'
    BY <2>1 DEF PostWritesText, Writes, postVars
  <2>3. QED
    BY <1>2, <2>1, <2>2, TextGoesIn DEF PostWritesText, countVars
<1>5. TextsAnswerLines'
  BY DEF HttpInv, TextsAnswerLines, PostWritesText, postVars, sseVars
<1>6. RequestsAreTraced'
  <2>1. \A id \in PostIds : WithTheBridge(id) => WithTheBridge(id)'
    BY DEF WithTheBridge, PostWritesText, postVars
  <2>2. \A id \in PostIds : Traced(id) => Traced(id)'
    BY <1>4 DEF Traced, PostWritesText, sseVars, countVars
  <2>3. QED
    BY <2>1, <2>2, TracesStay DEF PostWritesText
<1>7. SessionsAgree'
  BY SessionsStay DEF PostWritesText, sseVars, sessionVars
<1>8. QED
  BY <1>3, <1>4, <1>5, <1>6, <1>7 DEF HttpInv

LEMMA PostWritesEndInv == ASSUME HttpInv, PostWritesEnd PROVE HttpInv'
<1>1. pipe \in Seq(Texts \cup {LineEnd}) /\ postLine \in OutLines \cup {NoLine}
  BY DEF HttpInv, HttpTypeOK
<1>2. pipe' \in Seq(Texts \cup {LineEnd}) /\ Longer(pipe, pipe', LineEnd)
  BY <1>1, AppendedIsLonger DEF PostWritesEnd
<1>3. /\ postPc \in {"write", "stream write"} /\ pipe # <<>> /\ pipe[Len(pipe)] = postText
  BY DEF HttpInv, WritersHaveTheirText, PostWritesEnd
<1>4. HttpTypeOK'
  <2>1. postLine' \in OutLines \cup {NoLine} /\ postText' \in Texts
    BY <1>1, TheTexts DEF PostWritesEnd
  <2>2. QED
    BY <1>2, <2>1 DEF HttpInv, HttpTypeOK, PostWritesEnd, sseVars, sessionVars, askVars, countVars
<1>5. /\ EndsFollowTexts' /\ LinesDoNotMix' /\ WritersHaveTheirText'
      /\ \A id : InPipe(id) => InPipe(id)'
  BY <1>2, EndGoesIn DEF PostWritesEnd, countVars
<1>6. TextsAnswerLines'
  BY <1>3 DEF HttpInv, TextsAnswerLines, PostWritesEnd, sseVars
<1>7. RequestsAreTraced'
  <2>1. ASSUME NEW id \in PostIds, WithTheBridge(id) PROVE WithTheBridge(id)' \/ InPipe(id)'
    <3>1. CASE \E n \in DOMAIN outbox : outbox[n] = Line("request", id)
      BY <3>1 DEF WithTheBridge, PostWritesEnd
    <3>2. CASE postLine = Line("request", id)
      <4>1. postLine.kind = "request" /\ postLine.id = id
        BY <3>2 DEF Line
      <4>2. CASE postPc = "write" \/ postText.kind = "reply"
        <5>1. postText.kind \in {"reply", "request failed"} /\ postText.id = id
          <6>1. CASE postPc = "write"
            <7>1. postText \in {Line("reply", id), Line("request failed", id)}
              BY <4>1, <6>1 DEF HttpInv, TextsAnswerLines
            <7>2. CASE postText = Line("reply", id)
              BY <7>2, TheParts
            <7>3. CASE postText = Line("request failed", id)
              BY <7>3, TheParts
            <7>4. QED
              BY <7>1, <7>2, <7>3
          <6>2. CASE postPc = "stream write" /\ postText.kind = "reply"
            BY <4>1, <6>2 DEF HttpInv, TextsAnswerLines
          <6>3. QED
            BY <1>3, <4>2, <6>1, <6>2
        <5>2. Len(pipe) \in DOMAIN pipe
          <6>1. Len(pipe) # 0
            BY <1>1, <1>3, EmptySeq
          <6>2. Len(pipe) \in Nat /\ DOMAIN pipe = 1 .. Len(pipe)
            BY <1>1, LenProperties
          <6>3. QED
            BY <6>1, <6>2
        <5>3. InPipe(id)
          BY <1>3, <5>1, <5>2 DEF InPipe
        <5>4. QED
          BY <1>5, <5>3
      <4>3. CASE postPc = "stream write" /\ postText.kind # "reply"
        BY <3>2, <4>3 DEF WithTheBridge, PostWritesEnd
      <4>4. QED
        BY <1>3, <4>2, <4>3
    <3>3. QED
      BY <2>1, <3>1, <3>2 DEF WithTheBridge
  <2>2. \A id \in PostIds : WithTheBridge(id) => WithTheBridge(id)' \/ Traced(id)'
    BY <2>1 DEF Traced
  <2>3. \A id \in PostIds : Traced(id) => Traced(id)'
    BY <1>5 DEF Traced, PostWritesEnd, sseVars, countVars
  <2>4. QED
    BY <2>2, <2>3, TracesStay DEF PostWritesEnd
<1>8. SessionsAgree'
  BY SessionsStay DEF PostWritesEnd, sseVars, sessionVars
<1>9. QED
  BY <1>4, <1>5, <1>6, <1>7, <1>8 DEF HttpInv

\* The head of an answer.  Whatever session it names, the task of the stream is told of a
\* new one.
LEMMA PostAnsweredInv ==
    ASSUME HttpInv,
           NEW status \in {"ok", "accepted", "error"},
           NEW body \in {"json", "stream", "empty", "refused"},
           PostAnswered(status, body)
    PROVE  HttpInv'
<1> DEFINE reason == WakeReason(status, sessionId' # sessionId)
<1>1. /\ sessionId \in 0..MaxSession /\ announced \in 0..MaxSession
      /\ serverSession \in 1..MaxSession /\ wakes \in Seq({"connect", "session changed"})
      /\ owed \subseteq PostIds /\ unanswered \subseteq AskIds
      /\ postLine \in OutLines \cup {NoLine}
  BY DEF HttpInv, HttpTypeOK
<1>2. PICK announces \in BOOLEAN :
         /\ sessionId' = IF announces THEN serverSession ELSE sessionId
         /\ announced' = IF announces THEN serverSession ELSE announced
  BY DEF PostAnswered
<1>3. sessionId' \in 0..MaxSession /\ announced' \in 0..MaxSession
  <2>1. MaxSession \in Nat
    BY StreamableAssumption
  <2>2. serverSession \in 1..MaxSession
    BY <1>1
  <2>3. serverSession \in 0..MaxSession
    BY <2>1, <2>2
  <2>4. QED
    BY <1>1, <1>2, <2>3
<1>4. /\ reason \in Seq({"connect", "session changed"})
      /\ sessionId' # sessionId => Len(reason) = 1 /\ reason[1] = "session changed"
  <2>1. CASE sessionId' # sessionId
    <3>1. reason = <<"session changed">>
      BY <2>1 DEF WakeReason
    <3>2. <<"session changed">> \in Seq({"connect", "session changed"})
      OBVIOUS
    <3>3. Len(<<"session changed">>) = 1 /\ <<"session changed">>[1] = "session changed"
      OBVIOUS
    <3>4. QED
      BY <3>1, <3>2, <3>3
  <2>2. CASE sessionId' = sessionId
    <3>1. reason = <<"connect">> \/ reason = <<>>
      BY <2>2 DEF WakeReason
    <3>2. <<"connect">> \in Seq({"connect", "session changed"})
      OBVIOUS
    <3>3. QED
      BY <2>2, <3>1, <3>2, EmptySeq
  <2>3. QED
    BY <2>1, <2>2
<1>5. wakes' = wakes \o reason
  BY DEF PostAnswered
<1> HIDE DEF reason
<1>6. /\ wakes' \in Seq({"connect", "session changed"})
      /\ Len(wakes) \in Nat /\ Len(reason) \in Nat
      /\ \A n \in DOMAIN wakes : n \in DOMAIN wakes' /\ wakes'[n] = wakes[n]
      /\ Len(reason) = 1 =>
            Len(wakes) + 1 \in DOMAIN wakes' /\ wakes'[Len(wakes) + 1] = reason[1]
  <2>1. Len(wakes) \in Nat /\ Len(reason) \in Nat /\ DOMAIN wakes = 1 .. Len(wakes)
    BY <1>1, <1>4, LenProperties
  <2>2. /\ wakes' \in Seq({"connect", "session changed"})
        /\ Len(wakes') = Len(wakes) + Len(reason)
        /\ \A n \in 1 .. Len(wakes) + Len(reason) :
              wakes'[n] = IF n <= Len(wakes) THEN wakes[n] ELSE reason[n - Len(wakes)]
    BY <1>1, <1>4, <1>5, ConcatProperties
  <2>3. DOMAIN wakes' = 1 .. Len(wakes')
    BY <2>2, LenProperties
  <2>4. ASSUME NEW n \in DOMAIN wakes
        PROVE  n \in DOMAIN wakes' /\ wakes'[n] = wakes[n]
    <3>1. n \in 1 .. Len(wakes) + Len(reason) /\ n <= Len(wakes)
      BY <2>1
    <3>2. QED
      BY <2>2, <2>3, <3>1
  <2>5. ASSUME Len(reason) = 1
        PROVE  Len(wakes) + 1 \in DOMAIN wakes' /\ wakes'[Len(wakes) + 1] = reason[1]
    <3>1. /\ Len(wakes) + 1 \in 1 .. Len(wakes) + Len(reason)
          /\ ~(Len(wakes) + 1 <= Len(wakes)) /\ (Len(wakes) + 1) - Len(wakes) = 1
      BY <2>1, <2>5
    <3>2. QED
      BY <2>2, <2>3, <3>1
  <2>6. QED
    BY <2>1, <2>2, <2>4, <2>5
<1>7. postPc' = BodyOf(status, body) /\ postPc' \in {"json", "stream", "empty", "refused", "accepted"}
  BY DEF PostAnswered, PostGoto, BodyOf
<1>8. unanswered' \subseteq AskIds /\ owed \subseteq owed' /\ owed' \subseteq PostIds
  <2>1. postLine.kind = "request" => postLine.id \in PostIds
    BY <1>1, TheKinds
  <2>2. QED
    BY <1>1, <2>1 DEF PostAnswered
<1>9. HttpTypeOK'
  BY <1>3, <1>6, <1>7, <1>8
  DEF HttpInv, HttpTypeOK, PostAnswered, PostGoto, sseVars, countVars
<1>10. EndsFollowTexts' /\ LinesDoNotMix' /\ WritersHaveTheirText'
  <2>1. pipeOwner # "post"
    BY DEF HttpInv, WritersHaveTheirText, PostAnswered
  <2>2. QED
    BY <2>1, PipeStays DEF PostAnswered, PostGoto, sseVars, countVars
<1>11. TextsAnswerLines'
  <2>1. postPc' = "json" => postLine.kind = "request"
    BY <1>7 DEF PostAnswered, BodyOf
  <2>2. QED
    BY <1>7, <2>1 DEF HttpInv, TextsAnswerLines, PostAnswered, PostGoto, sseVars
<1>12. RequestsAreTraced'
  <2>1. ASSUME NEW id \in PostIds, WithTheBridge(id) PROVE WithTheBridge(id)' \/ id \in owed'
    <3>1. CASE \E n \in DOMAIN outbox : outbox[n] = Line("request", id)
      BY <3>1 DEF WithTheBridge, PostAnswered, PostGoto
    <3>2. CASE postLine = Line("request", id)
      <4>1. postLine.kind = "request" /\ postLine.id = id
        BY <3>2 DEF Line
      <4>2. CASE BodyOf(status, body) = "accepted"
        BY <4>1, <4>2 DEF PostAnswered
      <4>3. CASE BodyOf(status, body) # "accepted"
        BY <1>7, <3>2, <4>3 DEF WithTheBridge, PostAnswered
      <4>4. QED
        BY <4>2, <4>3
    <3>3. QED
      BY <2>1, <3>1, <3>2 DEF WithTheBridge
  <2>2. \A id \in PostIds : WithTheBridge(id) => WithTheBridge(id)' \/ Traced(id)'
    BY <2>1 DEF Traced
  <2>3. \A id \in PostIds : Traced(id) => Traced(id)'
    BY <1>8 DEF Traced, InPipe, PostAnswered, PostGoto, sseVars, countVars
  <2>4. QED
    BY <2>2, <2>3, TracesStay DEF PostAnswered
<1>13. SessionsAgree'
  <2>1. UNCHANGED <<ssePc, streamSession>>
    BY DEF PostAnswered, PostGoto, sseVars
  <2>2. SUFFICES ASSUME sessionId' # 0, ssePc \in {"connecting", "pumping", "writing"},
                        \A n \in DOMAIN wakes' : wakes'[n] # "session changed"
                 PROVE  streamSession = sessionId'
    BY <2>1 DEF SessionsAgree
  <2>3. sessionId' = sessionId
    <3>1. SUFFICES ASSUME sessionId' # sessionId PROVE FALSE
      OBVIOUS
    <3>2. Len(wakes) + 1 \in DOMAIN wakes' /\ wakes'[Len(wakes) + 1] = "session changed"
      BY <1>4, <1>6, <3>1
    <3>3. QED
      BY <2>2, <3>2
  <2>4. \A n \in DOMAIN wakes : wakes[n] # "session changed"
    BY <1>6, <2>2
  <2>5. QED
    BY <2>2, <2>3, <2>4 DEF HttpInv, SessionsAgree
<1>14. QED
  BY <1>9, <1>10, <1>11, <1>12, <1>13 DEF HttpInv

-----------------------------------------------------------------------------
\* The SSE task.  With no text in hand it can go on without a trace being lost.
LEMMA SseMoves ==
    ASSUME HttpInv, HttpTypeOK', SessionsAgree', UNCHANGED <<postVars, pipe, pipeOwner, fate, lost, torn>>,
           ssePc # "writing", ssePc' # "writing", sseText' = NoLine, owed \subseteq owed'
    PROVE  HttpInv'
<1>1. pipeOwner # "sse"
  BY DEF HttpInv, WritersHaveTheirText
<1>2. EndsFollowTexts' /\ LinesDoNotMix' /\ WritersHaveTheirText'
  BY <1>1, PipeStays DEF postVars
<1>3. TextsAnswerLines'
  BY DEF HttpInv, TextsAnswerLines, postVars
<1>4. RequestsAreTraced'
  <2>1. \A id \in PostIds : WithTheBridge(id) => WithTheBridge(id)'
    BY DEF WithTheBridge, postVars
  <2>2. \A id : sseText # Line("reply", id)
    <3>1. sseText = NoLine
      BY DEF HttpInv, TextsAnswerLines
    <3>2. \A id : NoLine # Line("reply", id)
      BY DEF NoLine, Line
    <3>3. QED
      BY <3>1, <3>2
  <2>3. \A id \in PostIds : Traced(id) => Traced(id)'
    BY <2>2 DEF Traced, InPipe
  <2>4. QED
    BY <2>1, <2>3, TracesStay
<1>5. QED
  BY <1>2, <1>3, <1>4 DEF HttpInv

\* What the task was writing is none of the others' concern.
LEMMA SseKeepsNothing ==
    ASSUME HttpInv, ssePc # "writing" PROVE sseText = NoLine
BY DEF HttpInv, TextsAnswerLines

\* The rest of the wake-ups.
LEMMA FirstWake ==
    ASSUME HttpInv, wakes # <<>>, wakes' = Tail(wakes)
    PROVE  /\ wakes' \in Seq({"connect", "session changed"})
           /\ (\A n \in DOMAIN wakes' : wakes'[n] # "session changed")
                 /\ Head(wakes) # "session changed"
              => \A n \in DOMAIN wakes : wakes[n] # "session changed"
<1>1. wakes \in Seq({"connect", "session changed"})
  BY DEF HttpInv, HttpTypeOK
<1>2. /\ wakes' \in Seq({"connect", "session changed"}) /\ Head(wakes) = wakes[1]
      /\ Len(wakes) \in Nat \ {0}
      /\ DOMAIN wakes = 1 .. Len(wakes) /\ DOMAIN wakes' = 1 .. Len(wakes) - 1
      /\ \A n \in 1 .. Len(wakes) - 1 : wakes'[n] = wakes[n + 1]
  BY <1>1, TailIs
<1>3. ASSUME \A n \in DOMAIN wakes' : wakes'[n] # "session changed",
             Head(wakes) # "session changed", NEW n \in DOMAIN wakes
      PROVE  wakes[n] # "session changed"
  <2>1. CASE n = 1
    BY <1>2, <1>3, <2>1
  <2>2. CASE n # 1
    <3>1. n \in 1 .. Len(wakes) /\ Len(wakes) \in Nat
      BY <1>2, <1>3
    <3>2. n - 1 \in 1 .. Len(wakes) - 1 /\ (n - 1) + 1 = n
      BY <2>2, <3>1
    <3>3. wakes'[n - 1] = wakes[n]
      BY <1>2, <3>2
    <3>4. QED
      BY <1>2, <1>3, <3>2, <3>3
  <2>3. QED
    BY <2>1, <2>2
<1>4. QED
  BY <1>2, <1>3

\* A GET goes out under the shared session id.
LEMMA ConnectAgrees ==
    ASSUME HttpInv, Connect, UNCHANGED sessionId PROVE SessionsAgree'
BY DEF HttpInv, SessionsAgree, Connect

LEMMA SseWakesInv == ASSUME HttpInv, SseWakes PROVE HttpInv'
<1>1. wakes' \in Seq({"connect", "session changed"})
  BY FirstWake DEF SseWakes
<1>2. HttpTypeOK'
  BY <1>1, TheTexts DEF HttpInv, HttpTypeOK, SseWakes, Connect, postVars, askVars, countVars
<1>3. SessionsAgree'
  BY ConnectAgrees DEF SseWakes
<1>4. QED
  BY <1>2, <1>3, SseMoves DEF SseWakes, Connect, countVars

LEMMA BackoffEndsInv == ASSUME HttpInv, BackoffEnds PROVE HttpInv'
<1>1. HttpTypeOK'
  BY TheTexts DEF HttpInv, HttpTypeOK, BackoffEnds, Connect, postVars, askVars, countVars, sessionVars
<1>2. SessionsAgree'
  BY ConnectAgrees DEF BackoffEnds, sessionVars
<1>3. QED
  BY <1>1, <1>2, SseMoves DEF BackoffEnds, Connect, countVars

LEMMA GetStreamsInv == ASSUME HttpInv, GetStreams PROVE HttpInv'
<1>1. /\ streamSession \in 0..MaxSession /\ sessionId \in 0..MaxSession
      /\ announced \in 0..MaxSession /\ serverSession \in 0..MaxSession
  <2>1. /\ streamSession \in 0..MaxSession /\ sessionId \in 0..MaxSession
        /\ announced \in 0..MaxSession /\ serverSession \in 1..MaxSession
    BY DEF HttpInv, HttpTypeOK
  <2>2. serverSession \in 0..MaxSession
    BY <2>1
  <2>3. QED
    BY <2>1, <2>2
<1>2. /\ streamSession' \in {streamSession, serverSession}
      /\ sessionId' \in {sessionId, streamSession'}
      /\ announced' \in {announced, streamSession'}
  BY DEF GetStreams, Names
<1>3. /\ streamSession' \in 0..MaxSession /\ sessionId' \in 0..MaxSession
      /\ announced' \in 0..MaxSession
  BY <1>1, <1>2
<1>4. HttpTypeOK'
  BY <1>3 DEF HttpInv, HttpTypeOK, GetStreams, postVars, askVars, countVars
<1>5. SessionsAgree'
  <2>1. ssePc = "connecting" /\ wakes' = wakes
    BY DEF GetStreams
  <2>2. CASE sessionId' = streamSession'
    BY <2>2 DEF SessionsAgree
  <2>3. CASE sessionId' = sessionId /\ streamSession = 0
    <3>1. sessionId # 0 => \E n \in DOMAIN wakes : wakes[n] = "session changed"
      BY <2>1, <2>3 DEF HttpInv, SessionsAgree
    <3>2. QED
      BY <2>1, <2>3, <3>1 DEF SessionsAgree
  <2>4. CASE sessionId' = sessionId /\ streamSession' = streamSession
    BY <2>1, <2>4 DEF HttpInv, SessionsAgree
  <2>5. QED
    BY <2>2, <2>3, <2>4 DEF GetStreams, Names
<1>6. QED
  BY <1>4, <1>5, SseMoves, SseKeepsNothing DEF GetStreams, countVars

LEMMA GetRefusedInv == ASSUME HttpInv, GetRefused PROVE HttpInv'
<1>1. 0 \in 0..MaxSession
  BY StreamableAssumption
<1>2. HttpTypeOK'
  BY <1>1 DEF HttpInv, HttpTypeOK, GetRefused, postVars, sessionVars, askVars, countVars
<1>3. SessionsAgree'
  BY SessionsStay DEF GetRefused, sessionVars
<1>4. QED
  BY <1>2, <1>3, SseMoves, SseKeepsNothing DEF GetRefused, countVars

LEMMA SseEofInv == ASSUME HttpInv, SseEof PROVE HttpInv'
<1>1. pushes' \in 0..MaxPushes
  <2>1. pushes \in 0..MaxPushes
    BY DEF HttpInv, HttpTypeOK
  <2>2. pushes' = pushes + 1 /\ pushes < MaxPushes /\ MaxPushes \in Nat
    BY StreamableAssumption DEF SseEof
  <2>3. QED
    BY <2>1, <2>2
<1>2. HttpTypeOK'
  BY <1>1 DEF HttpInv, HttpTypeOK, SseEof, postVars, sessionVars, askVars
<1>3. SessionsAgree'
  BY SessionsStay DEF SseEof, sessionVars
<1>4. QED
  BY <1>2, <1>3, SseMoves, SseKeepsNothing DEF SseEof

\* An event of the stream is taken in hand, and what the server owed with it.
LEMMA SseStreamsInv == ASSUME HttpInv, SseStreams PROVE HttpInv'
<1>1. owed \subseteq PostIds
  BY DEF HttpInv, HttpTypeOK
<1>2. /\ sseText' \in Texts /\ owed' \subseteq PostIds
      /\ unasked' \subseteq AskIds /\ unanswered' \subseteq AskIds /\ asked' \subseteq AskIds
      /\ pushes' \in 0..MaxPushes /\ UNCHANGED <<notes, lost, torn>>
      /\ \A id \in PostIds : id \in owed => id \in owed' \/ sseText' = Line("reply", id)
  <2>1. CASE \E text \in StreamTexts : sseText' = text /\ ServerEvent(text) /\ UNCHANGED owed
    <3>1. PICK text \in StreamTexts : sseText' = text /\ ServerEvent(text) /\ UNCHANGED owed
      BY <2>1
    <3>2. /\ text \in Texts
          /\ unasked' \subseteq AskIds /\ unanswered' \subseteq AskIds /\ asked' \subseteq AskIds
          /\ pushes' \in 0..MaxPushes /\ UNCHANGED <<notes, lost, torn>>
      BY <3>1, TheEvents
    <3>3. QED
      BY <1>1, <3>1, <3>2
  <2>2. CASE /\ \E id \in owed : sseText' = Line("reply", id) /\ owed' = owed \ {id}
             /\ UNCHANGED <<askVars, countVars>>
    <3>1. PICK i \in owed : sseText' = Line("reply", i) /\ owed' = owed \ {i}
      BY <2>2
    <3>2. sseText' \in Texts
      BY <1>1, <3>1, TheTexts
    <3>3. /\ unasked' \subseteq AskIds /\ unanswered' \subseteq AskIds /\ asked' \subseteq AskIds
          /\ pushes' \in 0..MaxPushes /\ UNCHANGED <<notes, lost, torn>>
      BY <2>2 DEF HttpInv, HttpTypeOK, askVars, countVars
    <3>4. QED
      BY <1>1, <3>1, <3>2, <3>3
  <2>3. QED
    BY <2>1, <2>2 DEF SseStreams
<1>3. HttpTypeOK'
  BY <1>2 DEF HttpInv, HttpTypeOK, SseStreams, postVars, sessionVars
<1>4. pipeOwner # "sse"
  BY DEF HttpInv, WritersHaveTheirText, SseStreams
<1>5. EndsFollowTexts' /\ LinesDoNotMix' /\ WritersHaveTheirText'
  BY <1>2, <1>4, PipeStays DEF SseStreams, postVars
<1>6. TextsAnswerLines'
  BY DEF HttpInv, TextsAnswerLines, SseStreams, postVars
<1>7. RequestsAreTraced'
  <2>1. \A id \in PostIds : WithTheBridge(id) => WithTheBridge(id)'
    BY DEF WithTheBridge, SseStreams, postVars
  <2>2. \A id : sseText # Line("reply", id)
    <3>1. sseText = NoLine
      BY SseKeepsNothing DEF SseStreams
    <3>2. \A id : NoLine # Line("reply", id)
      BY DEF NoLine, Line
    <3>3. QED
      BY <3>1, <3>2
  <2>3. \A id \in PostIds : Traced(id) => Traced(id)'
    BY <1>2, <2>2 DEF Traced, InPipe, SseStreams
  <2>4. QED
    BY <2>1, <2>3, TracesStay DEF SseStreams
<1>8. SessionsAgree'
  BY SessionsStay DEF SseStreams, sessionVars
<1>9. QED
  BY <1>3, <1>5, <1>6, <1>7, <1>8 DEF HttpInv

LEMMA SseWritesTextInv == ASSUME HttpInv, SseWritesText PROVE HttpInv'
<1>1. pipe \in Seq(Texts \cup {LineEnd}) /\ sseText \in Texts
  BY DEF HttpInv, HttpTypeOK
<1>2. pipe' \in Seq(Texts \cup {LineEnd}) /\ Longer(pipe, pipe', sseText)
  BY <1>1, AppendedIsLonger DEF SseWritesText
<1>3. HttpTypeOK'
  BY <1>2 DEF HttpInv, HttpTypeOK, SseWritesText, postVars, sseVars, sessionVars, askVars, countVars
<1>4. /\ EndsFollowTexts' /\ LinesDoNotMix' /\ WritersHaveTheirText'
      /\ \A id : InPipe(id) => InPipe(id)'
  <2>1. PICK t \in Texts : t = sseText
    BY <1>1
  <2>2. Writes(t)'
    BY <2>1 DEF SseWritesText, Writes, sseVars
  <2>3. QED
    BY <1>2, <2>1, <2>2, TextGoesIn DEF SseWritesText, countVars
<1>5. TextsAnswerLines'
  BY DEF HttpInv, TextsAnswerLines, SseWritesText, postVars, sseVars
<1>6. RequestsAreTraced'
  <2>1. \A id \in PostIds : WithTheBridge(id) => WithTheBridge(id)'
    BY DEF WithTheBridge, SseWritesText, postVars
  <2>2. \A id \in PostIds : Traced(id) => Traced(id)'
    BY <1>4 DEF Traced, SseWritesText, sseVars, countVars
  <2>3. QED
    BY <2>1, <2>2, TracesStay DEF SseWritesText
<1>7. SessionsAgree'
  BY SessionsStay DEF SseWritesText, sseVars, sessionVars
<1>8. QED
  BY <1>3, <1>4, <1>5, <1>6, <1>7 DEF HttpInv

\* A reply that is written whole is in the pipe.
LEMMA SseWritesEndInv == ASSUME HttpInv, SseWritesEnd PROVE HttpInv'
<1>1. pipe \in Seq(Texts \cup {LineEnd})
  BY DEF HttpInv, HttpTypeOK
<1>2. pipe' \in Seq(Texts \cup {LineEnd}) /\ Longer(pipe, pipe', LineEnd)
  BY <1>1, AppendedIsLonger DEF SseWritesEnd
<1>3. ssePc = "writing" /\ pipe # <<>> /\ pipe[Len(pipe)] = sseText
  BY DEF HttpInv, WritersHaveTheirText, SseWritesEnd
<1>4. HttpTypeOK'
  BY <1>2, TheTexts
  DEF HttpInv, HttpTypeOK, SseWritesEnd, postVars, sessionVars, askVars, countVars
<1>5. /\ EndsFollowTexts' /\ LinesDoNotMix' /\ WritersHaveTheirText'
      /\ \A id : InPipe(id) => InPipe(id)'
  BY <1>2, EndGoesIn DEF SseWritesEnd, countVars
<1>6. TextsAnswerLines'
  BY DEF HttpInv, TextsAnswerLines, SseWritesEnd, postVars
<1>7. RequestsAreTraced'
  <2>1. \A id \in PostIds : WithTheBridge(id) => WithTheBridge(id)'
    BY DEF WithTheBridge, SseWritesEnd, postVars
  <2>2. ASSUME NEW id \in PostIds, sseText = Line("reply", id) PROVE InPipe(id)
    <3>1. sseText.kind = "reply" /\ sseText.id = id
      BY <2>2, TheParts
    <3>2. Len(pipe) # 0
      BY <1>1, <1>3, EmptySeq
    <3>3. Len(pipe) \in Nat /\ DOMAIN pipe = 1 .. Len(pipe)
      BY <1>1, LenProperties
    <3>4. Len(pipe) \in DOMAIN pipe
      BY <3>2, <3>3
    <3>5. QED
      BY <1>3, <3>1, <3>4 DEF InPipe
  <2>3. \A id \in PostIds : Traced(id) => Traced(id)'
    BY <1>5, <2>2 DEF Traced, SseWritesEnd, countVars
  <2>4. QED
    BY <2>1, <2>3, TracesStay DEF SseWritesEnd
<1>8. SessionsAgree'
  BY <1>3, SessionsStay DEF SseWritesEnd, sessionVars
<1>9. QED
  BY <1>4, <1>5, <1>6, <1>7, <1>8 DEF HttpInv

\* A new session drops the pump: the lock goes with it, and the reply it was writing.
LEMMA SseTakesWakeInv == ASSUME HttpInv, SseTakesWake PROVE HttpInv'
<1>1. /\ wakes' \in Seq({"connect", "session changed"})
      /\ (\A n \in DOMAIN wakes' : wakes'[n] # "session changed")
            /\ Head(wakes) # "session changed"
         => \A n \in DOMAIN wakes : wakes[n] # "session changed"
  BY FirstWake DEF SseTakesWake
<1>2. CASE Head(wakes) = "session changed"
  <2>1. /\ Connect
        /\ pipeOwner' = IF pipeOwner = "sse" THEN "nobody" ELSE pipeOwner
        /\ torn' = (torn \/ pipeOwner = "sse")
        /\ lost' = IF sseText.kind = "reply" THEN lost \cup {sseText.id} ELSE lost
        /\ UNCHANGED <<pushes, notes>>
    BY <1>2 DEF SseTakesWake, Reconnects
  <2>2. sseText \in Texts /\ lost \subseteq PostIds
    BY DEF HttpInv, HttpTypeOK
  <2>3. lost \subseteq lost' /\ lost' \subseteq PostIds
    BY <2>1, <2>2, TheReplies
  <2>4. torn' \in BOOLEAN /\ pipeOwner' \in {"nobody", "post", "sse"}
    BY <2>1 DEF HttpInv, HttpTypeOK
  <2>5. HttpTypeOK'
    BY <1>1, <2>1, <2>3, <2>4, TheTexts
    DEF HttpInv, HttpTypeOK, SseTakesWake, Connect, postVars, askVars
  <2>6. EndsFollowTexts'
    BY DEF HttpInv, EndsFollowTexts, SseTakesWake
  <2>7. LinesDoNotMix'
    <3>1. CASE torn'
      BY <3>1 DEF LinesDoNotMix
    <3>2. CASE ~torn'
      <4>1. ~torn /\ UNCHANGED <<pipe, pipeOwner>>
        BY <2>1, <3>2 DEF SseTakesWake
      <4>2. QED
        BY <4>1 DEF HttpInv, LinesDoNotMix, LinesAreWhole
    <3>3. QED
      BY <3>1, <3>2
  <2>8. WritersHaveTheirText'
    BY <2>1 DEF HttpInv, WritersHaveTheirText, SseTakesWake, postVars
  <2>9. TextsAnswerLines'
    BY <2>1 DEF HttpInv, TextsAnswerLines, SseTakesWake, Connect, postVars
  <2>10. RequestsAreTraced'
    <3>1. \A id \in PostIds : WithTheBridge(id) => WithTheBridge(id)'
      BY DEF WithTheBridge, SseTakesWake, postVars
    <3>2. ASSUME NEW id, sseText = Line("reply", id) PROVE id \in lost'
      <4>1. sseText.kind = "reply" /\ sseText.id = id
        BY <3>2, TheParts
      <4>2. QED
        BY <2>1, <4>1
    <3>3. \A id \in PostIds : Traced(id) => Traced(id)'
      BY <2>3, <3>2 DEF Traced, InPipe, SseTakesWake
    <3>4. QED
      BY <3>1, <3>3, TracesStay DEF SseTakesWake
  <2>11. SessionsAgree'
    BY <2>1, ConnectAgrees DEF SseTakesWake
  <2>12. QED
    BY <2>5, <2>6, <2>7, <2>8, <2>9, <2>10, <2>11 DEF HttpInv
<1>3. CASE Head(wakes) # "session changed"
  <2>1. UNCHANGED <<sseVars, pipeOwner, countVars>>
    BY <1>3 DEF SseTakesWake, Reconnects
  <2>2. HttpTypeOK'
    BY <1>1, <2>1 DEF HttpInv, HttpTypeOK, SseTakesWake, postVars, sseVars, askVars, countVars
  <2>3. EndsFollowTexts' /\ LinesDoNotMix' /\ WritersHaveTheirText'
    BY <2>1, PipeStays DEF SseTakesWake, postVars, sseVars, countVars
  <2>4. TextsAnswerLines'
    BY <2>1 DEF HttpInv, TextsAnswerLines, SseTakesWake, postVars, sseVars
  <2>5. RequestsAreTraced'
    <3>1. \A id \in PostIds : WithTheBridge(id) => WithTheBridge(id)'
      BY DEF WithTheBridge, SseTakesWake, postVars
    <3>2. \A id \in PostIds : Traced(id) => Traced(id)'
      BY <2>1 DEF Traced, InPipe, SseTakesWake, sseVars, countVars
    <3>3. QED
      BY <3>1, <3>2, TracesStay DEF SseTakesWake
  <2>6. SessionsAgree'
    <3>1. UNCHANGED <<sessionId, ssePc, streamSession>>
      BY <2>1 DEF SseTakesWake, sseVars
    <3>2. QED
      BY <1>1, <1>3, <3>1 DEF HttpInv, SessionsAgree
  <2>7. QED
    BY <2>2, <2>3, <2>4, <2>5, <2>6 DEF HttpInv
<1>4. QED
  BY <1>2, <1>3

LEMMA ServerRollsInv == ASSUME HttpInv, ServerRolls PROVE HttpInv'
<1>1. serverSession' \in 1..MaxSession
  <2>1. serverSession \in 1..MaxSession
    BY DEF HttpInv, HttpTypeOK
  <2>2. serverSession' = serverSession + 1 /\ serverSession < MaxSession /\ MaxSession \in Nat
    BY StreamableAssumption DEF ServerRolls
  <2>3. QED
    BY <2>1, <2>2
<1>2. HttpTypeOK'
  BY <1>1 DEF HttpInv, HttpTypeOK, ServerRolls, postVars, sseVars, askVars, countVars
<1>3. EndsFollowTexts' /\ LinesDoNotMix' /\ WritersHaveTheirText'
  BY PipeStays DEF ServerRolls, postVars, sseVars, countVars
<1>4. TextsAnswerLines'
  BY DEF HttpInv, TextsAnswerLines, ServerRolls, postVars, sseVars
<1>5. RequestsAreTraced'
  <2>1. \A id \in PostIds : WithTheBridge(id) => WithTheBridge(id)'
    BY DEF WithTheBridge, ServerRolls, postVars
  <2>2. \A id \in PostIds : Traced(id) => Traced(id)'
    BY DEF Traced, InPipe, ServerRolls, sseVars, countVars
  <2>3. QED
    BY <2>1, <2>2, TracesStay DEF ServerRolls
<1>6. SessionsAgree'
  BY SessionsStay DEF ServerRolls, sseVars
<1>7. QED
  BY <1>2, <1>3, <1>4, <1>5, <1>6 DEF HttpInv

\* Nothing moves.
LEMMA StutterInv == ASSUME HttpInv, UNCHANGED httpVars PROVE HttpInv'
<1>1. HttpTypeOK'
  BY DEF HttpInv, HttpTypeOK, httpVars
<1>2. EndsFollowTexts' /\ LinesDoNotMix' /\ WritersHaveTheirText'
  BY PipeStays DEF httpVars
<1>3. TextsAnswerLines'
  BY DEF HttpInv, TextsAnswerLines, httpVars
<1>4. RequestsAreTraced'
  <2>1. \A id \in PostIds : WithTheBridge(id) => WithTheBridge(id)'
    BY DEF WithTheBridge, httpVars
  <2>2. \A id \in PostIds : Traced(id) => Traced(id)'
    BY DEF Traced, InPipe, httpVars
  <2>3. QED
    BY <2>1, <2>2, TracesStay DEF httpVars
<1>5. SessionsAgree'
  BY SessionsStay DEF httpVars
<1>6. QED
  BY <1>1, <1>2, <1>3, <1>4, <1>5 DEF HttpInv

-----------------------------------------------------------------------------
\* Every step of the transport keeps its invariant.
LEMMA HttpStepInv == HttpInv /\ [HttpNext]_httpVars => HttpInv'
<1> SUFFICES ASSUME HttpInv, [HttpNext]_httpVars PROVE HttpInv'
  OBVIOUS
<1>1. ASSUME NEW id \in PostIds, SendRequest(id) PROVE HttpInv'
  BY <1>1, SendRequestInv
<1>2. CASE SendNote
  BY <1>2, SendNoteInv
<1>3. ASSUME NEW id \in AskIds, SendAnswer(id) PROVE HttpInv'
  BY <1>3, SendAnswerInv
<1>4. CASE ReadLine
  BY <1>4, ReadLineInv
<1>5. CASE PostWorks
  BY <1>5, PostTakeInv, PostEmptyInv, PostAcceptedInv, PostReplyInv, PostWritesTextInv,
     PostWritesEndInv DEF PostWorks
<1>6. CASE PostIsAnswered
  BY <1>6, PostAnsweredInv, PostTimesOutInv, PostFailsInv DEF PostIsAnswered
<1>7. CASE ServerStreams
  BY <1>7, PostStreamsInv, PostStreamEndsInv DEF ServerStreams
<1>8. CASE PostStreamFails
  BY <1>8, PostStreamFailsInv
<1>9. CASE SseWorks
  BY <1>9, SseWakesInv, BackoffEndsInv, SseTakesWakeInv, SseWritesTextInv, SseWritesEndInv
  DEF SseWorks
<1>10. CASE GetIsAnswered
  BY <1>10, GetStreamsInv, GetRefusedInv DEF GetIsAnswered
<1>11. CASE SseStreams
  BY <1>11, SseStreamsInv
<1>12. CASE SseEof
  BY <1>12, SseEofInv
<1>13. CASE SseFails
  BY <1>13, CloseTransportInv DEF SseFails
<1>14. CASE ServerRolls
  BY <1>14, ServerRollsInv
<1>15. CASE UNCHANGED httpVars
  BY <1>15, StutterInv
<1>16. QED
  BY <1>1, <1>2, <1>3, <1>4, <1>5, <1>6, <1>7, <1>8, <1>9, <1>10, <1>11, <1>12, <1>13, <1>14, <1>15
  DEF HttpNext

\* Where each waiting request is, who writes what into the pipe and which session is whose
\* hold throughout, whatever breaks.
THEOREM HttpInvariant == HttpSpec => []HttpInv
<1>1. QED
  BY HttpInitInv, HttpStepInv, PTL DEF HttpSpec

\* A request with a trace is somewhere the property names.
LEMMA TracedIsSomewhere == HttpInv => RequestIsSomewhere
<1> SUFFICES ASSUME HttpInv, NEW id \in PostIds, fate[id] = "waiting"
             PROVE  \/ Line("request", id) \in Range(outbox) \cup {postLine}
                    \/ InPipe(id) \/ sseText = Line("reply", id)
                    \/ id \in owed \/ id \in lost
  BY DEF RequestIsSomewhere
<1>1. WithTheBridge(id) \/ Traced(id)
  BY DEF HttpInv, RequestsAreTraced
<1>2. QED
  BY <1>1 DEF WithTheBridge, Traced, Range

\* The two tasks behind the pipe never write into each other's lines, and a request that
\* waits has still to be posted, is being served, its reply is on its way or the server
\* owes it: what is lost, a pump dropped for a new session or a server that ended the
\* stream without the reply took along.
THEOREM MessagesStayKept == HttpSpec => []MessagesAreKept
<1>1. HttpInv => MessagesAreKept
  BY TracedIsSomewhere DEF HttpInv, MessagesAreKept
<1>2. QED
  BY <1>1, HttpInvariant, PTL

\* Whether the server names its session in its answers to POSTs, to GETs or in both: an open
\* stream belongs to the session the client posts under, once no news of one is left to handle.
THEOREM SessionIsFollowed == HttpSpec => []StreamFollowsSession
<1>1. HttpInv => StreamFollowsSession
  <2>1. SUFFICES ASSUME HttpInv, sessionId # 0, ssePc \in {"pumping", "writing"},
                        "session changed" \notin Range(wakes)
                 PROVE  streamSession = sessionId
    BY DEF StreamFollowsSession
  <2>2. \A n \in DOMAIN wakes : wakes[n] # "session changed"
    BY <2>1 DEF Range
  <2>3. QED
    BY <2>1, <2>2 DEF HttpInv, SessionsAgree
<1>2. QED
  BY <1>1, HttpInvariant, PTL
=============================================================================
