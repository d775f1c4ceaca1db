----------------------------- MODULE CancelledIds -----------------------------
(****************************************************************************)
(* The bounded cache of cancelled request ids of the JSON-RPC client        *)
(* (CancelledRequestIdsState).  A request that is dropped or times out      *)
(* leaves its id here, so that a late answer is recognised as stale.        *)
(* `order` is the queue of mentions, `latest` maps an id to the generation  *)
(* of its newest mention; an id mentioned twice keeps its older mention in  *)
(* the queue, and only the generation tells that this one no longer counts. *)
(* `latest` is total here: Absent stands for a key the map does not hold.   *)
(****************************************************************************)
EXTENDS Integers, Sequences

CONSTANTS Ids,           \* request ids
          CancelledMax,  \* CANCELLED_REQUEST_IDS_MAX
          MaxGeneration  \* bound on next_generation (a u64 in the code)

ASSUME CancelledAssumption ==
    /\ CancelledMax \in Nat \ {0}
    /\ MaxGeneration \in Nat

VARIABLES order, latest, nextGeneration

cancelledVars == <<order, latest, nextGeneration>>

Absent == -1

Entry == [gen : Nat, id : Ids]

CancelledInit ==
    /\ order = <<>>
    /\ latest = [id \in Ids |-> Absent]
    /\ nextGeneration = 0

\* What a bug would do: evict the id with an older mention of it.
EvictAnyMention(map, entry) == [map EXCEPT ![entry.id] = Absent]

\* A popped mention takes its id out of the map only if it is the newest one.
Evict(map, entry) ==
    IF map[entry.id] = entry.gen THEN [map EXCEPT ![entry.id] = Absent] ELSE map

\* The eviction loop runs at most once per call: the queue never outgrows
\* CancelledMax.
DropOldest(q) == IF Len(q) < CancelledMax THEN q ELSE Tail(q)

AfterEviction(map, q) ==
    IF Len(q) < CancelledMax THEN map ELSE Evict(map, Head(q))

Remember(id) ==
    /\ nextGeneration < MaxGeneration
    /\ order' = Append(DropOldest(order), [gen |-> nextGeneration, id |-> id])
    /\ latest' = [AfterEviction(latest, order) EXCEPT ![id] = nextGeneration]
    /\ nextGeneration' = nextGeneration + 1

\* The answer for a cancelled id arrived, under the id or under its string /
\* number counterpart: the id leaves the map, its mentions stay in the queue.
Take(id) ==
    /\ latest' = [latest EXCEPT ![id] = Absent]
    /\ UNCHANGED <<order, nextGeneration>>

CancelledNext == \E id \in Ids : Remember(id) \/ Take(id)

CancelledSpec == CancelledInit /\ [][CancelledNext]_cancelledVars

-----------------------------------------------------------------------------
CancelledTypeOK ==
    /\ order \in Seq(Entry)
    /\ Len(order) <= CancelledMax
    /\ latest \in [Ids -> Nat \cup {Absent}]
    /\ nextGeneration \in Nat

\* Generations grow along the queue and are all used up.
GenerationsOrdered ==
    /\ \A i \in DOMAIN order : order[i].gen < nextGeneration
    /\ \A i, j \in DOMAIN order : i < j => order[i].gen < order[j].gen

\* What the map says of an id is its newest mention in the queue: the map can
\* never hold an id that no eviction will ever remove.
LatestIsNewestMention ==
    \A id \in Ids : latest[id] # Absent =>
        \E i \in DOMAIN order :
            /\ order[i] = [gen |-> latest[id], id |-> id]
            /\ \A j \in DOMAIN order : order[j].id = id => j <= i

CancelledInv == CancelledTypeOK /\ GenerationsOrdered /\ LatestIsNewestMention

\* The cache behaves as a window over the last CancelledMax cancellations: an
\* id cancelled again is not forgotten with its older mention
\* (cancelled_request_id_eviction_preserves_latest_reinserted_id).
Recent == INSTANCE RecentIds WITH
            window <- [i \in DOMAIN order |-> order[i].id],
            live   <- {id \in Ids : latest[id] # Absent}

RecentIdsSpec == Recent!RSpec
=============================================================================
