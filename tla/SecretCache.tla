---------------------------- MODULE SecretCache ----------------------------
(****************************************************************************)
(* CachingSecretResolver (secret-kit/src/lib.rs): successful resolutions    *)
(* kept for a bounded time, under a key the wrapped resolver prepares, with *)
(* one resolution at a time for each key.  A call reads the cache under a   *)
(* hinted key before it awaits the preparation, and may use that value      *)
(* after it; the key of the second look-up is the prepared one.  Whoever    *)
(* finds neither value nor resolution in flight becomes the leader, whose   *)
(* guard, dropped on every way out, files the value and wakes the others.   *)
(* What a secret is worth is left out: a value is the key it was resolved   *)
(* for and the time when it was filed.                                      *)
(****************************************************************************)
EXTENDS Naturals, SequencesExt

CONSTANTS Lookups,     \* calls of resolve_secret_spec
          CacheKeys,   \* SecretCacheKey
          HintsOf,     \* for each call, what lookup_secret_cache_scope may hint
          KeysOf,      \* for each call, what the preparation may come to
          NoKey,       \* None: no hint, or a secret that is not cached
          MaxEntries,  \* max_entries
          Ttl,         \* ttl, in ticks of the clock
          MaxClock     \* bound on the clock

ASSUME SecretCacheAssumption ==
    /\ NoKey \notin CacheKeys /\ NoKey \notin Lookups
    /\ HintsOf \in [Lookups -> SUBSET (CacheKeys \cup {NoKey})]
    /\ KeysOf \in [Lookups -> SUBSET (CacheKeys \cup {NoKey})]
    /\ MaxEntries \in Nat \ {0}
    /\ Ttl \in Nat /\ MaxClock \in Nat

VARIABLES
    clock,      \* Instant::now()
    cached,     \* state.entries: when the value of each cached key was filed
    lru,        \* state.lru
    inflight,   \* state.inflight: the leader of each key
    lookupPc,   \* where each call is
    hinted,     \* hinted_key
    hintedAt,   \* hinted_value, by the time it was filed
    key,        \* prepared_key
    leaderOf,   \* whose broadcast the call listens to
    began,      \* when the call began: history
    answer      \* the value returned: its key and its time

cacheVars == <<clock, cached, lru, inflight, lookupPc, hinted, hintedAt, key,
               leaderOf, began, answer>>

Times == 0 .. MaxClock
NoTime == MaxClock + 1

SecretCacheTypeOK ==
    /\ clock \in Times
    /\ cached \in [CacheKeys -> Times \cup {NoTime}]
    /\ lru \in Seq(CacheKeys)
    /\ inflight \in [CacheKeys -> Lookups \cup {NoKey}]
    /\ lookupPc \in [Lookups -> {"idle", "starting", "preparing", "looking", "waiting",
                                 "filling", "telling", "direct", "done"}]
    /\ hinted \in [Lookups -> CacheKeys \cup {NoKey}]
    /\ hintedAt \in [Lookups -> Times \cup {NoTime}]
    /\ key \in [Lookups -> CacheKeys \cup {NoKey}]
    /\ leaderOf \in [Lookups -> Lookups \cup {NoKey}]
    /\ began \in [Lookups -> Times]
    /\ answer \in [Lookups -> [key : CacheKeys \cup {NoKey}, at : Times \cup {NoTime}]]

None == [key |-> NoKey, at |-> NoTime]

SecretCacheInit ==
    /\ clock = 0
    /\ cached = [k \in CacheKeys |-> NoTime]
    /\ lru = << >>
    /\ inflight = [k \in CacheKeys |-> NoKey]
    /\ lookupPc = [c \in Lookups |-> "idle"]
    /\ hinted = [c \in Lookups |-> NoKey]
    /\ hintedAt = [c \in Lookups |-> NoTime]
    /\ key = [c \in Lookups |-> NoKey]
    /\ leaderOf = [c \in Lookups |-> NoKey]
    /\ began = [c \in Lookups |-> 0]
    /\ answer = [c \in Lookups |-> None]

-----------------------------------------------------------------------------
(* SecretCacheState, as functions of the entries and of the LRU list.      *)

Expired(k) == cached[k] # NoTime /\ clock - cached[k] >= Ttl

\* prune_expired
Pruned == [k \in CacheKeys |-> IF Expired(k) THEN NoTime ELSE cached[k]]

\* remove_key of each key that goes; a key is in the list once
Without(seq, gone) ==
    LET left[n \in 0..Len(seq)] ==
            IF n = 0 THEN <<>>
            ELSE IF seq[n] \in gone THEN left[n - 1] ELSE Append(left[n - 1], seq[n])
    IN  left[Len(seq)]

PrunedLru == Without(lru, {k \in CacheKeys : Expired(k)})

\* touch_key
Touch(seq, k) == Append(RemoveFirst(seq, k), k)

\* evict_to_capacity, after one insertion: at most one entry is too many
Insert(k) ==
    LET filed == [Pruned EXCEPT ![k] = clock]
        order == Touch(PrunedLru, k)
        oldest == Head(order)
    IN  IF Len(order) > MaxEntries
          THEN /\ cached' = [filed EXCEPT ![oldest] = NoTime]
               /\ lru' = Tail(order)
          ELSE cached' = filed /\ lru' = order

-----------------------------------------------------------------------------

Begins(c) ==
    /\ lookupPc[c] = "idle"
    /\ lookupPc' = [lookupPc EXCEPT ![c] = "starting"]
    /\ began' = [began EXCEPT ![c] = clock]
    /\ UNCHANGED <<clock, cached, lru, inflight, hinted, hintedAt, key, leaderOf, answer>>

\* hinted_cache_key and cached_value; the preparation is awaited next
Hints(c) ==
    /\ lookupPc[c] = "starting"
    /\ lookupPc' = [lookupPc EXCEPT ![c] = "preparing"]
    /\ \E k \in HintsOf[c] :
          /\ hinted' = [hinted EXCEPT ![c] = k]
          /\ IF k = NoKey
               THEN /\ hintedAt' = [hintedAt EXCEPT ![c] = NoTime]
                    /\ UNCHANGED <<cached, lru>>
               ELSE /\ hintedAt' = [hintedAt EXCEPT ![c] = Pruned[k]]
                    /\ cached' = Pruned
                    /\ lru' = IF Pruned[k] = NoTime THEN PrunedLru ELSE Touch(PrunedLru, k)
    /\ UNCHANGED <<clock, inflight, key, leaderOf, began, answer>>

Prepares(c) ==
    /\ lookupPc[c] = "preparing"
    /\ \E k \in KeysOf[c] :
          /\ key' = [key EXCEPT ![c] = k]
          /\ lookupPc' = [lookupPc EXCEPT ![c] = IF k = NoKey THEN "direct" ELSE "looking"]
    /\ UNCHANGED <<clock, cached, lru, inflight, hinted, hintedAt, leaderOf, began, answer>>

\* the preparation, or the resolution of a secret that is not cached, ends the
\* call by itself: with an error, with a value, or because the future is dropped
EndsAlone(c) ==
    /\ lookupPc[c] \in {"starting", "preparing", "direct", "waiting"}
    /\ lookupPc' = [lookupPc EXCEPT ![c] = "done"]
    /\ leaderOf' = [leaderOf EXCEPT ![c] = NoKey]
    /\ UNCHANGED <<clock, cached, lru, inflight, hinted, hintedAt, key, began, answer>>

Answers(c, at) ==
    /\ lookupPc' = [lookupPc EXCEPT ![c] = "done"]
    /\ answer' = [answer EXCEPT ![c] = [key |-> key[c], at |-> at]]

\* What a bug would do: trust the hint.
HintTrusted(c) == hintedAt[c] # NoTime

\* the value read under the hint is used if the prepared key is that key
HintHolds(c) == hinted[c] = key[c] /\ hintedAt[c] # NoTime

AnswersFromHint(c) ==
    /\ lookupPc[c] = "looking"
    /\ HintHolds(c)
    /\ lookupPc' = [lookupPc EXCEPT ![c] = "done"]
    /\ answer' = [answer EXCEPT ![c] = [key |-> hinted[c], at |-> hintedAt[c]]]
    /\ UNCHANGED <<clock, cached, lru, inflight, hinted, hintedAt, key, leaderOf, began>>

\* lookup_cache, in one critical section: a value, somebody to wait for, or
\* nobody, which makes the call the leader
LooksUp(c) ==
    LET k == key[c] IN
    /\ lookupPc[c] = "looking"
    /\ ~HintHolds(c)
    /\ cached' = Pruned
    /\ \/ /\ Pruned[k] # NoTime
          /\ lru' = Touch(PrunedLru, k)
          /\ Answers(c, Pruned[k])
          /\ UNCHANGED <<inflight, leaderOf>>
       \/ /\ Pruned[k] = NoTime
          /\ lru' = PrunedLru
          /\ IF inflight[k] # NoKey
               THEN /\ lookupPc' = [lookupPc EXCEPT ![c] = "waiting"]
                    /\ leaderOf' = [leaderOf EXCEPT ![c] = inflight[k]]
                    /\ UNCHANGED inflight
               ELSE /\ lookupPc' = [lookupPc EXCEPT ![c] = "filling"]
                    /\ inflight' = [inflight EXCEPT ![k] = c]
                    /\ UNCHANGED leaderOf
          /\ UNCHANGED answer
    /\ UNCHANGED <<clock, hinted, hintedAt, key, began>>

\* the resolution succeeds and the guard is dropped with the value
Fills(c) ==
    /\ lookupPc[c] = "filling"
    /\ inflight' = [inflight EXCEPT ![key[c]] = NoKey]
    /\ Insert(key[c])
    /\ lookupPc' = [lookupPc EXCEPT ![c] = "telling"]
    /\ answer' = [answer EXCEPT ![c] = [key |-> key[c], at |-> clock]]
    /\ UNCHANGED <<clock, hinted, hintedAt, key, leaderOf, began>>

\* it fails, or the leader's future is dropped: the guard goes without a value
FillFails(c) ==
    /\ lookupPc[c] = "filling"
    /\ inflight' = [inflight EXCEPT ![key[c]] = NoKey]
    /\ cached' = Pruned
    /\ lru' = PrunedLru
    /\ lookupPc' = [lookupPc EXCEPT ![c] = "telling"]
    /\ UNCHANGED <<clock, hinted, hintedAt, key, leaderOf, began, answer>>

\* the end of the guard's drop: the lock is released, the listeners are woken
\* and go through the loop again
Tells(c) ==
    LET listeners == {d \in Lookups : lookupPc[d] = "waiting" /\ leaderOf[d] = c} IN
    /\ lookupPc[c] = "telling"
    /\ lookupPc' = [d \in Lookups |-> IF d = c THEN "done"
                                      ELSE IF d \in listeners THEN "starting"
                                      ELSE lookupPc[d]]
    /\ leaderOf' = [d \in Lookups |-> IF d \in listeners THEN NoKey ELSE leaderOf[d]]
    /\ UNCHANGED <<clock, cached, lru, inflight, hinted, hintedAt, key, began, answer>>

ClockTicks ==
    /\ clock < MaxClock
    /\ clock' = clock + 1
    /\ UNCHANGED <<cached, lru, inflight, lookupPc, hinted, hintedAt, key, leaderOf,
                   began, answer>>

SecretCacheNext ==
    \/ ClockTicks
    \/ \E c \in Lookups : \/ Begins(c) \/ Hints(c) \/ Prepares(c) \/ EndsAlone(c)
                          \/ AnswersFromHint(c) \/ LooksUp(c)
                          \/ Fills(c) \/ FillFails(c) \/ Tells(c)

\* a call that is polled goes on, and the wrapped resolver answers
LookupGoesOn(c) ==
    \/ Hints(c) \/ Prepares(c) \/ AnswersFromHint(c) \/ LooksUp(c) \/ Tells(c)
    \/ Fills(c) \/ FillFails(c)
    \/ lookupPc[c] = "direct" /\ EndsAlone(c)

SecretCacheSteps == \E c \in Lookups : LookupGoesOn(c)

SecretCacheSpec == SecretCacheInit /\ [][SecretCacheNext]_cacheVars

FairSecretCacheSpec == SecretCacheSpec /\ WF_cacheVars(SecretCacheSteps)

-----------------------------------------------------------------------------

(***************************************************************************)
(* The LRU list names the cached keys, each once, whatever order of hits,  *)
(* expiries, evictions and fills; a key missing from it could never be     *)
(* evicted.                                                                *)
(***************************************************************************)
LruTracksEntries ==
    /\ IsInjective(lru)
    /\ Range(lru) = {k \in CacheKeys : cached[k] # NoTime}
    /\ Len(lru) <= MaxEntries

(***************************************************************************)
(* One resolution at a time for each key, and nobody listens to a leader   *)
(* that has already told: every waiter's leader is still to announce.      *)
(***************************************************************************)
OneFillPerKey ==
    /\ \A c \in Lookups : lookupPc[c] = "filling" <=> \E k \in CacheKeys : inflight[k] = c
    /\ \A c, d \in Lookups :
          lookupPc[c] = "filling" /\ lookupPc[d] = "filling" /\ key[c] = key[d] => c = d
    /\ \A c \in Lookups :
          lookupPc[c] = "waiting" => lookupPc[leaderOf[c]] \in {"filling", "telling"}

(***************************************************************************)
(* A value is given only to a call whose prepared key is the one it was    *)
(* resolved for, whatever was hinted, and it had not expired when the call *)
(* began: what is read before the preparation and used after it is never   *)
(* staler than the wait itself.                                            *)
(***************************************************************************)
AnswerFitsCall ==
    \A c \in Lookups : answer[c] # None =>
        /\ answer[c].key = key[c]
        /\ answer[c].at >= began[c] \/ began[c] - answer[c].at < Ttl

(* The cache as a whole: its list, its leaders and its answers.            *)
CacheServesItsKeys == LruTracksEntries /\ OneFillPerKey /\ AnswerFitsCall

(***************************************************************************)
(* A call that waits for a leader comes to its end, whether that leader    *)
(* succeeds, fails or is dropped.                                          *)
(***************************************************************************)
Listening(c) == lookupPc[c] = "waiting"

SecretLookupsEnd == \A c \in Lookups : Listening(c) ~> lookupPc[c] = "done"

-----------------------------------------------------------------------------
(***************************************************************************)
(* The inductive invariant of the leaders and of the answers.              *)
(***************************************************************************)

\* The types of all but the LRU list.
LookupsTyped ==
    /\ clock \in Times
    /\ cached \in [CacheKeys -> Times \cup {NoTime}]
    /\ inflight \in [CacheKeys -> Lookups \cup {NoKey}]
    /\ lookupPc \in [Lookups -> {"idle", "starting", "preparing", "looking", "waiting",
                                 "filling", "telling", "direct", "done"}]
    /\ hinted \in [Lookups -> CacheKeys \cup {NoKey}]
    /\ hintedAt \in [Lookups -> Times \cup {NoTime}]
    /\ key \in [Lookups -> CacheKeys \cup {NoKey}]
    /\ leaderOf \in [Lookups -> Lookups \cup {NoKey}]
    /\ began \in [Lookups -> Times]
    /\ answer \in [Lookups -> [key : CacheKeys \cup {NoKey}, at : Times \cup {NoTime}]]

\* The leader of a key fills it, and a call waits for one that is still to tell.
LeadersFill ==
    /\ \A k \in CacheKeys :
          inflight[k] # NoKey => lookupPc[inflight[k]] = "filling" /\ key[inflight[k]] = k
    /\ \A c \in Lookups :
          /\ lookupPc[c] \in {"looking", "filling"} => key[c] \in CacheKeys
          /\ lookupPc[c] = "filling" => inflight[key[c]] = c
          /\ lookupPc[c] = "waiting" =>
                leaderOf[c] \in Lookups /\ lookupPc[leaderOf[c]] \in {"filling", "telling"}

\* A value that had not expired when the call began.
FreshFor(c, at) == at >= began[c] \/ began[c] - at < Ttl

\* What was read under a hint was fresh then, and only who is through has an answer.
HintsAreFresh ==
    \A c \in Lookups :
        /\ began[c] <= clock
        /\ hintedAt[c] # NoTime => FreshFor(c, hintedAt[c])
        /\ lookupPc[c] = "idle" => hintedAt[c] = NoTime
        /\ lookupPc[c] \notin {"telling", "done"} => answer[c] = None

\* The list names what is cached.
LruServes == lru \in Seq(CacheKeys) /\ LruTracksEntries

SecretCacheInv == LookupsTyped /\ LeadersFill /\ HintsAreFresh /\ AnswerFitsCall
=============================================================================
