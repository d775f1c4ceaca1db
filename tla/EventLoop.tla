------------------------------ MODULE EventLoop ------------------------------
(*****************************************************************************)
(* The subscription to OpenCode's events in every bot: withTimeout and       *)
(* runEventSubscriptionLoop of notify-kit/bots/_shared/opencode.mjs.         *)
(*                                                                           *)
(* Events are numbered; a round is one subscription.  An action of the loop  *)
(* is what it does between two awaits; handlers, timers and the stream go on *)
(* in between.  `next()` of the stream is asked for one event ahead.         *)
(*****************************************************************************)
EXTENDS Naturals, Sequences, FiniteSets, SequencesExt

CONSTANTS MaxConcurrent, \* maxConcurrentOnEvent
          MaxEvents,     \* events the server sends, over all rounds
          MaxRounds      \* bound on the subscriptions

ASSUME EventLoopAssumption ==
    MaxConcurrent \in Nat \ {0} /\ MaxEvents \in Nat /\ MaxRounds \in Nat \ {0}

VARIABLES
    loopPc,      \* what the loop awaits: "subscribe", "next", "signal" (with or without
                 \* the stream), "drain" or "backoff"; "top" while it runs
    races,       \* whether it awaits the stream as well as the signal
    round,
    sent,        \* events the streams have delivered
    pendingNext, \* the promise of next(): "open", "event", "done" or "failed"
    streamEnded,
    loopError,
    handler,     \* what became of each event
    roundOf,     \* and the round that read it, 0 if none
    handlersInflight, \* `inflight`, the tracked handlers of this round
    settled,     \* settledResults
    signal       \* settledSignal: "none", "set" or "resolved"

loopVars == <<loopPc, races, round, sent, pendingNext, streamEnded, loopError, handler,
              roundOf, handlersInflight, settled, signal>>

Deliveries == 1..MaxEvents

EventLoopInit ==
    /\ loopPc = "subscribe" /\ races = FALSE /\ round = 1
    /\ sent = 0 /\ pendingNext = "open" /\ streamEnded = FALSE /\ loopError = FALSE
    /\ handler = [e \in Deliveries |-> "none"]
    /\ roundOf = [e \in Deliveries |-> 0]
    /\ handlersInflight = {} /\ settled = <<>> /\ signal = "none"

streamVars == <<sent, pendingNext>>
handlerVars == <<handler, roundOf, handlersInflight>>

-----------------------------------------------------------------------------
(***************************************************************************)
(* The loop                                                                *)
(***************************************************************************)
Subscribed ==
    /\ loopPc = "subscribe"
    /\ loopPc' = "top"
    /\ pendingNext' = "open"
    /\ streamEnded' = FALSE /\ loopError' = FALSE
    /\ handlersInflight' = {} /\ settled' = <<>> /\ signal' = "none"
    /\ UNCHANGED <<races, round, sent, handler, roundOf>>

SubscribeFails ==
    /\ loopPc = "subscribe"
    /\ loopPc' = "backoff"
    /\ UNCHANGED <<races, round, streamVars, streamEnded, loopError, handlerVars, settled, signal>>

\* the loop is left: the stream is closed, and what is in flight is waited for
Leaves(failed) ==
    /\ loopPc' = "drain"
    /\ loopError' = failed
    /\ UNCHANGED <<races, round, streamVars, streamEnded, handlerVars, signal>>

TakesResult ==
    /\ settled' = Tail(settled)
    /\ IF Head(settled) = "error"
         THEN Leaves(TRUE)
         ELSE /\ loopPc' = "top"
              /\ UNCHANGED <<races, round, streamVars, streamEnded, loopError, handlerVars, signal>>

\* waitForSettledSignal makes a signal unless there is one
Awaits(what, race) ==
    /\ loopPc' = what
    /\ races' = race
    /\ signal' = IF what = "signal" /\ signal = "none" THEN "set" ELSE signal
    /\ UNCHANGED <<round, streamVars, streamEnded, loopError, handlerVars, settled>>

LoopTop ==
    /\ loopPc = "top"
    /\ IF streamEnded /\ handlersInflight = {}
         THEN Leaves(FALSE) /\ UNCHANGED settled
         ELSE IF settled # <<>> THEN TakesResult
         ELSE IF Cardinality(handlersInflight) >= MaxConcurrent \/ streamEnded
                THEN Awaits("signal", FALSE)
         ELSE IF handlersInflight = {} THEN Awaits("next", FALSE)
         ELSE Awaits("signal", TRUE)

\* addInflightTask, after next() was asked for the event that follows
TakesEvent ==
    /\ loopPc = "next" \/ (loopPc = "signal" /\ races)
    /\ pendingNext = "event"
    /\ pendingNext' = "open"
    /\ handler' = [handler EXCEPT ![sent] = "running"]
    /\ roundOf' = [roundOf EXCEPT ![sent] = round]
    /\ handlersInflight' = handlersInflight \cup {sent}
    /\ loopPc' = "top"
    /\ UNCHANGED <<races, round, sent, streamEnded, loopError, settled, signal>>

StreamIsOver ==
    /\ loopPc = "next" \/ (loopPc = "signal" /\ races)
    /\ pendingNext \in {"done", "failed"}
    /\ IF pendingNext = "done"
         THEN /\ streamEnded' = TRUE /\ loopPc' = "top"
              /\ UNCHANGED <<races, round, streamVars, loopError, handlerVars, signal>>
         ELSE Leaves(TRUE)
    /\ UNCHANGED settled

SignalWakesLoop ==
    /\ loopPc = "signal" /\ signal = "resolved"
    /\ signal' = "none"
    /\ loopPc' = "top"
    /\ UNCHANGED <<races, round, streamVars, streamEnded, loopError, handlerVars, settled>>

\* settleInflight ends, or its timeout does; then the error is thrown
Drained ==
    /\ loopPc = "drain"
    /\ loopPc' = "backoff"
    /\ UNCHANGED <<races, round, streamVars, streamEnded, loopError, handlerVars, settled, signal>>

Retries ==
    /\ loopPc = "backoff" /\ round < MaxRounds
    /\ loopPc' = "subscribe"
    /\ round' = round + 1
    /\ UNCHANGED <<races, streamVars, streamEnded, loopError, handlerVars, settled, signal>>

-----------------------------------------------------------------------------
(***************************************************************************)
(* The stream of the round.                                                *)
(***************************************************************************)
Streaming == loopPc \notin {"subscribe", "backoff"} /\ pendingNext = "open"

StreamDelivers ==
    /\ Streaming /\ sent < MaxEvents
    /\ sent' = sent + 1
    /\ pendingNext' = "event"
    /\ UNCHANGED <<loopPc, races, round, streamEnded, loopError, handlerVars, settled, signal>>

StreamEnds ==
    /\ Streaming
    /\ pendingNext' \in {"done", "failed"}
    /\ UNCHANGED <<loopPc, races, round, sent, streamEnded, loopError, handlerVars, settled,
                    signal>>

\* What a bug would do: file the result and resolve nothing.
SettlesQuietly(e, result) ==
    /\ handlersInflight' = handlersInflight \ {e}
    /\ settled' = IF roundOf[e] = round /\ loopPc # "subscribe"
                  THEN Append(settled, result) ELSE settled
    /\ UNCHANGED <<loopPc, races, round, streamVars, streamEnded, loopError, roundOf, signal>>

(***************************************************************************)
(* The handlers.  One whose time is over is aborted, has some time to end, *)
(* and fails then; it may go on as a "stray".                              *)
(***************************************************************************)
\* tracked.then: the result goes to its round, which may be over
Settles(e, result) ==
    /\ handlersInflight' = handlersInflight \ {e}
    /\ IF roundOf[e] = round /\ loopPc # "subscribe"
         THEN /\ settled' = Append(settled, result)
              /\ signal' = IF signal = "set" THEN "resolved" ELSE signal
         ELSE UNCHANGED <<settled, signal>>
    /\ UNCHANGED <<loopPc, races, round, streamVars, streamEnded, loopError, roundOf>>

HandlerEnds(e) ==
    /\ handler[e] = "running"
    /\ \E result \in {"ok", "error"} :
          handler' = [handler EXCEPT ![e] = result] /\ Settles(e, result)

HandlerTimesOut(e) ==
    /\ handler[e] = "running"
    /\ handler' = [handler EXCEPT ![e] = "aborted"]
    /\ UNCHANGED <<loopPc, races, round, streamVars, streamEnded, loopError, roundOf,
                   handlersInflight, settled, signal>>

\* waitForAbortDrain
AbortIsOver(e) ==
    /\ handler[e] = "aborted"
    /\ \E end \in {"error", "stray"} : handler' = [handler EXCEPT ![e] = end]
    /\ Settles(e, "error")

-----------------------------------------------------------------------------
LoopStep ==
    Subscribed \/ LoopTop \/ TakesEvent \/ StreamIsOver \/ SignalWakesLoop \/ Drained \/ Retries

HandlerStep(e) == HandlerTimesOut(e) \/ AbortIsOver(e)

EventLoopNext ==
    \/ LoopStep \/ SubscribeFails \/ StreamDelivers \/ StreamEnds
    \/ \E e \in Deliveries : HandlerEnds(e) \/ HandlerStep(e)

EventLoopSteps == LoopStep \/ \E e \in Deliveries : HandlerStep(e)

\* The event loop of JavaScript runs and its timers fire; the server need not
\* send anything.
EventLoopSpec == EventLoopInit /\ [][EventLoopNext]_loopVars

FairEventLoopSpec == EventLoopSpec /\ WF_loopVars(EventLoopSteps)

-----------------------------------------------------------------------------
EventLoopTypeOK ==
    /\ loopPc \in {"subscribe", "top", "next", "signal", "drain", "backoff"}
    /\ {races, streamEnded, loopError} \subseteq BOOLEAN
    /\ round \in 1..MaxRounds /\ sent \in 0..MaxEvents
    /\ pendingNext \in {"open", "event", "done", "failed"}
    /\ handler \in [Deliveries -> {"none", "running", "aborted", "ok", "error", "stray"}]
    /\ roundOf \in [Deliveries -> 0..MaxRounds]
    /\ handlersInflight \subseteq Deliveries
    /\ settled \in Seq({"ok", "error"})
    /\ signal \in {"none", "set", "resolved"}

Working(e) == handler[e] \in {"running", "aborted"}

\* The loop never sleeps on a result that is already there: it waits for the
\* signal alone only while a handler of its own round is at work, and a result
\* that came resolves the signal it waits for.
NoResultIsSleptOn ==
    loopPc = "signal" =>
        /\ settled # <<>> => signal = "resolved"
        /\ settled = <<>> /\ ~races => \E e \in handlersInflight : Working(e)

\* Within a round, the handlers at work are those it counts, and no more than
\* its limit.
RoundIsBounded ==
    /\ loopPc \notin {"subscribe", "backoff", "drain"} =>
          handlersInflight = {e \in Deliveries : roundOf[e] = round /\ Working(e)}
    /\ Cardinality(handlersInflight) <= MaxConcurrent

\* The loop waits for what is still to come, and for no more of it than it may.
LoopServesItsRound == NoResultIsSleptOn /\ RoundIsBounded

-----------------------------------------------------------------------------
(***************************************************************************)
(* The inductive invariant.                                                *)
(***************************************************************************)

\* No event was read by a round to come, and none by the one that is to begin.
RoundsAreOver ==
    \A e \in Deliveries : roundOf[e] <= round /\ (loopPc = "subscribe" => roundOf[e] < round)

\* The loop asks for an event while it may handle one, and waits for a signal that was made.
LoopWaitsWell ==
    /\ pendingNext = "event" => sent \in Deliveries
    /\ loopPc = "next" => handlersInflight = {}
    /\ loopPc = "signal" =>
          /\ signal # "none"
          /\ settled # <<>> => signal = "resolved"
          /\ settled = <<>> /\ ~races => handlersInflight # {}
          /\ races => Cardinality(handlersInflight) < MaxConcurrent

EventLoopInv == EventLoopTypeOK /\ RoundsAreOver /\ LoopWaitsWell /\ RoundIsBounded

-----------------------------------------------------------------------------
\* A failed handler ends its round.
FailureWaits == Contains(settled, "error") /\ loopPc \in {"top", "next", "signal"}

FailureEndsRound == FailureWaits ~> loopPc \notin {"top", "next", "signal"}
=============================================================================
