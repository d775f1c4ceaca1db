------------------------------ MODULE NotifyHub ------------------------------
(****************************************************************************)
(* The notification hub of notify-kit (Hub): events wait for one of a       *)
(* bounded number of permits, then fan out to the sinks in order, a         *)
(* bounded number of sends at a time.  A sink whose send panics, or whose   *)
(* identity() panicked when the hub was built, is poisoned for all events.  *)
(*                                                                          *)
(* A step is what a task does between two polls of the sends; the semaphore *)
(* is tokio's: a permit that comes free goes to the longest waiter.         *)
(****************************************************************************)
EXTENDS Integers, Sequences, FiniteSets, SequencesExt

CONSTANTS Events,
          NumSinks,
          BadIdentity,   \* the sinks whose identity() panics
          MaxInflight,   \* max_inflight_events, after clamping
          MaxParallel    \* max_sink_sends_in_parallel, after clamping

Sinks == 1..NumSinks

ASSUME HubAssumption ==
    /\ NumSinks \in Nat \ {0}
    /\ BadIdentity \subseteq Sinks
    /\ MaxInflight \in Nat \ {0}
    /\ MaxParallel \in Nat \ {0}

VARIABLES
    eventPc,         \* where the call for an event stands
    permits,    \* free permits of `inflight`
    queue,      \* the send() calls waiting for one
    sinkState,  \* HubSinkState
    outcome,    \* what became of each send
    next        \* the sink the fan-out comes to next

hubVars == <<eventPc, permits, queue, sinkState, outcome, next>>

HubInit ==
    /\ eventPc = [e \in Events |-> "new"]
    /\ permits = MaxInflight
    /\ queue = <<>>
    /\ sinkState = [s \in Sinks |-> IF s \in BadIdentity THEN "identityPanicked"
                                                         ELSE "ready"]
    /\ outcome = [e \in Events |-> [s \in Sinks |-> "none"]]
    /\ next = [e \in Events |-> 1]

\* The sends in the FuturesUnordered of an event.
Unsettled(e) == {s \in Sinks : outcome[e][s] \in {"pushed", "sending"}}

-----------------------------------------------------------------------------
\* Permits

\* No sinks, the kind is not enabled, or there is no runtime to run on.
Decline(e) ==
    /\ eventPc[e] = "new"
    /\ eventPc' = [eventPc EXCEPT ![e] = "declined"]
    /\ UNCHANGED <<permits, queue, sinkState, outcome, next>>

\* What a bug would do: accept an event without a permit.
SendUnlimited(e) ==
    /\ eventPc[e] = "new"
    /\ permits' = permits - 1
    /\ eventPc' = [eventPc EXCEPT ![e] = "admitted"]
    /\ UNCHANGED <<queue, sinkState, outcome, next>>

\* send() waits for a permit if it must.
Send(e) ==
    /\ eventPc[e] = "new"
    /\ IF permits > 0
       THEN /\ permits' = permits - 1
            /\ eventPc' = [eventPc EXCEPT ![e] = "admitted"]
            /\ UNCHANGED queue
       ELSE /\ queue' = Append(queue, e)
            /\ eventPc' = [eventPc EXCEPT ![e] = "queued"]
            /\ UNCHANGED permits
    /\ UNCHANGED <<sinkState, outcome, next>>

\* try_notify() and notify_best_effort() do not.
TryNotify(e) ==
    /\ eventPc[e] = "new"
    /\ IF permits > 0
       THEN /\ permits' = permits - 1
            /\ eventPc' = [eventPc EXCEPT ![e] = "admitted"]
       ELSE /\ eventPc' = [eventPc EXCEPT ![e] = "overloaded"]
            /\ UNCHANGED permits
    /\ UNCHANGED <<queue, sinkState, outcome, next>>

\* What a bug would do: lose the permit that is given back.
ReleaseToNobody(e, label) ==
    /\ permits' = permits + 1
    /\ eventPc' = [eventPc EXCEPT ![e] = label]
    /\ UNCHANGED queue

\* The permit of e is dropped, and the call for e is over.
ReleasePermit(e, label) ==
    IF queue = <<>>
    THEN /\ permits' = permits + 1
         /\ eventPc' = [eventPc EXCEPT ![e] = label]
         /\ UNCHANGED queue
    ELSE /\ eventPc' = [eventPc EXCEPT ![e] = label, ![Head(queue)] = "admitted"]
         /\ queue' = Tail(queue)
         /\ UNCHANGED permits

\* The future of send() is dropped, and all its sends with it.
DropSend(e) ==
    /\ \/ /\ eventPc[e] = "queued"
          /\ eventPc' = [eventPc EXCEPT ![e] = "dropped"]
          /\ \E i \in DOMAIN queue : queue[i] = e /\ queue' = RemoveAt(queue, i)
          /\ UNCHANGED permits
       \/ /\ eventPc[e] \in {"admitted", "fanout"}
          /\ ReleasePermit(e, "dropped")
    /\ UNCHANGED <<sinkState, outcome, next>>

-----------------------------------------------------------------------------
\* HubInner::send

\* The first max_sink_sends_in_parallel sinks.
StartFanOut(e) ==
    /\ eventPc[e] = "admitted"
    /\ eventPc' = [eventPc EXCEPT ![e] = "fanout"]
    /\ outcome' = [outcome EXCEPT ![e] =
                      [s \in Sinks |-> IF s <= MaxParallel THEN "pushed" ELSE "none"]]
    /\ next' = [next EXCEPT ![e] = IF NumSinks < MaxParallel THEN NumSinks + 1
                                                             ELSE MaxParallel + 1]
    /\ UNCHANGED <<permits, queue, sinkState>>

\* One send is over: its result is noted and the next sink, if any, pushed.
SettleSend(e, s, what) ==
    /\ outcome' = [outcome EXCEPT ![e] =
          [x \in Sinks |-> IF x = s THEN what
                           ELSE IF x = next[e] THEN "pushed" ELSE @[x]]]
    /\ next' = [next EXCEPT ![e] = IF @ <= NumSinks THEN @ + 1 ELSE @]

\* report_identity_panic_once: of all events only the one that wins this CAS
\* says "sink panicked".
ReportOnce(s) == sinkState' = [sinkState EXCEPT ![s] = "poisoned"]

\* The first poll of send_one_sink looks at the sink's state.
FirstPoll(e, s) ==
    /\ eventPc[e] = "fanout" /\ outcome[e][s] = "pushed"
    /\ \/ /\ sinkState[s] = "ready"
          /\ outcome' = [outcome EXCEPT ![e][s] = "sending"]
          /\ UNCHANGED <<next, sinkState>>
       \/ /\ sinkState[s] = "identityPanicked"
          /\ ReportOnce(s)
          /\ SettleSend(e, s, "panicked")
       \/ /\ sinkState[s] = "poisoned"
          /\ SettleSend(e, s, "poisoned")
          /\ UNCHANGED sinkState
    /\ UNCHANGED <<eventPc, permits, queue>>

\* The sink succeeded, or it failed or ran into per_sink_timeout.
SendEnds(e, s) ==
    /\ eventPc[e] = "fanout" /\ outcome[e][s] = "sending"
    /\ SettleSend(e, s, "ok") \/ SettleSend(e, s, "failed")
    /\ UNCHANGED <<eventPc, permits, queue, sinkState>>

\* What a bug would do: not mark the sink that panicked.
PanicUnnoticed(e, s) ==
    /\ eventPc[e] = "fanout" /\ outcome[e][s] = "sending"
    /\ SettleSend(e, s, "panicked")
    /\ UNCHANGED <<eventPc, permits, queue, sinkState>>

\* The sink panicked: poison().
SendPanics(e, s) ==
    /\ eventPc[e] = "fanout" /\ outcome[e][s] = "sending"
    /\ SettleSend(e, s, "panicked")
    /\ sinkState' = [sinkState EXCEPT ![s] = "poisoned"]
    /\ UNCHANGED <<eventPc, permits, queue>>

\* pending.next() has nothing left.
EndFanOut(e) ==
    /\ eventPc[e] = "fanout" /\ Unsettled(e) = {}
    /\ ReleasePermit(e, "done")
    /\ UNCHANGED <<sinkState, outcome, next>>

-----------------------------------------------------------------------------
FanOutStep(e) ==
    \/ StartFanOut(e) \/ EndFanOut(e)
    \/ \E s \in Sinks : FirstPoll(e, s) \/ SendEnds(e, s) \/ SendPanics(e, s)

HubNext == \E e \in Events :
    \/ Decline(e) \/ Send(e) \/ TryNotify(e) \/ DropSend(e) \/ FanOutStep(e)

HubSpec == HubInit /\ [][HubNext]_hubVars

\* Tasks run, and a send ends by its timeout at the latest.
HubSteps == \E e \in Events : FanOutStep(e)

FairHubSpec == HubSpec /\ WF_hubVars(HubSteps)

-----------------------------------------------------------------------------
HubTypeOK ==
    /\ eventPc \in [Events -> {"new", "declined", "overloaded", "queued", "admitted",
                          "fanout", "done", "dropped"}]
    /\ permits \in 0..MaxInflight
    /\ queue \in Seq(Events)
    /\ sinkState \in [Sinks -> {"ready", "identityPanicked", "poisoned"}]
    /\ outcome \in [Events -> [Sinks -> {"none", "pushed", "sending", "ok", "failed",
                                         "panicked", "poisoned"}]]
    /\ next \in [Events -> 1..(NumSinks + 1)]

\* Permits are neither lost nor made up, whichever way a call ends, and nobody
\* waits while one is free.
Inflight == {e \in Events : eventPc[e] \in {"admitted", "fanout"}}

PermitsMatchEvents ==
    /\ permits + Cardinality(Inflight) = MaxInflight
    /\ permits > 0 => queue = <<>>
    /\ ToSet(queue) = {e \in Events : eventPc[e] = "queued"}

\* A call that reports its result has the result of every sink.
EverySinkSettled == \A e \in Events : eventPc[e] = "done" =>
    \A s \in Sinks : outcome[e][s] \in {"ok", "failed", "panicked", "poisoned"}

\* That a sink could not even tell its identity is reported as a panic by one
\* event only, and the sink is never sent anything.
IdentityPanicReportedOnce == \A s \in BadIdentity :
    /\ Cardinality({e \in Events : outcome[e][s] = "panicked"}) <= 1
    /\ \A e \in Events : outcome[e][s] \in {"none", "pushed", "panicked", "poisoned"}

\* Permits and results are accounted for, whichever way calls end and sinks
\* panic.
CallsAreAccountedFor == PermitsMatchEvents /\ EverySinkSettled /\ IdentityPanicReportedOnce

\* No event starts a send to a sink after any event saw it panic.
PanickedSinkIsLeftAlone ==
    [][\A e \in Events, s \in Sinks :
          outcome[e][s] # "sending" /\ outcome'[e][s] = "sending" =>
              \A f \in Events : outcome[f][s] # "panicked"]_hubVars

\* Every call for an event ends, those that had to wait for a permit included.
Pending(e) == eventPc[e] \in {"queued", "admitted", "fanout"}

CallsEnd == \A e \in Events : Pending(e) ~> ~Pending(e)

-----------------------------------------------------------------------------
(****************************************************************************)
(* The inductive invariant of the hub.                                      *)
(****************************************************************************)

\* Each call waits in the queue once, and the permits out are those of a finite
\* number of calls.
PermitsAreKept ==
    /\ PermitsMatchEvents
    /\ \A i, k \in DOMAIN queue : queue[i] = queue[k] => i = k
    /\ IsFiniteSet(Inflight)

\* The fan-out comes to the sinks in order, and until it is through a send is
\* under way.
FanOutGoesOn ==
    \A e \in Events : eventPc[e] = "fanout" =>
        /\ \A s \in Sinks : s < next[e] <=> outcome[e][s] # "none"
        /\ next[e] <= NumSinks => Unsettled(e) # {}

\* A sink that panicked is known to, and one without identity is sent nothing.
SinkStatesAreTrue ==
    /\ \A e \in Events, s \in Sinks : outcome[e][s] = "panicked" => sinkState[s] = "poisoned"
    /\ \A s \in BadIdentity :
        /\ sinkState[s] # "ready"
        /\ \A e \in Events : outcome[e][s] \in {"none", "pushed", "panicked", "poisoned"}
        /\ \A e, f \in Events : outcome[e][s] = "panicked" /\ outcome[f][s] = "panicked" => e = f

HubInv ==
    /\ HubTypeOK
    /\ PermitsAreKept
    /\ FanOutGoesOn /\ EverySinkSettled
    /\ SinkStatesAreTrue
=============================================================================
