----------------------------- MODULE MCTransport -----------------------------
(****************************************************************************)
(* What surrounds the JSON-RPC client, and the lazy values, on instances    *)
(* small enough for liveness: a behaviour runs the one `part` chosen at the *)
(* start, and the others rest in their initial states.                      *)
(*   batch: two requests, the first of which the application may clone;     *)
(*   http: one request of each side over two sessions;                      *)
(*   spawner: two jobs over three workers, one of which may die;            *)
(*   lazy: three threads over two values that may need each other.          *)
(****************************************************************************)
EXTENDS BatchResponse, StreamableHttp, DetachedSpawner, LazyValue

CONSTANT Parts    \* those explored

VARIABLE part

\* Owners 4 and 5 are clones of request 2, owner 6 has request 3.
MCRequestOf == [o \in Owners |-> IF o = 6 THEN 3 ELSE 2]

\* No job is spawned by the task of another.
Flat == [j \in Jobs |-> j]

\* The task of job 1 spawns the others, as the close after a failed write does.
Nest == [j \in Jobs |-> 1]

On(name) == part = name

transportVars ==
    <<part, batchVars, httpVars, spawnerVars, lazyVars>>

TransportInit ==
    /\ part \in Parts
    /\ BatchInit /\ SpawnerInit /\ LazyInit
    /\ HttpInit /\ (On("http") \/ ssePc = "idle")

\* A step of one part, the others at rest.
BatchOnly ==
    On("batch") /\ UNCHANGED <<part, httpVars, spawnerVars, lazyVars>>
HttpOnly ==
    On("http") /\ UNCHANGED <<part, batchVars, spawnerVars, lazyVars>>
SpawnerOnly ==
    On("spawner") /\ UNCHANGED <<part, batchVars, httpVars, lazyVars>>
LazyOnly ==
    On("lazy") /\ UNCHANGED <<part, batchVars, httpVars, spawnerVars>>

TransportNext ==
    \/ BatchOnly /\ BatchNext
    \/ HttpOnly /\ HttpNext
    \/ SpawnerOnly /\ SpawnerNext
    \/ LazyOnly /\ LazyNext

\* The fairness of the modules: only one part takes steps.
TransportFairness ==
    /\ WF_transportVars(
          \/ BatchOnly /\ BatchSteps
          \/ SpawnerOnly /\ SpawnerSteps
          \/ HttpOnly /\ PostWorks
          \/ LazyOnly /\ ThreadGoesOn)
    /\ WF_transportVars((HttpOnly /\ PostIsAnswered) \/ (LazyOnly /\ SetGoesOn))
    /\ WF_transportVars(HttpOnly /\ SseWorks)
    /\ WF_transportVars(HttpOnly /\ ReadLine)
    /\ WF_transportVars(HttpOnly /\ ServerStreams)

TransportSpec == TransportInit /\ [][TransportNext]_transportVars /\ TransportFairness

\* Types, each looked at while its part runs.
TransportTypeOK ==
    /\ On("batch") => BatchTypeOK
    /\ On("http") => HttpTypeOK
    /\ On("spawner") => SpawnerTypeOK
    /\ On("lazy") => LazyTypeOK

\* What the parts promise to end, in one: a complete batch is flushed, an answer
\* is posted, a call of the spawner returns, and so does a call of get_or_init.
MustEnd(i) ==
    \/ On("batch") /\ BatchComplete /\ ~BatchOut
    \/ On("http") /\ i \in AskIds /\ AnswerWaits(i)
    \/ On("spawner") /\ i \in Jobs /\ InCall(i)
    \/ On("lazy") /\ i \in Threads /\ InGetOrInit(i)

WorkEnds == \A i \in AskIds \cup Jobs \cup Threads : MustEnd(i) ~> ~MustEnd(i)
=============================================================================
