----------------------------- MODULE SharedManager -----------------------------
(****************************************************************************)
(* SharedManager of mcp-kit, for one server: tasks request, disconnect and  *)
(* inspect through one Manager.  The manager is behind an async mutex that  *)
(* no task keeps over an await, so a step under it is atomic; connecting    *)
(* and disconnecting are kept apart by a read/write gate of the server, and *)
(* a disconnect waits until the borrowed connection has no I/O in flight.   *)
(* A task inside a handler of the manager never waits: what it cannot have  *)
(* at once it fails to get.                                                 *)
(****************************************************************************)
EXTENDS Integers, Sequences, FiniteSets

CONSTANTS Callers,
          Configs,    \* effective configurations (with the working directory)
          NoConfig,
          MaxConns    \* bound on the connections made

ASSUME SharedAssumption ==
    IsFiniteSet(Callers) /\ NoConfig \notin Configs /\ MaxConns \in Nat \ {0}

\* A caller may leave one clean-up of its connection to a task of its own.
Tasks == Callers \X {"call", "cleanup"}
Cleaner(t) == <<t[1], "cleanup">>
States == 1..Cardinality(Tasks)

VARIABLES
    conn,      \* conns[server]: the number of the installed connection, 0 if none
    meta,      \* connection_server_configs[server] and connection_cwds[server]
    madeFor,   \* the configuration each connection was made for (history)
    exited,    \* connections whose client is closed, child gone or handlers ended
    table,     \* server_states[server]: the ServerState its Weak points to
    pc, op,
    config,    \* the configuration a request comes with
    inside,    \* is_reentrant_handler_call
    state,     \* the ServerState a task has an Arc of, 0 if none
    gate,      \* what it holds of that state's lifecycle_gate
    io,        \* whether it has an InFlightIoGuard of that state
    idle,      \* its registration with in_flight_idle
    borrowed   \* connection_id of what it has prepared

managerVars == <<conn, meta, madeFor, exited>>
taskVars == <<op, config, inside, borrowed>>
stateVars == <<table, state, gate, io, idle>>
vars == <<managerVars, taskVars, stateVars, pc>>

\* A connection made before the manager was shared may have no configuration.
SharedInit ==
    /\ conn \in {0, 1}
    /\ meta \in IF conn = 0 THEN {NoConfig} ELSE Configs \cup {NoConfig}
    /\ madeFor = IF conn = 0 THEN <<>> ELSE <<meta>>
    /\ exited = {}
    /\ table = 0
    /\ pc = [t \in Tasks |-> "idle"]
    /\ op = [t \in Tasks |-> "none"]
    /\ config = [t \in Tasks |-> NoConfig]
    /\ inside = [t \in Tasks |-> FALSE]
    /\ state = [t \in Tasks |-> 0]
    /\ gate = [t \in Tasks |-> "none"]
    /\ io = [t \in Tasks |-> FALSE]
    /\ idle = [t \in Tasks |-> "none"]
    /\ borrowed = [t \in Tasks |-> 0]

Active(t) == pc[t] \notin {"idle", "done"}
Goto(t, label) == pc' = [pc EXCEPT ![t] = label]

\* The operation is over: its locals are gone and its guards are dropped.  (Which
\* connection a clean-up was for is kept, as history.)
Forget(t) ==
    /\ op' = [op EXCEPT ![t] = "none"]
    /\ config' = [config EXCEPT ![t] = NoConfig]
    /\ inside' = [inside EXCEPT ![t] = FALSE]
    /\ borrowed' = [borrowed EXCEPT ![t] = IF t = Cleaner(t) THEN @ ELSE 0]

End(t) ==
    /\ Goto(t, "done")
    /\ Forget(t)
    /\ gate' = [gate EXCEPT ![t] = "none"]
    /\ state' = [state EXCEPT ![t] = 0]
    /\ idle' = [idle EXCEPT ![t] = "none"]

\* server_state_for: the state in use, or a new one if nobody has an Arc of it.
Unheld == {s \in States : \A t \in Tasks : state[t] # s}
StateFor == IF table = 0 \/ table \in Unheld THEN CHOOSE s \in Unheld : \A r \in Unheld : s <= r
                                            ELSE table
HoldState(t) ==
    /\ table' = StateFor
    /\ state' = [state EXCEPT ![t] = StateFor]

\* self.clone() in a handler takes the handler's scope along.
SpawnCleanup(t) ==
    /\ pc' = [pc EXCEPT ![t] = "done", ![Cleaner(t)] = "lookup"]
    /\ op' = [op EXCEPT ![t] = "none", ![Cleaner(t)] = "cleanup"]
    /\ inside' = [inside EXCEPT ![t] = FALSE, ![Cleaner(t)] = inside[t]]
    /\ borrowed' = [borrowed EXCEPT ![t] = 0, ![Cleaner(t)] = borrowed[t]]
    /\ config' = [config EXCEPT ![t] = NoConfig]
    /\ gate' = [gate EXCEPT ![t] = "none"]
    /\ state' = [state EXCEPT ![t] = 0]
    /\ UNCHANGED idle

\* A task in a handler does not get what it would have to wait for.
Refuse(t) ==
    /\ inside[t]
    /\ IF op[t] = "cleanup" /\ t # Cleaner(t) THEN SpawnCleanup(t) ELSE End(t)
    /\ UNCHANGED <<managerVars, table, io>>

-----------------------------------------------------------------------------
\* A caller starts an operation; in a handler only while there is a connection.
Begin(t) ==
    /\ t # Cleaner(t) /\ pc[t] = "idle"
    /\ \E o \in {"request", "connected", "disconnect", "isConnected"} :
          /\ op' = [op EXCEPT ![t] = o]
          /\ IF o = "request" THEN \E c \in Configs : config' = [config EXCEPT ![t] = c]
                              ELSE UNCHANGED config
          /\ IF o = "isConnected" THEN Goto(t, "isConnected") /\ UNCHANGED <<table, state>>
             ELSE /\ HoldState(t)
                  /\ Goto(t, IF o = "disconnect" THEN "writeGate" ELSE "readGate")
    /\ \E h \in BOOLEAN : /\ inside' = [inside EXCEPT ![t] = h]
                          /\ h => conn # 0 \/ \E u \in Tasks : pc[u] = "connecting"
    /\ UNCHANGED <<managerVars, gate, io, idle, borrowed>>

\* lock_connect_gate_read, lock_connect_gate_write
GateFree(t) == \A u \in Tasks \ {t} : state[u] = state[t] =>
    gate[u] \in (IF pc[t] = "readGate" THEN {"none", "read"} ELSE {"none"})

AfterGate(t) ==
    IF pc[t] = "writeGate" THEN IF op[t] = "request" THEN "recheck" ELSE "drain"
                           ELSE IF op[t] = "request" THEN "reuse" ELSE "existing"

EnterGate(t) ==
    /\ pc[t] \in {"readGate", "writeGate"}
    /\ GateFree(t)
    /\ gate' = [gate EXCEPT ![t] = IF pc[t] = "readGate" THEN "read" ELSE "write"]
    /\ Goto(t, AfterGate(t))
    /\ UNCHANGED <<managerVars, taskVars, table, state, io, idle>>

\* try_write_owned fails while the gate is held, try_read_owned also while it is held
\* by readers and a writer queues.
GateRefused(t) ==
    /\ pc[t] \in {"readGate", "writeGate"}
    /\ \/ ~GateFree(t)
       \/ /\ \E u \in Tasks \ {t} : state[u] = state[t] /\ gate[u] = "read"
          /\ \E u \in Tasks \ {t} : state[u] = state[t] /\ pc[u] = "writeGate" /\ ~inside[u]
    /\ Refuse(t)

\* inner.try_lock() in a handler fails while anybody has the manager.
LockRefused(t) ==
    /\ pc[t] \in {"reuse", "recheck", "ensure", "prepare", "commit", "borrow", "existing",
                  "remove", "isConnected"}
    /\ ~(pc[t] = "remove" /\ t = Cleaner(t))
    /\ Refuse(t)

-----------------------------------------------------------------------------
\* prepare_connected_client_with_gate

Alive == conn # 0 /\ conn \notin exited

\* is_connected_and_alive: a connection that is over goes, with its metadata.
Prune ==
    /\ conn' = IF Alive THEN conn ELSE 0
    /\ meta' = IF Alive THEN meta ELSE NoConfig
    /\ UNCHANGED <<madeFor, exited>>

\* What a bug would do: reuse a connection whatever its configuration.
MatchesAnything(t) == TRUE

\* ensure_connection_server_config_matches, ensure_connection_cwd_matches
Matches(t) == meta = config[t]

\* What a bug would do: let the gate go before the I/O is counted.
BorrowUngated(t) ==
    /\ borrowed' = [borrowed EXCEPT ![t] = conn]
    /\ gate' = [gate EXCEPT ![t] = "none"]
    /\ Goto(t, "startIo")
    /\ UNCHANGED <<op, config, inside, state, idle>>

\* try_prepare_connected_client, and the guard that is then started.
BorrowConn(t) ==
    /\ borrowed' = [borrowed EXCEPT ![t] = conn]
    /\ Goto(t, "startIo")
    /\ UNCHANGED <<op, config, inside, state, gate, idle>>

\* try_prepare_reusable_connected_client under the read gate: without a connection
\* the gate is left for the write gate.
Reuse(t) ==
    /\ pc[t] = "reuse"
    /\ Prune
    /\ \/ Alive /\ Matches(t) /\ BorrowConn(t)
       \/ Alive /\ ~Matches(t) /\ End(t)
       \/ /\ ~Alive
          /\ gate' = [gate EXCEPT ![t] = "none"]
          /\ Goto(t, "writeGate")
          /\ UNCHANGED <<taskVars, state, idle>>
    /\ UNCHANGED <<table, io>>

\* The same under the write gate, then in ensure_connected_with_write_gate, then
\* in prepare_transport_connect; somebody's is_connected may come in between.
Recheck(t) ==
    /\ pc[t] \in {"recheck", "ensure", "prepare"}
    /\ Prune
    /\ \/ Alive /\ Matches(t) /\ pc[t] = "recheck" /\ BorrowConn(t)
       \/ /\ Alive /\ Matches(t) /\ pc[t] # "recheck"
          /\ Goto(t, "borrow")
          /\ UNCHANGED <<taskVars, gate, state, idle>>
       \/ Alive /\ ~Matches(t) /\ End(t)
       \/ /\ ~Alive
          /\ Goto(t, CASE pc[t] = "recheck" -> "ensure"
                       [] pc[t] = "ensure"  -> "prepare"
                       [] OTHER             -> "connecting")
          /\ UNCHANGED <<taskVars, gate, state, idle>>
    /\ UNCHANGED <<table, io>>

\* What a bug would do: connect beside another lifecycle call.
ConnectUngated(t) ==
    /\ pc[t] = "connecting"
    /\ Len(madeFor) < MaxConns
    /\ madeFor' = Append(madeFor, config[t])
    /\ borrowed' = [borrowed EXCEPT ![t] = Len(madeFor) + 1]
    /\ gate' = [gate EXCEPT ![t] = "none"]
    /\ Goto(t, "commit")
    /\ UNCHANGED <<conn, meta, exited, op, config, inside, table, state, io, idle>>

\* PreparedTransportLifecycle::run, under the gate but not under the mutex.
Connect(t) ==
    /\ pc[t] = "connecting"
    /\ \/ /\ Len(madeFor) < MaxConns
          /\ madeFor' = Append(madeFor, config[t])
          /\ borrowed' = [borrowed EXCEPT ![t] = Len(madeFor) + 1]
          /\ Goto(t, "commit")
          /\ UNCHANGED <<conn, meta, exited, op, config, inside, stateVars>>
       \/ End(t) /\ UNCHANGED <<managerVars, table, io>>

\* commit_transport_install; the identity may fail to resolve a second time, which
\* leaves a connection without metadata.
Commit(t) ==
    /\ pc[t] = "commit"
    /\ conn' = borrowed[t]
    /\ \/ meta' = config[t] /\ Goto(t, "borrow") /\ UNCHANGED <<taskVars, gate, state, idle>>
       \/ UNCHANGED meta /\ End(t)
    /\ UNCHANGED <<madeFor, exited, table, io>>

\* try_prepare_connected_client, for a connection just made or any that there is.
Borrow(t) ==
    /\ pc[t] \in {"borrow", "existing"}
    /\ Prune
    /\ \/ Alive /\ BorrowConn(t)
       \/ ~Alive /\ End(t)
    /\ UNCHANGED <<table, io>>

\* What a bug would do: not hold on to the state its I/O is counted in.
StartIoUnheld(t) ==
    /\ pc[t] = "startIo"
    /\ io' = [io EXCEPT ![t] = TRUE]
    /\ gate' = [gate EXCEPT ![t] = "none"]
    /\ state' = [state EXCEPT ![t] = 0]
    /\ Goto(t, "calling")
    /\ UNCHANGED <<managerVars, taskVars, table, idle>>

\* start_in_flight_io, drop(gate)
StartIo(t) ==
    /\ pc[t] = "startIo"
    /\ io' = [io EXCEPT ![t] = TRUE]
    /\ gate' = [gate EXCEPT ![t] = "none"]
    /\ Goto(t, "calling")
    /\ UNCHANGED <<managerVars, taskVars, table, state, idle>>

-----------------------------------------------------------------------------
\* run_prepared_request, run_prepared_notify

\* The call ends, with an error after which the connection is to go or without.
CallEnds(t) ==
    /\ pc[t] = "calling"
    /\ Goto(t, "dropIo")
    /\ op' \in {op, [op EXCEPT ![t] = "cleanup"]}
    /\ UNCHANGED <<managerVars, config, inside, borrowed, stateVars>>

InFlight(s) == {t \in Tasks : io[t] /\ state[t] = s}

\* The guard, and with it the Arc, is gone: clean up, or return.
AfterIo(t) ==
    /\ IF op[t] = "cleanup" THEN Goto(t, "lookup") /\ UNCHANGED taskVars
                            ELSE Goto(t, "done") /\ Forget(t)
    /\ state' = [state EXCEPT ![t] = 0]
    /\ UNCHANGED gate

\* InFlightIoGuard::drop: fetch_sub, then notify_waiters if it was the last.
DropIo(t) ==
    /\ pc[t] = "dropIo"
    /\ io' = [io EXCEPT ![t] = FALSE]
    /\ IF InFlight(state[t]) = {t} THEN Goto(t, "notify") /\ UNCHANGED <<taskVars, state, gate>>
                                   ELSE AfterIo(t)
    /\ UNCHANGED <<managerVars, table, idle>>

NotifyIdle(t) ==
    /\ pc[t] = "notify"
    /\ idle' = [u \in Tasks |-> IF state[u] = state[t] /\ idle[u] = "registered"
                                THEN "notified" ELSE idle[u]]
    /\ AfterIo(t)
    /\ UNCHANGED <<managerVars, table, io>>

\* cleanup_connection_after_error, and the task of spawn_connection_cleanup
Lookup(t) ==
    /\ pc[t] = "lookup"
    /\ HoldState(t)
    /\ Goto(t, "writeGate")
    /\ UNCHANGED <<managerVars, taskVars, gate, io, idle>>

-----------------------------------------------------------------------------
\* wait_for_server_io_to_finish

\* What a bug would do: wait for the I/O of which it may be a part.
LookPatiently(t) ==
    /\ pc[t] = "drain"
    /\ Goto(t, IF InFlight(state[t]) = {} THEN "remove" ELSE "register")
    /\ UNCHANGED <<managerVars, taskVars, stateVars>>

LookForIo(t) ==
    /\ pc[t] = "drain"
    /\ \/ /\ InFlight(state[t]) = {}
          /\ Goto(t, "remove")
          /\ UNCHANGED <<managerVars, taskVars, stateVars>>
       \/ /\ InFlight(state[t]) # {} /\ ~inside[t]
          /\ Goto(t, "register")
          /\ UNCHANGED <<managerVars, taskVars, stateVars>>
       \/ InFlight(state[t]) # {} /\ Refuse(t)

\* notified().enable() comes before the count is looked at.
RegisterIdle(t) ==
    /\ pc[t] = "register"
    /\ idle' = [idle EXCEPT ![t] = "registered"]
    /\ Goto(t, "check")
    /\ UNCHANGED <<managerVars, taskVars, table, state, gate, io>>

CheckIo(t) ==
    /\ pc[t] = "check"
    /\ IF InFlight(state[t]) = {}
       THEN Goto(t, "remove") /\ idle' = [idle EXCEPT ![t] = "none"]
       ELSE Goto(t, "asleep") /\ UNCHANGED idle
    /\ UNCHANGED <<managerVars, taskVars, table, state, gate, io>>

WakeUp(t) ==
    /\ pc[t] = "asleep" /\ idle[t] = "notified"
    /\ Goto(t, "register")
    /\ UNCHANGED <<managerVars, taskVars, stateVars>>

\* A disconnect takes what there is, a clean-up only the connection that failed.
Removed(t) == IF op[t] = "disconnect" \/ conn = borrowed[t] THEN conn ELSE 0

\* disconnect_named, disconnect_and_wait_named, cleanup_connection_after_error: the
\* manager forgets the connection; all but the first then wait for its end.
DropRecord(t) ==
    /\ pc[t] = "remove"
    /\ IF Removed(t) # 0 THEN conn' = 0 /\ meta' = NoConfig ELSE UNCHANGED <<conn, meta>>
    /\ \/ (op[t] = "disconnect" \/ Removed(t) = 0) /\ End(t)
       \/ Removed(t) # 0 /\ Goto(t, "teardown") /\ UNCHANGED <<taskVars, gate, state, idle>>
    /\ UNCHANGED <<madeFor, exited, table, io>>

TearDown(t) ==
    /\ pc[t] = "teardown"
    /\ End(t)
    /\ UNCHANGED <<managerVars, table, io>>

\* is_connected_named, connected_server_names: no gate.
IsConnected(t) ==
    /\ pc[t] = "isConnected"
    /\ Prune
    /\ End(t)
    /\ UNCHANGED <<table, io>>

-----------------------------------------------------------------------------
\* The future of an operation is dropped at an await.
Cancel(t) ==
    /\ t # Cleaner(t) /\ Active(t)
    /\ pc[t] \notin {"startIo", "dropIo", "notify", "lookup", "drain", "register", "check"}
    /\ IF io[t] THEN Goto(t, "dropIo") /\ UNCHANGED <<taskVars, gate, state, idle>>
                ELSE End(t)
    /\ UNCHANGED <<managerVars, table, io>>

\* The server, its child or a handler task of the connection ends.
ConnectionExits ==
    /\ \E id \in {conn} \cup {borrowed[t] : t \in {u \in Tasks : pc[u] = "commit"}} :
          id # 0 /\ id \notin exited /\ exited' = exited \cup {id}
    /\ UNCHANGED <<conn, meta, madeFor, taskVars, stateVars, pc>>

TaskStep(t) ==
    \/ EnterGate(t) \/ GateRefused(t) \/ Reuse(t) \/ Recheck(t) \/ Commit(t) \/ Borrow(t)
    \/ StartIo(t) \/ DropIo(t) \/ NotifyIdle(t) \/ Lookup(t) \/ LookForIo(t)
    \/ RegisterIdle(t) \/ CheckIo(t) \/ WakeUp(t) \/ DropRecord(t) \/ TearDown(t)
    \/ IsConnected(t)

ServerAnswers(t) == CallEnds(t) \/ Connect(t)

SharedNext ==
    \/ \E t \in Tasks : Begin(t) \/ TaskStep(t) \/ ServerAnswers(t)
                        \/ LockRefused(t) \/ Cancel(t)
    \/ ConnectionExits

SharedSpec == SharedInit /\ [][SharedNext]_vars
\* What goes on by itself: a server that answers nobody else while a handler of its
\* own runs, without the time-outs that would end calls and connects sooner.
Answerable(t) == inside[t] \/ \A u \in Tasks : inside[u] => ~Active(u)
GoesOn(t) == TaskStep(t) \/ (Answerable(t) /\ ServerAnswers(t))

-----------------------------------------------------------------------------
Places == {"idle", "readGate", "writeGate", "reuse", "recheck", "ensure", "prepare", "connecting",
           "commit", "borrow", "existing", "startIo", "calling", "dropIo", "notify", "lookup",
           "drain", "register", "check", "asleep", "remove", "teardown", "isConnected", "done"}
Operations == {"none", "request", "connected", "disconnect", "isConnected", "cleanup"}

SharedTypeOK ==
    /\ madeFor \in Seq(Configs \cup {NoConfig}) /\ Len(madeFor) <= MaxConns
    /\ conn \in 0..Len(madeFor) /\ exited \subseteq 1..Len(madeFor)
    /\ meta \in Configs \cup {NoConfig}
    /\ table \in States \cup {0}
    /\ pc \in [Tasks -> Places] /\ op \in [Tasks -> Operations]
    /\ config \in [Tasks -> Configs \cup {NoConfig}]
    /\ inside \in [Tasks -> BOOLEAN]
    /\ state \in [Tasks -> States \cup {0}]
    /\ gate \in [Tasks -> {"none", "read", "write"}]
    /\ io \in [Tasks -> BOOLEAN]
    /\ idle \in [Tasks -> {"none", "registered", "notified"}]
    /\ borrowed \in [Tasks -> 0..Len(madeFor)]
    /\ \A t \in Tasks : gate[t] # "none" \/ io[t] => state[t] # 0

\* Cold starts and tear-downs of the server do not overlap, and no connection is
\* installed over another.
OneLifecycle ==
    /\ Cardinality({t \in Tasks : pc[t] \in {"connecting", "commit", "teardown"}}) <= 1
    /\ \A t \in Tasks : pc[t] = "commit" => conn = 0

\* A connection that still lives is taken away only from nobody: not while a call
\* that borrowed it is in flight, and by a disconnect or after an error of a call on
\* that very connection, whatever has replaced it since.
LiveConnectionsGoUnborrowed ==
    [][Alive /\ conn' # conn =>
          /\ \A t \in Tasks : io[t] => borrowed[t] # conn
          /\ \E t \in Tasks : pc[t] = "remove"
                              /\ (op[t] = "disconnect" \/ borrowed[t] = conn)]_vars

\* A request never goes over a connection that was made for another configuration.
RequestsUseTheirConfig ==
    \A t \in Tasks : op[t] = "request" /\ io[t] => madeFor[borrowed[t]] = config[t]

\* One connection of the server at a time, and the one that a request was made for.
OneConnectionAsAsked == OneLifecycle /\ RequestsUseTheirConfig

\* Whoever sleeps until the I/O is over has been notified, or the last guard has
\* still to be dropped or to notify.
SleepersWaitForIo ==
    \A t \in Tasks : pc[t] = "asleep" /\ idle[t] # "notified" =>
        \E u \in Tasks : state[u] = state[t] /\ (io[u] \/ pc[u] = "notify")

\* Nobody waits for ever, although a disconnect waits for calls, calls for a server
\* and the server for a handler that wants to use the manager: as long as there are
\* operations, one of them can go on.
SomebodyGoesOn == (\E t \in Tasks : Active(t)) => ENABLED (\E t \in Tasks : GoesOn(t))

\* No call is stuck, neither for want of a notification nor in a circle of waits.
CallsGoOn == SleepersWaitForIo /\ SomebodyGoesOn

\* When the task that took over a clean-up has run, the connection that failed is no
\* longer installed.
DeferredCleanupDisconnects ==
    \A t \in Tasks : t = Cleaner(t) /\ pc[t] = "done" => conn # borrowed[t]

-----------------------------------------------------------------------------
(****************************************************************************)
(* The inductive invariant of the shared manager.                           *)
(****************************************************************************)
ReadGated == {"reuse", "existing"}
WriteGated == {"recheck", "ensure", "prepare", "connecting", "commit", "borrow", "drain",
               "register", "check", "asleep", "remove", "teardown"}
Asking == {"reuse", "recheck", "ensure", "prepare", "connecting", "commit", "borrow"}

\* All that have a ServerState have the one in the table: a new one is made only
\* when nobody has the old one.
StatesAgree == \A t \in Tasks : state[t] # 0 => state[t] = table

GatesExclude == \A t, u \in Tasks : t # u /\ gate[t] = "write" => gate[u] = "none"

\* Where a task stands tells what it holds.
HoldsWhatItNeeds(t) ==
    /\ pc[t] \in ReadGated => gate[t] = "read"
    /\ pc[t] \in WriteGated => gate[t] = "write"
    /\ pc[t] = "startIo" => gate[t] # "none"
    /\ pc[t] \in {"calling", "dropIo", "notify"} => gate[t] = "none"
    /\ io[t] <=> pc[t] \in {"calling", "dropIo"}
    /\ pc[t] \in {"idle", "done", "lookup"} => state[t] = 0
    /\ pc[t] \in {"readGate", "writeGate", "notify"} => state[t] # 0
    /\ pc[t] \in {"check", "asleep"} => idle[t] # "none"

\* A clean-up is left to a task of its own by the last step of its caller.
CleanersComeAfter ==
    \A t \in Tasks : t # Cleaner(t) /\ pc[t] # "done" => pc[Cleaner(t)] = "idle"

\* The metadata is that of the connection, or missing.
MetaIsTrue ==
    /\ conn = 0 => meta = NoConfig
    /\ conn # 0 => meta \in {NoConfig, madeFor[conn]}

\* What a task has found out about the connection still holds.
KnowsItsConn(t) ==
    /\ pc[t] \in Asking => op[t] = "request"
    /\ pc[t] = "existing" => op[t] # "request"
    /\ op[t] = "request" => config[t] \in Configs
    /\ pc[t] \in {"connecting", "commit"} => conn = 0
    /\ pc[t] = "commit" => borrowed[t] # 0 /\ madeFor[borrowed[t]] = config[t]
    /\ pc[t] = "borrow" /\ conn # 0 => madeFor[conn] = config[t]
    /\ pc[t] \in {"startIo", "calling", "dropIo"} =>
          borrowed[t] # 0 /\ (op[t] = "request" => madeFor[borrowed[t]] = config[t])

\* Behind the write gate no I/O is in flight once it was seen to be over.
RemovesUnborrowed == \A t, u \in Tasks : pc[t] = "remove" => ~io[u]

SharedInv ==
    /\ SharedTypeOK
    /\ StatesAgree /\ GatesExclude
    /\ \A t \in Tasks : HoldsWhatItNeeds(t) /\ KnowsItsConn(t)
    /\ CleanersComeAfter /\ MetaIsTrue /\ RemovesUnborrowed
    /\ SleepersWaitForIo
=============================================================================
