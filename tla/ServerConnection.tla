-------------------------- MODULE ServerConnection --------------------------
(***************************************************************************)
(* What a Manager keeps of one server name (mcp-kit/src/manager/mod.rs and *)
(* lifecycle.rs).  Five maps are keyed by the name: the connection, its    *)
(* initialize result, the cwd and the configuration it was made for, and   *)
(* the protocol mismatch it was recorded with.  An operation borrows the   *)
(* manager for as long as its future lives, but the future may be dropped  *)
(* at any await, the server may die at any moment, and a connection that   *)
(* leaves the map takes a child process with it that somebody must reap.   *)
(***************************************************************************)
EXTENDS Naturals

CONSTANT MaxConnections  \* bound on the connections made

ASSUME ServerConnectionAssumption == MaxConnections \in Nat \ {0}

ConnIds == 1 .. MaxConnections

VARIABLES
    conn,       \* conns: the id of the connection of this name, or 0
    initOf,     \* init_results, cwds, configs and mismatches: the id of the
    cwdOf,      \* connection each was recorded for, or 0
    configOf,
    mismatchOf,
    kid,        \* the child process of each connection
    deaf,       \* connections whose client is closed or whose handlers ended
    holder,     \* who owns each connection
    manOp,      \* the operation that borrows the manager
    opConn      \* the connection it works on

manVars == <<conn, initOf, cwdOf, configOf, mismatchOf, kid, deaf, holder, manOp, opConn>>

KidStates == {"unmade", "none", "running", "exited", "reaped"}

ServerConnectionTypeOK ==
    /\ {conn, initOf, cwdOf, configOf, mismatchOf, opConn} \subseteq ConnIds \cup {0}
    /\ kid \in [ConnIds -> KidStates]
    /\ deaf \subseteq ConnIds
    /\ holder \in [ConnIds -> {"nobody", "manager", "operation", "waiter", "reaper", "user"}]
    /\ manOp \in {"idle", "transport", "custom", "initialising", "custom initialising",
                  "calling", "waiting", "cleaning"}

ServerConnectionInit ==
    /\ conn = 0 /\ initOf = 0 /\ cwdOf = 0 /\ configOf = 0 /\ mismatchOf = 0
    /\ kid = [c \in ConnIds |-> "unmade"]
    /\ deaf = {}
    /\ holder = [c \in ConnIds |-> "nobody"]
    /\ manOp = "idle"
    /\ opConn = 0

\* connection_exited
Exited(c) == kid[c] \in {"exited", "reaped"} \/ c \in deaf

Live == conn # 0 /\ ~Exited(conn)

\* the connection leaves the map for somebody else's hands
RemovesConnection(who) ==
    /\ conn' = 0
    /\ holder' = IF conn = 0 THEN holder ELSE [holder EXCEPT ![conn] = who]

\* What a bug would do: leave the configuration of the old connection.
ClearCwdOnly == cwdOf' = 0 /\ UNCHANGED configOf

ClearCwd == cwdOf' = 0 /\ configOf' = 0

\* is_connected_and_alive found it dead, or nothing: the dead one goes to the
\* reaper with its side state
DropDead ==
    /\ ~Live
    /\ RemovesConnection("reaper")
    /\ IF conn # 0 THEN initOf' = 0 /\ mismatchOf' = 0 ELSE UNCHANGED <<initOf, mismatchOf>>

-----------------------------------------------------------------------------
(* Connecting.                                                             *)

\* connect_with_builder, connect_jsonrpc_with_builder, connect_io_unchecked up
\* to their first await; with a live connection they return at once
StartConnect(kind) ==
    /\ manOp = "idle"
    /\ \E c \in ConnIds : kid[c] = "unmade"
    /\ DropDead
    /\ ClearCwd
    /\ manOp' = kind
    /\ UNCHANGED <<kid, deaf, opConn>>

\* connect_transport: an error leaves nothing to clean up
TransportFails ==
    /\ manOp \in {"transport", "custom"}
    /\ manOp' = "idle"
    /\ UNCHANGED <<conn, initOf, cwdOf, configOf, mismatchOf, kid, deaf, holder, opConn>>

TransportIsUp ==
    LET c == CHOOSE d \in ConnIds : kid[d] = "unmade" /\ \A e \in 1 .. d - 1 : kid[e] # "unmade"
    IN  /\ manOp \in {"transport", "custom"}
        /\ opConn' = c
        /\ \E k \in {"none", "running"} : kid' = [kid EXCEPT ![c] = k]
        /\ holder' = [holder EXCEPT ![c] = "operation"]
        /\ manOp' = IF manOp = "transport" THEN "initialising" ELSE "custom initialising"
        /\ UNCHANGED <<conn, initOf, cwdOf, configOf, mismatchOf, deaf>>

Initialising == manOp \in {"initialising", "custom initialising"}

\* initialize fails or times out: the guards abort the handlers and reap the
\* child, cleanup_failed_connection_install clears the side state
InitializeFails ==
    /\ Initialising
    /\ holder' = [holder EXCEPT ![opConn] = "reaper"]
    /\ mismatchOf' = 0
    /\ manOp' = "idle"
    /\ opConn' = 0
    /\ UNCHANGED <<conn, initOf, cwdOf, configOf, kid, deaf>>

\* commit_connection_install, and for a configured server the identity and the
\* cwd.  Both are computed again and may fail now (they read the process
\* environment and the directory tree): the call fails with the connection in
\* the map, without its cwd, or without both.
\* The version check is Warn: a mismatch is recorded, anything else clears it
Installs ==
    /\ Initialising
    /\ conn' = opConn
    /\ initOf' = opConn
    /\ holder' = [holder EXCEPT ![opConn] = "manager"]
    /\ mismatchOf' \in {0, opConn}
    /\ \/ /\ manOp = "initialising"
          /\ configOf' = opConn
          /\ cwdOf' \in {opConn, cwdOf}
       \/ UNCHANGED <<cwdOf, configOf>>
    /\ manOp' = "idle"
    /\ opConn' = 0
    /\ UNCHANGED <<kid, deaf>>

-----------------------------------------------------------------------------
(* Letting go of a connection.                                             *)

\* is_connected, connected_server_names, try_prepare_connected_client
Probe ==
    /\ manOp = "idle"
    /\ DropDead
    /\ ClearCwd
    /\ UNCHANGED <<kid, deaf, manOp, opConn>>

Disconnect ==
    /\ manOp = "idle"
    /\ conn # 0
    /\ RemovesConnection("reaper")
    /\ ClearCwd
    /\ initOf' = 0 /\ mismatchOf' = 0
    /\ UNCHANGED <<kid, deaf, manOp, opConn>>

\* disconnect_and_wait: everything is forgotten before the wait
DisconnectAndWait ==
    /\ manOp = "idle"
    /\ conn # 0
    /\ RemovesConnection("waiter")
    /\ ClearCwd
    /\ initOf' = 0 /\ mismatchOf' = 0
    /\ manOp' = "waiting"
    /\ opConn' = conn
    /\ UNCHANGED <<kid, deaf>>

\* take_connection forgets the mismatch, take_session keeps it
TakeConnection ==
    /\ manOp = "idle"
    /\ conn # 0
    /\ RemovesConnection("user")
    /\ ClearCwd
    /\ initOf' = 0
    /\ mismatchOf' \in {0, mismatchOf}
    /\ UNCHANGED <<kid, deaf, manOp, opConn>>

\* request_connected and notify_connected
StartCall ==
    /\ manOp = "idle"
    /\ Live
    /\ manOp' = "calling"
    /\ UNCHANGED <<conn, initOf, cwdOf, configOf, mismatchOf, kid, deaf, holder, opConn>>

CallEnds ==
    /\ manOp = "calling"
    /\ manOp' = "idle"
    /\ UNCHANGED <<conn, initOf, cwdOf, configOf, mismatchOf, kid, deaf, holder, opConn>>

\* an error that spoils the connection: disconnect_after_jsonrpc_error up to
\* its wait; cwd and configuration are cleared only after it
CallBreaks ==
    /\ manOp = "calling"
    /\ RemovesConnection("waiter")
    /\ initOf' = 0 /\ mismatchOf' = 0
    /\ manOp' = "cleaning"
    /\ opConn' = conn
    /\ UNCHANGED <<cwdOf, configOf, kid, deaf>>

\* Connection::wait_with_timeout, when it has joined the child, or has given
\* up and drops the connection
WaitIsOver ==
    /\ manOp \in {"waiting", "cleaning"}
    /\ \/ /\ kid[opConn] \in {"none", "exited", "reaped"}
          /\ kid' = [kid EXCEPT ![opConn] = IF @ = "exited" THEN "reaped" ELSE @]
          /\ holder' = [holder EXCEPT ![opConn] = "nobody"]
       \/ /\ holder' = [holder EXCEPT ![opConn] = "reaper"]
          /\ UNCHANGED kid
    /\ IF manOp = "cleaning" THEN ClearCwd ELSE UNCHANGED <<cwdOf, configOf>>
    /\ manOp' = "idle"
    /\ opConn' = 0
    /\ UNCHANGED <<conn, initOf, mismatchOf, deaf>>

\* the future of the operation is dropped; a connection it owned is dropped
\* with it
OpDropped ==
    /\ manOp # "idle"
    /\ manOp' = "idle"
    /\ opConn' = 0
    /\ holder' = IF opConn = 0 THEN holder ELSE [holder EXCEPT ![opConn] = "reaper"]
    /\ UNCHANGED <<conn, initOf, cwdOf, configOf, mismatchOf, kid, deaf>>

-----------------------------------------------------------------------------
(* The child process, the client, the reaper and the user.                 *)

KidExits(c) ==
    /\ kid[c] = "running"
    /\ kid' = [kid EXCEPT ![c] = "exited"]
    /\ UNCHANGED <<conn, initOf, cwdOf, configOf, mismatchOf, deaf, holder, manOp, opConn>>

GoesDeaf(c) ==
    /\ kid[c] # "unmade"
    /\ c \notin deaf
    /\ deaf' = deaf \cup {c}
    /\ UNCHANGED <<conn, initOf, cwdOf, configOf, mismatchOf, kid, holder, manOp, opConn>>

\* reap_stale_child_best_effort: kill, then wait, on a task and then a thread
Reap(c) ==
    /\ holder[c] = "reaper"
    /\ kid[c] \in {"none", "running", "exited"}
    /\ IF kid[c] = "running"
         THEN kid' = [kid EXCEPT ![c] = "exited"] /\ UNCHANGED holder
         ELSE /\ kid' = [kid EXCEPT ![c] = IF @ = "exited" THEN "reaped" ELSE @]
              /\ holder' = [holder EXCEPT ![c] = "nobody"]
    /\ UNCHANGED <<conn, initOf, cwdOf, configOf, mismatchOf, deaf, manOp, opConn>>

UserDrops(c) ==
    /\ holder[c] = "user"
    /\ holder' = [holder EXCEPT ![c] = "reaper"]
    /\ UNCHANGED <<conn, initOf, cwdOf, configOf, mismatchOf, kid, deaf, manOp, opConn>>

ServerConnectionNext ==
    \/ \E kind \in {"transport", "custom"} : StartConnect(kind)
    \/ TransportFails \/ TransportIsUp \/ InitializeFails \/ Installs
    \/ Probe \/ Disconnect \/ DisconnectAndWait \/ TakeConnection
    \/ StartCall \/ CallEnds \/ CallBreaks \/ WaitIsOver \/ OpDropped
    \/ \E c \in ConnIds : KidExits(c) \/ GoesDeaf(c) \/ Reap(c) \/ UserDrops(c)

\* a wait has its timeout, and the reaper runs on a task or on a thread
ServerConnectionSteps == WaitIsOver \/ \E c \in ConnIds : Reap(c)

ServerConnectionSpec == ServerConnectionInit /\ [][ServerConnectionNext]_manVars

FairServerConnectionSpec == ServerConnectionSpec /\ WF_manVars(ServerConnectionSteps)

-----------------------------------------------------------------------------

(***************************************************************************)
(* What is kept beside a connection was recorded for that connection: a    *)
(* request is never checked against the cwd, the configuration, the        *)
(* initialize result or the protocol mismatch of one that came before it,  *)
(* though a dropped future leaves the old cwd behind.                      *)
(***************************************************************************)
RecordsFitConnection ==
    /\ initOf = conn
    /\ conn # 0 => {cwdOf, configOf, mismatchOf} \subseteq {0, conn}
    /\ conn # 0 /\ cwdOf = conn => configOf = conn

(***************************************************************************)
(* A connection has one owner, and its child is running or a zombie only   *)
(* while somebody owns it: none is lost on an error, a timeout or a drop.  *)
(***************************************************************************)
NoChildIsLost ==
    \A c \in ConnIds :
        /\ holder[c] = "manager" <=> c = conn
        /\ holder[c] \in {"operation", "waiter"} <=> c = opConn
        /\ kid[c] \in {"running", "exited"} => holder[c] # "nobody"

(* What the manager keeps of a connection is true, and so is who owns it.  *)
ConnectionsAreTracked == RecordsFitConnection /\ NoChildIsLost

(***************************************************************************)
(* A child whose connection left the manager for its wait or its reaper is *)
(* reaped in the end.                                                      *)
(***************************************************************************)
LetGo(c) == holder[c] \in {"waiter", "reaper"}

ChildrenAreReaped == \A c \in ConnIds : LetGo(c) ~> kid[c] \in {"none", "reaped"}

-----------------------------------------------------------------------------
(* The inductive invariant.                                                *)

\* An operation that connects has forgotten what was there before it, one that
\* calls has a connection, and those that await the server or a child have one
\* in hand.
OperationsFit ==
    /\ opConn # 0 <=>
          manOp \in {"initialising", "custom initialising", "waiting", "cleaning"}
    /\ manOp \in {"transport", "custom", "initialising", "custom initialising"} =>
          conn = 0 /\ cwdOf = 0 /\ configOf = 0
    /\ manOp = "calling" => conn # 0

\* A connection that was not made yet is nobody's, and there is one to make.
OneIsToMake ==
    /\ \A c \in ConnIds : kid[c] = "unmade" => holder[c] = "nobody"
    /\ manOp \in {"transport", "custom"} => \E c \in ConnIds : kid[c] = "unmade"

ServerConnectionInv ==
    /\ ServerConnectionTypeOK
    /\ RecordsFitConnection /\ NoChildIsLost
    /\ OperationsFit /\ OneIsToMake

=============================================================================
