--------------------------- MODULE SecretCommand ---------------------------
(****************************************************************************)
(* A secret resolved by running a provider's command line tool              *)
(* (secret-kit/src/command.rs).  run_secret_command spawns the tool with    *)
(* two reader tasks on its pipes and waits, in one select loop, for the     *)
(* leader's exit, the two outputs and a deadline.  Helper processes of the  *)
(* same tree may outlive the leader and hold the pipes open, and a kill     *)
(* pass over the tree may miss one that /proc does not show yet; on Linux a *)
(* shared worker thread repeats the pass.  The caller may drop the future   *)
(* at every await.                                                          *)
(****************************************************************************)
EXTENDS Naturals

CONSTANTS Helpers,        \* processes the tool may fork
          SpawnRetries,   \* TEXT_FILE_BUSY_RETRY_ATTEMPTS
          CleanupRetries  \* PROCESS_TREE_CLEANUP_RETRY_ATTEMPTS

ASSUME SecretCommandAssumption ==
    SpawnRetries \in Nat /\ CleanupRetries \in Nat \ {0}

Streams == {"stdout", "stderr"}

VARIABLES
    secretCall,  \* where run_secret_command is
    spawnTries,  \* the attempt of retry_text_file_busy
    leader,      \* the process that was spawned
    helper,      \* each helper: "hidden" is forked but not yet in /proc
    reader,      \* the task of read_limited on each pipe
    taken,       \* the streams whose JoinHandle is None
    sawExit,     \* exited
    treeGuard,   \* child.cleanup: Some is "held"
    retriesLeft, \* retries_remaining of this tree at the cleanup worker
    ward         \* what was done about the tree beyond one kill pass

secretVars == <<secretCall, spawnTries, leader, helper, reader, taken, sawExit,
                treeGuard, retriesLeft, ward>>

Over == {"value", "error", "dropped"}

SecretCommandTypeOK ==
    /\ secretCall \in {"spawning", "selecting", "reaping"} \cup Over
    /\ spawnTries \in 0 .. SpawnRetries
    /\ leader \in {"absent", "running", "ok", "bad", "killed"}
    /\ helper \in [Helpers -> {"absent", "hidden", "seen", "dead"}]
    /\ reader \in [Streams -> {"absent", "reading", "whole", "cut", "failed", "aborted"}]
    /\ taken \subseteq Streams
    /\ sawExit \in BOOLEAN
    /\ treeGuard \in {"none", "held", "gone"}
    /\ retriesLeft \in 0 .. CleanupRetries
    /\ ward \in {"none", "retried", "initiated", "unavailable"}

SecretCommandInit ==
    /\ secretCall = "spawning"
    /\ spawnTries = 0
    /\ leader = "absent"
    /\ helper = [h \in Helpers |-> "absent"]
    /\ reader = [s \in Streams |-> "absent"]
    /\ taken = {}
    /\ sawExit = FALSE
    /\ treeGuard = "none"
    /\ retriesLeft = 0
    /\ ward = "none"

Alive(h) == helper[h] \in {"hidden", "seen"}

-----------------------------------------------------------------------------
(* The spawn: ETXTBSY is retried, every other error is the answer.         *)

SpawnIsBusy ==
    /\ secretCall = "spawning"
    /\ IF spawnTries < SpawnRetries
         THEN spawnTries' = spawnTries + 1 /\ UNCHANGED secretCall
         ELSE secretCall' = "error" /\ UNCHANGED spawnTries
    /\ UNCHANGED <<leader, helper, reader, taken, sawExit, treeGuard, retriesLeft, ward>>

SpawnFails ==
    /\ secretCall = "spawning"
    /\ secretCall' = "error"
    /\ UNCHANGED <<spawnTries, leader, helper, reader, taken, sawExit, treeGuard,
                   retriesLeft, ward>>

Spawned ==
    /\ secretCall = "spawning"
    /\ secretCall' = "selecting"
    /\ leader' = "running"
    /\ reader' = [s \in Streams |-> "reading"]
    /\ treeGuard' = "held"
    /\ UNCHANGED <<spawnTries, helper, taken, sawExit, retriesLeft, ward>>

\* ProcessTreeCleanup::new fails: the child is dropped as it is
GuardFails ==
    /\ secretCall = "spawning"
    /\ secretCall' = "error"
    /\ leader' = "running"
    /\ UNCHANGED <<spawnTries, helper, reader, taken, sawExit, treeGuard,
                   retriesLeft, ward>>

-----------------------------------------------------------------------------
(* The processes and the reader tasks.                                     *)

LeaderExits ==
    /\ leader = "running"
    /\ leader' \in {"ok", "bad"}
    /\ UNCHANGED <<secretCall, spawnTries, helper, reader, taken, sawExit, treeGuard,
                   retriesLeft, ward>>

HelperMoves(h) ==
    /\ \/ /\ helper[h] = "absent"
          /\ leader = "running" \/ \E g \in Helpers : Alive(g)
          /\ helper' = [helper EXCEPT ![h] = "hidden"]
       \/ /\ Alive(h)
          /\ helper' = [helper EXCEPT ![h] = "dead"]
    /\ UNCHANGED <<secretCall, spawnTries, leader, reader, taken, sawExit, treeGuard,
                   retriesLeft, ward>>

\* /proc catches up
HelperIsSeen(h) ==
    /\ helper[h] = "hidden"
    /\ helper' = [helper EXCEPT ![h] = "seen"]
    /\ UNCHANGED <<secretCall, spawnTries, leader, reader, taken, sawExit, treeGuard,
                   retriesLeft, ward>>

\* end of file comes when no process of the tree holds the pipe any more
PipeEnds(s) ==
    /\ reader[s] = "reading"
    /\ leader # "running"
    /\ \A h \in Helpers : ~Alive(h)
    /\ reader' = [reader EXCEPT ![s] = "whole"]
    /\ UNCHANGED <<secretCall, spawnTries, leader, helper, taken, sawExit, treeGuard,
                   retriesLeft, ward>>

\* the limit is reached, or the read fails
ReaderStops(s) ==
    /\ reader[s] = "reading"
    /\ reader' \in {[reader EXCEPT ![s] = "cut"], [reader EXCEPT ![s] = "failed"]}
    /\ UNCHANGED <<secretCall, spawnTries, leader, helper, taken, sawExit, treeGuard,
                   retriesLeft, ward>>

-----------------------------------------------------------------------------
(* The cleanup of the tree.                                                *)

\* ProcessTreeCleanup::kill_tree, one pass
KillPass ==
    /\ leader' = IF leader = "running" THEN "killed" ELSE leader
    /\ helper' = [h \in Helpers |-> IF helper[h] = "seen" THEN "dead" ELSE helper[h]]

\* start_process_tree_cleanup: one pass, then the worker, if it can be had
StartCleanup ==
    /\ treeGuard' = "gone"
    /\ KillPass
    /\ \/ retriesLeft' = CleanupRetries /\ ward' = "retried"
       \/ retriesLeft' = 0 /\ ward' = "unavailable"

\* drain_due_linux_cleanup_retries, for this tree.  The window is long enough
\* for /proc: no helper is still hidden in the last pass.
RetryKill ==
    /\ retriesLeft > 0
    /\ retriesLeft = 1 => \A h \in Helpers : helper[h] # "hidden"
    /\ retriesLeft' = retriesLeft - 1
    /\ KillPass
    /\ UNCHANGED <<secretCall, spawnTries, reader, taken, sawExit, treeGuard, ward>>

\* kill, the first step of terminate_secret_command: with the guard gone only
\* the direct child is killed; a tree whose termination the system has taken
\* over needs no worker
KillChild ==
    \/ /\ treeGuard = "held"
       /\ treeGuard' = "gone"
       /\ ward' = "initiated"
       /\ leader' = IF leader = "running" THEN "killed" ELSE leader
       /\ helper' = [h \in Helpers |-> IF Alive(h) THEN "dead" ELSE helper[h]]
       /\ UNCHANGED retriesLeft
    \/ treeGuard = "held" /\ StartCleanup
    \/ /\ treeGuard # "held"
       /\ leader' = IF leader = "running" THEN "killed" ELSE leader
       /\ UNCHANGED <<treeGuard, ward, helper, retriesLeft>>

-----------------------------------------------------------------------------
(* The select loop.                                                        *)

SeesExit ==
    /\ secretCall = "selecting"
    /\ ~sawExit
    /\ leader # "running"
    /\ sawExit' = TRUE
    /\ IF treeGuard = "held"
         THEN StartCleanup
         ELSE UNCHANGED <<treeGuard, leader, helper, retriesLeft, ward>>
    /\ UNCHANGED <<secretCall, spawnTries, reader, taken>>

WaitFails ==
    /\ secretCall = "selecting"
    /\ ~sawExit
    /\ secretCall' = "reaping"
    /\ KillChild
    /\ UNCHANGED <<spawnTries, reader, taken, sawExit>>

TakesOutput(s) ==
    /\ secretCall = "selecting"
    /\ s \notin taken
    /\ reader[s] # "reading"
    /\ taken' = taken \cup {s}
    /\ IF reader[s] = "whole"
         THEN UNCHANGED <<secretCall, treeGuard, leader, helper, retriesLeft, ward>>
         ELSE secretCall' = "reaping" /\ KillChild
    /\ UNCHANGED <<spawnTries, reader, sawExit>>

\* What a bug would do: bound the wait for the tool, not that for its pipes.
DeadlineOfTool ==
    /\ secretCall = "selecting"
    /\ ~sawExit
    /\ secretCall' = "reaping"
    /\ KillChild
    /\ UNCHANGED <<spawnTries, reader, taken, sawExit>>

Deadline ==
    /\ secretCall = "selecting"
    /\ ~(sawExit /\ taken = Streams)
    /\ secretCall' = "reaping"
    /\ KillChild
    /\ UNCHANGED <<spawnTries, reader, taken, sawExit>>

\* the rest of terminate_secret_command: wait, then abort and await the tasks
Reaps ==
    /\ secretCall = "reaping"
    /\ leader # "running"
    /\ secretCall' = "error"
    /\ reader' = [s \in Streams |->
                    IF s \notin taken /\ reader[s] = "reading" THEN "aborted" ELSE reader[s]]
    /\ taken' = Streams
    /\ UNCHANGED <<spawnTries, leader, helper, sawExit, treeGuard, retriesLeft, ward>>

\* What a bug would do: be content with the two outputs.
FinishesOnOutput ==
    /\ secretCall = "selecting"
    /\ taken = Streams
    /\ secretCall' \in IF leader = "ok" THEN {"value", "error"} ELSE {"error"}
    /\ UNCHANGED <<spawnTries, leader, helper, reader, taken, sawExit, treeGuard,
                   retriesLeft, ward>>

\* validate_command_status and decode_command_stdout: bytes that are not UTF-8
\* fail as well
Finishes ==
    /\ secretCall = "selecting"
    /\ sawExit
    /\ taken = Streams
    /\ secretCall' \in IF leader = "ok" THEN {"value", "error"} ELSE {"error"}
    /\ UNCHANGED <<spawnTries, leader, helper, reader, taken, sawExit, treeGuard,
                   retriesLeft, ward>>

\* the caller drops the future; the tasks are left to themselves
CallDropped ==
    /\ secretCall \in {"spawning", "selecting", "reaping"}
    /\ secretCall' = "dropped"
    /\ taken' = Streams
    /\ IF treeGuard = "held"
         THEN StartCleanup
         ELSE UNCHANGED <<treeGuard, leader, helper, retriesLeft, ward>>
    /\ UNCHANGED <<spawnTries, reader, sawExit>>

SecretCommandNext ==
    \/ SpawnIsBusy \/ SpawnFails \/ Spawned \/ GuardFails
    \/ LeaderExits \/ RetryKill
    \/ SeesExit \/ WaitFails \/ Deadline \/ Reaps \/ Finishes \/ CallDropped
    \/ \E h \in Helpers : HelperMoves(h) \/ HelperIsSeen(h)
    \/ \E s \in Streams : PipeEnds(s) \/ ReaderStops(s) \/ TakesOutput(s)

\* what the runtime, the timer, the cleanup thread and /proc do by themselves:
\* no fairness is asked of the tool or of its helpers
SecretCommandSteps ==
    \/ SpawnIsBusy \/ RetryKill \/ SeesExit \/ Deadline \/ Reaps \/ Finishes
    \/ \E h \in Helpers : HelperIsSeen(h)
    \/ \E s \in Streams : PipeEnds(s) \/ TakesOutput(s)

SecretCommandSpec == SecretCommandInit /\ [][SecretCommandNext]_secretVars

FairSecretCommandSpec == SecretCommandSpec /\ WF_secretVars(SecretCommandSteps)

-----------------------------------------------------------------------------

(***************************************************************************)
(* A value is given out only for a tool that exited with success and whose *)
(* two outputs were read to their end: no limit, no failed read, and no    *)
(* process left that could still have written.                             *)
(***************************************************************************)
ValueIsComplete ==
    secretCall = "value" =>
        /\ leader = "ok"
        /\ \A s \in Streams : reader[s] = "whole"

(***************************************************************************)
(* However a call ends (value, error, deadline, or a future dropped at an  *)
(* await), the tool it guarded is dead, and a helper that escaped the kill *)
(* is on the worker's list, unless the worker could not be had: then the   *)
(* kill pass was made and nothing more is promised.                        *)
(***************************************************************************)
TreeIsInHand ==
    secretCall \in Over /\ treeGuard # "none" =>
        /\ leader # "running"
        /\ ward # "none"
        /\ ward \in {"retried", "initiated"} /\ retriesLeft = 0 =>
               \A h \in Helpers : helper[h] = "dead" \/ helper[h] = "absent"

(* What run_secret_command promises of the value, and of the processes.    *)
CommandIsInHand == ValueIsComplete /\ TreeIsInHand

(***************************************************************************)
(* Every call comes to its end, whatever the tool and its helpers do, by   *)
(* the deadline; the reader tasks end too unless a helper that no worker   *)
(* chases keeps the pipe.                                                  *)
(***************************************************************************)
Watching == secretCall = "selecting"

PipesToEnd == ward \in {"retried", "initiated"} /\ \E s \in Streams : reader[s] = "reading"

SecretCallEnds ==
    /\ Watching ~> secretCall \in Over
    /\ PipesToEnd ~> ~PipesToEnd

-----------------------------------------------------------------------------
(***************************************************************************)
(* The inductive invariant.                                                *)
(***************************************************************************)

\* The guard of the tree is there from the spawn until what it guards is ended.
GuardFollowsCall ==
    /\ treeGuard = "none" => ward = "none" /\ secretCall \in {"spawning", "error", "dropped"}
    /\ ward = "none" => retriesLeft = 0
    /\ treeGuard = "held" => secretCall = "selecting" /\ ~sawExit /\ ward = "none"
    /\ treeGuard = "gone" => leader # "running" /\ ward # "none"
    /\ secretCall \in {"selecting", "reaping", "value"} => treeGuard # "none"
    /\ secretCall = "reaping" => treeGuard = "gone"
    /\ secretCall = "spawning" => treeGuard = "none" /\ leader = "absent" /\ taken = {} /\ ~sawExit
    /\ secretCall \in {"selecting", "reaping"} /\ sawExit => leader # "running"

\* Once the worker is through, or the system has ended the tree, nobody is left
\* to fork another.
TreeStaysDead ==
    ward = "initiated" \/ (ward = "retried" /\ retriesLeft = 0) => \A h \in Helpers : ~Alive(h)

\* What is taken while the call goes on was read to its end.
TakenIsWhole == secretCall = "selecting" => \A s \in taken : reader[s] = "whole"

SecretCommandInv ==
    /\ SecretCommandTypeOK /\ GuardFollowsCall /\ TreeStaysDead /\ TakenIsWhole
    /\ ValueIsComplete /\ TreeIsInHand
=============================================================================
