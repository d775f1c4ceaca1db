-------------------------- MODULE BootstrapTransaction --------------------------
(****************************************************************************)
(* bootstrap_text_resources_then_load of text-assets-kit: under a lock for  *)
(* the resource root, missing directories and files are created, then the   *)
(* resources are loaded; what the attempt created is removed again when a   *)
(* later step fails.  The lock is held_roots among the threads of a process *)
(* and an advisory file lock among processes, the file living in an         *)
(* ancestor of the root that each attempt looks for anew.                   *)
(*                                                                          *)
(* The directories on the way to the resources are the levels 1..Depth,     *)
(* below level 0, which is always there; level Root is the resource root.   *)
(* A step is one system call that changes the file system, or one look.     *)
(****************************************************************************)
EXTENDS Integers, FiniteSets, FiniteSetsExt

CONSTANTS Threads,
          NoThread,
          Processes,
          ProcessOf,    \* the process of each thread
          Root,
          Depth,
          NumFiles,     \* files in the manifest, written in order
          RootMounted,  \* whether the root is on a file system of its own
          Others,       \* whether others come and go in a directory above the root
          Faults,       \* whether system calls may fail
          MaxCrashes    \* bound on crashes of processes

ASSUME BootstrapAssumption ==
    /\ NoThread \notin Threads
    /\ ProcessOf \in [Threads -> Processes]
    /\ Root \in Nat \ {0} /\ Depth \in Nat /\ Root <= Depth
    /\ NumFiles \in Nat
    /\ {RootMounted, Others, Faults} \subseteq BOOLEAN
    /\ MaxCrashes \in Nat

Levels == 0..Depth
Files == 1..NumFiles

VARIABLES
    exists,      \* the deepest level that exists
    lockFiles,   \* the levels with a lock file for this root
    lodged,      \* the level others made and live in, 0 if none
    file,        \* what is in each resource file ...
    creator,     \* ... and the attempt that made it
    heldBy,      \* the processes whose held_roots has the root
    lockHolder,  \* who has the advisory lock of each level's lock file
    pc, result,  \* where an attempt stands, and how it ended
    level,       \* the level it looked at last, or has a handle of
    dead,        \* whether that handle's directory has been removed
    anchor,      \* the level it locks
    made,        \* levels it made that the report does not have yet
    reported,    \* created_directory_paths of the report
    created,     \* `created` of the report
    nextFile,    \* the file it comes to next
    botched,     \* whether a removal failed
    crashes,
    disturbed    \* whether others made or removed a directory while an attempt was
                 \* between its look and the making of its lock file (history)

fsVars == <<exists, lockFiles, lodged, file, creator, disturbed>>
lockVars == <<heldBy, lockHolder>>
reportVars == <<made, reported, created, nextFile, botched>>
bootstrapVars == <<fsVars, lockVars, pc, result, level, dead, anchor, reportVars, crashes>>

BootstrapInit ==
    /\ exists \in Levels
    /\ file \in [Files -> {"absent", "user"}]
    /\ \A f \in Files : file[f] = "user" => exists = Depth
    /\ creator = [f \in Files |-> NoThread]
    /\ lockFiles = {} /\ lodged = 0
    /\ heldBy = {}
    /\ lockHolder = [l \in Levels |-> NoThread]
    /\ pc = [t \in Threads |-> "idle"]
    /\ result = [t \in Threads |-> "none"]
    /\ level = [t \in Threads |-> 0]
    /\ dead = [t \in Threads |-> FALSE]
    /\ anchor = [t \in Threads |-> 0]
    /\ made = [t \in Threads |-> {}]
    /\ reported = [t \in Threads |-> {}]
    /\ created = [t \in Threads |-> {}]
    /\ nextFile = [t \in Threads |-> 1]
    /\ botched = [t \in Threads |-> FALSE]
    /\ crashes = 0
    /\ disturbed = FALSE

Goto(t, label) == pc' = [pc EXCEPT ![t] = label]

-----------------------------------------------------------------------------
\* lock_bootstrap_transaction

\* ready.notify_all(), to the threads of the process that wait for this root.
NotifyAll(p) == {t \in Threads : ProcessOf[t] = p /\ pc[t] = "asleep"}

Begin(t) ==
    /\ pc[t] = "idle"
    /\ Goto(t, "reserve")
    /\ UNCHANGED <<fsVars, lockVars, result, level, dead, anchor, reportVars, crashes>>

Reserve(t) ==
    /\ pc[t] = "reserve"
    /\ IF ProcessOf[t] \in heldBy
       THEN Goto(t, "asleep") /\ UNCHANGED heldBy
       ELSE Goto(t, "closest") /\ heldBy' = heldBy \cup {ProcessOf[t]}
    /\ UNCHANGED <<fsVars, lockHolder, result, level, dead, anchor, reportVars, crashes>>

\* What a bug would do: look for the closest directory one too deep.
LookBelowRoot(t) ==
    /\ pc[t] = "closest"
    /\ level' = [level EXCEPT ![t] = exists]
    /\ Goto(t, "search")
    /\ UNCHANGED <<fsVars, lockVars, result, dead, anchor, reportVars, crashes>>

\* closest_existing_bootstrap_lock_anchor
LookForClosest(t) ==
    /\ pc[t] = "closest"
    /\ level' = [level EXCEPT ![t] = IF exists < Root THEN exists ELSE Root]
    /\ Goto(t, "search")
    /\ UNCHANGED <<fsVars, lockVars, result, dead, anchor, reportVars, crashes>>

\* default_existing_root_bootstrap_lock_anchor, for a root that exists.
DefaultAnchor(l) == IF l = Root /\ ~RootMounted THEN Root - 1 ELSE l

\* What a bug would do: not look above for a lock file that is there.
ClosestOnly(l) == DefaultAnchor(l)

\* existing_bootstrap_lock_anchor_for_root: a lock file made before, looked for
\* from the closest level upwards, goes first.
AnchorFrom(l) ==
    LET found == {k \in lockFiles : k <= l}
    IN  IF found # {} THEN Max(found) ELSE DefaultAnchor(l)

ChooseAnchor(t) ==
    /\ pc[t] = "search"
    /\ anchor' = [anchor EXCEPT ![t] = AnchorFrom(level[t])]
    /\ Goto(t, "open")
    /\ UNCHANGED <<fsVars, lockVars, result, level, dead, reportVars, crashes>>

\* The lock file is opened, and made first with its directory; if the anchor
\* itself has gone meanwhile it is made again, or the attempt fails.
OpenLockFile(t) ==
    /\ pc[t] = "open"
    /\ lockFiles' = lockFiles \cup {anchor[t]}
    /\ exists' = IF anchor[t] > exists THEN anchor[t] ELSE exists
    /\ Goto(t, "flock")
    /\ UNCHANGED <<lodged, file, creator, disturbed, lockVars, result, level, dead, anchor,
                   reportVars, crashes>>

\* Without a lock the attempt fails and gives the root free again.
OpenLockFails(t) ==
    /\ pc[t] = "open"
    /\ Faults \/ anchor[t] > exists
    /\ result' = [result EXCEPT ![t] = "failed"]
    /\ Goto(t, "leave")
    /\ UNCHANGED <<fsVars, lockVars, level, dead, anchor, reportVars, crashes>>

AcquireLock(t) ==
    /\ pc[t] = "flock"
    /\ lockHolder[anchor[t]] = NoThread
    /\ lockHolder' = [lockHolder EXCEPT ![anchor[t]] = t]
    /\ Goto(t, "openRoot")
    /\ UNCHANGED <<fsVars, heldBy, result, level, dead, anchor, reportVars, crashes>>

-----------------------------------------------------------------------------
\* Directories: SecureRoot::open_with_report down to the root, create_directory_all
\* below it.

\* split_existing_resource_root: go on from what exists.
OpenRoot(t) ==
    /\ pc[t] = "openRoot"
    /\ level' = [level EXCEPT ![t] = IF exists < Root THEN exists ELSE Root]
    /\ dead' = [dead EXCEPT ![t] = FALSE]
    /\ Goto(t, "dirs")
    /\ UNCHANGED <<fsVars, lockVars, result, anchor, reportVars, crashes>>

\* The component below the handle is opened, and made if it is missing.
EnterDirectory(t) ==
    /\ pc[t] = "dirs" /\ level[t] < Depth /\ ~dead[t]
    /\ level' = [level EXCEPT ![t] = @ + 1]
    /\ exists' = IF exists = level[t] THEN exists + 1 ELSE exists
    /\ LET mine == made[t] \cup (IF exists = level[t] THEN {level[t] + 1} ELSE {})
       IN  IF level[t] + 1 \in {Root, Depth}
           THEN /\ reported' = [reported EXCEPT ![t] = @ \cup mine]
                /\ made' = [made EXCEPT ![t] = {}]
           ELSE made' = [made EXCEPT ![t] = mine] /\ UNCHANGED reported
    /\ UNCHANGED <<lockFiles, lodged, file, creator, disturbed, lockVars, pc, result, dead, anchor,
                   created, nextFile, botched, crashes>>

\* A failure above the root returns at once, one below it rolls the report back;
\* neither knows of what the failing call itself made.
DirectoryFails(t) ==
    /\ pc[t] = "dirs" /\ level[t] < Depth
    /\ Faults \/ dead[t]
    /\ IF level[t] < Root
       THEN Goto(t, "unlock") /\ result' = [result EXCEPT ![t] = "failed"]
       ELSE Goto(t, "undo") /\ UNCHANGED result
    /\ UNCHANGED <<fsVars, lockVars, level, dead, anchor, reportVars, crashes>>

DirectoriesDone(t) ==
    /\ pc[t] = "dirs" /\ level[t] = Depth
    /\ Goto(t, "files")
    /\ UNCHANGED <<fsVars, lockVars, result, level, dead, anchor, reportVars, crashes>>

-----------------------------------------------------------------------------
\* write_file_if_absent, file after file

\* What a bug would do: list a file as created that was there before.
ClaimFile(t) ==
    LET f == nextFile[t] IN
    /\ pc[t] = "files" /\ f \in Files /\ file[f] # "absent"
    /\ created' = [created EXCEPT ![t] = @ \cup {f}]
    /\ nextFile' = [nextFile EXCEPT ![t] = @ + 1]
    /\ UNCHANGED <<fsVars, lockVars, pc, result, level, dead, anchor, made, reported,
                   botched, crashes>>

\* A file that is there is left as it is, and is not this attempt's to undo.
FindFile(t) ==
    LET f == nextFile[t] IN
    /\ pc[t] = "files" /\ f \in Files /\ file[f] # "absent" /\ ~dead[t]
    /\ nextFile' = [nextFile EXCEPT ![t] = @ + 1]
    /\ UNCHANGED <<fsVars, lockVars, pc, result, level, dead, anchor, made, reported,
                   created, botched, crashes>>

CreateFile(t) ==
    LET f == nextFile[t] IN
    /\ pc[t] = "files" /\ f \in Files /\ file[f] = "absent" /\ ~dead[t]
    /\ file' = [file EXCEPT ![f] = "partial"]
    /\ creator' = [creator EXCEPT ![f] = t]
    /\ Goto(t, "writing")
    /\ UNCHANGED <<exists, lockFiles, lodged, disturbed, lockVars, result, level, dead, anchor,
                   reportVars, crashes>>

CreateFails(t) ==
    /\ pc[t] = "files" /\ nextFile[t] \in Files
    /\ Faults \/ dead[t]
    /\ Goto(t, "undo")
    /\ UNCHANGED <<fsVars, lockVars, result, level, dead, anchor, reportVars, crashes>>

WriteFile(t) ==
    LET f == nextFile[t] IN
    /\ pc[t] = "writing"
    /\ file' = [file EXCEPT ![f] = "whole"]
    /\ created' = [created EXCEPT ![t] = @ \cup {f}]
    /\ nextFile' = [nextFile EXCEPT ![t] = @ + 1]
    /\ Goto(t, "files")
    /\ UNCHANGED <<exists, lockFiles, lodged, creator, disturbed, lockVars, result, level, dead,
                   anchor, made, reported, botched, crashes>>

\* rollback_partial_write, then finish_bootstrap_failure.
WriteFails(t) ==
    /\ pc[t] = "writing"
    /\ Faults
    /\ \/ /\ file' = [file EXCEPT ![nextFile[t]] = "absent"]
          /\ UNCHANGED botched
       \/ /\ botched' = [botched EXCEPT ![t] = TRUE]
          /\ UNCHANGED file
    /\ Goto(t, "undo")
    /\ UNCHANGED <<exists, lockFiles, lodged, creator, disturbed, lockVars, result, level, dead,
                   anchor, made, reported, created, nextFile, crashes>>

FilesDone(t) ==
    /\ pc[t] = "files" /\ nextFile[t] \notin Files
    /\ Goto(t, "loading")
    /\ UNCHANGED <<fsVars, lockVars, result, level, dead, anchor, reportVars, crashes>>

-----------------------------------------------------------------------------
\* load, and rollback_created_resources

Load(t) ==
    /\ pc[t] = "loading"
    /\ \/ Goto(t, "unlock") /\ result' = [result EXCEPT ![t] = "ok"]
       \/ Goto(t, "undo") /\ UNCHANGED result
    /\ UNCHANGED <<fsVars, lockVars, level, dead, anchor, reportVars, crashes>>

\* What a bug would do: roll back the directories and no file.
UndoNoFile(t) ==
    /\ pc[t] = "undo" /\ created[t] # {}
    /\ created' = [created EXCEPT ![t] = {}]
    /\ UNCHANGED <<fsVars, lockVars, pc, result, level, dead, anchor, made, reported,
                   nextFile, botched, crashes>>

UndoFile(t) ==
    LET f == Max(created[t]) IN
    /\ pc[t] = "undo" /\ created[t] # {}
    /\ created' = [created EXCEPT ![t] = @ \ {f}]
    /\ \/ file' = [file EXCEPT ![f] = "absent"] /\ UNCHANGED botched
       \/ Faults /\ botched' = [botched EXCEPT ![t] = TRUE] /\ UNCHANGED file
    /\ UNCHANGED <<exists, lockFiles, lodged, creator, disturbed, lockVars, pc, result, level, dead,
                   anchor, made, reported, nextFile, crashes>>

\* Nothing is in the directory of level l, and none below it.
Empty(l) ==
    /\ exists = l /\ l \notin lockFiles /\ lodged # l
    /\ l = Depth => \A f \in Files : file[f] = "absent"

\* The directory of level l goes, under everybody who has a handle of it.
Vanish(l) ==
    /\ exists' = l - 1
    /\ dead' = [t \in Threads |-> dead[t] \/ level[t] >= l]

\* A directory that is not empty is left.
UndoDirectory(t) ==
    LET l == Max(reported[t]) IN
    /\ pc[t] = "undo" /\ created[t] = {} /\ reported[t] # {}
    /\ reported' = [reported EXCEPT ![t] = @ \ {l}]
    /\ \/ Empty(l) /\ Vanish(l) /\ UNCHANGED botched
       \/ ~Empty(l) /\ UNCHANGED <<exists, dead, botched>>
       \/ Faults /\ botched' = [botched EXCEPT ![t] = TRUE] /\ UNCHANGED <<exists, dead>>
    /\ UNCHANGED <<lockFiles, lodged, file, creator, disturbed, lockVars, pc, result, level, anchor,
                   made, created, nextFile, crashes>>

UndoDone(t) ==
    /\ pc[t] = "undo" /\ created[t] = {} /\ reported[t] = {}
    /\ result' = [result EXCEPT ![t] = IF botched[t] THEN "rollbackFailed" ELSE "failed"]
    /\ Goto(t, "unlock")
    /\ UNCHANGED <<fsVars, lockVars, level, dead, anchor, reportVars, crashes>>

-----------------------------------------------------------------------------
\* BootstrapTransactionGuard::drop: first the file lock, then held_roots.

Unlock(t) ==
    /\ pc[t] = "unlock"
    /\ lockHolder' = [lockHolder EXCEPT ![anchor[t]] = NoThread]
    /\ Goto(t, "leave")
    /\ UNCHANGED <<fsVars, heldBy, result, level, dead, anchor, reportVars, crashes>>

Leave(t) ==
    /\ pc[t] = "leave"
    /\ heldBy' = heldBy \ {ProcessOf[t]}
    /\ pc' = [x \in Threads |-> IF x = t THEN "done"
                                ELSE IF x \in NotifyAll(ProcessOf[t]) THEN "reserve"
                                ELSE pc[x]]
    /\ UNCHANGED <<fsVars, lockHolder, result, level, dead, anchor, reportVars, crashes>>

-----------------------------------------------------------------------------
\* The process is killed: its locks go, its files stay.
Crash(p) ==
    LET victims == {t \in Threads : ProcessOf[t] = p /\ pc[t] \notin {"idle", "done"}} IN
    /\ crashes < MaxCrashes /\ victims # {}
    /\ crashes' = crashes + 1
    /\ heldBy' = heldBy \ {p}
    /\ lockHolder' = [l \in Levels |-> IF lockHolder[l] \in victims THEN NoThread
                                                                    ELSE lockHolder[l]]
    /\ pc' = [t \in Threads |-> IF t \in victims THEN "done" ELSE pc[t]]
    /\ result' = [t \in Threads |-> IF t \in victims /\ result[t] = "none"
                                    THEN "crashed" ELSE result[t]]
    /\ UNCHANGED <<fsVars, level, dead, anchor, reportVars>>

Disturb == disturbed' = (disturbed \/ \E t \in Threads : pc[t] \in {"search", "open"})

\* The bootstrap of another root makes a directory both roots are below, ...
OthersCome ==
    /\ Others /\ lodged = 0
    /\ exists + 1 < Root
    /\ exists' = exists + 1
    /\ lodged' = exists + 1
    /\ Disturb
    /\ UNCHANGED <<lockFiles, file, creator, lockVars, pc, result, level, dead, anchor,
                   reportVars, crashes>>

\* ... and is rolled back.
OthersGo ==
    /\ lodged # 0
    /\ lodged' = 0
    /\ IF exists = lodged /\ lodged \notin lockFiles
       THEN Vanish(lodged) /\ Disturb
       ELSE UNCHANGED <<exists, dead, disturbed>>
    /\ UNCHANGED <<lockFiles, file, creator, lockVars, pc, result, level, anchor,
                   reportVars, crashes>>

-----------------------------------------------------------------------------
LockStep(t) == Reserve(t) \/ LookForClosest(t) \/ ChooseAnchor(t) \/ OpenLockFile(t)
               \/ OpenLockFails(t) \/ AcquireLock(t) \/ Unlock(t) \/ Leave(t)

CreateStep(t) == OpenRoot(t) \/ EnterDirectory(t) \/ DirectoryFails(t) \/ DirectoriesDone(t)
                 \/ FindFile(t) \/ CreateFile(t) \/ CreateFails(t) \/ WriteFile(t)
                 \/ WriteFails(t) \/ FilesDone(t)

UndoStep(t) == Load(t) \/ UndoFile(t) \/ UndoDirectory(t) \/ UndoDone(t)

AttemptStep(t) == LockStep(t) \/ CreateStep(t) \/ UndoStep(t)

BootstrapNext ==
    \/ \E t \in Threads : Begin(t) \/ AttemptStep(t)
    \/ \E p \in Processes : Crash(p)
    \/ OthersCome \/ OthersGo

BootstrapSpec == BootstrapInit /\ [][BootstrapNext]_bootstrapVars

-----------------------------------------------------------------------------
BootstrapTypeOK ==
    /\ exists \in Levels /\ lockFiles \subseteq 0..exists /\ lodged \in 0..exists
    /\ file \in [Files -> {"absent", "user", "partial", "whole"}]
    /\ creator \in [Files -> Threads \cup {NoThread}]
    /\ heldBy \subseteq Processes
    /\ lockHolder \in [Levels -> Threads \cup {NoThread}]
    /\ pc \in [Threads -> {"idle", "reserve", "asleep", "closest", "search", "open",
                           "flock", "openRoot", "dirs", "files", "writing", "loading",
                           "undo", "unlock", "leave", "done"}]
    /\ result \in [Threads -> {"none", "ok", "failed", "rollbackFailed", "crashed"}]
    /\ level \in [Threads -> Levels] /\ dead \in [Threads -> BOOLEAN]
    /\ anchor \in [Threads -> 0..Root]
    /\ made \in [Threads -> SUBSET Levels] /\ reported \in [Threads -> SUBSET Levels]
    /\ created \in [Threads -> SUBSET Files] /\ nextFile \in [Threads -> 1..(NumFiles + 1)]
    /\ botched \in [Threads -> BOOLEAN]
    /\ crashes \in 0..MaxCrashes /\ disturbed \in BOOLEAN

\* The attempts that have their locks.
Inside == {t \in Threads : pc[t] \in {"openRoot", "dirs", "files", "writing", "loading",
                                      "undo", "unlock"}}

\* Attempts at one root come one after the other, in one process or in several,
\* while the root itself is made, removed and made again.
OneAttemptAtATime == Cardinality(Inside) <= 1

\* So they do unless somebody else makes or removes a directory above the root in
\* the very moment between an attempt's look and the making of its lock file.
OneAttemptUnlessDisturbed == disturbed \/ OneAttemptAtATime

\* A file goes only while the attempt that made it fails or undoes itself, and
\* never under a load or after a load that succeeded.
RollbackSparesLoads ==
    [][\A f \in Files : file[f] # "absent" /\ file'[f] = "absent" =>
          /\ creator[f] # NoThread /\ pc[creator[f]] \in {"writing", "undo"}
          /\ disturbed \/ \A t \in Threads : pc[t] # "loading" /\ result[t] # "ok"]_bootstrapVars

\* A load never sees half a file, unless a crash left it.
LoadSeesWholeFiles == disturbed \/ \A t \in Threads, f \in Files : pc[t] = "loading" =>
    \/ file[f] \in {"user", "whole"}
    \/ file[f] = "partial" /\ result[creator[f]] \in {"crashed", "rollbackFailed"}

\* An attempt that reports failure, and no failure of its rollback, has left no
\* file behind.
FilesRolledBack == \A t \in Threads, f \in Files :
    result[t] = "failed" /\ creator[f] = t => file[f] = "absent"

\* A file is whole or gone when an attempt is through with it.
FilesAreWholeOrGone == LoadSeesWholeFiles /\ FilesRolledBack

\* Whoever waits waits for somebody that is at work: a sleeper for an attempt of
\* its process that is past the reservation, a process for one that has the file
\* lock and so waits for nobody.
WaitersWaitForWorkers == \A t \in Threads :
    /\ pc[t] = "asleep" =>
          \E u \in Threads : ProcessOf[u] = ProcessOf[t]
                             /\ pc[u] \notin {"idle", "reserve", "asleep", "done"}
    /\ pc[t] = "flock" => lockHolder[anchor[t]] \in Inside \cup {NoThread}

\* Attempts at a root take turns, and none waits for another that waits.
AttemptsTakeTurns == OneAttemptUnlessDisturbed /\ WaitersWaitForWorkers

\* Attempts take turns, and what they leave behind is whole or gone.
AttemptsAreWhole == AttemptsTakeTurns /\ FilesAreWholeOrGone

-----------------------------------------------------------------------------
(***************************************************************************)
(* The inductive invariant.                                                *)
(***************************************************************************)

Past == {"closest", "search", "open", "flock", "openRoot", "dirs", "files", "writing",
         "loading", "undo", "unlock", "leave"}
Locked == {"openRoot", "dirs", "files", "writing", "loading", "undo", "unlock"}

\* An attempt that is at its end, and one that has come to its files.
Ended == {"unlock", "leave", "done"}
Begun == {"files", "writing", "loading", "undo"} \cup Ended

\* Directories are made from level 1 down, locks are sought down to the root, and what is
\* written is a file of the manifest.
PlacesAreSound ==
    \A t \in Threads : /\ made[t] \subseteq 1..Depth /\ reported[t] \subseteq 1..Depth
                       /\ pc[t] = "search" => level[t] <= Root
                       /\ pc[t] = "writing" => nextFile[t] \in Files

\* A process has the root reserved for the one thread that is past it.
RootIsReserved ==
    /\ \A t \in Threads : /\ pc[t] \in Past => ProcessOf[t] \in heldBy
                          /\ pc[t] = "asleep" => ProcessOf[t] \in heldBy
    /\ \A t, u \in Threads :
          pc[t] \in Past /\ pc[u] \in Past /\ ProcessOf[t] = ProcessOf[u] => t = u
    /\ \A p \in heldBy : \E t \in Threads : pc[t] \in Past /\ ProcessOf[t] = p

\* The lock of a level is held by the attempt that locked it there.
LocksAreHeld ==
    /\ \A t \in Threads : pc[t] \in Locked => lockHolder[anchor[t]] = t
    /\ \A l \in Levels : lockHolder[l] # NoThread =>
          pc[lockHolder[l]] \in Locked /\ anchor[lockHolder[l]] = l

Closest == IF exists < Root THEN exists ELSE Root

\* Before the lock file is made, who looked for its place has seen what is there; from then
\* on there is one, and everybody comes to it.
LockFileIsOne ==
    /\ lockFiles = {} => \A t \in Threads :
          /\ pc[t] = "search" => level[t] = Closest
          /\ pc[t] = "open" => anchor[t] = DefaultAnchor(Closest)
          /\ pc[t] \notin Locked \cup {"flock"}
    /\ \A a \in lockFiles :
          /\ lockFiles = {a} /\ a <= Root
          /\ \A t \in Threads : /\ pc[t] = "search" => a <= level[t]
                                /\ pc[t] \in Locked \cup {"open", "flock"} => anchor[t] = a

LocksInv ==
    /\ BootstrapTypeOK /\ PlacesAreSound /\ RootIsReserved /\ LocksAreHeld
    /\ disturbed \/ LockFileIsOne

\* The file that an attempt has made, or is making, and may have to remove.
Claims(t, f) == f \in created[t] \/ (pc[t] = "writing" /\ f = nextFile[t])

\* What is claimed is there, and was made by who claims it, once.
ClaimsHold ==
    /\ \A t \in Threads, f \in Files :
          Claims(t, f) => creator[f] = t /\ file[f] \in {"partial", "whole"}
    /\ \A t \in Threads : pc[t] = "writing" => nextFile[t] \notin created[t]

\* Before it comes to its files an attempt has made none, and before its end it has no result.
AttemptsBeginAnew ==
    \A t \in Threads :
        /\ pc[t] \notin Begun =>
              created[t] = {} /\ nextFile[t] = 1 /\ ~botched[t] /\ \A f \in Files : creator[f] # t
        /\ pc[t] \notin Ended => result[t] = "none"

\* A file that is there is claimed by who made it, or that one was stopped or succeeded.
FilesAreOwed ==
    \A f \in Files : file[f] # "absent" /\ creator[f] # NoThread =>
        Claims(creator[f], f) \/ botched[creator[f]]
        \/ result[creator[f]] \in {"ok", "crashed", "rollbackFailed"}

\* Who reports a failure has nothing left.
FailuresAreClean ==
    \A t \in Threads : result[t] = "failed" => created[t] = {} /\ ~botched[t] /\ pc[t] # "writing"

Leftover(f) == result[creator[f]] \in {"crashed", "rollbackFailed"}

\* Half a file is being written, or could not be removed.
HalvesAreKnown ==
    \A f \in Files : file[f] = "partial" =>
        /\ creator[f] \in Threads
        /\ \/ pc[creator[f]] = "writing" /\ nextFile[creator[f]] = f
           \/ pc[creator[f]] = "undo" /\ botched[creator[f]]
           \/ Leftover(f)

\* An attempt has all files up to the one it comes to next.
FilesAreFound ==
    \A t \in Threads, f \in Files :
        /\ pc[t] \in {"files", "writing", "loading"} /\ f < nextFile[t] =>
              file[f] # "absent" /\ (file[f] = "partial" => Leftover(f))
        /\ pc[t] = "loading" => f < nextFile[t]

\* After a load that succeeded every file is there, and no attempt has one to remove.
LoadsAreSafe ==
    \A t \in Threads : result[t] = "ok" =>
        /\ \A f \in Files : file[f] # "absent"
        /\ \A u \in Threads :
              pc[u] \notin Ended => created[u] = {} /\ pc[u] # "writing"

FilesInv ==
    /\ ClaimsHold /\ AttemptsBeginAnew /\ FilesAreOwed /\ FailuresAreClean /\ HalvesAreKnown
    /\ disturbed \/ (FilesAreFound /\ LoadsAreSafe)

BootstrapInv == LocksInv /\ FilesInv
=============================================================================
