---------------------------- MODULE SafetyProofs -----------------------------
(***************************************************************************)
(* The bootstrap transaction, for any manifests, depths of directories,    *)
(* processes and threads, with crashes, faults and the bootstraps of other *)
(* roots: BootstrapInv = LocksInv /\ FilesInv is inductive.  LocksInv is   *)
(* about the one lock file: before it is made, all who looked for its      *)
(* place have seen the same; from then on all come to it.  FilesInv is     *)
(* about the files, each claimed by the attempt that made it.              *)
(*                                                                         *)
(* Then the catalogs (CatalogsInv) and the trees (TreeInv), for any        *)
(* catalogs, readers, reloads, trees and edits, and what they say together *)
(* of MCSafety (ReadsInv).                                                 *)
(***************************************************************************)
EXTENDS MCSafety, FiniteSetTheorems, SequenceTheorems,
        WellFoundedInduction, TLAPS

-----------------------------------------------------------------------------
(***************************************************************************)
(* Maxima of levels and of files.                                          *)
(***************************************************************************)

\* A set of numbers up to n has a greatest one.
LEMMA MaxIsIn ==
    ASSUME NEW n \in Nat, NEW S \in SUBSET (0..n), S # {}
    PROVE  Max(S) \in S /\ \A x \in S : x <= Max(S)
<1> DEFINE T == {n - x : x \in S}
           R == {pair \in Nat \X Nat : pair[1] < pair[2]}
<1>1. T \subseteq Nat /\ T # {}
  <2>1. \A x \in S : x \in Nat /\ n - x \in Nat
    OBVIOUS
  <2>2. QED
    BY <2>1
<1>2. IsWellFoundedOn(R, Nat)
  BY NatLessThanWellFounded DEF OpToRel
<1>3. PICK least \in T : \A y \in T : ~(<<y, least>> \in R)
  <2> HIDE DEF T, R
  <2>1. QED
    BY <1>1, <1>2, WFMin
<1>4. PICK m \in S : least = n - m
  BY <1>3
<1>5. ASSUME NEW x \in S PROVE m >= x
  <2>1. n - x \in T /\ n - x \in Nat /\ least \in Nat /\ x \in Nat /\ m \in Nat
    BY <1>1, <1>3, <1>5
  <2>2. ~(n - x < least)
    BY <1>3, <2>1
  <2>3. QED
    BY <1>4, <2>1, <2>2
<1>6. Max(S) \in S /\ \A x \in S : Max(S) >= x
  BY <1>5 DEF Max
<1>7. QED
  BY <1>6

\* The last file of an attempt, and its deepest directory.
LEMMA LastFile == ASSUME NEW S \in SUBSET Files, S # {} PROVE Max(S) \in S
<1>1. S \in SUBSET (0..NumFiles) /\ NumFiles \in Nat
  BY BootstrapAssumption DEF Files
<1>2. QED
  BY <1>1, MaxIsIn

LEMMA DeepestLevel ==
    ASSUME NEW S \in SUBSET Levels, S # {}
    PROVE  Max(S) \in S /\ Max(S) \in Levels /\ \A x \in S : x <= Max(S)
<1>1. S \in SUBSET (0..Depth) /\ Depth \in Nat
  BY BootstrapAssumption DEF Levels
<1>2. QED
  BY <1>1, MaxIsIn DEF Levels

LEMMA RootAndDepth ==
    /\ Root \in Nat /\ Root > 0 /\ Depth \in Nat /\ Root <= Depth /\ NumFiles \in Nat
    /\ NoThread \notin Threads /\ ProcessOf \in [Threads -> Processes] /\ MaxCrashes \in Nat
    /\ Levels = 0..Depth /\ Files = 1..NumFiles /\ 0..Root \subseteq Levels
BY BootstrapAssumption DEF Levels, Files

\* The lock goes to a level between the top and the one that was looked at.
LEMMA AnchorIsAbove ==
    ASSUME BootstrapTypeOK, NEW l \in 0..Root
    PROVE  /\ AnchorFrom(l) \in 0..l /\ DefaultAnchor(l) \in 0..l
           /\ \A a \in lockFiles : lockFiles = {a} /\ a <= l => AnchorFrom(l) = a
           /\ lockFiles = {} => AnchorFrom(l) = DefaultAnchor(l)
<1>1. DefaultAnchor(l) \in 0..l
  BY RootAndDepth DEF DefaultAnchor
<1> DEFINE found == {k \in lockFiles : k <= l}
<1>2. found \in SUBSET Levels /\ found \subseteq 0..l
  <2>1. lockFiles \subseteq 0..exists /\ exists \in 0..Depth
    BY RootAndDepth DEF BootstrapTypeOK
  <2>2. \A k \in lockFiles : k \in Nat /\ k \in 0..Depth
    BY <2>1, RootAndDepth
  <2>3. \A k \in found : k \in Levels /\ k \in 0..l
    BY <2>2, RootAndDepth
  <2>4. QED
    BY <2>3
<1>3. AnchorFrom(l) = IF found # {} THEN Max(found) ELSE DefaultAnchor(l)
  BY DEF AnchorFrom
<1>4. found # {} => Max(found) \in found
  BY <1>2, DeepestLevel
<1>5. \A a \in lockFiles : lockFiles = {a} /\ a <= l => found = {a}
  OBVIOUS
<1>6. lockFiles = {} => found = {}
  OBVIOUS
<1> HIDE DEF found
<1>7. AnchorFrom(l) \in 0..l
  BY <1>1, <1>2, <1>3, <1>4
<1>8. QED
  BY <1>1, <1>3, <1>4, <1>5, <1>6, <1>7

-----------------------------------------------------------------------------
(***************************************************************************)
(* The types, step by step.                                                *)
(***************************************************************************)

Typed == BootstrapTypeOK /\ PlacesAreSound

LEMMA TypedLockStep ==
    ASSUME Typed, NEW t \in Threads, Begin(t) \/ LockStep(t)
    PROVE  Typed'
<1>1. BootstrapTypeOK /\ PlacesAreSound
  BY DEF Typed
<1>2. CASE Begin(t)
  BY <1>1, <1>2 DEF Begin, Goto, Typed, BootstrapTypeOK, PlacesAreSound, fsVars, lockVars, reportVars
<1>3. CASE Reserve(t)
  <2>1. /\ heldBy' \subseteq Processes
        /\ pc' = [pc EXCEPT ![t] = "asleep"] \/ pc' = [pc EXCEPT ![t] = "closest"]
    BY <1>1, <1>3, RootAndDepth DEF Reserve, Goto, BootstrapTypeOK
  <2>2. QED
    BY <1>1, <1>3, <2>1
    DEF Reserve, Typed, BootstrapTypeOK, PlacesAreSound, fsVars, reportVars
<1>4. CASE LookForClosest(t)
  <2>1. (IF exists < Root THEN exists ELSE Root) \in 0..Root
    BY <1>1, RootAndDepth DEF BootstrapTypeOK
  <2>2. level'[t] <= Root /\ level' \in [Threads -> Levels]
        /\ \A u \in Threads : u # t => level'[u] = level[u] /\ pc'[u] = pc[u]
    BY <1>1, <1>4, <2>1, RootAndDepth DEF LookForClosest, Goto, BootstrapTypeOK
  <2>3. QED
    BY <1>1, <1>4, <2>2
    DEF LookForClosest, Goto, Typed, BootstrapTypeOK, PlacesAreSound, fsVars, lockVars, reportVars
<1>5. CASE ChooseAnchor(t)
  <2>1. level[t] \in 0..Root
    BY <1>1, <1>5, RootAndDepth DEF ChooseAnchor, BootstrapTypeOK, PlacesAreSound
  <2>2. AnchorFrom(level[t]) \in 0..Root
    <3>1. AnchorFrom(level[t]) \in 0..level[t]
      BY <1>1, <2>1, AnchorIsAbove
    <3>2. QED
      BY <2>1, <3>1, RootAndDepth
  <2>3. QED
    BY <1>1, <1>5, <2>2
    DEF ChooseAnchor, Goto, Typed, BootstrapTypeOK, PlacesAreSound, fsVars, lockVars, reportVars
<1>6. CASE OpenLockFile(t)
  <2>1. anchor[t] \in 0..Root /\ anchor[t] \in Nat /\ exists \in Nat /\ exists \in 0..Depth
    BY <1>1, RootAndDepth DEF BootstrapTypeOK
  <2>2. exists' \in Levels /\ anchor[t] \in 0..exists' /\ exists \in 0..exists'
    BY <1>6, <2>1, RootAndDepth DEF OpenLockFile
  <2>3. lockFiles \cup {anchor[t]} \subseteq 0..exists' /\ lodged \in 0..exists'
    <3>1. \A n \in 0..exists : n \in 0..exists'
      BY <2>1, <2>2, RootAndDepth DEF Levels
    <3>2. QED
      BY <1>1, <2>2, <3>1 DEF BootstrapTypeOK
  <2>4. QED
    BY <1>1, <1>6, <2>2, <2>3
    DEF OpenLockFile, Goto, Typed, BootstrapTypeOK, PlacesAreSound, lockVars, reportVars
<1>7. CASE OpenLockFails(t)
  BY <1>1, <1>7
  DEF OpenLockFails, Goto, Typed, BootstrapTypeOK, PlacesAreSound, fsVars, lockVars, reportVars
<1>8. CASE AcquireLock(t)
  BY <1>1, <1>8
  DEF AcquireLock, Goto, Typed, BootstrapTypeOK, PlacesAreSound, fsVars, reportVars
<1>9. CASE Unlock(t)
  BY <1>1, <1>9 DEF Unlock, Goto, Typed, BootstrapTypeOK, PlacesAreSound, fsVars, reportVars
<1>10. CASE Leave(t)
  <2>1. heldBy' \subseteq Processes
    BY <1>1, <1>10 DEF Leave, BootstrapTypeOK
  <2>2. pc' \in [Threads -> {"idle", "reserve", "asleep", "closest", "search", "open",
                           "flock", "openRoot", "dirs", "files", "writing", "loading",
                           "undo", "unlock", "leave", "done"}]
        /\ \A u \in Threads : pc'[u] = "search" => pc[u] = "search"
    BY <1>1, <1>10 DEF Leave, BootstrapTypeOK
  <2>3. QED
    BY <1>1, <1>10, <2>1, <2>2
    DEF Leave, Typed, BootstrapTypeOK, PlacesAreSound, fsVars, reportVars
<1>11. QED
  BY <1>2, <1>3, <1>4, <1>5, <1>6, <1>7, <1>8, <1>9, <1>10 DEF LockStep

LEMMA TypedCreateStep ==
    ASSUME Typed, NEW t \in Threads, CreateStep(t)
    PROVE  Typed'
<1>1. BootstrapTypeOK /\ PlacesAreSound
  BY DEF Typed
<1>2. CASE OpenRoot(t)
  <2>1. (IF exists < Root THEN exists ELSE Root) \in Levels
    BY <1>1, RootAndDepth DEF BootstrapTypeOK
  <2>2. QED
    BY <1>1, <1>2, <2>1
    DEF OpenRoot, Goto, Typed, BootstrapTypeOK, PlacesAreSound, fsVars, lockVars, reportVars
<1>3. CASE EnterDirectory(t)
  <2>1. level[t] \in Nat /\ level[t] + 1 \in 1..Depth /\ level[t] + 1 \in Levels
        /\ exists \in 0..Depth
    BY <1>1, <1>3, RootAndDepth DEF EnterDirectory, BootstrapTypeOK
  <2> DEFINE mine == made[t] \cup (IF exists = level[t] THEN {level[t] + 1} ELSE {})
  <2>2. mine \subseteq 1..Depth /\ mine \subseteq Levels /\ made[t] \subseteq Levels
        /\ reported[t] \subseteq 1..Depth /\ reported[t] \subseteq Levels
    BY <1>1, <2>1, RootAndDepth DEF BootstrapTypeOK, PlacesAreSound
  <2>3. /\ level' = [level EXCEPT ![t] = level[t] + 1]
        /\ exists' = IF exists = level[t] THEN exists + 1 ELSE exists
        /\ \/ reported' = [reported EXCEPT ![t] = reported[t] \cup mine] /\ made' = [made EXCEPT ![t] = {}]
           \/ reported' = reported /\ made' = [made EXCEPT ![t] = mine]
        /\ pc[t] = "dirs"
        /\ UNCHANGED <<lockFiles, lodged, file, creator, disturbed, heldBy, lockHolder, pc, result,
                       dead, anchor, created, nextFile, botched, crashes>>
    BY <1>3 DEF EnterDirectory, lockVars
  <2> HIDE DEF mine
  <2>4. exists' \in Levels /\ \A n \in 0..exists : n \in 0..exists'
    BY <2>1, <2>3, RootAndDepth
  <2>5. lockFiles \subseteq 0..exists' /\ lodged \in 0..exists'
    BY <1>1, <2>4 DEF BootstrapTypeOK
  <2>6. /\ made' \in [Threads -> SUBSET Levels] /\ reported' \in [Threads -> SUBSET Levels]
        /\ \A u \in Threads : made'[u] \subseteq 1..Depth /\ reported'[u] \subseteq 1..Depth
    <3>1. /\ made \in [Threads -> SUBSET Levels] /\ reported \in [Threads -> SUBSET Levels]
          /\ \A u \in Threads : made[u] \subseteq 1..Depth /\ reported[u] \subseteq 1..Depth
      BY <1>1 DEF BootstrapTypeOK, PlacesAreSound
    <3>2. reported[t] \cup mine \subseteq 1..Depth /\ reported[t] \cup mine \in SUBSET Levels
      BY <2>2
    <3>3. QED
      BY <2>2, <2>3, <3>1, <3>2
  <2>7. level' \in [Threads -> Levels] /\ \A u \in Threads : u # t => level'[u] = level[u]
    BY <1>1, <2>1, <2>3 DEF BootstrapTypeOK
  <2>8. BootstrapTypeOK'
    BY <1>1, <2>3, <2>4, <2>5, <2>6, <2>7 DEF BootstrapTypeOK
  <2>9. PlacesAreSound'
    BY <1>1, <2>3, <2>6, <2>7 DEF PlacesAreSound
  <2>10. QED
    BY <2>8, <2>9 DEF Typed
<1>4. CASE DirectoryFails(t)
  BY <1>1, <1>4
  DEF DirectoryFails, Goto, Typed, BootstrapTypeOK, PlacesAreSound, fsVars, lockVars, reportVars
<1>5. CASE DirectoriesDone(t) \/ FilesDone(t) \/ CreateFails(t)
  BY <1>1, <1>5
  DEF DirectoriesDone, FilesDone, CreateFails, Goto, Typed, BootstrapTypeOK, PlacesAreSound,
      fsVars, lockVars, reportVars
<1>6. CASE FindFile(t)
  <2>1. nextFile[t] + 1 \in 1..(NumFiles + 1)
    BY <1>6, RootAndDepth DEF FindFile
  <2>2. QED
    BY <1>1, <1>6, <2>1 DEF FindFile, Typed, BootstrapTypeOK, PlacesAreSound, fsVars, lockVars
<1>7. CASE CreateFile(t)
  BY <1>1, <1>7 DEF CreateFile, Goto, Typed, BootstrapTypeOK, PlacesAreSound, lockVars, reportVars
<1>8. CASE WriteFile(t)
  <2>1. nextFile[t] \in Files
    BY <1>1, <1>8 DEF WriteFile, PlacesAreSound
  <2>2. nextFile[t] + 1 \in 1..(NumFiles + 1)
    BY <2>1, RootAndDepth
  <2>3. created[t] \cup {nextFile[t]} \subseteq Files
    BY <1>1, <2>1 DEF BootstrapTypeOK
  <2>4. QED
    BY <1>1, <1>8, <2>2, <2>3 DEF WriteFile, Goto, Typed, BootstrapTypeOK, PlacesAreSound, lockVars
<1>9. CASE WriteFails(t)
  BY <1>1, <1>9 DEF WriteFails, Goto, Typed, BootstrapTypeOK, PlacesAreSound, lockVars
<1>10. QED
  BY <1>2, <1>3, <1>4, <1>5, <1>6, <1>7, <1>8, <1>9 DEF CreateStep

\* A directory that goes leaves room for what is left.
LEMMA VanishedIsTyped ==
    ASSUME Typed, NEW l \in Levels, l # 0, exists = l, l \notin lockFiles, Vanish(l)
    PROVE  /\ exists' \in Levels /\ lockFiles \subseteq 0..exists'
           /\ dead' \in [Threads -> BOOLEAN]
           /\ lodged # l => lodged \in 0..exists'
<1>1. l \in 1..Depth /\ exists' = l - 1 /\ lockFiles \subseteq 0..l /\ lodged \in 0..l
  BY RootAndDepth DEF Typed, BootstrapTypeOK, Vanish
<1>2. exists' \in Levels
  BY <1>1, RootAndDepth
<1>3. \A k \in 0..l : k # l => k \in 0..exists'
  BY <1>1
<1>4. lockFiles \subseteq 0..exists' /\ (lodged # l => lodged \in 0..exists')
  BY <1>1, <1>3
<1>5. dead' \in [Threads -> BOOLEAN]
  <2>1. dead' = [u \in Threads |-> dead[u] \/ level[u] >= l]
    BY DEF Vanish
  <2>2. \A u \in Threads : (dead[u] \/ level[u] >= l) \in BOOLEAN
    BY DEF Typed, BootstrapTypeOK
  <2>3. QED
    BY <2>1, <2>2
<1>6. QED
  BY <1>2, <1>4, <1>5

LEMMA TypedUndoStep ==
    ASSUME Typed, NEW t \in Threads, UndoStep(t)
    PROVE  Typed'
<1>1. BootstrapTypeOK /\ PlacesAreSound
  BY DEF Typed
<1>2. CASE Load(t)
  BY <1>1, <1>2 DEF Load, Goto, Typed, BootstrapTypeOK, PlacesAreSound, fsVars, lockVars, reportVars
<1>3. CASE UndoFile(t)
  <2>1. created[t] \in SUBSET Files /\ created[t] # {}
    BY <1>1, <1>3 DEF UndoFile, BootstrapTypeOK
  <2>2. Max(created[t]) \in Files
    BY <2>1, LastFile
  <2>3. created' \in [Threads -> SUBSET Files]
    BY <1>1, <1>3 DEF UndoFile, BootstrapTypeOK
  <2>4. file' \in [Files -> {"absent", "user", "partial", "whole"}] /\ botched' \in [Threads -> BOOLEAN]
    BY <1>1, <1>3 DEF UndoFile, BootstrapTypeOK
  <2>5. QED
    BY <1>1, <1>3, <2>3, <2>4 DEF UndoFile, Typed, BootstrapTypeOK, PlacesAreSound, lockVars
<1>4. CASE UndoDirectory(t)
  <2> DEFINE l == Max(reported[t])
  <2>1. reported[t] \in SUBSET Levels /\ reported[t] # {} /\ reported[t] \subseteq 1..Depth
    BY <1>1, <1>4 DEF UndoDirectory, BootstrapTypeOK, PlacesAreSound
  <2>2. l \in reported[t]
    BY <2>1, DeepestLevel
  <2>3. l \in Levels /\ l # 0
    BY <2>1, <2>2
  <2>4. /\ reported' = [reported EXCEPT ![t] = reported[t] \ {l}]
        /\ \/ Empty(l) /\ Vanish(l) /\ UNCHANGED botched
           \/ UNCHANGED <<exists, dead, botched>>
           \/ botched' = [botched EXCEPT ![t] = TRUE] /\ UNCHANGED <<exists, dead>>
        /\ UNCHANGED <<lockFiles, lodged, file, creator, disturbed, heldBy, lockHolder, pc, result,
                       level, anchor, made, created, nextFile, crashes>>
    BY <1>4 DEF UndoDirectory, lockVars
  <2> HIDE DEF l
  <2>5. /\ exists' \in Levels /\ lockFiles \subseteq 0..exists' /\ lodged \in 0..exists'
        /\ dead' \in [Threads -> BOOLEAN] /\ botched' \in [Threads -> BOOLEAN]
    <3>1. CASE Empty(l) /\ Vanish(l) /\ UNCHANGED botched
      BY <1>1, <2>3, <3>1, VanishedIsTyped DEF Empty, BootstrapTypeOK
    <3>2. CASE UNCHANGED <<exists, dead>> /\ (UNCHANGED botched \/ botched' = [botched EXCEPT ![t] = TRUE])
      BY <1>1, <3>2 DEF BootstrapTypeOK
    <3>3. QED
      BY <2>4, <3>1, <3>2
  <2>6. reported' \in [Threads -> SUBSET Levels] /\ \A u \in Threads : reported'[u] \subseteq 1..Depth
    BY <1>1, <2>4 DEF BootstrapTypeOK, PlacesAreSound
  <2>7. BootstrapTypeOK'
    BY <1>1, <2>4, <2>5, <2>6 DEF BootstrapTypeOK
  <2>8. PlacesAreSound'
    BY <1>1, <2>4, <2>6 DEF PlacesAreSound
  <2>9. QED
    BY <2>7, <2>8 DEF Typed
<1>5. CASE UndoDone(t)
  BY <1>1, <1>5
  DEF UndoDone, Goto, Typed, BootstrapTypeOK, PlacesAreSound, fsVars, lockVars, reportVars
<1>6. QED
  BY <1>2, <1>3, <1>4, <1>5 DEF UndoStep

LEMMA TypedOthers ==
    ASSUME Typed, OthersCome \/ OthersGo \/ \E p \in Processes : Crash(p)
    PROVE  Typed'
<1>1. BootstrapTypeOK /\ PlacesAreSound
  BY DEF Typed
<1>2. CASE OthersCome
  <2>1. /\ exists < Root /\ exists' = exists + 1 /\ lodged' = exists + 1 /\ disturbed' \in BOOLEAN
        /\ UNCHANGED <<lockFiles, file, creator, heldBy, lockHolder, pc, result, level, dead, anchor,
                       made, reported, created, nextFile, botched, crashes>>
    BY <1>1, <1>2, RootAndDepth DEF OthersCome, Disturb, BootstrapTypeOK, lockVars, reportVars
  <2>2. exists' \in Levels /\ lodged' \in 0..exists' /\ \A k \in 0..exists : k \in 0..exists'
    BY <1>1, <2>1, RootAndDepth DEF BootstrapTypeOK
  <2>3. lockFiles \subseteq 0..exists'
    BY <1>1, <2>2 DEF BootstrapTypeOK
  <2>4. QED
    BY <1>1, <2>1, <2>2, <2>3 DEF Typed, BootstrapTypeOK, PlacesAreSound
<1>3. CASE OthersGo
  <2>1. /\ lodged # 0 /\ lodged' = 0 /\ disturbed' \in BOOLEAN
        /\ UNCHANGED <<lockFiles, file, creator, heldBy, lockHolder, pc, result, level, anchor,
                       made, reported, created, nextFile, botched, crashes>>
        /\ \/ exists = lodged /\ lodged \notin lockFiles /\ Vanish(lodged)
           \/ UNCHANGED <<exists, dead>>
    BY <1>1, <1>3 DEF OthersGo, Disturb, BootstrapTypeOK, lockVars, reportVars
  <2>2. exists \in Levels /\ lockFiles \subseteq 0..exists /\ dead \in [Threads -> BOOLEAN]
    BY <1>1 DEF BootstrapTypeOK
  <2>3. exists' \in Levels /\ lockFiles \subseteq 0..exists' /\ dead' \in [Threads -> BOOLEAN]
    BY <2>1, <2>2, VanishedIsTyped
  <2>4. 0 \in 0..exists'
    BY <2>3, RootAndDepth
  <2>5. QED
    BY <1>1, <2>1, <2>3, <2>4 DEF Typed, BootstrapTypeOK, PlacesAreSound
<1>4. ASSUME NEW p \in Processes, Crash(p) PROVE Typed'
  <2> DEFINE victims == {t \in Threads : ProcessOf[t] = p /\ pc[t] \notin {"idle", "done"}}
  <2>1. /\ crashes < MaxCrashes /\ crashes' = crashes + 1 /\ heldBy' = heldBy \ {p}
        /\ lockHolder' = [l \in Levels |-> IF lockHolder[l] \in victims THEN NoThread
                                                                        ELSE lockHolder[l]]
        /\ pc' = [t \in Threads |-> IF t \in victims THEN "done" ELSE pc[t]]
        /\ result' = [t \in Threads |-> IF t \in victims /\ result[t] = "none"
                                        THEN "crashed" ELSE result[t]]
        /\ UNCHANGED <<exists, lockFiles, lodged, file, creator, disturbed, level, dead, anchor,
                       made, reported, created, nextFile, botched>>
    BY <1>4 DEF Crash, fsVars, reportVars
  <2> HIDE DEF victims
  <2>2. crashes' \in 0..MaxCrashes /\ heldBy' \subseteq Processes
    BY <1>1, <2>1, RootAndDepth DEF BootstrapTypeOK
  <2>3. lockHolder' \in [Levels -> Threads \cup {NoThread}]
    BY <1>1, <2>1 DEF BootstrapTypeOK
  <2>4. /\ pc' \in [Threads -> {"idle", "reserve", "asleep", "closest", "search", "open",
                           "flock", "openRoot", "dirs", "files", "writing", "loading",
                           "undo", "unlock", "leave", "done"}]
        /\ \A t \in Threads : pc'[t] \in {"search", "writing"} => pc'[t] = pc[t]
    BY <1>1, <2>1 DEF BootstrapTypeOK
  <2>5. result' \in [Threads -> {"none", "ok", "failed", "rollbackFailed", "crashed"}]
    BY <1>1, <2>1 DEF BootstrapTypeOK
  <2>6. BootstrapTypeOK'
    BY <1>1, <2>1, <2>2, <2>3, <2>4, <2>5 DEF BootstrapTypeOK
  <2>7. PlacesAreSound'
    BY <1>1, <2>1, <2>4 DEF PlacesAreSound
  <2>8. QED
    BY <2>6, <2>7 DEF Typed
<1>5. QED
  BY <1>2, <1>3, <1>4

LEMMA TypedInit == BootstrapInit => Typed
<1> SUFFICES ASSUME BootstrapInit PROVE Typed
  OBVIOUS
<1>1. /\ exists \in Levels /\ 0 \in 0..exists /\ 0 \in Levels /\ 0 \in 0..Root
      /\ 1 \in 1..(NumFiles + 1) /\ 0 \in 0..MaxCrashes
  BY RootAndDepth DEF BootstrapInit
<1>2. BootstrapTypeOK
  BY <1>1 DEF BootstrapInit, BootstrapTypeOK
<1>3. PlacesAreSound
  BY <1>1 DEF BootstrapInit, PlacesAreSound
<1>4. QED
  BY <1>2, <1>3 DEF Typed

-----------------------------------------------------------------------------
(***************************************************************************)
(* The reservation, the lock and the lock file.                            *)
(***************************************************************************)

LEMMA ReservedStays ==
    ASSUME RootIsReserved, heldBy' = heldBy,
           \A u \in Threads : /\ pc'[u] \in Past <=> pc[u] \in Past
                              /\ pc'[u] = "asleep" => pc[u] = "asleep"
    PROVE  RootIsReserved'
BY DEF RootIsReserved

LEMMA HeldStays ==
    ASSUME Typed, LocksAreHeld, lockHolder' = lockHolder,
           \A u \in Threads : /\ pc'[u] \in Locked <=> pc[u] \in Locked
                              /\ pc[u] \in Locked => anchor'[u] = anchor[u]
    PROVE  LocksAreHeld'
<1>1. \A l \in Levels : lockHolder[l] \in Threads \cup {NoThread}
  BY DEF Typed, BootstrapTypeOK
<1>2. QED
  BY <1>1 DEF LocksAreHeld

\* An attempt that has its locks goes on, and keeps them.
LEMMA LockedMoves ==
    ASSUME LocksInv, Typed', NEW t \in Threads, pc[t] \in Locked, pc'[t] \in Locked,
           \A u \in Threads : u # t => pc'[u] = pc[u] /\ level'[u] = level[u],
           UNCHANGED <<heldBy, lockHolder, anchor, lockFiles, disturbed>>
    PROVE  LocksInv'
<1>1. Typed /\ RootIsReserved /\ LocksAreHeld /\ (disturbed \/ LockFileIsOne)
  BY DEF LocksInv, Typed
<1>2. \A u \in Threads : /\ pc'[u] \in Past <=> pc[u] \in Past
                         /\ pc'[u] \in Locked <=> pc[u] \in Locked
                         /\ pc'[u] \in {"asleep", "search", "open", "flock"} => u # t /\ pc'[u] = pc[u]
  BY DEF Past, Locked
<1>3. RootIsReserved'
  BY <1>1, <1>2, ReservedStays
<1>4. LocksAreHeld'
  BY <1>1, <1>2, HeldStays
<1>5. ASSUME LockFileIsOne PROVE LockFileIsOne'
  <2>1. lockFiles # {}
    BY <1>5 DEF LockFileIsOne
  <2>2. QED
    BY <1>2, <1>5, <2>1 DEF LockFileIsOne
<1>6. QED
  BY <1>1, <1>3, <1>4, <1>5 DEF LocksInv, Typed

LEMMA BeginLocks == ASSUME LocksInv, Typed', NEW t \in Threads, Begin(t) PROVE LocksInv'
<1>1. Typed /\ RootIsReserved /\ LocksAreHeld /\ (disturbed \/ LockFileIsOne)
  BY DEF LocksInv, Typed
<1>2. /\ pc[t] = "idle" /\ pc'[t] = "reserve" /\ \A u \in Threads : u # t => pc'[u] = pc[u]
      /\ UNCHANGED <<exists, lockFiles, disturbed, heldBy, lockHolder, level, anchor>>
  BY <1>1 DEF Begin, Goto, Typed, BootstrapTypeOK, fsVars, lockVars
<1>3. RootIsReserved'
  BY <1>1, <1>2, ReservedStays DEF Past
<1>4. LocksAreHeld'
  BY <1>1, <1>2, HeldStays DEF Locked
<1>5. LockFileIsOne => LockFileIsOne'
  BY <1>2 DEF LockFileIsOne, Locked, Closest, DefaultAnchor
<1>6. QED
  BY <1>1, <1>2, <1>3, <1>4, <1>5 DEF LocksInv, Typed

LEMMA ReserveLocks == ASSUME LocksInv, Typed', NEW t \in Threads, Reserve(t) PROVE LocksInv'
<1>1. Typed /\ RootIsReserved /\ LocksAreHeld /\ (disturbed \/ LockFileIsOne)
  BY DEF LocksInv, Typed
<1>2. /\ pc[t] = "reserve" /\ pc'[t] \in {"asleep", "closest"}
      /\ \A u \in Threads : u # t => pc'[u] = pc[u]
      /\ pc'[t] = "asleep" => ProcessOf[t] \in heldBy /\ heldBy' = heldBy
      /\ pc'[t] = "closest" => ProcessOf[t] \notin heldBy /\ heldBy' = heldBy \cup {ProcessOf[t]}
      /\ UNCHANGED <<exists, lockFiles, disturbed, lockHolder, level, anchor>>
  BY <1>1 DEF Reserve, Goto, Typed, BootstrapTypeOK, fsVars
<1>3. RootIsReserved'
  <2>1. CASE pc'[t] = "asleep"
    BY <1>1, <1>2, <2>1 DEF RootIsReserved, Past
  <2>2. CASE pc'[t] = "closest"
    <3>1. \A u \in Threads : pc[u] \in Past => ProcessOf[u] # ProcessOf[t]
      BY <1>1, <1>2, <2>2 DEF RootIsReserved
    <3>2. \A u \in Threads : pc'[u] \in Past => u = t \/ pc[u] \in Past
      BY <1>2
    <3>3. \A u, v \in Threads :
            pc'[u] \in Past /\ pc'[v] \in Past /\ ProcessOf[u] = ProcessOf[v] => u = v
      BY <1>1, <3>1, <3>2 DEF RootIsReserved
    <3>4. \A u \in Threads : /\ pc'[u] \in Past => ProcessOf[u] \in heldBy'
                             /\ pc'[u] = "asleep" => ProcessOf[u] \in heldBy'
      BY <1>1, <1>2, <2>2, <3>2 DEF RootIsReserved
    <3>5. \A p \in heldBy' : \E u \in Threads : pc'[u] \in Past /\ ProcessOf[u] = p
      <4>1. pc'[t] \in Past
        BY <2>2 DEF Past
      <4>2. \A u \in Threads : pc[u] \in Past => pc'[u] \in Past
        BY <1>2, <4>1
      <4>3. QED
        BY <1>1, <1>2, <2>2, <4>1, <4>2 DEF RootIsReserved
    <3>6. QED
      BY <3>3, <3>4, <3>5 DEF RootIsReserved
  <2>3. QED
    BY <1>2, <2>1, <2>2
<1>4. LocksAreHeld'
  BY <1>1, <1>2, HeldStays DEF Locked
<1>5. LockFileIsOne => LockFileIsOne'
  BY <1>2 DEF LockFileIsOne, Locked, Closest, DefaultAnchor
<1>6. QED
  BY <1>1, <1>2, <1>3, <1>4, <1>5 DEF LocksInv, Typed

\* The look and the choice of the place.
LEMMA LookLocks ==
    ASSUME LocksInv, Typed', NEW t \in Threads, LookForClosest(t) \/ ChooseAnchor(t)
    PROVE  LocksInv'
<1>1. Typed /\ RootIsReserved /\ LocksAreHeld /\ (disturbed \/ LockFileIsOne)
  BY DEF LocksInv, Typed
<1>2. /\ \/ pc[t] = "closest" /\ pc'[t] = "search" /\ anchor' = anchor
            /\ level'[t] = Closest
         \/ pc[t] = "search" /\ pc'[t] = "open" /\ anchor'[t] = AnchorFrom(level[t])
            /\ level' = level
      /\ \A u \in Threads : u # t => pc'[u] = pc[u] /\ anchor'[u] = anchor[u] /\ level'[u] = level[u]
      /\ UNCHANGED <<exists, lockFiles, disturbed, heldBy, lockHolder>>
  BY <1>1 DEF LookForClosest, ChooseAnchor, Closest, Goto, Typed, BootstrapTypeOK, fsVars, lockVars
<1>3. RootIsReserved'
  BY <1>1, <1>2, ReservedStays DEF Past
<1>4. LocksAreHeld'
  BY <1>1, <1>2, HeldStays DEF Locked
<1>5. ASSUME LockFileIsOne PROVE LockFileIsOne'
  <2>1. Closest' = Closest /\ DefaultAnchor(Closest)' = DefaultAnchor(Closest)
    BY <1>2 DEF Closest, DefaultAnchor
  <2>2. CASE pc[t] = "closest"
    <3>1. \A a \in lockFiles : a <= Root => a <= Closest
      BY <1>1, RootAndDepth DEF Typed, BootstrapTypeOK, Closest
    <3>2. QED
      BY <1>2, <1>5, <2>1, <2>2, <3>1 DEF LockFileIsOne, Locked
  <2>3. CASE pc[t] = "search"
    <3>1. level[t] \in 0..Root
      BY <1>1, <2>3, RootAndDepth DEF Typed, BootstrapTypeOK, PlacesAreSound
    <3>2. \A a \in lockFiles : lockFiles = {a} /\ a <= level[t] => anchor'[t] = a
      BY <1>1, <1>2, <2>3, <3>1, AnchorIsAbove DEF Typed
    <3>3. lockFiles = {} => anchor'[t] = DefaultAnchor(level[t])
      BY <1>1, <1>2, <2>3, <3>1, AnchorIsAbove DEF Typed
    <3>4. QED
      BY <1>2, <1>5, <2>1, <2>3, <3>2, <3>3 DEF LockFileIsOne, Locked
  <2>4. QED
    BY <1>2, <2>2, <2>3
<1>6. QED
  BY <1>1, <1>2, <1>3, <1>4, <1>5 DEF LocksInv, Typed

\* The lock file is made where everybody who is on the way looks for it.
LEMMA OpenLocks == ASSUME LocksInv, Typed', NEW t \in Threads, OpenLockFile(t) PROVE LocksInv'
<1>1. Typed /\ RootIsReserved /\ LocksAreHeld /\ (disturbed \/ LockFileIsOne)
  BY DEF LocksInv, Typed
<1>2. /\ pc[t] = "open" /\ pc'[t] = "flock" /\ \A u \in Threads : u # t => pc'[u] = pc[u]
      /\ lockFiles' = lockFiles \cup {anchor[t]}
      /\ exists' = IF anchor[t] > exists THEN anchor[t] ELSE exists
      /\ UNCHANGED <<disturbed, heldBy, lockHolder, level, anchor>>
  BY <1>1 DEF OpenLockFile, Goto, Typed, BootstrapTypeOK, lockVars
<1>3. RootIsReserved'
  BY <1>1, <1>2, ReservedStays DEF Past
<1>4. LocksAreHeld'
  BY <1>1, <1>2, HeldStays DEF Locked
<1>5. ASSUME LockFileIsOne PROVE LockFileIsOne'
  <2>1. CASE lockFiles = {}
    <3> DEFINE a == anchor[t]
    <3>1. Closest \in 0..Root
      BY <1>1, RootAndDepth DEF Typed, BootstrapTypeOK, Closest
    <3>2. a = DefaultAnchor(Closest) /\ a \in 0..Closest
      BY <1>1, <1>2, <1>5, <2>1, <3>1, AnchorIsAbove DEF LockFileIsOne, Typed
    <3>3. lockFiles' = {a} /\ a <= Root /\ a <= Closest
      BY <1>2, <2>1, <3>1, <3>2, RootAndDepth
    <3>4. \A u \in Threads : /\ pc'[u] = "search" => level'[u] = Closest
                             /\ pc'[u] = "open" => anchor'[u] = a
                             /\ pc'[u] \notin Locked
                             /\ pc'[u] = "flock" => u = t /\ anchor'[u] = a
      BY <1>2, <1>5, <2>1, <3>2 DEF LockFileIsOne, Locked
    <3>5. QED
      BY <3>3, <3>4 DEF LockFileIsOne
  <2>2. CASE lockFiles # {}
    <3>1. PICK a \in lockFiles : lockFiles = {a} /\ a <= Root
      BY <1>5, <2>2 DEF LockFileIsOne
    <3>2. anchor[t] = a /\ lockFiles' = {a}
      BY <1>2, <1>5, <3>1 DEF LockFileIsOne
    <3>3. \A u \in Threads : /\ pc'[u] = "search" => a <= level'[u]
                             /\ pc'[u] \in Locked \cup {"open", "flock"} => anchor'[u] = a
      BY <1>2, <1>5, <3>1, <3>2 DEF LockFileIsOne
    <3>4. QED
      BY <3>1, <3>2, <3>3 DEF LockFileIsOne
  <2>3. QED
    BY <2>1, <2>2
<1>6. QED
  BY <1>1, <1>2, <1>3, <1>4, <1>5 DEF LocksInv, Typed

LEMMA OpenFailsLocks == ASSUME LocksInv, Typed', NEW t \in Threads, OpenLockFails(t) PROVE LocksInv'
<1>1. Typed /\ RootIsReserved /\ LocksAreHeld /\ (disturbed \/ LockFileIsOne)
  BY DEF LocksInv, Typed
<1>2. /\ pc[t] = "open" /\ pc'[t] = "leave" /\ \A u \in Threads : u # t => pc'[u] = pc[u]
      /\ UNCHANGED <<exists, lockFiles, disturbed, heldBy, lockHolder, level, anchor>>
  BY <1>1 DEF OpenLockFails, Goto, Typed, BootstrapTypeOK, fsVars, lockVars
<1>3. RootIsReserved'
  BY <1>1, <1>2, ReservedStays DEF Past
<1>4. LocksAreHeld'
  BY <1>1, <1>2, HeldStays DEF Locked
<1>5. LockFileIsOne => LockFileIsOne'
  BY <1>2 DEF LockFileIsOne, Locked, Closest, DefaultAnchor
<1>6. QED
  BY <1>1, <1>2, <1>3, <1>4, <1>5 DEF LocksInv, Typed

\* The lock is taken, and given back.
LEMMA AcquireLocks == ASSUME LocksInv, Typed', NEW t \in Threads, AcquireLock(t) PROVE LocksInv'
<1>1. Typed /\ RootIsReserved /\ LocksAreHeld /\ (disturbed \/ LockFileIsOne)
  BY DEF LocksInv, Typed
<1>2. /\ pc[t] = "flock" /\ pc'[t] = "openRoot" /\ \A u \in Threads : u # t => pc'[u] = pc[u]
      /\ lockHolder[anchor[t]] = NoThread /\ anchor[t] \in Levels
      /\ lockHolder'[anchor[t]] = t
      /\ \A l \in Levels : l # anchor[t] => lockHolder'[l] = lockHolder[l]
      /\ UNCHANGED <<exists, lockFiles, disturbed, heldBy, level, anchor>>
  BY <1>1, RootAndDepth DEF AcquireLock, Goto, Typed, BootstrapTypeOK, fsVars
<1>3. RootIsReserved'
  BY <1>1, <1>2, ReservedStays DEF Past
<1>4. LocksAreHeld'
  <2>1. \A u \in Threads : pc[u] \in Locked => anchor[u] # anchor[t] /\ anchor[u] \in Levels
    BY <1>1, <1>2, RootAndDepth DEF LocksAreHeld, Typed, BootstrapTypeOK
  <2>2. \A u \in Threads : pc'[u] \in Locked => lockHolder'[anchor'[u]] = u
    BY <1>1, <1>2, <2>1 DEF LocksAreHeld, Locked
  <2>3. pc'[t] \in Locked /\ \A u \in Threads : pc[u] \in Locked => pc'[u] \in Locked
    BY <1>2 DEF Locked
  <2>4. \A l \in Levels : lockHolder[l] \in Threads \cup {NoThread}
    BY <1>1 DEF Typed, BootstrapTypeOK
  <2>5. \A l \in Levels : lockHolder'[l] # NoThread =>
           pc'[lockHolder'[l]] \in Locked /\ anchor'[lockHolder'[l]] = l
    BY <1>1, <1>2, <2>3, <2>4 DEF LocksAreHeld
  <2>6. QED
    BY <2>2, <2>5 DEF LocksAreHeld
<1>5. ASSUME LockFileIsOne PROVE LockFileIsOne'
  BY <1>2, <1>5 DEF LockFileIsOne, Locked
<1>6. QED
  BY <1>1, <1>2, <1>3, <1>4, <1>5 DEF LocksInv, Typed

LEMMA UnlockLocks == ASSUME LocksInv, Typed', NEW t \in Threads, Unlock(t) PROVE LocksInv'
<1>1. Typed /\ RootIsReserved /\ LocksAreHeld /\ (disturbed \/ LockFileIsOne)
  BY DEF LocksInv, Typed
<1>2. /\ pc[t] = "unlock" /\ pc'[t] = "leave" /\ \A u \in Threads : u # t => pc'[u] = pc[u]
      /\ anchor[t] \in Levels /\ lockHolder'[anchor[t]] = NoThread
      /\ \A l \in Levels : l # anchor[t] => lockHolder'[l] = lockHolder[l]
      /\ UNCHANGED <<exists, lockFiles, disturbed, heldBy, level, anchor>>
  BY <1>1, RootAndDepth DEF Unlock, Goto, Typed, BootstrapTypeOK, fsVars
<1>3. RootIsReserved'
  BY <1>1, <1>2, ReservedStays DEF Past
<1>4. LocksAreHeld'
  <2>1. \A u \in Threads : pc[u] \in Locked => lockHolder[anchor[u]] = u /\ anchor[u] \in Levels
    BY <1>1, RootAndDepth DEF LocksAreHeld, Typed, BootstrapTypeOK
  <2>2. pc[t] \in Locked /\ pc'[t] \notin Locked
    BY <1>2 DEF Locked
  <2>3. \A u \in Threads : pc'[u] \in Locked => lockHolder'[anchor'[u]] = u
    BY <1>2, <2>1, <2>2
  <2>4. \A l \in Levels : lockHolder[l] \in Threads \cup {NoThread}
    BY <1>1 DEF Typed, BootstrapTypeOK
  <2>5. \A l \in Levels : lockHolder'[l] # NoThread =>
           pc'[lockHolder'[l]] \in Locked /\ anchor'[lockHolder'[l]] = l
    BY <1>1, <1>2, <2>4 DEF LocksAreHeld
  <2>6. QED
    BY <2>3, <2>5 DEF LocksAreHeld
<1>5. LockFileIsOne => LockFileIsOne'
  BY <1>2 DEF LockFileIsOne, Locked
<1>6. QED
  BY <1>1, <1>2, <1>3, <1>4, <1>5 DEF LocksInv, Typed

LEMMA LeaveLocks == ASSUME LocksInv, Typed', NEW t \in Threads, Leave(t) PROVE LocksInv'
<1>1. Typed /\ RootIsReserved /\ LocksAreHeld /\ (disturbed \/ LockFileIsOne)
  BY DEF LocksInv, Typed
<1>2. /\ pc[t] = "leave" /\ pc'[t] = "done"
      /\ heldBy' = heldBy \ {ProcessOf[t]}
      /\ \A u \in Threads : u # t =>
            IF ProcessOf[u] = ProcessOf[t] /\ pc[u] = "asleep"
            THEN pc'[u] = "reserve" ELSE pc'[u] = pc[u]
      /\ UNCHANGED <<exists, lockFiles, disturbed, lockHolder, level, anchor>>
  BY <1>1 DEF Leave, NotifyAll, Typed, BootstrapTypeOK, fsVars
<1>3. RootIsReserved'
  <2>1. pc[t] \in Past
    BY <1>2 DEF Past
  <2>2. \A u \in Threads : pc'[u] \in Past => pc[u] \in Past /\ u # t
    BY <1>2 DEF Past
  <2>3. \A u \in Threads : pc'[u] \in Past => ProcessOf[u] # ProcessOf[t]
    BY <1>1, <2>1, <2>2 DEF RootIsReserved
  <2>4. \A u \in Threads : pc'[u] = "asleep" => pc[u] = "asleep" /\ ProcessOf[u] # ProcessOf[t]
    BY <1>2
  <2>5. \A u \in Threads : pc[u] \in Past /\ ProcessOf[u] # ProcessOf[t] => pc'[u] \in Past
    BY <1>2 DEF Past
  <2>6. \A p \in heldBy' : \E u \in Threads : pc'[u] \in Past /\ ProcessOf[u] = p
    BY <1>1, <1>2, <2>5 DEF RootIsReserved
  <2>7. QED
    BY <1>1, <1>2, <2>2, <2>3, <2>4, <2>6 DEF RootIsReserved
<1>4. LocksAreHeld'
  BY <1>1, <1>2, HeldStays DEF Locked
<1>5. LockFileIsOne => LockFileIsOne'
  BY <1>2 DEF LockFileIsOne, Locked, Closest, DefaultAnchor
<1>6. QED
  BY <1>1, <1>2, <1>3, <1>4, <1>5 DEF LocksInv, Typed

\* The locks of a process that is killed go with it.
LEMMA CrashLocks == ASSUME LocksInv, Typed', NEW p \in Processes, Crash(p) PROVE LocksInv'
<1> DEFINE victims == {t \in Threads : ProcessOf[t] = p /\ pc[t] \notin {"idle", "done"}}
<1>1. Typed /\ RootIsReserved /\ LocksAreHeld /\ (disturbed \/ LockFileIsOne)
  BY DEF LocksInv, Typed
<1>2. /\ heldBy' = heldBy \ {p}
      /\ lockHolder' = [l \in Levels |-> IF lockHolder[l] \in victims THEN NoThread
                                                                      ELSE lockHolder[l]]
      /\ pc' = [t \in Threads |-> IF t \in victims THEN "done" ELSE pc[t]]
      /\ UNCHANGED <<exists, lockFiles, disturbed, level, anchor>>
  BY DEF Crash, fsVars
<1>3. \A t \in Threads : /\ t \in victims => pc'[t] = "done" /\ ProcessOf[t] = p
                         /\ t \notin victims => pc'[t] = pc[t]
                         /\ ProcessOf[t] = p /\ t \notin victims => pc[t] \in {"idle", "done"}
  BY <1>2
<1>4. NoThread \notin victims /\ victims \subseteq Threads
  BY RootAndDepth
<1> HIDE DEF victims
<1>5. RootIsReserved'
  <2>1. \A t \in Threads : pc'[t] \in Past \cup {"asleep"} =>
           t \notin victims /\ pc'[t] = pc[t] /\ ProcessOf[t] # p
    BY <1>3 DEF Past
  <2>2. \A t \in Threads : pc[t] \in Past /\ ProcessOf[t] # p => pc'[t] \in Past
    BY <1>3
  <2>3. \A q \in heldBy' : \E t \in Threads : pc'[t] \in Past /\ ProcessOf[t] = q
    BY <1>1, <1>2, <2>2 DEF RootIsReserved
  <2>4. QED
    BY <1>1, <1>2, <2>1, <2>3 DEF RootIsReserved
<1>6. LocksAreHeld'
  <2>1. \A t \in Threads : pc'[t] \in Locked => t \notin victims /\ pc'[t] = pc[t]
    BY <1>3 DEF Locked
  <2>2. \A t \in Threads : anchor[t] \in Levels
    BY <1>1, RootAndDepth DEF Typed, BootstrapTypeOK
  <2>3. \A t \in Threads : pc'[t] \in Locked => lockHolder'[anchor'[t]] = t
    BY <1>1, <1>2, <2>1, <2>2 DEF LocksAreHeld
  <2>4. \A l \in Levels : lockHolder'[l] # NoThread =>
          lockHolder'[l] = lockHolder[l] /\ lockHolder[l] \notin victims /\ lockHolder[l] \in Threads
    BY <1>1, <1>2 DEF Typed, BootstrapTypeOK
  <2>5. \A l \in Levels : lockHolder'[l] # NoThread =>
           pc'[lockHolder'[l]] \in Locked /\ anchor'[lockHolder'[l]] = l
    BY <1>1, <1>2, <1>3, <2>4 DEF LocksAreHeld
  <2>6. QED
    BY <2>3, <2>5 DEF LocksAreHeld
<1>7. LockFileIsOne => LockFileIsOne'
  <2>1. \A t \in Threads : pc'[t] \in Locked \cup {"search", "open", "flock"} => pc'[t] = pc[t]
    BY <1>3 DEF Locked
  <2>2. QED
    BY <1>2, <2>1 DEF LockFileIsOne, Closest, DefaultAnchor
<1>8. QED
  BY <1>1, <1>2, <1>5, <1>6, <1>7 DEF LocksInv, Typed

\* Others disturb only who has looked and not made the lock file yet.
LEMMA OthersLocks == ASSUME LocksInv, Typed', OthersCome \/ OthersGo PROVE LocksInv'
<1>1. Typed /\ RootIsReserved /\ LocksAreHeld /\ (disturbed \/ LockFileIsOne)
  BY DEF LocksInv, Typed
<1>2. /\ UNCHANGED <<lockFiles, heldBy, lockHolder, pc, level, anchor>>
      /\ \/ disturbed' = (disturbed \/ \E t \in Threads : pc[t] \in {"search", "open"})
         \/ UNCHANGED <<exists, disturbed>>
  BY DEF OthersCome, OthersGo, Disturb, lockVars
<1>3. RootIsReserved'
  BY <1>1, <1>2, ReservedStays
<1>4. LocksAreHeld'
  BY <1>1, <1>2, HeldStays
<1>5. disturbed' \/ LockFileIsOne'
  <2>1. CASE disturbed' = (disturbed \/ \E t \in Threads : pc[t] \in {"search", "open"})
    BY <1>1, <1>2, <2>1 DEF LockFileIsOne
  <2>2. CASE UNCHANGED <<exists, disturbed>>
    BY <1>1, <1>2, <2>2 DEF LockFileIsOne, Closest, DefaultAnchor
  <2>3. QED
    BY <1>2, <2>1, <2>2
<1>6. QED
  BY <1>3, <1>4, <1>5 DEF LocksInv, Typed

LEMMA CreateLocks ==
    ASSUME LocksInv, Typed', NEW t \in Threads, CreateStep(t) \/ UndoStep(t)
    PROVE  LocksInv'
<1>1. Typed
  BY DEF LocksInv, Typed
<1>2. /\ pc[t] \in Locked /\ pc'[t] \in Locked
      /\ \A u \in Threads : u # t => pc'[u] = pc[u] /\ level'[u] = level[u]
      /\ UNCHANGED <<heldBy, lockHolder, anchor, lockFiles, disturbed>>
  <2>1. CASE CreateStep(t)
    <3>1. CASE OpenRoot(t) \/ EnterDirectory(t)
      BY <1>1, <3>1
      DEF OpenRoot, EnterDirectory, Goto, Locked, Typed, BootstrapTypeOK, fsVars, lockVars
    <3>2. CASE DirectoryFails(t) \/ DirectoriesDone(t) \/ FindFile(t) \/ CreateFile(t)
      BY <1>1, <3>2
      DEF DirectoryFails, DirectoriesDone, FindFile, CreateFile, Goto, Locked, Typed,
          BootstrapTypeOK, fsVars, lockVars
    <3>3. CASE CreateFails(t) \/ WriteFile(t) \/ WriteFails(t) \/ FilesDone(t)
      BY <1>1, <3>3
      DEF CreateFails, WriteFile, WriteFails, FilesDone, Goto, Locked, Typed, BootstrapTypeOK,
          fsVars, lockVars
    <3>4. QED
      BY <2>1, <3>1, <3>2, <3>3 DEF CreateStep
  <2>2. CASE UndoStep(t)
    <3>1. CASE Load(t) \/ UndoDone(t)
      BY <1>1, <3>1 DEF Load, UndoDone, Goto, Locked, Typed, BootstrapTypeOK, fsVars, lockVars
    <3>2. CASE UndoFile(t)
      BY <3>2 DEF UndoFile, Locked, lockVars
    <3>3. CASE UndoDirectory(t)
      BY <3>3 DEF UndoDirectory, Locked, lockVars
    <3>4. QED
      BY <2>2, <3>1, <3>2, <3>3 DEF UndoStep
  <2>3. QED
    BY <2>1, <2>2
<1>3. QED
  BY <1>2, LockedMoves

LEMMA LocksInitInv == BootstrapInit => LocksInv
<1> SUFFICES ASSUME BootstrapInit PROVE LocksInv
  OBVIOUS
<1>1. Typed
  BY TypedInit
<1>2. RootIsReserved
  BY DEF BootstrapInit, RootIsReserved, Past
<1>3. LocksAreHeld
  BY DEF BootstrapInit, LocksAreHeld, Locked
<1>4. LockFileIsOne
  BY DEF BootstrapInit, LockFileIsOne, Locked
<1>5. QED
  BY <1>1, <1>2, <1>3, <1>4 DEF LocksInv, Typed

LEMMA LocksStepInv == LocksInv /\ [BootstrapNext]_bootstrapVars => LocksInv'
<1> SUFFICES ASSUME LocksInv, [BootstrapNext]_bootstrapVars PROVE LocksInv'
  OBVIOUS
<1>1. Typed
  BY DEF LocksInv, Typed
<1>2. ASSUME NEW t \in Threads, Begin(t) \/ AttemptStep(t) PROVE LocksInv'
  <2>1. Typed'
    BY <1>1, <1>2, TypedLockStep, TypedCreateStep, TypedUndoStep DEF AttemptStep
  <2>2. CASE Begin(t) \/ LockStep(t)
    BY <2>1, <2>2, BeginLocks, ReserveLocks, LookLocks, OpenLocks, OpenFailsLocks, AcquireLocks,
       UnlockLocks, LeaveLocks DEF LockStep
  <2>3. CASE CreateStep(t) \/ UndoStep(t)
    BY <2>1, <2>3, CreateLocks
  <2>4. QED
    BY <1>2, <2>2, <2>3 DEF AttemptStep
<1>3. CASE OthersCome \/ OthersGo
  BY <1>1, <1>3, TypedOthers, OthersLocks
<1>4. ASSUME NEW p \in Processes, Crash(p) PROVE LocksInv'
  BY <1>1, <1>4, TypedOthers, CrashLocks
<1>5. CASE UNCHANGED bootstrapVars
  BY <1>5
  DEF bootstrapVars, fsVars, lockVars, reportVars, LocksInv, BootstrapTypeOK, PlacesAreSound,
      RootIsReserved, LocksAreHeld, LockFileIsOne, Closest, DefaultAnchor
<1>6. QED
  BY <1>2, <1>3, <1>4, <1>5 DEF BootstrapNext

\* Who has the locks is alone, for all have the lock of the one lock file.
LEMMA OneIsInside ==
    ASSUME LocksInv, ~disturbed
    PROVE  \A t, u \in Threads : pc[t] \in Locked /\ pc[u] \in Locked => t = u
<1>1. LocksAreHeld /\ LockFileIsOne
  BY DEF LocksInv
<1>2. ASSUME NEW t \in Threads, NEW u \in Threads, pc[t] \in Locked, pc[u] \in Locked
      PROVE  t = u
  <2>1. PICK a \in lockFiles : TRUE
    BY <1>1, <1>2 DEF LockFileIsOne
  <2>2. anchor[t] = a /\ anchor[u] = a
    BY <1>1, <1>2, <2>1 DEF LockFileIsOne
  <2>3. QED
    BY <1>1, <1>2, <2>2 DEF LocksAreHeld
<1>3. QED
  BY <1>2

-----------------------------------------------------------------------------
(***************************************************************************)
(* The files.                                                              *)
(***************************************************************************)

\* A file has been made by an attempt or by nobody of these.
LEMMA CreatorsAre ==
    ASSUME Typed
    PROVE  /\ \A f \in Files : creator[f] \in Threads \cup {NoThread}
           /\ \A t \in Threads : nextFile[t] \in Nat /\ created[t] \subseteq Files
           /\ NoThread \notin Threads
BY RootAndDepth DEF Typed, BootstrapTypeOK

\* Steps before the files and after them, and those of others.
LEMMA QuietFiles ==
    ASSUME Typed, FilesInv, disturbed => disturbed',
           UNCHANGED <<file, creator, created, nextFile, botched, result>>,
           \A u \in Threads : \/ pc'[u] = pc[u]
                              \/ pc'[u] \notin Begun /\ pc[u] \notin Begun
                              \/ pc'[u] \in Ended /\ pc[u] \in Ended
    PROVE  FilesInv'
<1>1. /\ ClaimsHold /\ AttemptsBeginAnew /\ FilesAreOwed /\ FailuresAreClean /\ HalvesAreKnown
      /\ disturbed \/ (FilesAreFound /\ LoadsAreSafe)
  BY DEF FilesInv
<1>2. \A u \in Threads : /\ pc'[u] \in Begun <=> pc[u] \in Begun
                         /\ pc'[u] \in Ended <=> pc[u] \in Ended
                         /\ pc'[u] = "writing" <=> pc[u] = "writing"
                         /\ pc'[u] = "undo" <=> pc[u] = "undo"
                         /\ pc'[u] = "loading" <=> pc[u] = "loading"
                         /\ pc'[u] \in {"files", "writing", "loading"} => pc'[u] = pc[u]
  BY DEF Begun, Ended
<1>3. \A u \in Threads, f \in Files : Claims(u, f)' <=> Claims(u, f)
  BY <1>2 DEF Claims
<1>4. ClaimsHold'
  BY <1>1, <1>2, <1>3 DEF ClaimsHold
<1>5. AttemptsBeginAnew'
  BY <1>1, <1>2 DEF AttemptsBeginAnew
<1>6. FilesAreOwed'
  BY <1>1, <1>3, CreatorsAre DEF FilesAreOwed
<1>7. FailuresAreClean'
  BY <1>1, <1>2 DEF FailuresAreClean
<1>8. HalvesAreKnown'
  BY <1>1, <1>2 DEF HalvesAreKnown, Leftover
<1>9. FilesAreFound => FilesAreFound'
  BY <1>2 DEF FilesAreFound, Leftover
<1>10. LoadsAreSafe => LoadsAreSafe'
  BY <1>2 DEF LoadsAreSafe
<1>11. QED
  BY <1>1, <1>4, <1>5, <1>6, <1>7, <1>8, <1>9, <1>10 DEF FilesInv

\* An attempt fails before it comes to its files.
LEMMA EarlyFailureFiles ==
    ASSUME Typed, FilesInv, NEW t \in Threads, pc[t] \notin Begun, pc'[t] \in Ended,
           \A u \in Threads : u # t => pc'[u] = pc[u],
           result' = [result EXCEPT ![t] = "failed"],
           UNCHANGED <<file, creator, created, nextFile, botched, disturbed>>
    PROVE  FilesInv'
<1>1. /\ ClaimsHold /\ AttemptsBeginAnew /\ FilesAreOwed /\ FailuresAreClean /\ HalvesAreKnown
      /\ disturbed \/ (FilesAreFound /\ LoadsAreSafe)
  BY DEF FilesInv
<1>2. /\ created[t] = {} /\ ~botched[t] /\ \A f \in Files : creator[f] # t
      /\ pc[t] # "writing" /\ pc'[t] # "writing" /\ pc'[t] \notin {"files", "loading", "undo"}
      /\ pc'[t] \in Begun
  BY <1>1 DEF AttemptsBeginAnew, Begun, Ended
<1>3. \A u \in Threads : u # t => result'[u] = result[u]
  BY DEF Typed, BootstrapTypeOK
<1>4. result'[t] = "failed"
  BY DEF Typed, BootstrapTypeOK
<1>5. \A u \in Threads, f \in Files : Claims(u, f)' <=> Claims(u, f)
  BY <1>2 DEF Claims
<1>6. ClaimsHold'
  BY <1>1, <1>2, <1>5 DEF ClaimsHold
<1>7. AttemptsBeginAnew'
  BY <1>1, <1>2, <1>3 DEF AttemptsBeginAnew
<1>8. FilesAreOwed'
  BY <1>1, <1>2, <1>3, <1>5, CreatorsAre DEF FilesAreOwed
<1>9. FailuresAreClean'
  BY <1>1, <1>2, <1>3 DEF FailuresAreClean
<1>10. HalvesAreKnown'
  BY <1>1, <1>2, <1>3 DEF HalvesAreKnown, Leftover
<1>11. \A f \in Files : file[f] = "partial" => (Leftover(f)' <=> Leftover(f))
  BY <1>1, <1>2, <1>3 DEF HalvesAreKnown, Leftover
<1>12. FilesAreFound => FilesAreFound'
  BY <1>2, <1>11 DEF FilesAreFound
<1>13. LoadsAreSafe => LoadsAreSafe'
  BY <1>2, <1>3, <1>4 DEF LoadsAreSafe
<1>14. QED
  BY <1>1, <1>6, <1>7, <1>8, <1>9, <1>10, <1>12, <1>13 DEF FilesInv

\* An attempt goes from one stage of its files to the next, or to its undoing.
LEMMA StageFiles ==
    ASSUME Typed, FilesInv, NEW t \in Threads,
           pc[t] \in {"dirs", "files", "loading"}, pc'[t] \in {"files", "loading", "undo"},
           pc'[t] = "loading" => pc[t] = "files" /\ nextFile[t] \notin Files,
           pc'[t] = "files" => pc[t] = "dirs",
           \A u \in Threads : u # t => pc'[u] = pc[u],
           UNCHANGED <<file, creator, created, nextFile, botched, result, disturbed>>
    PROVE  FilesInv'
<1>1. /\ ClaimsHold /\ AttemptsBeginAnew /\ FilesAreOwed /\ FailuresAreClean /\ HalvesAreKnown
      /\ disturbed \/ (FilesAreFound /\ LoadsAreSafe)
  BY DEF FilesInv
<1>2. /\ pc[t] # "writing" /\ pc'[t] # "writing" /\ pc[t] # "undo" /\ pc[t] \notin Ended
      /\ pc'[t] \notin Ended /\ pc'[t] \in Begun
  BY DEF Begun, Ended
<1>3. \A u \in Threads, f \in Files : Claims(u, f)' <=> Claims(u, f)
  BY <1>2 DEF Claims
<1>4. ClaimsHold'
  BY <1>1, <1>2, <1>3 DEF ClaimsHold
<1>5. AttemptsBeginAnew'
  BY <1>1, <1>2 DEF AttemptsBeginAnew
<1>6. FilesAreOwed'
  BY <1>1, <1>3, CreatorsAre DEF FilesAreOwed
<1>7. FailuresAreClean'
  BY <1>1, <1>2 DEF FailuresAreClean
<1>8. HalvesAreKnown'
  BY <1>1, <1>2 DEF HalvesAreKnown, Leftover
<1>9. FilesAreFound => FilesAreFound'
  <2>1. SUFFICES ASSUME FilesAreFound PROVE FilesAreFound'
    OBVIOUS
  <2>2. \A u \in Threads, f \in Files : u # t =>
          /\ pc'[u] \in {"files", "writing", "loading"} /\ f < nextFile'[u] =>
                file'[f] # "absent" /\ (file'[f] = "partial" => Leftover(f)')
          /\ pc'[u] = "loading" => f < nextFile'[u]
    BY <2>1 DEF FilesAreFound, Leftover
  <2>3. CASE pc'[t] = "files"
    <3>1. nextFile[t] = 1
      BY <1>1, <2>3 DEF AttemptsBeginAnew, Begun, Ended
    <3>2. \A f \in Files : ~(f < nextFile'[t])
      BY <3>1, RootAndDepth
    <3>3. QED
      BY <2>2, <2>3, <3>2 DEF FilesAreFound
  <2>4. CASE pc'[t] = "loading"
    <3>1. nextFile[t] \in 1..(NumFiles + 1)
      BY DEF Typed, BootstrapTypeOK
    <3>2. \A f \in Files : f < nextFile'[t]
      BY <2>4, <3>1, RootAndDepth
    <3>3. \A f \in Files : file'[f] # "absent" /\ (file'[f] = "partial" => Leftover(f)')
      BY <2>1, <2>4, <3>2 DEF FilesAreFound, Leftover
    <3>4. QED
      BY <2>2, <3>2, <3>3 DEF FilesAreFound
  <2>5. CASE pc'[t] = "undo"
    BY <2>2, <2>5 DEF FilesAreFound
  <2>6. QED
    BY <2>3, <2>4, <2>5
<1>10. LoadsAreSafe => LoadsAreSafe'
  BY <1>2 DEF LoadsAreSafe
<1>11. QED
  BY <1>1, <1>4, <1>5, <1>6, <1>7, <1>8, <1>9, <1>10 DEF FilesInv

LEMMA FindFileFiles ==
    ASSUME Typed, LocksInv, FilesInv, NEW t \in Threads, FindFile(t) PROVE FilesInv'
<1>1. /\ ClaimsHold /\ AttemptsBeginAnew /\ FilesAreOwed /\ FailuresAreClean /\ HalvesAreKnown
      /\ disturbed \/ (FilesAreFound /\ LoadsAreSafe)
  BY DEF FilesInv
<1>2. /\ pc[t] = "files" /\ nextFile[t] \in Files /\ file[nextFile[t]] # "absent"
      /\ nextFile'[t] = nextFile[t] + 1
      /\ \A u \in Threads : u # t => nextFile'[u] = nextFile[u]
      /\ UNCHANGED <<file, creator, disturbed, pc, result, created, botched>>
  BY DEF FindFile, Typed, BootstrapTypeOK, fsVars
<1>3. \A u \in Threads, f \in Files : Claims(u, f)' <=> Claims(u, f)
  BY <1>2 DEF Claims
<1>4. ClaimsHold'
  BY <1>1, <1>2, <1>3 DEF ClaimsHold
<1>5. AttemptsBeginAnew'
  BY <1>1, <1>2 DEF AttemptsBeginAnew, Begun
<1>6. FilesAreOwed'
  BY <1>1, <1>2, <1>3, CreatorsAre DEF FilesAreOwed
<1>7. FailuresAreClean'
  BY <1>1, <1>2 DEF FailuresAreClean
<1>8. HalvesAreKnown'
  BY <1>1, <1>2 DEF HalvesAreKnown, Leftover
<1>9. ASSUME ~disturbed, FilesAreFound PROVE FilesAreFound'
  <2>1. file[nextFile[t]] = "partial" => Leftover(nextFile[t])
    <3>1. SUFFICES ASSUME file[nextFile[t]] = "partial", ~Leftover(nextFile[t]) PROVE FALSE
      OBVIOUS
    <3>2. creator[nextFile[t]] \in Threads /\ pc[creator[nextFile[t]]] \in {"writing", "undo"}
      BY <1>1, <1>2, <3>1 DEF HalvesAreKnown
    <3>3. creator[nextFile[t]] = t
      BY <1>2, <1>9, <3>2, OneIsInside DEF Locked
    <3>4. QED
      BY <1>2, <3>2, <3>3
  <2>2. \A f \in Files : f < nextFile[t] + 1 => f < nextFile[t] \/ f = nextFile[t]
    BY <1>2, RootAndDepth
  <2>3. QED
    BY <1>2, <1>9, <2>1, <2>2 DEF FilesAreFound, Leftover
<1>10. LoadsAreSafe => LoadsAreSafe'
  BY <1>2 DEF LoadsAreSafe
<1>11. QED
  BY <1>1, <1>2, <1>4, <1>5, <1>6, <1>7, <1>8, <1>9, <1>10 DEF FilesInv

\* What nobody claims is made and claimed.
LEMMA CreateFileFiles ==
    ASSUME Typed, LocksInv, FilesInv, NEW t \in Threads, CreateFile(t) PROVE FilesInv'
<1> DEFINE n == nextFile[t]
<1>1. /\ ClaimsHold /\ AttemptsBeginAnew /\ FilesAreOwed /\ FailuresAreClean /\ HalvesAreKnown
      /\ disturbed \/ (FilesAreFound /\ LoadsAreSafe)
  BY DEF FilesInv
<1>2. /\ pc[t] = "files" /\ n \in Files /\ file[n] = "absent"
      /\ file'[n] = "partial" /\ creator'[n] = t
      /\ \A f \in Files : f # n => file'[f] = file[f] /\ creator'[f] = creator[f]
      /\ pc'[t] = "writing" /\ \A u \in Threads : u # t => pc'[u] = pc[u]
      /\ UNCHANGED <<disturbed, result, created, nextFile, botched>>
  BY DEF CreateFile, Goto, Typed, BootstrapTypeOK, reportVars
<1>3. result[t] = "none"
  BY <1>1, <1>2 DEF AttemptsBeginAnew, Ended
<1>4. \A u \in Threads : ~Claims(u, n)
  BY <1>1, <1>2 DEF ClaimsHold
<1>5. \A u \in Threads, f \in Files : Claims(u, f)' <=> Claims(u, f) \/ (u = t /\ f = n)
  BY <1>2 DEF Claims
<1>6. ClaimsHold'
  <2>1. n \notin created[t]
    BY <1>4 DEF Claims
  <2>2. \A u \in Threads : pc'[u] = "writing" => nextFile'[u] \notin created'[u]
    BY <1>1, <1>2, <2>1 DEF ClaimsHold
  <2>3. QED
    BY <1>1, <1>2, <1>4, <1>5, <2>2 DEF ClaimsHold
<1>7. AttemptsBeginAnew'
  BY <1>1, <1>2, <1>3 DEF AttemptsBeginAnew, Begun, Ended
<1>8. FilesAreOwed'
  BY <1>1, <1>2, <1>5, CreatorsAre DEF FilesAreOwed
<1>9. FailuresAreClean'
  BY <1>1, <1>2, <1>3 DEF FailuresAreClean
<1>10. HalvesAreKnown'
  BY <1>1, <1>2 DEF HalvesAreKnown, Leftover
<1>11. ASSUME ~disturbed, FilesAreFound PROVE FilesAreFound'
  <2>1. \A f \in Files : f # n => (Leftover(f)' <=> Leftover(f))
    BY <1>2 DEF Leftover
  <2>2. \A u \in Threads : u # t => pc'[u] \notin {"files", "writing", "loading"}
    BY <1>2, <1>11, OneIsInside DEF Locked
  <2>3. \A f \in Files : f < n => f # n
    BY <1>2, RootAndDepth
  <2>4. QED
    BY <1>2, <1>11, <2>1, <2>2, <2>3 DEF FilesAreFound
<1>12. ASSUME LoadsAreSafe PROVE LoadsAreSafe'
  BY <1>2, <1>12 DEF LoadsAreSafe
<1>13. QED
  BY <1>1, <1>2, <1>6, <1>7, <1>8, <1>9, <1>10, <1>11, <1>12 DEF FilesInv

LEMMA WriteFileFiles ==
    ASSUME Typed, LocksInv, FilesInv, NEW t \in Threads, WriteFile(t) PROVE FilesInv'
<1> DEFINE n == nextFile[t]
<1>1. /\ ClaimsHold /\ AttemptsBeginAnew /\ FilesAreOwed /\ FailuresAreClean /\ HalvesAreKnown
      /\ disturbed \/ (FilesAreFound /\ LoadsAreSafe)
  BY DEF FilesInv
<1>2. n \in Files /\ pc[t] = "writing"
  BY DEF WriteFile, Typed, PlacesAreSound
<1>3. /\ file'[n] = "whole" /\ \A f \in Files : f # n => file'[f] = file[f]
      /\ created'[t] = created[t] \cup {n} /\ nextFile'[t] = n + 1
      /\ \A u \in Threads : u # t => pc'[u] = pc[u] /\ created'[u] = created[u] /\ nextFile'[u] = nextFile[u]
      /\ pc'[t] = "files"
      /\ UNCHANGED <<creator, disturbed, result, botched>>
  BY <1>2 DEF WriteFile, Goto, Typed, BootstrapTypeOK
<1>4. Claims(t, n) /\ creator[n] = t /\ file[n] # "absent" /\ result[t] = "none"
  BY <1>1, <1>2 DEF Claims, ClaimsHold, AttemptsBeginAnew, Ended
<1>5. \A u \in Threads, f \in Files : Claims(u, f)' <=> Claims(u, f)
  BY <1>2, <1>3 DEF Claims
<1>6. ClaimsHold'
  BY <1>1, <1>3, <1>5 DEF ClaimsHold
<1>7. AttemptsBeginAnew'
  BY <1>1, <1>2, <1>3, <1>4 DEF AttemptsBeginAnew, Begun, Ended
<1>8. FilesAreOwed'
  BY <1>1, <1>3, <1>4, <1>5, CreatorsAre DEF FilesAreOwed
<1>9. FailuresAreClean'
  BY <1>1, <1>3, <1>4 DEF FailuresAreClean
<1>10. HalvesAreKnown'
  BY <1>1, <1>2, <1>3, <1>4 DEF HalvesAreKnown, Leftover
<1>11. ASSUME ~disturbed, FilesAreFound PROVE FilesAreFound'
  <2>1. \A f \in Files : Leftover(f)' <=> Leftover(f)
    BY <1>3 DEF Leftover
  <2>2. \A u \in Threads : u # t => pc'[u] \notin {"files", "writing", "loading"}
    BY <1>2, <1>3, <1>11, OneIsInside DEF Locked
  <2>3. \A f \in Files : f < n + 1 => f < n \/ f = n
    BY <1>2, RootAndDepth
  <2>4. QED
    BY <1>2, <1>3, <1>11, <2>1, <2>2, <2>3 DEF FilesAreFound
<1>12. ASSUME LoadsAreSafe PROVE LoadsAreSafe'
  BY <1>2, <1>3, <1>12 DEF LoadsAreSafe, Ended
<1>13. QED
  BY <1>1, <1>3, <1>6, <1>7, <1>8, <1>9, <1>10, <1>11, <1>12 DEF FilesInv

\* An attempt removes a file that it claims, or fails to; nobody else claims that one.
LEMMA RemovalFiles ==
    ASSUME Typed, LocksInv, FilesInv, NEW t \in Threads, NEW n \in Files,
           pc[t] \in {"writing", "undo"}, Claims(t, n), pc'[t] = "undo",
           \A u \in Threads : u # t => pc'[u] = pc[u] /\ created'[u] = created[u]
                                       /\ botched'[u] = botched[u],
           created'[t] = created[t] \ {n} \/ (pc[t] = "writing" /\ n = nextFile[t] /\ created'[t] = created[t]),
           pc[t] = "writing" => n = nextFile[t],
           \A f \in Files : f # n => file'[f] = file[f],
           \/ file'[n] = "absent" /\ botched' = botched
           \/ file'[n] = file[n] /\ botched'[t] = TRUE,
           UNCHANGED <<creator, nextFile, result, disturbed>>
    PROVE  FilesInv'
<1>1. /\ ClaimsHold /\ AttemptsBeginAnew /\ FilesAreOwed /\ FailuresAreClean /\ HalvesAreKnown
      /\ disturbed \/ (FilesAreFound /\ LoadsAreSafe)
  BY DEF FilesInv
<1>2. /\ creator[n] = t /\ file[n] # "absent" /\ result[t] = "none" /\ pc[t] \in Begun
  BY <1>1 DEF ClaimsHold, AttemptsBeginAnew, Begun, Ended
<1>3. \A u \in Threads, f \in Files : /\ Claims(u, f)' => Claims(u, f)
                                      /\ f # n => (Claims(u, f)' <=> Claims(u, f))
  BY DEF Claims
<1>4. \A u \in Threads : u # t => ~Claims(u, n)
  BY <1>1, <1>2 DEF ClaimsHold
<1>5. ClaimsHold'
  <2>1. ~Claims(t, n)'
    BY <1>1 DEF Claims, ClaimsHold
  <2>2. QED
    BY <1>1, <1>3, <1>4, <2>1 DEF ClaimsHold
<1>6. AttemptsBeginAnew'
  BY <1>1, <1>2 DEF AttemptsBeginAnew, Begun, Ended
<1>7. FilesAreOwed'
  BY <1>1, <1>2, <1>3, CreatorsAre DEF FilesAreOwed
<1>8. FailuresAreClean'
  BY <1>1, <1>2 DEF FailuresAreClean
<1>9. HalvesAreKnown'
  BY <1>1, <1>2 DEF HalvesAreKnown, Leftover
<1>10. ASSUME ~disturbed, FilesAreFound PROVE FilesAreFound'
  <2>1. \A u \in Threads : pc'[u] \notin {"files", "writing", "loading"}
    BY <1>10, OneIsInside DEF Locked
  <2>2. QED
    BY <2>1 DEF FilesAreFound
<1>11. ASSUME LoadsAreSafe PROVE LoadsAreSafe'
  <2>1. \A u \in Threads : result[u] # "ok"
    BY <1>11 DEF LoadsAreSafe, Claims, Ended
  <2>2. QED
    BY <2>1 DEF LoadsAreSafe
<1>12. QED
  BY <1>1, <1>5, <1>6, <1>7, <1>8, <1>9, <1>10, <1>11 DEF FilesInv

\* A load that succeeds has found every file.
LEMMA LoadFiles ==
    ASSUME Typed, LocksInv, FilesInv, NEW t \in Threads, pc[t] = "loading", pc'[t] = "unlock",
           \A u \in Threads : u # t => pc'[u] = pc[u],
           result' = [result EXCEPT ![t] = "ok"],
           UNCHANGED <<file, creator, created, nextFile, botched, disturbed>>
    PROVE  FilesInv'
<1>1. /\ ClaimsHold /\ AttemptsBeginAnew /\ FilesAreOwed /\ FailuresAreClean /\ HalvesAreKnown
      /\ disturbed \/ (FilesAreFound /\ LoadsAreSafe)
  BY DEF FilesInv
<1>2. /\ \A u \in Threads : u # t => result'[u] = result[u]
      /\ result'[t] = "ok" /\ result[t] = "none" /\ pc'[t] \in Ended /\ pc'[t] \in Begun
      /\ pc'[t] \notin {"files", "writing", "loading", "undo"}
  BY <1>1 DEF AttemptsBeginAnew, Begun, Ended, Typed, BootstrapTypeOK
<1>3. \A u \in Threads, f \in Files : Claims(u, f)' <=> Claims(u, f)
  BY DEF Claims
<1>4. ClaimsHold'
  BY <1>1, <1>2, <1>3 DEF ClaimsHold
<1>5. AttemptsBeginAnew'
  BY <1>1, <1>2 DEF AttemptsBeginAnew
<1>6. FilesAreOwed'
  BY <1>1, <1>2, <1>3, CreatorsAre DEF FilesAreOwed
<1>7. FailuresAreClean'
  BY <1>1, <1>2 DEF FailuresAreClean
<1>8. \A f \in Files : file[f] = "partial" /\ Leftover(f) => creator[f] # t
  BY <1>2 DEF Leftover
<1>9. HalvesAreKnown'
  BY <1>1, <1>2 DEF HalvesAreKnown, Leftover
<1>10. FilesAreFound => FilesAreFound'
  <2>1. \A f \in Files : file[f] = "partial" /\ Leftover(f) => Leftover(f)'
    BY <1>1, <1>2, <1>8 DEF Leftover, HalvesAreKnown
  <2>2. QED
    BY <1>2, <2>1 DEF FilesAreFound
<1>11. ASSUME ~disturbed, FilesAreFound, LoadsAreSafe PROVE LoadsAreSafe'
  <2>1. \A f \in Files : file[f] # "absent"
    BY <1>11 DEF FilesAreFound
  <2>2. ASSUME NEW u \in Threads, pc'[u] \notin Ended PROVE created[u] = {} /\ pc'[u] # "writing"
    <3>1. u # t /\ pc'[u] = pc[u]
      BY <1>2, <2>2
    <3>2. pc[u] \notin {"files", "writing", "loading", "undo"}
      BY <1>11, <3>1, OneIsInside DEF Locked
    <3>3. pc[u] \notin Begun
      BY <2>2, <3>1, <3>2 DEF Begun
    <3>4. QED
      BY <1>1, <3>1, <3>2, <3>3 DEF AttemptsBeginAnew
  <2>3. QED
    BY <2>1, <2>2 DEF LoadsAreSafe
<1>12. QED
  BY <1>1, <1>4, <1>5, <1>6, <1>7, <1>9, <1>10, <1>11 DEF FilesInv

\* A removal of a directory that fails.
LEMMA BotchFiles ==
    ASSUME Typed, FilesInv, NEW t \in Threads, pc[t] = "undo",
           botched' = [botched EXCEPT ![t] = TRUE],
           UNCHANGED <<file, creator, created, nextFile, pc, result, disturbed>>
    PROVE  FilesInv'
<1>1. /\ ClaimsHold /\ AttemptsBeginAnew /\ FilesAreOwed /\ FailuresAreClean /\ HalvesAreKnown
      /\ disturbed \/ (FilesAreFound /\ LoadsAreSafe)
  BY DEF FilesInv
<1>2. /\ botched'[t] = TRUE /\ \A u \in Threads : u # t => botched'[u] = botched[u]
      /\ pc[t] \in Begun /\ result[t] = "none"
  BY <1>1 DEF Begun, Ended, AttemptsBeginAnew, Typed, BootstrapTypeOK
<1>3. \A u \in Threads, f \in Files : Claims(u, f)' <=> Claims(u, f)
  BY DEF Claims
<1>4. ClaimsHold' /\ (FilesAreFound => FilesAreFound') /\ (LoadsAreSafe => LoadsAreSafe')
  BY <1>1, <1>3 DEF ClaimsHold, FilesAreFound, LoadsAreSafe, Leftover
<1>5. AttemptsBeginAnew'
  BY <1>1, <1>2 DEF AttemptsBeginAnew
<1>6. FilesAreOwed'
  BY <1>1, <1>2, <1>3, CreatorsAre DEF FilesAreOwed
<1>7. FailuresAreClean'
  BY <1>1, <1>2 DEF FailuresAreClean
<1>8. HalvesAreKnown'
  BY <1>1, <1>2 DEF HalvesAreKnown, Leftover
<1>9. QED
  BY <1>1, <1>4, <1>5, <1>6, <1>7, <1>8 DEF FilesInv

LEMMA UndoDoneFiles ==
    ASSUME Typed, FilesInv, NEW t \in Threads, UndoDone(t) PROVE FilesInv'
<1>1. /\ ClaimsHold /\ AttemptsBeginAnew /\ FilesAreOwed /\ FailuresAreClean /\ HalvesAreKnown
      /\ disturbed \/ (FilesAreFound /\ LoadsAreSafe)
  BY DEF FilesInv
<1>2. /\ pc[t] = "undo" /\ created[t] = {} /\ pc'[t] = "unlock"
      /\ result'[t] = IF botched[t] THEN "rollbackFailed" ELSE "failed"
      /\ \A u \in Threads : u # t => pc'[u] = pc[u] /\ result'[u] = result[u]
      /\ UNCHANGED <<file, creator, created, nextFile, botched, disturbed>>
  BY DEF UndoDone, Goto, Typed, BootstrapTypeOK, fsVars, reportVars
<1>3. /\ pc'[t] \in Ended /\ pc'[t] \in Begun /\ pc'[t] \notin {"files", "writing", "loading", "undo"}
      /\ result[t] = "none" /\ pc[t] \in Begun
  BY <1>1, <1>2 DEF Begun, Ended, AttemptsBeginAnew
<1>4. \A u \in Threads, f \in Files : Claims(u, f)' <=> Claims(u, f)
  BY <1>2 DEF Claims
<1>5. \A f \in Files : ~Claims(t, f)
  BY <1>2 DEF Claims
<1>6. ClaimsHold'
  BY <1>1, <1>2, <1>3, <1>4 DEF ClaimsHold
<1>7. AttemptsBeginAnew'
  BY <1>1, <1>2, <1>3 DEF AttemptsBeginAnew
<1>8. FilesAreOwed'
  BY <1>1, <1>2, <1>3, <1>4, <1>5, CreatorsAre DEF FilesAreOwed
<1>9. FailuresAreClean'
  BY <1>1, <1>2, <1>3 DEF FailuresAreClean
<1>10. HalvesAreKnown'
  BY <1>1, <1>2, <1>3 DEF HalvesAreKnown, Leftover
<1>11. \A f \in Files : file[f] = "partial" /\ Leftover(f) => Leftover(f)'
  BY <1>1, <1>2, <1>3 DEF Leftover, HalvesAreKnown
<1>12. FilesAreFound => FilesAreFound'
  BY <1>2, <1>3, <1>11 DEF FilesAreFound
<1>13. LoadsAreSafe => LoadsAreSafe'
  BY <1>2, <1>3 DEF LoadsAreSafe
<1>14. QED
  BY <1>1, <1>2, <1>6, <1>7, <1>8, <1>9, <1>10, <1>12, <1>13 DEF FilesInv

\* Who is killed leaves what was made.
LEMMA CrashFiles == ASSUME Typed, FilesInv, NEW p \in Processes, Crash(p) PROVE FilesInv'
<1> DEFINE victims == {t \in Threads : ProcessOf[t] = p /\ pc[t] \notin {"idle", "done"}}
<1>1. /\ ClaimsHold /\ AttemptsBeginAnew /\ FilesAreOwed /\ FailuresAreClean /\ HalvesAreKnown
      /\ disturbed \/ (FilesAreFound /\ LoadsAreSafe)
  BY DEF FilesInv
<1>2. /\ \A t \in Threads : pc'[t] = IF t \in victims THEN "done" ELSE pc[t]
      /\ \A t \in Threads : result'[t] = IF t \in victims /\ result[t] = "none"
                                         THEN "crashed" ELSE result[t]
      /\ UNCHANGED <<file, creator, created, nextFile, botched, disturbed>>
  BY DEF Crash, fsVars, reportVars
<1> HIDE DEF victims
<1>3. \A t \in Threads : pc'[t] \notin Ended => t \notin victims /\ pc'[t] = pc[t]
  BY <1>2 DEF Ended
<1>4. \A t \in Threads : pc'[t] \in {"files", "writing", "loading", "undo"} =>
         t \notin victims /\ pc'[t] = pc[t]
  BY <1>2
<1>5. \A t \in Threads : pc[t] \notin Ended => result[t] = "none"
  BY <1>1 DEF AttemptsBeginAnew
<1>6. \A t \in Threads, f \in Files :
         /\ Claims(t, f)' => Claims(t, f)
         /\ Claims(t, f) => Claims(t, f)' \/ (t \in victims /\ pc[t] = "writing")
  BY <1>2 DEF Claims
<1>7. ClaimsHold'
  BY <1>1, <1>2, <1>4, <1>6 DEF ClaimsHold
<1>8. AttemptsBeginAnew'
  <2>1. \A t \in Threads : pc'[t] \notin Begun => t \notin victims /\ pc'[t] = pc[t]
    BY <1>2 DEF Begun, Ended
  <2>2. QED
    BY <1>1, <1>2, <1>3, <2>1 DEF AttemptsBeginAnew
<1>9. FilesAreOwed'
  <2>1. \A t \in Threads : result[t] \in {"ok", "crashed", "rollbackFailed"} => result'[t] = result[t]
    BY <1>2
  <2>2. \A t \in Threads : t \in victims /\ pc[t] = "writing" => result'[t] = "crashed"
    BY <1>2, <1>5 DEF Ended
  <2>3. QED
    BY <1>1, <1>2, <1>6, <2>1, <2>2, CreatorsAre DEF FilesAreOwed
<1>10. FailuresAreClean'
  BY <1>1, <1>2 DEF FailuresAreClean
<1>11. \A f \in Files : Leftover(f) /\ creator[f] \in Threads => Leftover(f)'
  BY <1>2 DEF Leftover
<1>12. HalvesAreKnown'
  <2>1. \A t \in Threads : t \in victims /\ pc[t] \in {"writing", "undo"} => result'[t] = "crashed"
    BY <1>2, <1>5 DEF Ended
  <2>2. QED
    BY <1>1, <1>2, <1>11, <2>1 DEF HalvesAreKnown, Leftover
<1>13. FilesAreFound => FilesAreFound'
  <2>1. \A f \in Files : file[f] = "partial" => creator[f] \in Threads
    BY <1>1 DEF HalvesAreKnown
  <2>2. QED
    BY <1>2, <1>4, <1>11, <2>1 DEF FilesAreFound
<1>14. LoadsAreSafe => LoadsAreSafe'
  BY <1>2, <1>3 DEF LoadsAreSafe
<1>15. QED
  BY <1>1, <1>2, <1>7, <1>8, <1>9, <1>10, <1>12, <1>13, <1>14 DEF FilesInv

\* The files that go are one that was being written, or one an attempt undoes.
LEMMA RemovalIsByClaim ==
    ASSUME Typed, LocksInv, FilesInv, NEW t \in Threads, WriteFails(t) \/ UndoFile(t)
    PROVE  \E n \in Files :
              /\ pc[t] \in {"writing", "undo"} /\ Claims(t, n)
              /\ \A f \in Files : f # n => file'[f] = file[f]
              /\ FilesInv'
<1>1. CASE WriteFails(t)
  <2> DEFINE n == nextFile[t]
  <2>1. n \in Files /\ pc[t] = "writing" /\ Claims(t, n)
    BY <1>1 DEF WriteFails, Typed, PlacesAreSound, Claims
  <2>2. /\ pc'[t] = "undo" /\ \A u \in Threads : u # t => pc'[u] = pc[u]
        /\ \A f \in Files : f # n => file'[f] = file[f]
        /\ \/ file'[n] = "absent" /\ botched' = botched
           \/ file'[n] = file[n] /\ botched' = [botched EXCEPT ![t] = TRUE]
        /\ UNCHANGED <<creator, disturbed, result, created, nextFile>>
    BY <1>1, <2>1 DEF WriteFails, Goto, Typed, BootstrapTypeOK
  <2>3. \/ file'[n] = "absent" /\ botched' = botched
        \/ file'[n] = file[n] /\ botched'[t] = TRUE
    BY <2>2 DEF Typed, BootstrapTypeOK
  <2>4. \A u \in Threads : u # t => botched'[u] = botched[u]
    BY <2>2 DEF Typed, BootstrapTypeOK
  <2> HIDE DEF n
  <2>5. n = nextFile[t]
    BY DEF n
  <2>6. FilesInv'
    BY <2>1, <2>2, <2>3, <2>4, <2>5, RemovalFiles
  <2>7. QED
    BY <2>1, <2>2, <2>6
<1>2. CASE UndoFile(t)
  <2> DEFINE n == Max(created[t])
  <2>1. created[t] \in SUBSET Files /\ created[t] # {}
    BY <1>2 DEF UndoFile, Typed, BootstrapTypeOK
  <2>2. n \in created[t] /\ n \in Files
    BY <2>1, LastFile
  <2>3. /\ pc[t] = "undo" /\ created' = [created EXCEPT ![t] = created[t] \ {n}]
        /\ \/ file' = [file EXCEPT ![n] = "absent"] /\ botched' = botched
           \/ file' = file /\ botched' = [botched EXCEPT ![t] = TRUE]
        /\ UNCHANGED <<creator, disturbed, pc, result, nextFile>>
    BY <1>2 DEF UndoFile
  <2> HIDE DEF n
  <2>4. /\ created'[t] = created[t] \ {n}
        /\ \A u \in Threads : u # t => created'[u] = created[u] /\ botched'[u] = botched[u]
        /\ \A f \in Files : f # n => file'[f] = file[f]
        /\ \/ file'[n] = "absent" /\ botched' = botched
           \/ file'[n] = file[n] /\ botched'[t] = TRUE
    BY <2>2, <2>3 DEF Typed, BootstrapTypeOK
  <2>5. Claims(t, n)
    BY <2>2 DEF Claims
  <2>6. FilesInv'
    BY <2>2, <2>3, <2>4, <2>5, RemovalFiles
  <2>7. QED
    BY <2>2, <2>3, <2>4, <2>5, <2>6
<1>3. QED
  BY <1>1, <1>2

LEMMA AttemptFiles ==
    ASSUME Typed, LocksInv, FilesInv, NEW t \in Threads, Begin(t) \/ AttemptStep(t)
    PROVE  FilesInv'
<1>1. CASE Begin(t) \/ LockStep(t)
  <2>1. CASE OpenLockFails(t)
    <3>1. /\ pc[t] \notin Begun /\ pc'[t] \in Ended /\ \A u \in Threads : u # t => pc'[u] = pc[u]
          /\ result' = [result EXCEPT ![t] = "failed"]
          /\ UNCHANGED <<file, creator, created, nextFile, botched, disturbed>>
      BY <2>1
      DEF OpenLockFails, Goto, Begun, Ended, Typed, BootstrapTypeOK, fsVars, reportVars
    <3>2. QED
      BY <3>1, EarlyFailureFiles
  <2>2. CASE ~OpenLockFails(t)
    <3>1. UNCHANGED <<file, creator, created, nextFile, botched, result, disturbed>>
      BY <1>1, <2>2
      DEF LockStep, Begin, Reserve, LookForClosest, ChooseAnchor, OpenLockFile, AcquireLock, Unlock,
          Leave, fsVars, reportVars
    <3>2. \A u \in Threads : \/ pc'[u] = pc[u]
                             \/ pc'[u] \notin Begun /\ pc[u] \notin Begun
                             \/ pc'[u] \in Ended /\ pc[u] \in Ended
      <4>1. CASE Leave(t)
        BY <4>1 DEF Leave, NotifyAll, Begun, Ended
      <4>2. CASE ~Leave(t)
        BY <1>1, <2>2, <4>2
        DEF LockStep, Begin, Reserve, LookForClosest, ChooseAnchor, OpenLockFile, AcquireLock,
            Unlock, Goto, Begun, Ended, Typed, BootstrapTypeOK
      <4>3. QED
        BY <4>1, <4>2
    <3>3. QED
      BY <3>1, <3>2, QuietFiles
  <2>3. QED
    BY <2>1, <2>2
<1>2. CASE OpenRoot(t) \/ EnterDirectory(t)
  <2>1. /\ UNCHANGED <<file, creator, created, nextFile, botched, result, disturbed>>
        /\ \A u \in Threads : pc'[u] = pc[u] \/ (pc'[u] \notin Begun /\ pc[u] \notin Begun)
    BY <1>2
    DEF OpenRoot, EnterDirectory, Goto, Begun, Ended, Typed, BootstrapTypeOK, fsVars, reportVars
  <2>2. QED
    BY <2>1, QuietFiles
<1>3. CASE DirectoryFails(t)
  <2>1. /\ pc[t] = "dirs" /\ \A u \in Threads : u # t => pc'[u] = pc[u]
        /\ \/ pc'[t] = "unlock" /\ result' = [result EXCEPT ![t] = "failed"]
           \/ pc'[t] = "undo" /\ result' = result
        /\ UNCHANGED <<file, creator, created, nextFile, botched, disturbed>>
    BY <1>3 DEF DirectoryFails, Goto, Typed, BootstrapTypeOK, fsVars, reportVars
  <2>2. CASE pc'[t] = "unlock" /\ result' = [result EXCEPT ![t] = "failed"]
    BY <2>1, <2>2, EarlyFailureFiles DEF Begun, Ended
  <2>3. CASE pc'[t] = "undo" /\ result' = result
    BY <2>1, <2>3, StageFiles
  <2>4. QED
    BY <2>1, <2>2, <2>3
<1>4. CASE DirectoriesDone(t) \/ CreateFails(t) \/ FilesDone(t)
  <2>1. /\ pc[t] \in {"dirs", "files", "loading"} /\ pc'[t] \in {"files", "loading", "undo"}
        /\ pc'[t] = "loading" => pc[t] = "files" /\ nextFile[t] \notin Files
        /\ pc'[t] = "files" => pc[t] = "dirs"
        /\ \A u \in Threads : u # t => pc'[u] = pc[u]
        /\ UNCHANGED <<file, creator, created, nextFile, botched, result, disturbed>>
    BY <1>4
    DEF DirectoriesDone, CreateFails, FilesDone, Goto, Typed, BootstrapTypeOK, fsVars, reportVars
  <2>2. QED
    BY <2>1, StageFiles
<1>5. CASE Load(t)
  <2>1. /\ pc[t] = "loading" /\ \A u \in Threads : u # t => pc'[u] = pc[u]
        /\ \/ pc'[t] = "unlock" /\ result' = [result EXCEPT ![t] = "ok"]
           \/ pc'[t] = "undo" /\ result' = result
        /\ UNCHANGED <<file, creator, created, nextFile, botched, disturbed>>
    BY <1>5 DEF Load, Goto, Typed, BootstrapTypeOK, fsVars, reportVars
  <2>2. CASE pc'[t] = "unlock" /\ result' = [result EXCEPT ![t] = "ok"]
    BY <2>1, <2>2, LoadFiles
  <2>3. CASE pc'[t] = "undo" /\ result' = result
    BY <2>1, <2>3, StageFiles
  <2>4. QED
    BY <2>1, <2>2, <2>3
<1>6. CASE UndoDirectory(t)
  <2>1. /\ pc[t] = "undo"
        /\ UNCHANGED <<file, creator, created, nextFile, pc, result, disturbed>>
        /\ \/ botched' = botched
           \/ botched' = [botched EXCEPT ![t] = TRUE]
    BY <1>6 DEF UndoDirectory
  <2>2. CASE botched' = botched
    BY <2>1, <2>2, QuietFiles
  <2>3. CASE botched' = [botched EXCEPT ![t] = TRUE]
    BY <2>1, <2>3, BotchFiles
  <2>4. QED
    BY <2>1, <2>2, <2>3
<1>7. CASE WriteFails(t) \/ UndoFile(t)
  BY <1>7, RemovalIsByClaim
<1>8. CASE FindFile(t) \/ CreateFile(t) \/ WriteFile(t) \/ UndoDone(t)
  BY <1>8, FindFileFiles, CreateFileFiles, WriteFileFiles, UndoDoneFiles
<1>9. QED
  BY <1>1, <1>2, <1>3, <1>4, <1>5, <1>6, <1>7, <1>8 DEF AttemptStep, CreateStep, UndoStep

LEMMA BootstrapInitInv == BootstrapInit => BootstrapInv
<1> SUFFICES ASSUME BootstrapInit PROVE BootstrapInv
  OBVIOUS
<1>1. LocksInv
  BY LocksInitInv
<1>2. \A t \in Threads, f \in Files : ~Claims(t, f)
  BY DEF BootstrapInit, Claims
<1>3. ClaimsHold /\ FailuresAreClean
  BY <1>2 DEF BootstrapInit, ClaimsHold, FailuresAreClean
<1>4. AttemptsBeginAnew
  BY RootAndDepth DEF BootstrapInit, AttemptsBeginAnew
<1>5. FilesAreOwed /\ HalvesAreKnown
  BY DEF BootstrapInit, FilesAreOwed, HalvesAreKnown
<1>6. FilesAreFound /\ LoadsAreSafe
  BY DEF BootstrapInit, FilesAreFound, LoadsAreSafe
<1>7. QED
  BY <1>1, <1>3, <1>4, <1>5, <1>6 DEF BootstrapInv, FilesInv

LEMMA BootstrapStepInv == BootstrapInv /\ [BootstrapNext]_bootstrapVars => BootstrapInv'
<1> SUFFICES ASSUME BootstrapInv, [BootstrapNext]_bootstrapVars PROVE BootstrapInv'
  OBVIOUS
<1>1. LocksInv /\ FilesInv /\ Typed
  BY DEF BootstrapInv, LocksInv, Typed
<1>2. LocksInv'
  BY <1>1, LocksStepInv
<1>3. ASSUME NEW t \in Threads, Begin(t) \/ AttemptStep(t) PROVE FilesInv'
  BY <1>1, <1>3, AttemptFiles
<1>4. ASSUME NEW p \in Processes, Crash(p) PROVE FilesInv'
  BY <1>1, <1>4, CrashFiles
<1>5. ASSUME OthersCome \/ OthersGo \/ UNCHANGED bootstrapVars PROVE FilesInv'
  <2>1. UNCHANGED <<file, creator, created, nextFile, botched, result, pc>>
    BY <1>5 DEF OthersCome, OthersGo, bootstrapVars, fsVars, reportVars
  <2>2. disturbed => disturbed'
    BY <1>5, Zenon DEF OthersCome, OthersGo, Disturb, bootstrapVars, fsVars
  <2>3. QED
    BY <1>1, <2>1, <2>2, QuietFiles
<1>6. FilesInv'
  BY <1>3, <1>4, <1>5 DEF BootstrapNext
<1>7. QED
  BY <1>2, <1>6 DEF BootstrapInv

LEMMA BootstrapInvariant == BootstrapSpec => []BootstrapInv
BY BootstrapInitInv, BootstrapStepInv, PTL DEF BootstrapSpec

\* Attempts of any threads and processes take turns, unless others make or remove a directory
\* above the root between an attempt's look and its lock file; none waits for another that
\* waits; a load sees whole files, and a failure leaves none, whatever fails or crashes.
THEOREM AttemptsStayWhole == BootstrapSpec => []AttemptsAreWhole
<1>1. BootstrapInv => AttemptsAreWhole
  <2>1. SUFFICES ASSUME BootstrapInv PROVE AttemptsAreWhole
    OBVIOUS
  <2>2. LocksInv /\ FilesInv /\ Typed
    BY <2>1 DEF BootstrapInv, LocksInv, Typed
  <2>3. OneAttemptUnlessDisturbed
    <3>1. SUFFICES ASSUME ~disturbed PROVE Cardinality(Inside) <= 1
      BY DEF OneAttemptUnlessDisturbed, OneAttemptAtATime
    <3>2. \A t, u \in Inside : t = u
      BY <2>2, <3>1, OneIsInside DEF Inside, Locked
    <3>3. CASE Inside = {}
      BY <3>3, FS_EmptySet
    <3>4. CASE Inside # {}
      <4>1. PICK t \in Inside : Inside = {t}
        BY <3>2, <3>4
      <4>2. Cardinality(Inside) = 1
        BY <4>1, FS_Singleton
      <4>3. QED
        BY <4>2
    <3>5. QED
      BY <3>3, <3>4
  <2>4. WaitersWaitForWorkers
    <3>1. \A t \in Threads : pc[t] = "asleep" =>
             \E u \in Threads : ProcessOf[u] = ProcessOf[t]
                                /\ pc[u] \notin {"idle", "reserve", "asleep", "done"}
      BY <2>2 DEF LocksInv, RootIsReserved, Past
    <3>2. \A t \in Threads : anchor[t] \in Levels
      BY <2>2, RootAndDepth DEF Typed, BootstrapTypeOK
    <3>3. \A l \in Levels : lockHolder[l] \in Inside \cup {NoThread}
      BY <2>2 DEF LocksInv, BootstrapTypeOK, LocksAreHeld, Inside, Locked
    <3>4. QED
      BY <3>1, <3>2, <3>3 DEF WaitersWaitForWorkers
  <2>5. LoadSeesWholeFiles
    <3>1. SUFFICES ASSUME ~disturbed, NEW t \in Threads, NEW f \in Files, pc[t] = "loading"
                   PROVE  \/ file[f] \in {"user", "whole"}
                          \/ file[f] = "partial" /\ result[creator[f]] \in {"crashed", "rollbackFailed"}
      BY DEF LoadSeesWholeFiles
    <3>2. file[f] # "absent" /\ (file[f] = "partial" => Leftover(f))
      BY <2>2, <3>1 DEF FilesInv, FilesAreFound
    <3>3. QED
      BY <2>2, <3>2 DEF Typed, BootstrapTypeOK, Leftover
  <2>6. FilesRolledBack
    <3>1. SUFFICES ASSUME NEW t \in Threads, NEW f \in Files, result[t] = "failed", creator[f] = t,
                          file[f] # "absent"
                   PROVE  FALSE
      BY DEF FilesRolledBack
    <3>2. ~Claims(t, f) /\ ~botched[t]
      BY <2>2, <3>1 DEF FilesInv, FailuresAreClean, Claims
    <3>3. QED
      BY <2>2, <3>1, <3>2, RootAndDepth DEF FilesInv, FilesAreOwed
  <2>7. QED
    BY <2>3, <2>4, <2>5, <2>6
    DEF AttemptsAreWhole, AttemptsTakeTurns, FilesAreWholeOrGone
<1>2. QED
  BY <1>1, BootstrapInvariant, PTL

\* The step that takes a file away.
LEMMA WhoRemovesAFile ==
    ASSUME BootstrapInv, [BootstrapNext]_bootstrapVars, NEW n \in Files,
           file[n] # "absent", file'[n] = "absent"
    PROVE  \E t \in Threads : pc[t] \in {"writing", "undo"} /\ Claims(t, n)
<1>1. LocksInv /\ FilesInv /\ Typed
  BY DEF BootstrapInv, LocksInv, Typed
<1>2. ASSUME NEW t \in Threads, WriteFails(t) \/ UndoFile(t)
      PROVE  pc[t] \in {"writing", "undo"} /\ Claims(t, n)
  BY <1>1, <1>2, RemovalIsByClaim
<1>3. ASSUME NEW t \in Threads, CreateFile(t) \/ WriteFile(t) PROVE FALSE
  BY <1>1, <1>3 DEF CreateFile, WriteFile, Typed, BootstrapTypeOK
<1>4. ASSUME NEW t \in Threads,
             Begin(t) \/ LockStep(t) \/ OpenRoot(t) \/ EnterDirectory(t) \/ DirectoryFails(t)
               \/ DirectoriesDone(t) \/ FindFile(t) \/ CreateFails(t) \/ FilesDone(t)
      PROVE  file' = file
  BY <1>4
  DEF Begin, LockStep, Reserve, LookForClosest, ChooseAnchor, OpenLockFile, OpenLockFails,
      AcquireLock, Unlock, Leave, OpenRoot, EnterDirectory, DirectoryFails, DirectoriesDone,
      FindFile, CreateFails, FilesDone, fsVars
<1>5. ASSUME NEW t \in Threads, Load(t) \/ UndoDirectory(t) \/ UndoDone(t) PROVE file' = file
  BY <1>5 DEF Load, UndoDirectory, UndoDone, fsVars
<1>6. ASSUME (\E p \in Processes : Crash(p)) \/ OthersCome \/ OthersGo \/ UNCHANGED bootstrapVars
      PROVE  file' = file
  BY <1>6 DEF Crash, OthersCome, OthersGo, bootstrapVars, fsVars
<1>7. QED
  BY <1>2, <1>3, <1>4, <1>5, <1>6 DEF BootstrapNext, AttemptStep, CreateStep, UndoStep

\* A file goes only while the attempt that made it fails or undoes itself, and never under a
\* load or after one that succeeded.
THEOREM RollbackAlwaysSparesLoads == BootstrapSpec => RollbackSparesLoads
<1> DEFINE Spared == \A f \in Files : file[f] # "absent" /\ file'[f] = "absent" =>
                         /\ creator[f] # NoThread /\ pc[creator[f]] \in {"writing", "undo"}
                         /\ disturbed \/ \A t \in Threads : pc[t] # "loading" /\ result[t] # "ok"
<1>1. BootstrapInv /\ [BootstrapNext]_bootstrapVars => Spared
  <2>1. SUFFICES ASSUME BootstrapInv, [BootstrapNext]_bootstrapVars, NEW f \in Files,
                        file[f] # "absent", file'[f] = "absent"
                 PROVE  /\ creator[f] # NoThread /\ pc[creator[f]] \in {"writing", "undo"}
                        /\ disturbed \/ \A t \in Threads : pc[t] # "loading" /\ result[t] # "ok"
    OBVIOUS
  <2>2. LocksInv /\ FilesInv
    BY <2>1 DEF BootstrapInv
  <2>3. PICK u \in Threads : pc[u] \in {"writing", "undo"} /\ Claims(u, f)
    BY <2>1, WhoRemovesAFile
  <2>4. creator[f] = u /\ u # NoThread
    BY <2>2, <2>3, RootAndDepth DEF FilesInv, ClaimsHold
  <2>5. ASSUME ~disturbed, NEW t \in Threads PROVE pc[t] # "loading" /\ result[t] # "ok"
    <3>1. pc[t] # "loading"
      BY <2>2, <2>3, <2>5, OneIsInside DEF Locked
    <3>2. result[t] # "ok"
      BY <2>2, <2>3, <2>5 DEF FilesInv, LoadsAreSafe, Claims, Ended
    <3>3. QED
      BY <3>1, <3>2
  <2>6. QED
    BY <2>3, <2>4, <2>5
<1>2. BootstrapInv /\ [BootstrapNext]_bootstrapVars => [Spared]_bootstrapVars
  BY <1>1
<1> HIDE DEF Spared
<1>3. BootstrapSpec => [][Spared]_bootstrapVars
  BY <1>2, BootstrapInvariant, PTL DEF BootstrapSpec
<1> USE DEF Spared
<1>4. QED
  BY <1>3 DEF RollbackSparesLoads

-----------------------------------------------------------------------------
(***************************************************************************)
(* Catalogs: nothing that is there all the while is missed.                *)
(***************************************************************************)

\* A store is a function from some locales.
LEMMA StoresAre ==
    ASSUME NEW S \in SUBSET CatalogLocales, NEW s \in [S -> 0..MaxLoads]
    PROVE  s \in Stores
BY DEF Stores

LEMMA StoreTypes ==
    ASSUME NEW s \in Stores
    PROVE  DOMAIN s \subseteq CatalogLocales /\ s \in [DOMAIN s -> 0..MaxLoads]
<1>1. PICK S \in SUBSET CatalogLocales : s \in [S -> 0..MaxLoads]
  BY DEF Stores
<1>2. QED
  BY <1>1

LEMMA EmptyStore == <<>> \in Stores /\ DOMAIN <<>> = {}
<1>1. <<>> \in [{} -> 0..MaxLoads] /\ DOMAIN <<>> = {}
  OBVIOUS
<1>2. QED
  BY <1>1, StoresAre

\* A source adds its locale.
LEMMA SourceIsAdded ==
    ASSUME NEW s \in Stores, NEW l \in CatalogLocales, NEW n \in 0..MaxLoads
    PROVE  WithSource(s, l, n) \in Stores
<1>1. DOMAIN s \subseteq CatalogLocales /\ s \in [DOMAIN s -> 0..MaxLoads]
  BY StoreTypes
<1>2. {l} \cup DOMAIN s \in SUBSET CatalogLocales
  BY <1>1
<1>3. WithSource(s, l, n) \in [({l} \cup DOMAIN s) -> 0..MaxLoads]
  BY <1>1 DEF WithSource
<1>4. QED
  BY <1>2, <1>3, StoresAre

LEMMA FreshReader ==
    ASSUME NEW seen
    PROVE  CallFits(NotReading, seen)
BY DEF CallFits, NotReading, LocalesWereThere, AsksFit, NothingMissed, LocaleWasEnabled, TextResults

LEMMA CatalogsInitInv == CatalogsInit => CatalogsInv
<1> SUFFICES ASSUME CatalogsInit PROVE CatalogsInv
  OBVIOUS
<1>1. /\ installed \in [AllCatalogs -> Stores] /\ \A c \in Dynamics : installed[c] = <<>>
      /\ handle = <<>> /\ building = [r \in Reloaders |-> NoLoad] /\ loads = 1
      /\ reading = [t \in Readers |-> NotReading]
      /\ storesSeen = [t \in Readers |-> [c \in AllCatalogs |-> {}]]
  BY DEF CatalogsInit
<1>2. \A r \in Reloaders : building[r] = NoLoad
  BY <1>1
<1>3. NoLoad.texts \in Stores /\ NoLoad.sources <= MaxSources
  BY EmptyStore, CatalogsAssumption DEF NoLoad
<1>4. \A t \in Readers : reading[t] = NotReading /\ reading[t].pc = "idle"
  BY <1>1 DEF NotReading
<1>5. loads \in 1..MaxLoads
  BY <1>1, CatalogsAssumption
<1>6. CatalogsTypeOK
  BY <1>1, <1>2, <1>3, <1>4, <1>5 DEF CatalogsTypeOK
<1>7. LoadsFit /\ DefaultsAreInstalled
  BY <1>1, <1>2 DEF LoadsFit, DefaultsAreInstalled
<1>8. storesSeen \in [Readers -> [AllCatalogs -> SUBSET Stores]]
  BY <1>1
<1>9. \A t \in Readers : CallFits(reading[t], storesSeen[t])
  BY <1>4, FreshReader
<1>10. QED
  BY <1>1, <1>4, <1>6, <1>7, <1>8, <1>9 DEF CatalogsInv

\* What a call knows stays true when it has seen more.
LEMMA MoreIsSeen ==
    ASSUME NEW r, NEW seen, NEW more, CallFits(r, seen),
           \A c \in AllCatalogs : seen[c] \subseteq more[c]
    PROVE  CallFits(r, more)
<1>1. r.pc \in {"texts", "defaults"} \/ r.result \in TextResults => Asked(r) \subseteq AllCatalogs
  <2>1. SUFFICES ASSUME r.candidates \in Seq(AllCatalogs) PROVE Asked(r) \subseteq AllCatalogs
    BY DEF CallFits, AsksFit
  <2>2. QED
    BY <2>1 DEF Asked
<1>2. \A c \in AllCatalogs : \A l : Kept(more, c, l) => Kept(seen, c, l)
  BY DEF Kept
<1>3. \A text : Asked(r) \subseteq AllCatalogs /\ WasThere(r, seen, text) => WasThere(r, more, text)
  <2>1. SUFFICES ASSUME NEW text, Asked(r) \subseteq AllCatalogs, WasThere(r, seen, text)
                 PROVE  WasThere(r, more, text)
    OBVIOUS
  <2>2. PICK c \in Asked(r) : \E s \in seen[c] : \E l \in DOMAIN s : HasText(s, l) /\ s[l] = text
    BY <2>1 DEF WasThere
  <2>3. QED
    BY <2>1, <2>2 DEF WasThere
<1>4. LocalesWereThere(r, more) /\ LocaleWasEnabled(r, more)
  BY DEF CallFits, LocalesWereThere, LocaleWasEnabled
<1>5. NothingMissed(r, more)
  <2>1. SUFFICES ASSUME r.pc = "done", r.result \in TextResults PROVE NothingMissed(r, more)
    BY DEF NothingMissed
  <2>2. Asked(r) \subseteq AllCatalogs /\ NothingMissed(r, seen)
    BY <1>1, <2>1 DEF CallFits
  <2>3. QED
    BY <1>2, <1>3, <2>1, <2>2 DEF NothingMissed
<1>6. AsksFit(r, more)
  <2>1. SUFFICES ASSUME r.pc \in {"texts", "defaults"} PROVE AsksFit(r, more)
    BY DEF AsksFit, CallFits
  <2>2. Asked(r) \subseteq AllCatalogs /\ AsksFit(r, seen)
    BY <1>1, <2>1 DEF CallFits
  <2>3. \A asks, l : AskedInVain(r, seen, asks, l) => AskedInVain(r, more, asks, l)
    BY <1>2, <2>2 DEF AskedInVain
  <2>4. QED
    BY <1>3, <2>1, <2>2, <2>3 DEF AsksFit
<1>7. QED
  BY <1>4, <1>5, <1>6 DEF CallFits

\* What each kind of step does to the invariant.
LEMMA ReaderGoesOn ==
    ASSUME CatalogsInv, NEW t \in Readers, NEW r, ReaderMoves(t, r),
           reading[t].pc # "idle", CallFits(r, storesSeen[t])
    PROVE  CatalogsInv'
<1>1. /\ installed' = installed /\ handle' = handle /\ building' = building /\ loads' = loads
      /\ storesSeen' = storesSeen
  BY DEF ReaderMoves
<1>2. DOMAIN reading' = Readers /\ \A u \in Readers : reading'[u] = IF u = t THEN r ELSE reading[u]
  BY DEF ReaderMoves, CatalogsInv
<1>3. \A u \in Readers : CallFits(reading'[u], storesSeen[u])
  BY <1>2 DEF CatalogsInv
<1>4. \A u \in Readers : CallFits(reading[u], storesSeen[u])'
  BY <1>1, <1>3
<1>5. \A u \in Readers : reading'[u].pc \in {"idle", "locales", "texts", "defaults", "done"}
  BY <1>3 DEF CallFits
<1>6. CatalogsTypeOK' /\ LoadsFit' /\ DefaultsAreInstalled'
  BY <1>1, <1>5 DEF CatalogsInv, CatalogsTypeOK, LoadsFit, DefaultsAreInstalled
<1>7. \A u \in Readers : reading'[u].pc # "idle" => \A c \in AllCatalogs : installed[c] \in storesSeen[u][c]
  BY <1>2 DEF CatalogsInv
<1>8. storesSeen' \in [Readers -> [AllCatalogs -> SUBSET Stores]] /\ DOMAIN building' = Reloaders
  BY <1>1 DEF CatalogsInv
<1>9. \A u \in Readers : (reading[u].pc # "idle" => \A c \in AllCatalogs : installed[c] \in storesSeen[u][c])'
  BY <1>1, <1>7
<1>10. QED
  BY <1>2, <1>4, <1>6, <1>8, <1>9 DEF CatalogsInv

LEMMA ReaderBegins ==
    ASSUME CatalogsInv, NEW t \in Readers, NEW r, ReaderStarts(t, r),
           CallFits(r, [c \in AllCatalogs |-> {installed[c]}])
    PROVE  CatalogsInv'
<1>1. installed' = installed /\ handle' = handle /\ building' = building /\ loads' = loads
  BY DEF ReaderStarts
<1>2. DOMAIN reading' = Readers /\ \A u \in Readers : reading'[u] = IF u = t THEN r ELSE reading[u]
  BY DEF ReaderStarts, CatalogsInv
<1> DEFINE now == [c \in AllCatalogs |-> {installed[c]}]
<1>3. \A u \in Readers : storesSeen'[u] = IF u = t THEN now ELSE storesSeen[u]
  BY DEF ReaderStarts, CatalogsInv
<1>4. now \in [AllCatalogs -> SUBSET Stores] /\ \A c \in AllCatalogs : installed[c] \in now[c]
  BY DEF CatalogsInv, CatalogsTypeOK
<1>5. CallFits(r, now)
  OBVIOUS
<1>6. storesSeen' = [storesSeen EXCEPT ![t] = now]
  BY DEF ReaderStarts
<1> HIDE DEF now
<1>7. \A u \in Readers : CallFits(reading'[u], storesSeen'[u])
  BY <1>2, <1>3, <1>5 DEF CatalogsInv
<1>8. \A u \in Readers : CallFits(reading[u], storesSeen[u])'
  BY <1>7
<1>9. \A u \in Readers : reading'[u].pc \in {"idle", "locales", "texts", "defaults", "done"}
  BY <1>7 DEF CallFits
<1>10. CatalogsTypeOK' /\ LoadsFit' /\ DefaultsAreInstalled' /\ DOMAIN building' = Reloaders
  BY <1>1, <1>9 DEF CatalogsInv, CatalogsTypeOK, LoadsFit, DefaultsAreInstalled
<1>11. \A u \in Readers : (reading[u].pc # "idle" => \A c \in AllCatalogs : installed[c] \in storesSeen[u][c])'
  BY <1>1, <1>2, <1>3, <1>4 DEF CatalogsInv
<1>12. storesSeen' \in [Readers -> [AllCatalogs -> SUBSET Stores]]
  BY <1>4, <1>6 DEF CatalogsInv
<1>13. QED
  BY <1>2, <1>8, <1>10, <1>11, <1>12 DEF CatalogsInv

LEMMA ReloaderGoesOn ==
    ASSUME CatalogsInv, CatalogsTypeOK', LoadsFit', DOMAIN building' = Reloaders,
           UNCHANGED <<installed, reading, storesSeen>>
    PROVE  CatalogsInv'
<1>1. DefaultsAreInstalled'
  BY DEF CatalogsInv, DefaultsAreInstalled
<1>2. \A u \in Readers : CallFits(reading[u], storesSeen[u])'
  BY DEF CatalogsInv
<1>3. \A u \in Readers : (reading[u].pc # "idle" => \A c \in AllCatalogs : installed[c] \in storesSeen[u][c])'
  BY DEF CatalogsInv
<1>4. DOMAIN reading' = Readers /\ storesSeen' \in [Readers -> [AllCatalogs -> SUBSET Stores]]
  BY DEF CatalogsInv
<1>5. QED
  BY <1>1, <1>2, <1>3, <1>4 DEF CatalogsInv

\* What a call that moves on keeps of its record.
LEMMA AnswersIs ==
    ASSUME NEW r, NEW kind, NEW text, DOMAIN r = DOMAIN NotReading
    PROVE  /\ DOMAIN Answers(r, kind, text) = DOMAIN NotReading
           /\ Answers(r, kind, text).pc = "done"
           /\ Answers(r, kind, text).result = kind
           /\ Answers(r, kind, text).text = text
           /\ Answers(r, kind, text).candidates = r.candidates
           /\ Answers(r, kind, text).locale = r.locale
BY DEF Answers, NotReading

LEMMA AnswerFits ==
    ASSUME NEW r, NEW seen, NEW kind, NEW text, DOMAIN r = DOMAIN NotReading,
           r.candidates \in Seq(AllCatalogs), kind \in TextResults,
           kind # "exact" => \A c \in Asked(r) : ~Kept(seen, c, r.locale),
           kind \in {"synthetic", "missing"} /\ Composed(r.candidates) =>
               \A c \in Asked(r) : ~Kept(seen, c, ComposedDefault),
           kind \in {"exact", "fallback"} => WasThere(r, seen, text)
    PROVE  CallFits(Answers(r, kind, text), seen)
<1> DEFINE a == Answers(r, kind, text)
<1>1. /\ DOMAIN a = DOMAIN NotReading /\ a.pc = "done" /\ a.result = kind /\ a.text = text
      /\ a.candidates = r.candidates /\ a.locale = r.locale
  BY AnswersIs
<1>2. Asked(a) = Asked(r) /\ \A x : WasThere(a, seen, x) <=> WasThere(r, seen, x)
  BY <1>1 DEF Asked, WasThere
<1> HIDE DEF a
<1>3. NothingMissed(a, seen)
  BY <1>1, <1>2 DEF NothingMissed
<1>4. LocalesWereThere(a, seen) /\ LocaleWasEnabled(a, seen)
  BY <1>1 DEF LocalesWereThere, LocaleWasEnabled, TextResults
<1>5. AsksFit(a, seen)
  BY <1>1 DEF AsksFit
<1>6. CallFits(a, seen)
  BY <1>1, <1>3, <1>4, <1>5 DEF CallFits
<1>7. QED
  BY <1>6 DEF a

\* A call that asks on fits when what it has asked was asked in vain.
LEMMA AskingFits ==
    ASSUME NEW r, NEW seen, DOMAIN r = DOMAIN NotReading, r.pc \in {"texts", "defaults"},
           r.candidates \in Seq(AllCatalogs), r.asks \in Seq(AllCatalogs),
           \A j \in DOMAIN r.asks : r.asks[j] \in Asked(r),
           AskedInVain(r, seen, IF r.pc = "texts" THEN r.asks ELSE <<>>, r.locale),
           r.fallback # NoText => WasThere(r, seen, r.fallback),
           r.pc = "defaults" => r.fallback = NoText /\ AskedInVain(r, seen, r.asks, ComposedDefault)
    PROVE  CallFits(r, seen)
<1>1. AsksFit(r, seen)
  BY DEF AsksFit
<1>2. LocalesWereThere(r, seen) /\ NothingMissed(r, seen) /\ LocaleWasEnabled(r, seen)
  BY DEF LocalesWereThere, NothingMissed, LocaleWasEnabled
<1>3. QED
  BY <1>1, <1>2 DEF CallFits

\* The next one was asked in vain too.
LEMMA NextInVain ==
    ASSUME NEW r, NEW seen, NEW l, r.asks \in Seq(AllCatalogs), r.asks # <<>>,
           AskedInVain(r, seen, r.asks, l), ~Kept(seen, Head(r.asks), l)
    PROVE  AskedInVain(r, seen, Tail(r.asks), l)
<1>1. SUFFICES ASSUME NEW c \in Asked(r), Kept(seen, c, l)
               PROVE  \E j \in DOMAIN Tail(r.asks) : Tail(r.asks)[j] = c
  BY DEF AskedInVain
<1>2. PICK j \in DOMAIN r.asks : r.asks[j] = c
  BY <1>1 DEF AskedInVain
<1>3. j \in 1..Len(r.asks) /\ Len(r.asks) \in Nat /\ j # 1
  <2>1. r.asks[1] = Head(r.asks) /\ j \in 1..Len(r.asks) /\ Len(r.asks) \in Nat
    BY <1>2
  <2>2. QED
    BY <1>1, <1>2, <2>1
<1>4. Len(Tail(r.asks)) = Len(r.asks) - 1 /\ DOMAIN Tail(r.asks) = 1..(Len(r.asks) - 1)
  BY <1>3
<1>5. j - 1 \in 1..(Len(r.asks) - 1)
  BY <1>3
<1>6. Tail(r.asks)[j - 1] = r.asks[j]
  BY <1>3, <1>5
<1>7. QED
  BY <1>2, <1>4, <1>5, <1>6

LEMMA TailFits ==
    ASSUME NEW r, r.asks \in Seq(AllCatalogs), r.asks # <<>>,
           \A j \in DOMAIN r.asks : r.asks[j] \in Asked(r)
    PROVE  /\ Tail(r.asks) \in Seq(AllCatalogs)
           /\ Head(r.asks) \in Asked(r) /\ Head(r.asks) \in AllCatalogs
           /\ \A j \in DOMAIN Tail(r.asks) : Tail(r.asks)[j] \in Asked(r)
<1>1. Len(r.asks) \in Nat \ {0} /\ DOMAIN r.asks = 1..Len(r.asks)
  OBVIOUS
<1>2. Head(r.asks) = r.asks[1] /\ 1 \in DOMAIN r.asks /\ r.asks[1] \in AllCatalogs
  BY <1>1
<1>3. Tail(r.asks) \in Seq(AllCatalogs) /\ DOMAIN Tail(r.asks) = 1..(Len(r.asks) - 1)
  BY <1>1
<1>4. \A j \in 1..(Len(r.asks) - 1) : Tail(r.asks)[j] = r.asks[j + 1] /\ j + 1 \in 1..Len(r.asks)
  BY <1>1
<1>5. QED
  BY <1>1, <1>2, <1>3, <1>4

\* What a catalog answers has to do with what it has.
LEMMA AnswerIsTrue ==
    ASSUME CatalogsInv, NEW c \in AllCatalogs, NEW l
    PROVE  /\ AnswerOf(c, l).kind \in TextResults
           /\ AnswerOf(c, l).kind # "exact" => ~HasText(installed[c], l)
           /\ AnswerOf(c, l).text # NoText => AnswerOf(c, l).kind \in {"exact", "fallback"}
           /\ AnswerOf(c, l).kind \in {"exact", "fallback"} =>
                \E k \in DOMAIN installed[c] : HasText(installed[c], k) /\ installed[c][k] = AnswerOf(c, l).text
<1>1. CASE HasText(installed[c], l)
  <2>1. AnswerOf(c, l) = [kind |-> "exact", text |-> installed[c][l]]
    BY <1>1 DEF AnswerOf
  <2>2. l \in DOMAIN installed[c]
    BY <1>1 DEF HasText
  <2>3. QED
    BY <1>1, <2>1, <2>2 DEF TextResults
<1>2. CASE ~HasText(installed[c], l) /\ FallsBack(c) /\ DefaultText(c, l) # NoText
  <2>1. AnswerOf(c, l) = [kind |-> "fallback", text |-> DefaultText(c, l)]
    BY <1>2 DEF AnswerOf
  <2>2. HasText(installed[c], DefaultOf[c]) /\ DefaultText(c, l) = installed[c][DefaultOf[c]]
    BY <1>2 DEF DefaultText
  <2>3. DefaultOf[c] \in DOMAIN installed[c]
    BY <2>2 DEF HasText
  <2>4. QED
    BY <1>2, <2>1, <2>2, <2>3 DEF TextResults
<1>3. CASE ~HasText(installed[c], l) /\ ~(FallsBack(c) /\ DefaultText(c, l) # NoText)
  <2>1. AnswerOf(c, l) = [kind |-> IF Synthesizes(c) THEN "synthetic" ELSE "missing", text |-> NoText]
    BY <1>3 DEF AnswerOf
  <2>2. QED
    BY <1>3, <2>1 DEF TextResults
<1>4. QED
  BY <1>1, <1>2, <1>3

\* The steps of the readers.
LEMMA AskingLocaleInv ==
    ASSUME CatalogsInv, NEW t \in Readers, NEW request, AsksForLocale(t, request)
    PROVE  CatalogsInv'
<1> DEFINE now == [c \in AllCatalogs |-> {installed[c]}]
           failed == [NotReading EXCEPT !.pc = "done", !.result = "uninitialized"]
           asking(d) == [NotReading EXCEPT !.pc = "locales", !.explicit = request.explicit,
                             !.candidates = request.candidates, !.asks = handle, !.locale = d]
<1>1. CallFits(failed, now)
  <2>1. DOMAIN failed = DOMAIN NotReading /\ failed.pc = "done" /\ failed.result = "uninitialized"
    BY DEF NotReading
  <2> HIDE DEF failed, now
  <2>2. QED
    BY <2>1 DEF CallFits, LocalesWereThere, AsksFit, NothingMissed, LocaleWasEnabled, TextResults
<1>2. ASSUME NEW d, handle # <<>> PROVE CallFits(asking(d), now)
  <2>1. handle \in Seq(AllCatalogs)
    BY <1>2, CatalogsAssumption DEF CatalogsInv, CatalogsTypeOK, AllCatalogs
  <2>2. /\ DOMAIN asking(d) = DOMAIN NotReading /\ asking(d).pc = "locales" /\ asking(d).result = "none"
        /\ asking(d).asks = handle /\ asking(d).available = {}
    BY DEF NotReading
  <2> HIDE DEF asking, now
  <2>3. QED
    BY <2>1, <2>2 DEF CallFits, LocalesWereThere, AsksFit, NothingMissed, LocaleWasEnabled, TextResults
<1>3. CASE handle = <<>>
  <2>1. ReaderStarts(t, failed)
    BY <1>3 DEF AsksForLocale
  <2> HIDE DEF failed
  <2>2. QED
    BY <1>1, <2>1, ReaderBegins
<1>4. CASE handle # <<>>
  <2> DEFINE d == IF Composed(handle) THEN ComposedDefault ELSE DefaultOf[handle[1]]
  <2>1. ReaderStarts(t, asking(d))
    BY <1>4 DEF AsksForLocale
  <2>2. CallFits(asking(d), now)
    BY <1>2, <1>4
  <2> HIDE DEF asking, d
  <2>3. QED
    BY <2>1, <2>2, ReaderBegins
<1>5. QED
  BY <1>3, <1>4

LEMMA LookingUpInv ==
    ASSUME CatalogsInv, NEW t \in Readers, NEW l \in CatalogLocales, LooksUp(t, l)
    PROVE  CatalogsInv'
<1> DEFINE now == [c \in AllCatalogs |-> {installed[c]}]
           failed == [NotReading EXCEPT !.pc = "done", !.result = "missing", !.locale = l]
           asking == [NotReading EXCEPT !.pc = "texts", !.locale = l,
                                        !.candidates = handle, !.asks = handle]
<1>1. CallFits(failed, now)
  <2>1. /\ DOMAIN failed = DOMAIN NotReading /\ failed.pc = "done" /\ failed.result = "missing"
        /\ failed.candidates = <<>>
    BY DEF NotReading
  <2> HIDE DEF failed, now
  <2>2. Asked(failed) = {} /\ failed.candidates \in Seq(AllCatalogs)
    BY <2>1 DEF Asked
  <2>3. QED
    BY <2>1, <2>2 DEF CallFits, LocalesWereThere, AsksFit, NothingMissed, LocaleWasEnabled, TextResults
<1>2. ASSUME handle # <<>> PROVE CallFits(asking, now)
  <2>1. handle \in Seq(AllCatalogs)
    BY <1>2, CatalogsAssumption DEF CatalogsInv, CatalogsTypeOK, AllCatalogs
  <2>2. /\ DOMAIN asking = DOMAIN NotReading /\ asking.pc = "texts" /\ asking.fallback = NoText
        /\ asking.asks = handle /\ asking.candidates = handle /\ asking.locale = l
    BY DEF NotReading
  <2> HIDE DEF asking, now
  <2>3. \A j \in DOMAIN asking.asks : asking.asks[j] \in Asked(asking)
    BY <2>2 DEF Asked
  <2>4. AskedInVain(asking, now, asking.asks, asking.locale)
    BY <2>2 DEF AskedInVain, Asked
  <2>5. QED
    BY <2>1, <2>2, <2>3, <2>4, AskingFits
<1>3. CASE handle = <<>>
  <2>1. ReaderStarts(t, failed)
    BY <1>3 DEF LooksUp
  <2> HIDE DEF failed
  <2>2. QED
    BY <1>1, <2>1, ReaderBegins
<1>4. CASE handle # <<>>
  <2>1. ReaderStarts(t, asking)
    BY <1>4 DEF LooksUp
  <2>2. CallFits(asking, now)
    BY <1>2, <1>4
  <2> HIDE DEF asking
  <2>3. QED
    BY <2>1, <2>2, ReaderBegins
<1>5. QED
  BY <1>3, <1>4

LEMMA SeeingInv ==
    ASSUME CatalogsInv, NEW t \in Readers, SeesLocales(t)
    PROVE  CatalogsInv'
<1> DEFINE r == reading[t]
           seen == storesSeen[t]
           next == [r EXCEPT !.asks = Tail(@),
                             !.available = @ \cup DOMAIN installed[Head(r.asks)]]
<1>1. r.pc = "locales" /\ r.asks # <<>> /\ ReaderMoves(t, next)
  BY DEF SeesLocales
<1>2. CallFits(r, seen) /\ r.pc # "idle" /\ \A c \in AllCatalogs : installed[c] \in seen[c]
  BY <1>1 DEF CatalogsInv
<1>3. r.asks \in Seq(AllCatalogs) /\ DOMAIN r = DOMAIN NotReading
  BY <1>1, <1>2 DEF CallFits, LocalesWereThere
<1>4. /\ DOMAIN next = DOMAIN NotReading /\ next.pc = r.pc /\ next.result = r.result
      /\ next.candidates = r.candidates /\ next.asks = Tail(r.asks)
      /\ next.available = r.available \cup DOMAIN installed[Head(r.asks)]
  BY <1>3 DEF NotReading
<1>5. Head(r.asks) \in AllCatalogs /\ Tail(r.asks) \in Seq(AllCatalogs)
  BY <1>1, <1>3
<1> HIDE DEF next
<1>6. LocalesWereThere(next, seen)
  <2>1. \A l \in next.available : \E c \in AllCatalogs : \E s \in seen[c] : l \in DOMAIN s
    <3>1. SUFFICES ASSUME NEW l \in next.available
                   PROVE  \E c \in AllCatalogs : \E s \in seen[c] : l \in DOMAIN s
      OBVIOUS
    <3>2. CASE l \in r.available
      BY <1>1, <1>2, <3>2 DEF CallFits, LocalesWereThere
    <3>3. CASE l \in DOMAIN installed[Head(r.asks)]
      BY <1>2, <1>5, <3>3
    <3>4. QED
      BY <1>4, <3>1, <3>2, <3>3
  <2>2. QED
    BY <1>4, <1>5, <2>1 DEF LocalesWereThere
<1>7. CallFits(next, seen)
  BY <1>1, <1>2, <1>4, <1>6 DEF CallFits, AsksFit, NothingMissed, LocaleWasEnabled
<1>8. QED
  BY <1>1, <1>2, <1>7, ReaderGoesOn

LEMMA ChoosingInv ==
    ASSUME CatalogsInv, NEW t \in Readers, ChoosesLocale(t)
    PROVE  CatalogsInv'
<1> DEFINE r == reading[t]
           seen == storesSeen[t]
           refused == [r EXCEPT !.pc = "done", !.result = "not enabled"]
           chosen(l) == [r EXCEPT !.pc = "done", !.result = "locale", !.locale = l]
<1>1. /\ r.pc = "locales"
      /\ ReaderMoves(t, refused) \/ \E l \in LocaleOf(r) : ReaderMoves(t, chosen(l))
  BY DEF ChoosesLocale
<1>2. CallFits(r, seen) /\ r.pc # "idle" /\ DOMAIN r = DOMAIN NotReading
  BY <1>1 DEF CatalogsInv, CallFits
<1>3. CASE ReaderMoves(t, refused)
  <2>1. DOMAIN refused = DOMAIN NotReading /\ refused.pc = "done" /\ refused.result = "not enabled"
    BY <1>2 DEF NotReading
  <2> HIDE DEF refused
  <2>2. CallFits(refused, seen)
    BY <2>1 DEF CallFits, LocalesWereThere, AsksFit, NothingMissed, LocaleWasEnabled, TextResults
  <2>3. QED
    BY <1>2, <1>3, <2>2, ReaderGoesOn
<1>4. CASE \E l \in LocaleOf(r) : ReaderMoves(t, chosen(l))
  <2>1. PICK l \in LocaleOf(r) : ReaderMoves(t, chosen(l))
    BY <1>4
  <2>2. l \in r.available
    <3> DEFINE first == {i \in DOMAIN r.candidates :
                    /\ r.candidates[i] \in r.available
                    /\ \A j \in 1..(i - 1) : r.candidates[j] \notin r.available}
           default == {x \in {r.locale} : first = {} /\ ~r.explicit /\ x \in r.available}
    <3>1. LocaleOf(r) = {r.candidates[i] : i \in first} \cup default
      BY DEF LocaleOf
    <3>2. \A x \in {r.candidates[i] : i \in first} \cup default : x \in r.available
      OBVIOUS
    <3>3. QED
      BY <2>1, <3>1, <3>2
  <2>3. /\ DOMAIN chosen(l) = DOMAIN NotReading /\ chosen(l).pc = "done"
        /\ chosen(l).result = "locale" /\ chosen(l).locale = l
    BY <1>2 DEF NotReading
  <2> HIDE DEF chosen
  <2>4. \E c \in AllCatalogs : \E s \in seen[c] : l \in DOMAIN s
    BY <1>1, <1>2, <2>2 DEF CallFits, LocalesWereThere
  <2>5. CallFits(chosen(l), seen)
    BY <2>3, <2>4 DEF CallFits, LocalesWereThere, AsksFit, NothingMissed, LocaleWasEnabled, TextResults
  <2>6. QED
    BY <1>2, <2>1, <2>5, ReaderGoesOn
<1>5. QED
  BY <1>1, <1>3, <1>4

LEMMA AskingCatalogInv ==
    ASSUME CatalogsInv, NEW t \in Readers, AsksNextCatalog(t)
    PROVE  CatalogsInv'
<1> DEFINE r == reading[t]
           seen == storesSeen[t]
           h == Head(r.asks)
           said == AnswerOf(h, r.locale)
           ends == said.kind = "exact" \/ ~Composed(r.candidates)
           next == [r EXCEPT !.asks = Tail(@),
                             !.fallback = IF @ = NoText THEN said.text ELSE @,
                             !.synthetic = @ \/ said.kind = "synthetic"]
<1>1. /\ r.pc = "texts" /\ r.asks # <<>>
      /\ ReaderMoves(t, IF ends THEN Answers(r, said.kind, said.text) ELSE next)
  BY DEF AsksNextCatalog
<1>2. CallFits(r, seen) /\ r.pc # "idle" /\ \A c \in AllCatalogs : installed[c] \in seen[c]
  BY <1>1 DEF CatalogsInv
<1>3. /\ DOMAIN r = DOMAIN NotReading /\ r.candidates \in Seq(AllCatalogs) /\ r.asks \in Seq(AllCatalogs)
      /\ \A j \in DOMAIN r.asks : r.asks[j] \in Asked(r)
      /\ AskedInVain(r, seen, r.asks, r.locale)
      /\ r.fallback # NoText => WasThere(r, seen, r.fallback)
  BY <1>1, <1>2 DEF CallFits, AsksFit
<1>4. /\ Tail(r.asks) \in Seq(AllCatalogs) /\ h \in Asked(r) /\ h \in AllCatalogs
      /\ \A j \in DOMAIN Tail(r.asks) : Tail(r.asks)[j] \in Asked(r)
  BY <1>1, <1>3, TailFits
<1>5. installed[h] \in seen[h]
  BY <1>2, <1>4
<1>6. /\ said.kind \in TextResults
      /\ said.kind # "exact" => ~Kept(seen, h, r.locale)
      /\ said.text # NoText => said.kind \in {"exact", "fallback"}
      /\ said.kind \in {"exact", "fallback"} => WasThere(r, seen, said.text)
  <2>1. /\ said.kind \in TextResults
        /\ said.kind # "exact" => ~HasText(installed[h], r.locale)
        /\ said.text # NoText => said.kind \in {"exact", "fallback"}
        /\ said.kind \in {"exact", "fallback"} =>
             \E k \in DOMAIN installed[h] : HasText(installed[h], k) /\ installed[h][k] = said.text
    BY <1>4, AnswerIsTrue
  <2> HIDE DEF said
  <2>2. said.kind # "exact" => ~Kept(seen, h, r.locale)
    BY <1>5, <2>1 DEF Kept
  <2>3. said.kind \in {"exact", "fallback"} => WasThere(r, seen, said.text)
    BY <1>4, <1>5, <2>1 DEF WasThere
  <2>4. QED
    BY <2>1, <2>2, <2>3
<1> HIDE DEF said
<1>7. CASE ends
  <2>1. said.kind # "exact" => \A c \in Asked(r) : ~Kept(seen, c, r.locale)
    <3>1. SUFFICES ASSUME said.kind # "exact", NEW c \in Asked(r) PROVE c = h
      BY <1>6
    <3>2. ~(Len(r.candidates) > 1) /\ Len(r.candidates) \in Nat
      BY <1>3, <1>7, <3>1 DEF Composed
    <3>3. PICK i \in DOMAIN r.candidates, j \in DOMAIN r.candidates :
            r.candidates[i] = c /\ r.candidates[j] = h
      BY <1>4 DEF Asked
    <3>4. i \in 1..Len(r.candidates) /\ j \in 1..Len(r.candidates)
      BY <1>3, <3>3
    <3>5. QED
      BY <3>2, <3>3, <3>4
  <2>2. said.kind \in {"synthetic", "missing"} => ~Composed(r.candidates)
    BY <1>7
  <2>3. CallFits(Answers(r, said.kind, said.text), seen)
    BY <1>3, <1>6, <2>1, <2>2, AnswerFits
  <2>4. ReaderMoves(t, Answers(r, said.kind, said.text))
    BY <1>1, <1>7
  <2>5. QED
    BY <1>2, <2>3, <2>4, ReaderGoesOn
<1>8. CASE ~ends
  <2>1. ReaderMoves(t, next)
    BY <1>1, <1>8
  <2>2. /\ DOMAIN next = DOMAIN NotReading /\ next.pc = "texts" /\ next.candidates = r.candidates
        /\ next.asks = Tail(r.asks) /\ next.locale = r.locale
        /\ next.fallback = IF r.fallback = NoText THEN said.text ELSE r.fallback
    BY <1>1, <1>3 DEF NotReading
  <2> HIDE DEF next
  <2>3. Asked(next) = Asked(r) /\ \A x : WasThere(next, seen, x) <=> WasThere(r, seen, x)
    BY <2>2 DEF Asked, WasThere
  <2>4. said.kind # "exact"
    BY <1>8
  <2>5. ~Kept(seen, h, r.locale)
    BY <1>6, <2>4
  <2>6. AskedInVain(r, seen, Tail(r.asks), r.locale)
    BY <1>1, <1>3, <2>5, NextInVain
  <2>7. AskedInVain(next, seen, next.asks, next.locale)
    BY <2>2, <2>3, <2>6 DEF AskedInVain
  <2>8. next.fallback # NoText => WasThere(next, seen, next.fallback)
    BY <1>3, <1>6, <2>2, <2>3
  <2>9. CallFits(next, seen)
    BY <1>3, <1>4, <2>2, <2>3, <2>7, <2>8, AskingFits
  <2>10. QED
    BY <1>2, <2>1, <2>9, ReaderGoesOn
<1>9. QED
  BY <1>7, <1>8

LEMMA RunningOutInv ==
    ASSUME CatalogsInv, NEW t \in Readers, RanOut(t)
    PROVE  CatalogsInv'
<1> DEFINE r == reading[t]
           seen == storesSeen[t]
           offered == IF r.synthetic THEN "synthetic" ELSE "missing"
           next == [r EXCEPT !.pc = "defaults", !.asks = r.candidates]
<1>1. /\ r.pc = "texts" /\ r.asks = <<>>
      /\ r.fallback # NoText => ReaderMoves(t, Answers(r, "fallback", r.fallback))
      /\ r.fallback = NoText /\ r.locale # ComposedDefault => ReaderMoves(t, next)
      /\ r.fallback = NoText /\ r.locale = ComposedDefault => ReaderMoves(t, Answers(r, offered, NoText))
  BY DEF RanOut
<1>2. CallFits(r, seen) /\ r.pc # "idle"
  BY <1>1 DEF CatalogsInv
<1>3. /\ DOMAIN r = DOMAIN NotReading /\ r.candidates \in Seq(AllCatalogs)
      /\ AskedInVain(r, seen, <<>>, r.locale)
      /\ r.fallback # NoText => WasThere(r, seen, r.fallback)
  BY <1>1, <1>2 DEF CallFits, AsksFit
<1>4. \A c \in Asked(r) : ~Kept(seen, c, r.locale)
  <2>1. DOMAIN <<>> = {}
    OBVIOUS
  <2>2. QED
    BY <1>3, <2>1 DEF AskedInVain
<1>5. CASE r.fallback # NoText
  <2>1. CallFits(Answers(r, "fallback", r.fallback), seen)
    BY <1>3, <1>4, <1>5, AnswerFits DEF TextResults
  <2>2. QED
    BY <1>1, <1>2, <1>5, <2>1, ReaderGoesOn
<1>6. CASE r.fallback = NoText /\ r.locale # ComposedDefault
  <2>1. /\ DOMAIN next = DOMAIN NotReading /\ next.pc = "defaults" /\ next.candidates = r.candidates
        /\ next.asks = r.candidates /\ next.locale = r.locale /\ next.fallback = NoText
    BY <1>3, <1>6 DEF NotReading
  <2> HIDE DEF next
  <2>2. Asked(next) = Asked(r) /\ \A j \in DOMAIN next.asks : next.asks[j] \in Asked(next)
    BY <2>1 DEF Asked
  <2>3. AskedInVain(next, seen, <<>>, next.locale)
    BY <1>4, <2>1, <2>2 DEF AskedInVain
  <2>4. AskedInVain(next, seen, next.asks, ComposedDefault)
    BY <2>1 DEF AskedInVain, Asked
  <2>5. CallFits(next, seen)
    BY <1>3, <2>1, <2>2, <2>3, <2>4, AskingFits
  <2>6. QED
    BY <1>1, <1>2, <1>6, <2>5, ReaderGoesOn
<1>7. CASE r.fallback = NoText /\ r.locale = ComposedDefault
  <2>1. offered \in {"synthetic", "missing"}
    OBVIOUS
  <2>2. ReaderMoves(t, Answers(r, offered, NoText))
    BY <1>1, <1>7
  <2> HIDE DEF offered
  <2>3. offered \in TextResults /\ offered \notin {"exact", "fallback"}
    BY <2>1 DEF TextResults
  <2>4. CallFits(Answers(r, offered, NoText), seen)
    BY <1>3, <1>4, <1>7, <2>3, AnswerFits
  <2>5. QED
    BY <1>2, <2>2, <2>4, ReaderGoesOn
<1>8. QED
  BY <1>5, <1>6, <1>7

LEMMA AskingDefaultInv ==
    ASSUME CatalogsInv, NEW t \in Readers, AsksNextDefault(t)
    PROVE  CatalogsInv'
<1> DEFINE r == reading[t]
           seen == storesSeen[t]
           h == Head(r.asks)
           offered == IF r.synthetic THEN "synthetic" ELSE "missing"
           next == [r EXCEPT !.asks = Tail(@)]
<1>1. /\ r.pc = "defaults"
      /\ r.asks = <<>> => ReaderMoves(t, Answers(r, offered, NoText))
      /\ r.asks # <<>> /\ HasText(installed[h], ComposedDefault) =>
           ReaderMoves(t, Answers(r, "fallback", installed[h][ComposedDefault]))
      /\ r.asks # <<>> /\ ~HasText(installed[h], ComposedDefault) => ReaderMoves(t, next)
  BY DEF AsksNextDefault
<1>2. CallFits(r, seen) /\ r.pc # "idle" /\ \A c \in AllCatalogs : installed[c] \in seen[c]
  BY <1>1 DEF CatalogsInv
<1>3. /\ DOMAIN r = DOMAIN NotReading /\ r.candidates \in Seq(AllCatalogs) /\ r.asks \in Seq(AllCatalogs)
      /\ \A j \in DOMAIN r.asks : r.asks[j] \in Asked(r)
      /\ AskedInVain(r, seen, <<>>, r.locale) /\ AskedInVain(r, seen, r.asks, ComposedDefault)
      /\ r.fallback = NoText
  BY <1>1, <1>2 DEF CallFits, AsksFit
<1>4. DOMAIN <<>> = {}
  OBVIOUS
<1>5. \A c \in Asked(r) : ~Kept(seen, c, r.locale)
  BY <1>3, <1>4 DEF AskedInVain
<1>6. CASE r.asks = <<>>
  <2>1. offered \in {"synthetic", "missing"}
    OBVIOUS
  <2>2. ReaderMoves(t, Answers(r, offered, NoText))
    BY <1>1, <1>6
  <2> HIDE DEF offered
  <2>3. offered \in TextResults /\ offered \notin {"exact", "fallback"}
    BY <2>1 DEF TextResults
  <2>4. \A c \in Asked(r) : ~Kept(seen, c, ComposedDefault)
    BY <1>3, <1>4, <1>6 DEF AskedInVain
  <2>5. CallFits(Answers(r, offered, NoText), seen)
    BY <1>3, <1>5, <2>3, <2>4, AnswerFits
  <2>6. QED
    BY <1>2, <2>2, <2>5, ReaderGoesOn
<1>7. ASSUME r.asks # <<>>
      PROVE  /\ Tail(r.asks) \in Seq(AllCatalogs) /\ h \in Asked(r) /\ installed[h] \in seen[h]
             /\ \A j \in DOMAIN Tail(r.asks) : Tail(r.asks)[j] \in Asked(r)
  BY <1>2, <1>3, <1>7, TailFits
<1>8. CASE r.asks # <<>> /\ HasText(installed[h], ComposedDefault)
  <2>1. ComposedDefault \in DOMAIN installed[h]
    BY <1>8 DEF HasText
  <2>2. WasThere(r, seen, installed[h][ComposedDefault])
    BY <1>7, <1>8, <2>1 DEF WasThere
  <2>3. CallFits(Answers(r, "fallback", installed[h][ComposedDefault]), seen)
    BY <1>3, <1>5, <2>2, AnswerFits DEF TextResults
  <2>4. QED
    BY <1>1, <1>2, <1>8, <2>3, ReaderGoesOn
<1>9. CASE r.asks # <<>> /\ ~HasText(installed[h], ComposedDefault)
  <2>1. /\ DOMAIN next = DOMAIN NotReading /\ next.pc = "defaults" /\ next.candidates = r.candidates
        /\ next.asks = Tail(r.asks) /\ next.locale = r.locale /\ next.fallback = r.fallback
    BY <1>1, <1>3 DEF NotReading
  <2> HIDE DEF next
  <2>2. Asked(next) = Asked(r)
    BY <2>1 DEF Asked
  <2>3. ~Kept(seen, h, ComposedDefault)
    BY <1>7, <1>9 DEF Kept
  <2>4. AskedInVain(r, seen, Tail(r.asks), ComposedDefault)
    BY <1>3, <1>9, <2>3, NextInVain
  <2>5. AskedInVain(next, seen, <<>>, next.locale) /\ AskedInVain(next, seen, next.asks, ComposedDefault)
    BY <1>3, <2>1, <2>2, <2>4 DEF AskedInVain
  <2>6. CallFits(next, seen)
    BY <1>3, <1>7, <1>9, <2>1, <2>2, <2>5, AskingFits
  <2>7. ReaderMoves(t, next)
    BY <1>1, <1>9
  <2>8. QED
    BY <1>2, <2>6, <2>7, ReaderGoesOn
<1>10. QED
  BY <1>6, <1>8, <1>9

LEMMA ReturningInv ==
    ASSUME CatalogsInv, NEW t \in Readers, ReaderReturns(t)
    PROVE  CatalogsInv'
<1> DEFINE none == [c \in AllCatalogs |-> {}]
<1>1. installed' = installed /\ handle' = handle /\ building' = building /\ loads' = loads
  BY DEF ReaderReturns
<1>2. /\ DOMAIN reading' = Readers
      /\ \A u \in Readers : reading'[u] = IF u = t THEN NotReading ELSE reading[u]
  BY DEF ReaderReturns, CatalogsInv
<1>3. \A u \in Readers : storesSeen'[u] = IF u = t THEN none ELSE storesSeen[u]
  BY DEF ReaderReturns, CatalogsInv
<1>4. storesSeen' \in [Readers -> [AllCatalogs -> SUBSET Stores]]
  <2>1. storesSeen' = [storesSeen EXCEPT ![t] = none] /\ none \in [AllCatalogs -> SUBSET Stores]
    BY DEF ReaderReturns
  <2> HIDE DEF none
  <2>2. QED
    BY <2>1 DEF CatalogsInv
<1> HIDE DEF none
<1>5. \A u \in Readers : CallFits(reading'[u], storesSeen'[u])
  BY <1>2, <1>3, FreshReader DEF CatalogsInv
<1>6. \A u \in Readers : CallFits(reading[u], storesSeen[u])'
  BY <1>5
<1>7. \A u \in Readers : reading'[u].pc \in {"idle", "locales", "texts", "defaults", "done"}
  BY <1>5 DEF CallFits
<1>8. CatalogsTypeOK' /\ LoadsFit' /\ DefaultsAreInstalled' /\ DOMAIN building' = Reloaders
  BY <1>1, <1>7 DEF CatalogsInv, CatalogsTypeOK, LoadsFit, DefaultsAreInstalled
<1>9. NotReading.pc = "idle"
  BY DEF NotReading
<1>10. \A u \in Readers : (reading[u].pc # "idle" => \A c \in AllCatalogs : installed[c] \in storesSeen[u][c])'
  BY <1>1, <1>2, <1>3, <1>9 DEF CatalogsInv
<1>11. QED
  BY <1>2, <1>4, <1>6, <1>8, <1>10 DEF CatalogsInv

\* The steps of the reloads, and the handle's replacement.
LoadRecords == [catalog : Dynamics, texts : Stores, load : 1..MaxLoads, sources : 0..MaxSources]

LEMMA NoLoadFits == NoLoad.texts \in Stores /\ NoLoad.sources <= MaxSources
BY EmptyStore, CatalogsAssumption DEF NoLoad

LEMMA BuildingFits ==
    ASSUME CatalogsInv, NEW r \in Reloaders, NEW b, b \in LoadRecords \/ b = NoLoad,
           building' = [building EXCEPT ![r] = b], loads' \in 1..MaxLoads,
           UNCHANGED <<installed, handle, reading, storesSeen>>
    PROVE  CatalogsInv'
<1>1. DOMAIN building' = Reloaders /\ \A q \in Reloaders : building'[q] = IF q = r THEN b ELSE building[q]
  BY DEF CatalogsInv
<1>2. b.texts \in Stores /\ b.sources <= MaxSources
  BY NoLoadFits, CatalogsAssumption DEF LoadRecords
<1>3. \A q \in Reloaders : building'[q] = NoLoad \/ building'[q] \in LoadRecords
  BY <1>1 DEF CatalogsInv, LoadsFit, LoadRecords
<1>4. LoadsFit'
  BY <1>3 DEF LoadsFit, LoadRecords
<1>5. \A q \in Reloaders : building'[q].texts \in Stores /\ building'[q].sources <= MaxSources
  BY <1>1, <1>2 DEF CatalogsInv, CatalogsTypeOK
<1>6. CatalogsTypeOK'
  BY <1>5 DEF CatalogsInv, CatalogsTypeOK
<1>7. QED
  BY <1>1, <1>4, <1>6, ReloaderGoesOn

LEMMA BeginningInv ==
    ASSUME CatalogsInv, NEW r \in Reloaders, NEW c \in Dynamics, BeginsReload(r, c)
    PROVE  CatalogsInv'
<1> DEFINE b == [catalog |-> c, texts |-> <<>>, load |-> loads + 1, sources |-> 0]
<1>1. loads \in 1..MaxLoads /\ MaxLoads \in Nat /\ MaxSources \in Nat
  BY CatalogsAssumption DEF CatalogsInv, CatalogsTypeOK
<1>2. loads < MaxLoads /\ loads' = loads + 1
  BY DEF BeginsReload
<1>3. loads' \in 1..MaxLoads /\ 0 \in 0..MaxSources
  BY <1>1, <1>2
<1>4. b \in LoadRecords
  BY <1>2, <1>3, EmptyStore DEF LoadRecords
<1>5. building' = [building EXCEPT ![r] = b] /\ UNCHANGED <<installed, handle, reading, storesSeen>>
  BY <1>2 DEF BeginsReload
<1> HIDE DEF b
<1>6. QED
  BY <1>3, <1>4, <1>5, BuildingFits

LEMMA FailingInv ==
    ASSUME CatalogsInv, NEW r \in Reloaders, ReloadFails(r)
    PROVE  CatalogsInv'
<1>1. building' = [building EXCEPT ![r] = NoLoad] /\ loads' = loads
      /\ UNCHANGED <<installed, handle, reading, storesSeen>>
  BY DEF ReloadFails
<1>2. loads' \in 1..MaxLoads
  BY <1>1 DEF CatalogsInv, CatalogsTypeOK
<1>3. QED
  BY <1>1, <1>2, BuildingFits

LEMMA TakingInv ==
    ASSUME CatalogsInv, NEW r \in Reloaders, NEW l \in CatalogLocales, NEW content,
           TakesSource(r, l, content)
    PROVE  CatalogsInv'
<1> DEFINE b == building[r]
           text == IF content = "with key" THEN b.load ELSE NoText
           next == [b EXCEPT !.sources = @ + 1, !.texts = WithSource(@, l, text)]
<1>1. CASE ReloadFails(r)
  BY <1>1, FailingInv
<1>2. CASE ~ReloadFails(r)
  <2>1. b # NoLoad /\ b.sources # MaxSources
        /\ building' = [building EXCEPT ![r].sources = @ + 1, ![r].texts = WithSource(@, l, text)]
        /\ UNCHANGED <<installed, handle, loads, reading, storesSeen>>
    BY <1>2 DEF TakesSource
  <2>2. b \in LoadRecords /\ DOMAIN building = Reloaders
    BY <2>1 DEF CatalogsInv, LoadsFit, LoadRecords
  <2>3. b.load \in 1..MaxLoads /\ b.texts \in Stores /\ b.sources \in 0..MaxSources /\ b.catalog \in Dynamics
    BY <2>2 DEF LoadRecords
  <2>4. MaxSources \in Nat /\ MaxLoads \in Nat
    BY CatalogsAssumption
  <2>5. b.sources + 1 \in 0..MaxSources /\ text \in 0..MaxLoads
    <3>1. text = b.load \/ text = 0
      BY DEF NoText
    <3> HIDE DEF text, b
    <3>2. b.sources + 1 \in 0..MaxSources
      BY <2>1, <2>3, <2>4
    <3>3. text \in 0..MaxLoads
      BY <2>3, <2>4, <3>1
    <3>4. QED
      BY <3>2, <3>3
  <2> HIDE DEF text
  <2>6. WithSource(b.texts, l, text) \in Stores
    BY <2>3, <2>5, SourceIsAdded
  <2>7. building' = [building EXCEPT ![r] = next]
    BY <2>1, <2>2
  <2>8. \A n \in 0..MaxSources, s \in Stores : [b EXCEPT !.sources = n, !.texts = s] \in LoadRecords
    BY <2>2 DEF LoadRecords
  <2>9. next \in LoadRecords
    <3>1. next = [b EXCEPT !.sources = b.sources + 1, !.texts = WithSource(b.texts, l, text)]
      BY <2>2 DEF LoadRecords
    <3> HIDE DEF next, b
    <3>2. QED
      BY <2>5, <2>6, <2>8, <3>1
  <2> HIDE DEF next, b
  <2>10. loads' \in 1..MaxLoads
    BY <2>1 DEF CatalogsInv, CatalogsTypeOK
  <2>11. QED
    BY <2>1, <2>7, <2>9, <2>10, BuildingFits
<1>3. QED
  BY <1>1, <1>2

LEMMA EndingInv ==
    ASSUME CatalogsInv, NEW r \in Reloaders, EndsReload(r)
    PROVE  CatalogsInv'
<1> DEFINE b == building[r]
<1>1. CASE ReloadFails(r)
  BY <1>1, FailingInv
<1>2. CASE ~ReloadFails(r)
  <2>1. /\ b # NoLoad /\ DefaultOf[b.catalog] \in DOMAIN b.texts
        /\ installed' = [installed EXCEPT ![b.catalog] = b.texts]
        /\ building' = [building EXCEPT ![r] = NoLoad]
        /\ storesSeen' = [t \in Readers |->
              [storesSeen[t] EXCEPT ![b.catalog] =
                  IF reading[t].pc = "idle" THEN @ ELSE @ \cup {b.texts}]]
        /\ handle' = handle /\ loads' = loads /\ reading' = reading
    BY <1>2 DEF EndsReload
  <2>2. b \in LoadRecords
    BY <2>1 DEF CatalogsInv, LoadsFit, LoadRecords
  <2>3. b.catalog \in Dynamics /\ b.catalog \in AllCatalogs /\ b.texts \in Stores
    BY <2>2 DEF LoadRecords, AllCatalogs
  <2>4. /\ installed \in [AllCatalogs -> Stores] /\ DOMAIN building = Reloaders
        /\ storesSeen \in [Readers -> [AllCatalogs -> SUBSET Stores]]
    BY DEF CatalogsInv, CatalogsTypeOK
  <2> HIDE DEF b
  <2>5. /\ installed' \in [AllCatalogs -> Stores]
        /\ \A c \in AllCatalogs : installed'[c] = IF c = b.catalog THEN b.texts ELSE installed[c]
    BY <2>1, <2>3, <2>4
  <2>6. \A t \in Readers : \A c \in AllCatalogs :
          storesSeen'[t][c] = IF c = b.catalog /\ reading[t].pc # "idle"
                              THEN storesSeen[t][c] \cup {b.texts} ELSE storesSeen[t][c]
    BY <2>1, <2>3, <2>4
  <2>7. storesSeen' \in [Readers -> [AllCatalogs -> SUBSET Stores]]
    <3>1. \A t \in Readers : [storesSeen[t] EXCEPT ![b.catalog] =
                                IF reading[t].pc = "idle" THEN @ ELSE @ \cup {b.texts}]
                             \in [AllCatalogs -> SUBSET Stores]
      BY <2>3, <2>4
    <3>2. QED
      BY <2>1, <3>1
  <2>8. \A q \in Reloaders : building'[q] = IF q = r THEN NoLoad ELSE building[q]
    BY <2>1, <2>4
  <2>9. CatalogsTypeOK' /\ LoadsFit' /\ DOMAIN building' = Reloaders
    <3>1. \A q \in Reloaders : building'[q].texts \in Stores /\ building'[q].sources <= MaxSources
      BY <2>8, NoLoadFits DEF CatalogsInv, CatalogsTypeOK
    <3>2. CatalogsTypeOK'
      BY <2>1, <2>5, <3>1 DEF CatalogsInv, CatalogsTypeOK
    <3>3. LoadsFit'
      BY <2>8 DEF CatalogsInv, LoadsFit
    <3>4. QED
      BY <2>1, <2>4, <3>2, <3>3
  <2>10. DefaultsAreInstalled'
    <3>1. \A c \in Dynamics : c \in AllCatalogs
      BY DEF AllCatalogs
    <3>2. QED
      BY <2>1, <2>5, <3>1 DEF CatalogsInv, DefaultsAreInstalled
  <2>11. \A t \in Readers : CallFits(reading[t], storesSeen'[t])
    <3>1. SUFFICES ASSUME NEW t \in Readers PROVE CallFits(reading[t], storesSeen'[t])
      OBVIOUS
    <3>2. CallFits(reading[t], storesSeen[t])
      BY DEF CatalogsInv
    <3>3. \A c \in AllCatalogs : storesSeen[t][c] \subseteq storesSeen'[t][c]
      BY <2>6
    <3>4. QED
      BY <3>2, <3>3, MoreIsSeen
  <2>12. \A t \in Readers : CallFits(reading[t], storesSeen[t])'
    BY <2>1, <2>11
  <2>13. \A t \in Readers : (reading[t].pc # "idle" => \A c \in AllCatalogs : installed[c] \in storesSeen[t][c])'
    BY <2>1, <2>5, <2>6 DEF CatalogsInv
  <2>14. DOMAIN reading' = Readers
    BY <2>1 DEF CatalogsInv
  <2>15. QED
    BY <2>7, <2>9, <2>10, <2>12, <2>13, <2>14 DEF CatalogsInv
<1>3. QED
  BY <1>1, <1>2

LEMMA ReplacingInv ==
    ASSUME CatalogsInv, NEW cs \in Compositions, Replaces(cs)
    PROVE  CatalogsInv'
<1>1. handle' \in Compositions /\ UNCHANGED <<installed, building, loads, reading, storesSeen>>
  BY DEF Replaces
<1>2. CatalogsTypeOK' /\ LoadsFit' /\ DOMAIN building' = Reloaders
  BY <1>1 DEF CatalogsInv, CatalogsTypeOK, LoadsFit
<1>3. QED
  BY <1>1, <1>2, ReloaderGoesOn

LEMMA CatalogsStepInv == CatalogsInv /\ [CatalogsNext]_catalogVars => CatalogsInv'
<1> SUFFICES ASSUME CatalogsInv, [CatalogsNext]_catalogVars PROVE CatalogsInv'
  OBVIOUS
<1>1. CASE UNCHANGED catalogVars
  <2>1. CatalogsTypeOK' /\ LoadsFit' /\ DOMAIN building' = Reloaders
    BY <1>1 DEF catalogVars, CatalogsInv, CatalogsTypeOK, LoadsFit
  <2>2. QED
    BY <1>1, <2>1, ReloaderGoesOn DEF catalogVars
<1>2. ASSUME NEW r \in Reloaders, NEW c \in Dynamics, BeginsReload(r, c) PROVE CatalogsInv'
  BY <1>2, BeginningInv
<1>3. ASSUME NEW r \in Reloaders, NEW l \in CatalogLocales, NEW content, TakesSource(r, l, content)
      PROVE  CatalogsInv'
  BY <1>3, TakingInv
<1>4. ASSUME NEW r \in Reloaders, EndsReload(r) PROVE CatalogsInv'
  BY <1>4, EndingInv
<1>5. ASSUME NEW cs \in Compositions, Replaces(cs) PROVE CatalogsInv'
  BY <1>5, ReplacingInv
<1>6. ASSUME NEW t \in Readers, NEW request, AsksForLocale(t, request) PROVE CatalogsInv'
  BY <1>6, AskingLocaleInv
<1>7. ASSUME NEW t \in Readers, SeesLocales(t) \/ ChoosesLocale(t) PROVE CatalogsInv'
  BY <1>7, SeeingInv, ChoosingInv
<1>8. ASSUME NEW t \in Readers, NEW l \in CatalogLocales, LooksUp(t, l) PROVE CatalogsInv'
  BY <1>8, LookingUpInv
<1>9. ASSUME NEW t \in Readers, AsksNextCatalog(t) \/ RanOut(t) \/ AsksNextDefault(t)
      PROVE  CatalogsInv'
  BY <1>9, AskingCatalogInv, RunningOutInv, AskingDefaultInv
<1>10. ASSUME NEW t \in Readers, ReaderReturns(t) PROVE CatalogsInv'
  BY <1>10, ReturningInv
<1>11. QED
  BY <1>1, <1>2, <1>3, <1>4, <1>5, <1>6, <1>7, <1>8, <1>9, <1>10 DEF CatalogsNext

\* The types of the catalogs, for any number of them.
THEOREM CatalogsTypeCorrect == CatalogsSpec => []CatalogsTypeOK
<1>1. CatalogsInv => CatalogsTypeOK
  BY DEF CatalogsInv
<1>2. QED
  BY <1>1, CatalogsInitInv, CatalogsStepInv, PTL DEF CatalogsSpec

-----------------------------------------------------------------------------
(***************************************************************************)
(* TextTree: what is read is inside and within the limits.                 *)
(***************************************************************************)

\* Sequences of whatever they hold.
LEMMA SeqsAre == ASSUME NEW S, NEW s \in Seq(S) PROVE IsSeq(s)
<1>1. Len(s) \in Nat /\ DOMAIN s = 1..Len(s) /\ s = [i \in 1..Len(s) |-> s[i]]
  OBVIOUS
<1> DEFINE T == {s[i] : i \in DOMAIN s}
<1>2. \A i \in 1..Len(s) : s[i] \in T
  BY <1>1
<1> HIDE DEF T
<1>3. s \in [1..Len(s) -> T]
  BY <1>1, <1>2
<1>4. s \in Seq(T)
  BY <1>1, <1>3, SeqDef
<1>5. QED
  BY <1>4 DEF IsSeq, T

LEMMA SeqHas ==
    ASSUME NEW s, IsSeq(s)
    PROVE  Len(s) \in Nat /\ DOMAIN s = 1..Len(s)
BY DEF IsSeq

LEMMA SeqAppends ==
    ASSUME NEW s, IsSeq(s), NEW x
    PROVE  /\ IsSeq(Append(s, x)) /\ Len(Append(s, x)) = Len(s) + 1
           /\ DOMAIN Append(s, x) = 1..(Len(s) + 1) /\ Append(s, x)[Len(s) + 1] = x
           /\ \A i \in 1..Len(s) : Append(s, x)[i] = s[i]
<1> DEFINE T == {s[i] : i \in DOMAIN s} \cup {x}
<1>1. s \in Seq(T) /\ x \in T
  <2>1. \A i \in 1..Len(s) : s[i] \in T
    BY SeqHas
  <2>2. Len(s) \in Nat /\ s = [i \in 1..Len(s) |-> s[i]]
    BY DEF IsSeq
  <2> HIDE DEF T
  <2>3. s \in [1..Len(s) -> T]
    BY <2>1, <2>2
  <2>4. s \in Seq(T)
    BY <2>2, <2>3, SeqDef
  <2>5. QED
    BY <2>4 DEF T
<1> HIDE DEF T
<1>2. Append(s, x) \in Seq(T)
  BY <1>1
<1>3. IsSeq(Append(s, x))
  BY <1>2, SeqsAre
<1>4. QED
  BY <1>1, <1>2, <1>3

LEMMA SeqTakesLast ==
    ASSUME NEW s, IsSeq(s), s # <<>>
    PROVE  /\ Len(s) \in DOMAIN s /\ Last(s) = s[Len(s)]
           /\ IsSeq(Front(s)) /\ \A i \in DOMAIN Front(s) : i \in DOMAIN s /\ Front(s)[i] = s[i]
<1> DEFINE T == {s[i] : i \in DOMAIN s}
<1>1. s \in Seq(T)
  BY DEF IsSeq
<1> HIDE DEF T
<1>2. Len(s) \in Nat \ {0} /\ DOMAIN s = 1..Len(s)
  BY <1>1
<1>3. SubSeq(s, 1, Len(s) - 1) \in Seq(T) /\ DOMAIN SubSeq(s, 1, Len(s) - 1) = 1..(Len(s) - 1)
      /\ \A i \in 1..(Len(s) - 1) : SubSeq(s, 1, Len(s) - 1)[i] = s[i]
  BY <1>1, <1>2
<1>4. Front(s) = SubSeq(s, 1, Len(s) - 1) /\ Last(s) = s[Len(s)]
  BY DEF Front, Last
<1>5. IsSeq(Front(s))
  BY <1>3, <1>4, SeqsAre
<1>6. QED
  BY <1>2, <1>3, <1>4, <1>5

LEMMA SeqJoins ==
    ASSUME NEW s, IsSeq(s), NEW u, IsSeq(u), NEW w, w = Stacked(s, u)
    PROVE  /\ IsSeq(w)
           /\ \A i \in DOMAIN w : \/ \E j \in DOMAIN s : w[i] = s[j]
                                 \/ \E j \in DOMAIN u : w[i] = u[j]
<1> DEFINE T == {s[i] : i \in DOMAIN s} \cup {u[i] : i \in DOMAIN u}
           v == Reverse(u)
<1>1. /\ Len(s) \in Nat /\ DOMAIN s = 1..Len(s) /\ s = [i \in 1..Len(s) |-> s[i]]
      /\ Len(u) \in Nat /\ DOMAIN u = 1..Len(u)
  BY DEF IsSeq
<1>2. v = [i \in 1..Len(u) |-> u[(Len(u) - i) + 1]] /\ \A i \in 1..Len(u) : (Len(u) - i) + 1 \in 1..Len(u)
  BY <1>1 DEF Reverse
<1>3. (\A i \in 1..Len(s) : s[i] \in T) /\ \A i \in 1..Len(u) : u[i] \in T
  BY <1>1
<1>4. \A x \in T : (\E j \in DOMAIN s : x = s[j]) \/ \E j \in DOMAIN u : x = u[j]
  OBVIOUS
<1> HIDE DEF T, v
<1>5. s \in Seq(T) /\ v \in Seq(T)
  <2>1. s \in [1..Len(s) -> T] /\ v \in [1..Len(u) -> T]
    BY <1>1, <1>2, <1>3
  <2>2. QED
    BY <1>1, <2>1, SeqDef
<1>6. s \o v \in Seq(T)
  BY <1>5
<1>7. IsSeq(s \o v)
  BY <1>6, SeqsAre
<1>8. \A i \in DOMAIN (s \o v) : (s \o v)[i] \in T
  BY <1>6
<1>9. w = s \o v
  BY DEF v, Stacked
<1>10. QED
  BY <1>4, <1>7, <1>8, <1>9

\* A path goes over from the names that are left to the prefix.
LEMMA PathMovesOn ==
    ASSUME NEW prefix \in Seq(TreeNames), NEW names \in Seq(TreeNames), names # <<>>
    PROVE  /\ Append(prefix, Head(names)) \in Seq(TreeNames) /\ Tail(names) \in Seq(TreeNames)
           /\ Append(prefix, Head(names)) \o Tail(names) = prefix \o names
           /\ Len(names) = 1 => Append(prefix, Head(names)) = prefix \o names
<1>1. Len(names) \in Nat \ {0} /\ Len(prefix) \in Nat /\ Head(names) = names[1] /\ Head(names) \in TreeNames
  OBVIOUS
<1>2. Append(prefix, Head(names)) \in Seq(TreeNames) /\ Tail(names) \in Seq(TreeNames)
      /\ Len(Append(prefix, Head(names))) = Len(prefix) + 1 /\ Len(Tail(names)) = Len(names) - 1
  BY <1>1
<1> DEFINE moved == Append(prefix, Head(names)) \o Tail(names)
           whole == prefix \o names
<1>3. moved \in Seq(TreeNames) /\ whole \in Seq(TreeNames)
  BY <1>2
<1>4. Len(moved) = Len(prefix) + Len(names) /\ Len(whole) = Len(prefix) + Len(names)
  BY <1>1, <1>2
<1>5. \A i \in 1..(Len(prefix) + Len(names)) : moved[i] = whole[i]
  <2>1. SUFFICES ASSUME NEW i \in 1..(Len(prefix) + Len(names)) PROVE moved[i] = whole[i]
    OBVIOUS
  <2>2. CASE i <= Len(prefix)
    BY <1>1, <1>2, <2>2
  <2>3. CASE i = Len(prefix) + 1
    BY <1>1, <1>2, <2>3
  <2>4. CASE i > Len(prefix) + 1
    <3>1. moved[i] = Tail(names)[i - (Len(prefix) + 1)]
      BY <1>1, <1>2, <2>4
    <3>2. Tail(names)[i - (Len(prefix) + 1)] = names[i - Len(prefix)]
      BY <1>1, <2>4
    <3>3. whole[i] = names[i - Len(prefix)]
      BY <1>1, <2>4
    <3>4. QED
      BY <3>1, <3>2, <3>3
  <2>5. QED
    BY <1>1, <2>2, <2>3, <2>4
<1>6. moved = whole
  <2> HIDE DEF moved, whole
  <2>1. QED
    BY <1>3, <1>4, <1>5, SeqEqual
<1>7. ASSUME Len(names) = 1 PROVE Append(prefix, Head(names)) = whole
  <2> DEFINE last == Append(prefix, Head(names))
  <2>1. Len(last) = Len(prefix) + 1 /\ Len(whole) = Len(prefix) + 1
    BY <1>2, <1>4, <1>7
  <2>2. \A i \in 1..(Len(prefix) + 1) : last[i] = whole[i]
    BY <1>1, <1>7
  <2>3. last \in Seq(TreeNames) /\ whole \in Seq(TreeNames)
    BY <1>2, <1>3
  <2> HIDE DEF last, whole
  <2>4. last = whole
    BY <1>1, <2>1, <2>2, <2>3, SeqEqual
  <2>5. QED
    BY <2>4 DEF last
<1>8. QED
  BY <1>2, <1>6, <1>7

LEMMA CallFields ==
    /\ DOMAIN Idle = {"pc", "mode", "limits", "stack", "here", "names", "nested", "kind", "files",
                      "directories", "bytes", "wanted", "root", "request", "result"}
    /\ Idle.pc = "idle" /\ Idle.mode = "none" /\ Idle.files = <<>> /\ Idle.bytes = 0
    /\ Idle.stack = <<>> /\ Idle.nested = <<>> /\ Idle.directories = 0 /\ Idle.result = "none"
BY DEF Idle

LEMMA NothingIsSeq == IsSeq(<<>>) /\ DOMAIN <<>> = {} /\ Len(<<>>) = 0
<1>1. <<>> \in Seq(TreeNames) /\ DOMAIN <<>> = {} /\ Len(<<>>) = 0
  OBVIOUS
<1>2. QED
  BY <1>1, SeqsAre

LEMMA ScanFits ==
    ASSUME NEW c, DOMAIN c = DOMAIN Idle, c.mode \in {"directory", "catalog"},
           c.pc \in {"pop", "look", "open", "done"}, FilesFit(c), LimitsFit(c)
    PROVE  CallIsInside(c)
BY DEF CallIsInside, ModeFits, ListFits, RootFits

LEMMA ListedFits ==
    ASSUME NEW c, DOMAIN c = DOMAIN Idle, c.mode = "listed", c.pc \in {"wanted", "walk", "leaf", "done"},
           FilesFit(c), IsSeq(c.stack), IsSeq(c.nested), ListFits(c)
    PROVE  CallIsInside(c)
BY DEF CallIsInside, ModeFits, LimitsFit, RootFits

LEMMA CallGoesOn ==
    ASSUME NEW c, CallIs(c), TreeInv, CallIsInside(c), c.mode # "ensure" \/ c.pc # "done"
    PROVE  TreeInv'
<1>1. call' = c /\ DOMAIN places' = Places
  BY DEF CallIs, TreeInv
<1>2. CallIsInside(call)' /\ (call.mode # "ensure" \/ call.pc # "done")'
  BY <1>1
<1>3. RootIsTheOneNamed'
  BY <1>2 DEF RootIsTheOneNamed
<1>4. QED
  BY <1>1, <1>2, <1>3 DEF TreeInv

\* A call that ends keeps what it has.
LEMMA EndsInside ==
    ASSUME TreeInv, NEW ending, Ends(ending), call.mode # "ensure",
           call.mode = "listed" /\ ending = "loaded" => Len(call.files) = Len(call.wanted)
    PROVE  TreeInv'
<1> DEFINE c == [call EXCEPT !.pc = "done", !.result = ending]
<1>1. CallIs(c) /\ CallIsInside(call) /\ DOMAIN call = DOMAIN Idle
  BY DEF Ends, TreeInv, CallIsInside
<1>2. /\ DOMAIN c = DOMAIN Idle /\ c.pc = "done" /\ c.result = ending /\ c.mode = call.mode
      /\ c.files = call.files /\ c.bytes = call.bytes /\ c.stack = call.stack
      /\ c.nested = call.nested /\ c.limits = call.limits /\ c.directories = call.directories
      /\ c.wanted = call.wanted
  BY <1>1, CallFields
<1> HIDE DEF c
<1>3. ModeFits(c) /\ RootFits(c)
  BY <1>2 DEF ModeFits, RootFits
<1>4. FilesFit(c)
  BY <1>1, <1>2 DEF CallIsInside, FilesFit
<1>5. LimitsFit(c)
  BY <1>1, <1>2 DEF CallIsInside, LimitsFit
<1>6. ListFits(c)
  BY <1>1, <1>2 DEF CallIsInside, ListFits
<1>7. CallIsInside(c)
  BY <1>2, <1>3, <1>4, <1>5, <1>6 DEF CallIsInside
<1>8. QED
  BY <1>1, <1>2, <1>7, CallGoesOn

\* A file is taken with what keeps its size and their number within the limits.
LEMMA FileIsTaken ==
    ASSUME NEW c, DOMAIN c = DOMAIN Idle, FilesFit(c), NEW path, NEW x \in TreeFiles,
           NEW e, e = Collects(c, path, x)
    PROVE  /\ DOMAIN e = DOMAIN Idle /\ FilesFit(e)
           /\ e.mode = c.mode /\ e.limits = c.limits /\ e.stack = c.stack /\ e.nested = c.nested
           /\ e.here = c.here /\ e.directories = c.directories /\ e.wanted = c.wanted /\ e.names = c.names
           /\ \/ e.pc = "done" /\ e.result # "loaded" /\ e.files = c.files
              \/ /\ e.pc = c.pc /\ e.result = c.result
                 /\ e.files = Append(c.files, [path |-> path, file |-> x])
                 /\ c.mode = "catalog" => ~(Len(c.files) + 1 > c.limits.sources)
<1>1. BytesOf[x] \in Nat /\ SizeOf(x) = BytesOf[x] /\ MaxTreeBytes \in Nat /\ MaxFileBytes \in Nat
  BY TextTreeAssumption DEF SizeOf
<1>2. CASE Refuses(c, x) # "ok"
  <2> DEFINE d == [c EXCEPT !.pc = "done", !.result = Refuses(c, x)]
  <2>1. e = d
    BY <1>2 DEF Collects
  <2>2. /\ DOMAIN d = DOMAIN Idle /\ d.mode = c.mode /\ d.limits = c.limits /\ d.stack = c.stack
        /\ d.nested = c.nested /\ d.here = c.here /\ d.directories = c.directories
        /\ d.wanted = c.wanted /\ d.names = c.names /\ d.pc = "done" /\ d.result = Refuses(c, x)
        /\ d.files = c.files /\ d.bytes = c.bytes
    BY CallFields
  <2>3. Refuses(c, x) # "loaded"
    BY DEF Refuses
  <2> HIDE DEF d
  <2>4. FilesFit(e)
    BY <2>1, <2>2 DEF FilesFit
  <2>5. QED
    BY <2>1, <2>2, <2>3, <2>4
<1>3. CASE Refuses(c, x) = "ok"
  <2> DEFINE new == [path |-> path, file |-> x]
             d == [c EXCEPT !.files = Append(@, new), !.bytes = @ + SizeOf(x)]
  <2>1. e = d
    BY <1>3 DEF Collects
  <2>2. /\ DOMAIN d = DOMAIN Idle /\ d.mode = c.mode /\ d.limits = c.limits /\ d.stack = c.stack
        /\ d.nested = c.nested /\ d.here = c.here /\ d.directories = c.directories
        /\ d.wanted = c.wanted /\ d.names = c.names /\ d.pc = c.pc /\ d.result = c.result
        /\ d.files = Append(c.files, new) /\ d.bytes = c.bytes + SizeOf(x)
    BY CallFields
  <2>3. new.file \in TreeFiles
    OBVIOUS
  <2> HIDE DEF d, new
  <2>4. /\ ~(c.bytes + SizeOf(x) > MaxTreeBytes)
        /\ c.mode = "catalog" => ~(Len(c.files) + 1 > c.limits.sources)
    <3>1. c.bytes \in Nat
      BY DEF FilesFit
    <3>2. c.bytes + SizeOf(x) <= MaxTreeBytes \/ c.bytes + SizeOf(x) > MaxTreeBytes
      BY <1>1, <3>1
    <3>3. SizeOf(x) <= MaxFileBytes
      BY <1>1, <1>3 DEF Refuses
    <3>4. QED
      BY <1>1, <1>3, <3>1, <3>2, <3>3 DEF Refuses
  <2>5. FilesFit(e)
    <3>1. IsSeq(c.files) /\ c.bytes \in Nat /\ \A i \in DOMAIN c.files : c.files[i].file \in TreeFiles
      BY DEF FilesFit
    <3>2. /\ IsSeq(d.files) /\ DOMAIN d.files = 1..(Len(c.files) + 1) /\ d.files[Len(c.files) + 1] = new
          /\ \A i \in 1..Len(c.files) : d.files[i] = c.files[i]
      BY <2>2, <3>1, SeqAppends
    <3>3. Len(c.files) \in Nat /\ DOMAIN c.files = 1..Len(c.files)
      BY <3>1, SeqHas
    <3>4. \A i \in DOMAIN d.files : d.files[i].file \in TreeFiles
      <4>1. SUFFICES ASSUME NEW i \in DOMAIN d.files PROVE d.files[i].file \in TreeFiles
        OBVIOUS
      <4>2. i = Len(c.files) + 1 \/ i \in 1..Len(c.files)
        BY <3>2, <3>3, <4>1
      <4>3. QED
        BY <2>3, <3>1, <3>2, <3>3, <4>2
    <3>5. d.bytes \in Nat /\ d.bytes <= MaxTreeBytes
      BY <1>1, <2>2, <2>4, <3>1
    <3>6. QED
      BY <2>1, <3>2, <3>4, <3>5 DEF FilesFit
  <2>6. QED
    BY <2>1, <2>2, <2>4, <2>5 DEF new
<1>4. QED
  BY <1>2, <1>3

\* The data root: its place is the one the most explicit of its sources names.
LEMMA PlaceIsNamed ==
    ASSUME NEW q
    PROVE  /\ RootPlace(q) \subseteq Places
           /\ \A p \in RootPlace(q) :
                /\ q.dataDir # "none" => p = "data_dir"
                /\ q.dataDir = "none" /\ q.env # "none" => p = "env"
                /\ p = "home" => q.scope = "global"
           /\ RootPlace(q) = {} => \E given \in {q.dataDir, q.env, q.home} : given # "absolute"
<1>1. CASE q.dataDir # "none"
  BY <1>1 DEF RootPlace, Explicit, Places
<1>2. CASE q.dataDir = "none" /\ q.env # "none"
  BY <1>2 DEF RootPlace, Explicit, Places
<1>3. CASE q.dataDir = "none" /\ q.env = "none" /\ q.scope = "global"
  BY <1>3 DEF RootPlace, Explicit, Places
<1>4. CASE q.dataDir = "none" /\ q.env = "none" /\ q.scope # "global"
  <2>1. RootPlace(q) = {"workspace"}
    BY <1>4 DEF RootPlace
  <2>2. QED
    BY <1>4, <2>1 DEF Places
<1>5. QED
  BY <1>1, <1>2, <1>3, <1>4

\* What a call for the data root has to be.
LEMMA RootCallFits ==
    ASSUME NEW c, DOMAIN c = DOMAIN Idle, c.mode = "ensure", c.pc \in {"validate", "create", "done"},
           FilesFit(c), IsSeq(c.stack), IsSeq(c.nested), RootFits(c)
    PROVE  CallIsInside(c)
BY DEF CallIsInside, ModeFits, LimitsFit, ListFits

LEMMA IdleFits == FilesFit(Idle) /\ CallIsInside(Idle)
<1>1. FilesFit(Idle)
  BY CallFields, NothingIsSeq, TextTreeAssumption DEF FilesFit
<1>2. QED
  BY <1>1, CallFields, NothingIsSeq DEF CallIsInside, ModeFits, LimitsFit, ListFits, RootFits

LEMMA EnsuringInv ==
    ASSUME TreeInv, NEW q, EnsuresRoot(q)
    PROVE  TreeInv'
<1> DEFINE c == [Idle EXCEPT !.mode = "ensure", !.request = {q}]
           no == [c EXCEPT !.pc = "done", !.result = "invalid"]
           yes == [c EXCEPT !.pc = "validate", !.root = CHOOSE p \in RootPlace(q) : TRUE]
           refused == RootPlace(q) = {} \/ AutoRefuses(q)
<1>1. CallIs(IF refused THEN no ELSE yes)
  BY DEF EnsuresRoot
<1>2. /\ DOMAIN c = DOMAIN Idle /\ c.mode = "ensure" /\ c.request = {q} /\ c.stack = Idle.stack
      /\ c.nested = Idle.nested /\ c.files = Idle.files /\ c.bytes = Idle.bytes
  BY CallFields
<1>3. CASE refused
  <2>1. /\ DOMAIN no = DOMAIN Idle /\ no.mode = "ensure" /\ no.request = {q} /\ no.stack = Idle.stack
        /\ no.nested = Idle.nested /\ no.files = Idle.files /\ no.bytes = Idle.bytes
        /\ no.pc = "done" /\ no.result = "invalid"
    BY <1>2, CallFields
  <2> HIDE DEF no
  <2>2. FilesFit(no) /\ RootFits(no)
    BY <2>1, IdleFits DEF FilesFit, RootFits
  <2>3. CallIsInside(no)
    BY <2>1, <2>2, NothingIsSeq, CallFields, RootCallFits
  <2>4. call' = no /\ places' = places
    BY <1>1, <1>3 DEF CallIs
  <2>5. \/ \E given \in {q.dataDir, q.env, q.home} : given # "absolute"
        \/ \E p \in Places : places[p] \in {"symlink", "file"}
    BY <1>3, PlaceIsNamed DEF AutoRefuses, Places
  <2>6. RootIsTheOneNamed'
    BY <2>1, <2>4, <2>5 DEF RootIsTheOneNamed
  <2>7. CallIsInside(call)'
    BY <2>3, <2>4
  <2>8. QED
    BY <2>1, <2>4, <2>6, <2>7 DEF TreeInv
<1>4. CASE ~refused
  <2>1. /\ DOMAIN yes = DOMAIN Idle /\ yes.mode = "ensure" /\ yes.request = {q} /\ yes.stack = Idle.stack
        /\ yes.nested = Idle.nested /\ yes.files = Idle.files /\ yes.bytes = Idle.bytes
        /\ yes.pc = "validate" /\ yes.root = CHOOSE p \in RootPlace(q) : TRUE
    BY <1>2, CallFields
  <2>2. (CHOOSE p \in RootPlace(q) : TRUE) \in RootPlace(q)
    BY <1>4
  <2>3. CallIs(yes)
    BY <1>1, <1>4
  <2> HIDE DEF yes
  <2>4. yes.root \in RootPlace(q) /\ yes.root \in Places
    BY <2>1, <2>2, PlaceIsNamed
  <2>5. FilesFit(yes) /\ RootFits(yes)
    BY <2>1, <2>4, IdleFits DEF FilesFit, RootFits
  <2>6. CallIsInside(yes)
    BY <2>1, <2>5, NothingIsSeq, CallFields, RootCallFits
  <2>7. QED
    BY <2>1, <2>3, <2>6, CallGoesOn
<1>5. QED
  BY <1>3, <1>4

LEMMA RootStepInv ==
    ASSUME TreeInv, ValidatesRoot \/ CreatesRoot
    PROVE  TreeInv'
<1> DEFINE ended(ending) == [call EXCEPT !.pc = "done", !.result = ending]
           going == [call EXCEPT !.pc = "create"]
<1>1. CallIsInside(call) /\ DOMAIN call = DOMAIN Idle /\ call.mode = "ensure"
      /\ FilesFit(call) /\ IsSeq(call.stack) /\ IsSeq(call.nested) /\ RootFits(call)
      /\ call.pc \in {"validate", "create"}
  BY DEF TreeInv, CallIsInside, ModeFits, LimitsFit, ValidatesRoot, CreatesRoot
<1>2. call.root \in Places /\ \A q \in call.request : call.root \in RootPlace(q)
  BY <1>1 DEF RootFits
<1>3. ASSUME NEW ending PROVE CallIsInside(ended(ending))
  <2> DEFINE c == ended(ending)
  <2>1. /\ DOMAIN c = DOMAIN Idle /\ c.mode = "ensure" /\ c.stack = call.stack /\ c.pc = "done"
        /\ c.nested = call.nested /\ c.files = call.files /\ c.bytes = call.bytes
    BY <1>1, CallFields
  <2> HIDE DEF c
  <2>2. FilesFit(c) /\ RootFits(c)
    BY <1>1, <2>1 DEF FilesFit, RootFits
  <2>3. CallIsInside(c)
    BY <1>1, <2>1, <2>2, RootCallFits
  <2>4. QED
    BY <2>3 DEF c
<1>4. ASSUME NEW ending
      PROVE  /\ ended(ending).result = ending /\ ended(ending).root = call.root
             /\ ended(ending).request = call.request
  BY <1>1, CallFields
<1>5. CallIsInside(going) /\ going.pc = "create"
  <2>1. /\ DOMAIN going = DOMAIN Idle /\ going.mode = "ensure" /\ going.stack = call.stack
        /\ going.pc = "create" /\ going.nested = call.nested /\ going.files = call.files
        /\ going.bytes = call.bytes /\ going.root = call.root /\ going.request = call.request
    BY <1>1, CallFields
  <2> HIDE DEF going
  <2>2. FilesFit(going) /\ RootFits(going)
    BY <1>1, <1>2, <2>1 DEF FilesFit, RootFits
  <2>3. QED
    BY <1>1, <2>1, <2>2, RootCallFits
<1>6. CASE Ends("invalid") /\ places[call.root] \in {"symlink", "file"}
  <2> DEFINE c == ended("invalid")
  <2>1. call' = c /\ places' = places
    BY <1>6 DEF Ends, CallIs
  <2>2. CallIsInside(c) /\ c.result = "invalid"
    BY <1>3, <1>4
  <2> HIDE DEF c, ended, going
  <2>3. RootIsTheOneNamed'
    BY <1>2, <1>6, <2>1, <2>2 DEF RootIsTheOneNamed
  <2>4. CallIsInside(call)'
    BY <2>1, <2>2
  <2>5. QED
    BY <2>1, <2>3, <2>4 DEF TreeInv
<1>7. CASE CallIs(going)
  BY <1>5, <1>7, CallGoesOn
<1>8. CASE CreatesRoot /\ places[call.root] \notin {"symlink", "file"}
  <2> DEFINE c == ended("root")
  <2>1. call' = c /\ places' = [places EXCEPT ![call.root] = "directory"] /\ edits' = edits
    BY <1>8 DEF CreatesRoot
  <2>2. CallIsInside(c) /\ c.result = "root" /\ c.root = call.root /\ c.request = call.request
    BY <1>3, <1>4
  <2> HIDE DEF c, ended, going
  <2>3. call.root \in DOMAIN places => places'[call.root] = "directory"
    BY <2>1
  <2>4. \A q \in call.request :
          /\ q.dataDir # "none" => call.root = "data_dir"
          /\ q.dataDir = "none" /\ q.env # "none" => call.root = "env"
          /\ call.root = "home" => q.scope = "global"
    BY <1>2, PlaceIsNamed
  <2>5. call.root \in DOMAIN places
    BY <1>2 DEF TreeInv
  <2>6. RootIsTheOneNamed'
    BY <2>1, <2>2, <2>3, <2>4, <2>5 DEF RootIsTheOneNamed
  <2>7. CallIsInside(call)'
    BY <2>1, <2>2
  <2>8. QED
    BY <2>1, <2>4, <2>6, <2>7 DEF TreeInv
<1>9. QED
  BY <1>6, <1>7, <1>8 DEF ValidatesRoot, CreatesRoot

\* The steps of a scan.
LEMMA StartingInv ==
    ASSUME TreeInv, NEW mode \in {"directory", "catalog", "listed"}, NEW limits, NEW wanted,
           StartsScan(mode, limits, wanted),
           mode = "catalog" => limits \in ScanLimits,
           mode = "listed" => wanted \in Seq(Seq(TreeNames))
    PROVE  TreeInv'
<1> DEFINE first == <<Frame(TreeRoot, <<>>, 0)>>
           at == IF mode = "listed" THEN "wanted" ELSE "pop"
           c == [Idle EXCEPT !.pc = at, !.mode = mode,
                             !.limits = limits, !.wanted = wanted, !.stack = first]
<1>1. call' = c /\ places' = places
  BY DEF StartsScan
<1>2. /\ DOMAIN c = DOMAIN Idle /\ c.pc = at
      /\ c.mode = mode /\ c.limits = limits /\ c.wanted = wanted /\ c.stack = first
      /\ c.nested = <<>> /\ c.files = <<>> /\ c.bytes = 0 /\ c.directories = 0 /\ c.result = "none"
  BY CallFields
<1>3. IsSeq(first) /\ \A i \in DOMAIN first : first[i].depth = 0
  <2>1. first \in Seq({Frame(TreeRoot, <<>>, 0)})
    OBVIOUS
  <2>2. \A i \in DOMAIN first : first[i] = Frame(TreeRoot, <<>>, 0)
    OBVIOUS
  <2> HIDE DEF first
  <2>3. QED
    BY <2>1, <2>2, SeqsAre DEF Frame
<1> HIDE DEF c, first
<1>4. FilesFit(c)
  BY <1>2, IdleFits, CallFields DEF FilesFit
<1>5. IsSeq(c.stack) /\ IsSeq(c.nested)
  BY <1>2, <1>3, NothingIsSeq
<1>6. CASE mode # "listed"
  <2>1. mode = "catalog" => limits.directories \in Nat /\ limits.sources \in Nat /\ limits.depth \in Nat
    BY TextTreeAssumption
  <2>2. LimitsFit(c)
    <3>1. SUFFICES ASSUME mode = "catalog"
                   PROVE  /\ c.limits \in ScanLimits
                          /\ c.directories \in Nat /\ c.directories <= c.limits.directories
                          /\ Len(c.files) <= c.limits.sources
                          /\ \A i \in DOMAIN c.stack : WithinDepth(c.stack[i], c.limits)
                          /\ \A i \in DOMAIN c.nested : WithinDepth(c.nested[i], c.limits)
      BY <1>2, <1>5, <1>6 DEF LimitsFit
    <3>2. \A i \in DOMAIN c.stack : WithinDepth(c.stack[i], c.limits)
      BY <1>2, <1>3, <2>1, <3>1 DEF WithinDepth
    <3>3. QED
      BY <1>2, <2>1, <3>1, <3>2, NothingIsSeq
  <2>3. CallIsInside(c)
    BY <1>2, <1>4, <1>6, <2>2, ScanFits
  <2>4. QED
    BY <1>1, <1>2, <1>6, <2>3 DEF TreeInv, RootIsTheOneNamed
<1>7. CASE mode = "listed"
  <2>1. Len(wanted) \in Nat /\ wanted \in Seq(Seq(TreeNames))
    BY <1>7
  <2>2. ListFits(c)
    BY <1>2, <1>7, <2>1, NothingIsSeq DEF ListFits
  <2>3. CallIsInside(c)
    BY <1>2, <1>4, <1>5, <1>7, <2>2, ListedFits
  <2>4. QED
    BY <1>1, <1>2, <1>7, <2>3 DEF TreeInv, RootIsTheOneNamed
<1>8. QED
  BY <1>6, <1>7

LEMMA ScanIs ==
    ASSUME TreeInv, call.pc \in {"pop", "look", "open"}
    PROVE  /\ DOMAIN call = DOMAIN Idle /\ call.mode \in {"directory", "catalog"}
           /\ FilesFit(call) /\ LimitsFit(call) /\ IsSeq(call.stack) /\ IsSeq(call.nested)
BY DEF TreeInv, CallIsInside, ModeFits, LimitsFit

LEMMA ReadingNamesInv ==
    ASSUME TreeInv, ReadsNames
    PROVE  TreeInv'
<1> DEFINE frame == Last(call.stack)
           names == NamesIn(tree[frame.dir])
           c == [call EXCEPT !.pc = "look", !.stack = Front(@), !.here = <<frame>>,
                             !.names = names, !.nested = <<>>]
<1>1. call.pc = "pop" /\ call.stack # <<>> /\ (Ends("too wide") \/ CallIs(c))
  BY DEF ReadsNames
<1>2. /\ DOMAIN call = DOMAIN Idle /\ call.mode \in {"directory", "catalog"}
      /\ FilesFit(call) /\ LimitsFit(call) /\ IsSeq(call.stack) /\ IsSeq(call.nested)
  BY <1>1, ScanIs
<1>3. CASE Ends("too wide")
  BY <1>2, <1>3, EndsInside
<1>4. CASE CallIs(c)
  <2>1. /\ DOMAIN c = DOMAIN Idle /\ c.pc = "look" /\ c.mode = call.mode /\ c.limits = call.limits
        /\ c.stack = Front(call.stack) /\ c.here = <<frame>> /\ c.nested = <<>>
        /\ c.files = call.files /\ c.bytes = call.bytes /\ c.directories = call.directories
    BY <1>2, CallFields
  <2>2. /\ Len(call.stack) \in DOMAIN call.stack /\ frame = call.stack[Len(call.stack)]
        /\ IsSeq(Front(call.stack))
        /\ \A i \in DOMAIN Front(call.stack) :
             i \in DOMAIN call.stack /\ Front(call.stack)[i] = call.stack[i]
    BY <1>1, <1>2, SeqTakesLast
  <2>3. c.here[1] = frame
    BY <2>1
  <2> HIDE DEF c, frame
  <2>4. FilesFit(c)
    BY <1>2, <2>1 DEF FilesFit
  <2>5. call.mode = "catalog" => /\ WithinDepth(c.here[1], c.limits)
                                 /\ \A i \in DOMAIN c.stack : WithinDepth(c.stack[i], c.limits)
    BY <1>2, <2>1, <2>2, <2>3 DEF LimitsFit
  <2>6. LimitsFit(c)
    BY <1>2, <2>1, <2>2, <2>5, NothingIsSeq DEF LimitsFit
  <2>7. CallIsInside(c)
    BY <1>2, <2>1, <2>4, <2>6, ScanFits
  <2>8. QED
    BY <1>4, <2>1, <2>7, CallGoesOn
<1>5. QED
  BY <1>1, <1>3, <1>4

LEMMA LookingInv ==
    ASSUME TreeInv, Looks
    PROVE  TreeInv'
<1> DEFINE kind == KindOf(At(call.here[1], Head(call.names)))
           c == [call EXCEPT !.pc = "open", !.kind = kind]
<1>1. call.pc = "look" /\ (Ends("error") \/ CallIs(c))
  BY DEF Looks
<1>2. /\ DOMAIN call = DOMAIN Idle /\ call.mode \in {"directory", "catalog"}
      /\ FilesFit(call) /\ LimitsFit(call) /\ IsSeq(call.stack) /\ IsSeq(call.nested)
  BY <1>1, ScanIs
<1>3. CASE Ends("error")
  BY <1>2, <1>3, EndsInside
<1>4. CASE CallIs(c)
  <2>1. /\ DOMAIN c = DOMAIN Idle /\ c.pc = "open" /\ c.mode = call.mode /\ c.limits = call.limits
        /\ c.stack = call.stack /\ c.here = call.here /\ c.nested = call.nested
        /\ c.files = call.files /\ c.bytes = call.bytes /\ c.directories = call.directories
    BY <1>2, CallFields
  <2> HIDE DEF c, kind
  <2>2. FilesFit(c)
    BY <1>2, <2>1 DEF FilesFit
  <2>3. LimitsFit(c)
    BY <1>1, <1>2, <2>1 DEF LimitsFit
  <2>4. CallIsInside(c)
    BY <1>2, <2>1, <2>2, <2>3, ScanFits
  <2>5. QED
    BY <1>2, <1>4, <2>1, <2>4, CallGoesOn
<1>5. QED
  BY <1>1, <1>3, <1>4

LEMMA OpeningDirectoryInv ==
    ASSUME TreeInv, OpensDirectory
    PROVE  TreeInv'
<1> DEFINE frame == call.here[1]
           name == Head(call.names)
           x == At(frame, name)
           entered == Enters(call, frame.depth + 1)
           new == Frame(x, Append(frame.prefix, name), frame.depth + 1)
           c == [call EXCEPT !.pc = "look", !.names = Tail(@), !.directories = @ + 1,
                             !.nested = Append(@, new)]
<1>1. /\ call.pc = "open"
      /\ \/ entered # "ok" /\ Ends(entered)
         \/ Ends("error")
         \/ entered = "ok" /\ CallIs(c)
  BY DEF OpensDirectory
<1>2. /\ DOMAIN call = DOMAIN Idle /\ call.mode \in {"directory", "catalog"}
      /\ FilesFit(call) /\ LimitsFit(call) /\ IsSeq(call.stack) /\ IsSeq(call.nested)
  BY <1>1, ScanIs
<1>3. CASE \E ending : Ends(ending)
  BY <1>2, <1>3, EndsInside
<1>4. CASE entered = "ok" /\ CallIs(c)
  <2>1. /\ DOMAIN c = DOMAIN Idle /\ c.pc = "look" /\ c.mode = call.mode /\ c.limits = call.limits
        /\ c.stack = call.stack /\ c.here = call.here /\ c.nested = Append(call.nested, new)
        /\ c.files = call.files /\ c.bytes = call.bytes /\ c.directories = call.directories + 1
    BY <1>2, CallFields
  <2>2. new.depth = frame.depth + 1
    BY DEF Frame
  <2>3. call.mode = "catalog" =>
          /\ WithinDepth(new, call.limits)
          /\ call.directories + 1 \in Nat /\ call.directories + 1 <= call.limits.directories
    <3>1. SUFFICES ASSUME call.mode = "catalog"
                   PROVE  /\ WithinDepth(new, call.limits)
                          /\ call.directories + 1 \in Nat
                          /\ call.directories + 1 <= call.limits.directories
      OBVIOUS
    <3>2. /\ frame.depth \in Nat /\ call.directories \in Nat /\ call.limits \in ScanLimits
          /\ call.limits.depth \in Nat /\ call.limits.directories \in Nat
      BY <1>1, <1>2, <3>1, TextTreeAssumption DEF LimitsFit, WithinDepth
    <3> HIDE DEF frame, new, c
    <3>3. frame.depth + 1 <= call.limits.depth
      BY <1>4, <3>1, <3>2 DEF Enters
    <3>4. call.directories + 1 <= call.limits.directories
      BY <1>4, <3>1, <3>2, <3>3 DEF Enters
    <3>5. QED
      BY <2>2, <3>2, <3>3, <3>4 DEF WithinDepth
  <2> HIDE DEF c, frame, new, entered, x, name
  <2>4. /\ IsSeq(c.nested) /\ DOMAIN c.nested = 1..(Len(call.nested) + 1)
        /\ c.nested[Len(call.nested) + 1] = new
        /\ \A i \in 1..Len(call.nested) : c.nested[i] = call.nested[i]
    BY <1>2, <2>1, SeqAppends
  <2>5. Len(call.nested) \in Nat /\ DOMAIN call.nested = 1..Len(call.nested)
    BY <1>2, SeqHas
  <2>6. \A i \in DOMAIN c.nested : i = Len(call.nested) + 1 \/ i \in DOMAIN call.nested
    BY <2>4, <2>5
  <2>7. call.mode = "catalog" => \A i \in DOMAIN c.nested : WithinDepth(c.nested[i], c.limits)
    BY <1>2, <2>1, <2>3, <2>4, <2>5, <2>6 DEF LimitsFit
  <2>8. FilesFit(c)
    BY <1>2, <2>1 DEF FilesFit
  <2>9. LimitsFit(c)
    BY <1>1, <1>2, <2>1, <2>3, <2>4, <2>7 DEF LimitsFit
  <2>10. CallIsInside(c)
    BY <1>2, <2>1, <2>8, <2>9, ScanFits
  <2>11. QED
    BY <1>2, <1>4, <2>1, <2>10, CallGoesOn
<1>5. QED
  BY <1>1, <1>3, <1>4

LEMMA OpenedIsAFile == ASSUME NEW x, NEW y \in Opened(x) PROVE y \in TreeFiles
BY DEF Opened

LEMMA OpeningFileInv ==
    ASSUME TreeInv, OpensFile
    PROVE  TreeInv'
<1> DEFINE frame == call.here[1]
           name == Head(call.names)
           c == [call EXCEPT !.pc = "look", !.names = Tail(@)]
           path == Append(frame.prefix, name)
<1>1. /\ call.pc = "open"
      /\ Ends("error") \/ \E x \in Opened(At(frame, name)) : CallIs(Collects(c, path, x))
  BY DEF OpensFile
<1>2. /\ DOMAIN call = DOMAIN Idle /\ call.mode \in {"directory", "catalog"}
      /\ FilesFit(call) /\ LimitsFit(call) /\ IsSeq(call.stack) /\ IsSeq(call.nested)
  BY <1>1, ScanIs
<1>3. CASE Ends("error")
  BY <1>2, <1>3, EndsInside
<1>4. CASE \E x \in Opened(At(frame, name)) : CallIs(Collects(c, path, x))
  <2>1. PICK x \in Opened(At(frame, name)) : CallIs(Collects(c, path, x))
    BY <1>4
  <2>2. x \in TreeFiles
    BY <2>1, OpenedIsAFile
  <2> DEFINE e == Collects(c, path, x)
  <2>3. /\ DOMAIN c = DOMAIN Idle /\ c.pc = "look" /\ c.mode = call.mode /\ c.limits = call.limits
        /\ c.stack = call.stack /\ c.here = call.here /\ c.nested = call.nested
        /\ c.files = call.files /\ c.bytes = call.bytes /\ c.directories = call.directories
    BY <1>2, CallFields
  <2> HIDE DEF c, path, frame, name
  <2>4. FilesFit(c)
    BY <1>2, <2>3 DEF FilesFit
  <2>5. /\ DOMAIN e = DOMAIN Idle /\ FilesFit(e)
        /\ e.mode = c.mode /\ e.limits = c.limits /\ e.stack = c.stack /\ e.nested = c.nested
        /\ e.here = c.here /\ e.directories = c.directories
        /\ \/ e.pc = "done" /\ e.files = c.files
           \/ /\ e.pc = c.pc
              /\ e.files = Append(c.files, [path |-> path, file |-> x])
              /\ c.mode = "catalog" => ~(Len(c.files) + 1 > c.limits.sources)
    BY <2>2, <2>3, <2>4, FileIsTaken
  <2> HIDE DEF e
  <2>6. call.mode = "catalog" => Len(e.files) <= call.limits.sources
    <3>1. SUFFICES ASSUME call.mode = "catalog" PROVE Len(e.files) <= call.limits.sources
      OBVIOUS
    <3>2. IsSeq(call.files) /\ Len(call.files) \in Nat
      BY <1>2, SeqHas DEF FilesFit
    <3>3. call.limits \in ScanLimits /\ call.limits.sources \in Nat /\ Len(call.files) <= call.limits.sources
      BY <1>2, <3>1, TextTreeAssumption DEF LimitsFit
    <3>4. CASE e.files = c.files
      BY <2>3, <3>3, <3>4
    <3>5. CASE /\ e.files = Append(c.files, [path |-> path, file |-> x])
               /\ ~(Len(c.files) + 1 > c.limits.sources)
      <4>1. Len(e.files) = Len(call.files) + 1
        BY <2>3, <3>2, <3>5, SeqAppends
      <4>2. QED
        BY <2>3, <3>2, <3>3, <3>5, <4>1
    <3>6. QED
      BY <2>3, <2>5, <3>1, <3>4, <3>5
  <2>7. LimitsFit(e)
    BY <1>1, <1>2, <2>3, <2>5, <2>6 DEF LimitsFit
  <2>8. CallIsInside(e)
    BY <1>2, <2>3, <2>5, <2>7, ScanFits
  <2>9. CallIs(e) /\ e.mode # "ensure"
    BY <1>2, <2>1, <2>3, <2>5 DEF e
  <2>10. QED
    BY <2>8, <2>9, CallGoesOn
<1>5. QED
  BY <1>1, <1>3, <1>4

LEMMA LeavingInv ==
    ASSUME TreeInv, LeavesDirectory
    PROVE  TreeInv'
<1> DEFINE c == [call EXCEPT !.pc = "pop", !.here = <<>>, !.nested = <<>>,
                             !.stack = Stacked(@, call.nested)]
<1>1. call.pc = "look" /\ CallIs(c)
  BY DEF LeavesDirectory
<1>2. /\ DOMAIN call = DOMAIN Idle /\ call.mode \in {"directory", "catalog"}
      /\ FilesFit(call) /\ LimitsFit(call) /\ IsSeq(call.stack) /\ IsSeq(call.nested)
  BY <1>1, ScanIs
<1>3. /\ DOMAIN c = DOMAIN Idle /\ c.pc = "pop" /\ c.mode = call.mode /\ c.limits = call.limits
      /\ c.stack = Stacked(call.stack, call.nested) /\ c.nested = <<>>
      /\ c.files = call.files /\ c.bytes = call.bytes /\ c.directories = call.directories
  BY <1>2, CallFields
<1> HIDE DEF c
<1>4. /\ IsSeq(c.stack)
      /\ \A i \in DOMAIN c.stack : \/ \E j \in DOMAIN call.stack : c.stack[i] = call.stack[j]
                                   \/ \E j \in DOMAIN call.nested : c.stack[i] = call.nested[j]
  BY <1>2, <1>3, SeqJoins
<1>5. call.mode = "catalog" => \A i \in DOMAIN c.stack : WithinDepth(c.stack[i], c.limits)
  BY <1>2, <1>3, <1>4 DEF LimitsFit
<1>6. FilesFit(c)
  BY <1>2, <1>3 DEF FilesFit
<1>7. LimitsFit(c)
  BY <1>2, <1>3, <1>4, <1>5, NothingIsSeq DEF LimitsFit
<1>8. CallIsInside(c)
  BY <1>2, <1>3, <1>6, <1>7, ScanFits
<1>9. QED
  BY <1>1, <1>2, <1>3, <1>8, CallGoesOn

LEMMA FinishingInv ==
    ASSUME TreeInv, FinishesScan
    PROVE  TreeInv'
<1>1. call.pc = "pop" /\ \E ending : Ends(ending)
  BY DEF FinishesScan
<1>2. call.mode \in {"directory", "catalog"}
  BY <1>1, ScanIs
<1>3. QED
  BY <1>1, <1>2, EndsInside

\* The steps of a list of paths.
LEMMA ListIs ==
    ASSUME TreeInv, call.pc \in {"wanted", "walk", "leaf"}
    PROVE  /\ DOMAIN call = DOMAIN Idle /\ call.mode = "listed"
           /\ FilesFit(call) /\ ListFits(call) /\ IsSeq(call.stack) /\ IsSeq(call.nested)
           /\ call.wanted \in Seq(Seq(TreeNames)) /\ Len(call.wanted) \in Nat
           /\ DOMAIN call.wanted = 1..Len(call.wanted)
           /\ Len(call.files) \in Nat /\ DOMAIN call.files = 1..Len(call.files)
           /\ Len(call.files) <= Len(call.wanted)
<1>1. /\ DOMAIN call = DOMAIN Idle /\ call.mode = "listed"
      /\ FilesFit(call) /\ ListFits(call) /\ IsSeq(call.stack) /\ IsSeq(call.nested)
  BY DEF TreeInv, CallIsInside, ModeFits, LimitsFit
<1>2. call.wanted \in Seq(Seq(TreeNames)) /\ Len(call.files) <= Len(call.wanted)
  BY <1>1 DEF ListFits
<1>3. Len(call.files) \in Nat /\ DOMAIN call.files = 1..Len(call.files)
  BY <1>1, SeqHas DEF FilesFit
<1>4. Len(call.wanted) \in Nat /\ DOMAIN call.wanted = 1..Len(call.wanted)
  BY <1>2
<1>5. QED
  BY <1>1, <1>2, <1>3, <1>4

LEMMA TakingWantedInv ==
    ASSUME TreeInv, TakesWanted
    PROVE  TreeInv'
<1> DEFINE here == <<Frame(TreeRoot, <<>>, 0)>>
           next == call.wanted[Len(call.files) + 1]
           c == [call EXCEPT !.pc = "walk", !.here = here, !.names = next]
<1>1. /\ call.pc = "wanted"
      /\ \/ Ends("duplicate")
         \/ Len(call.files) = Len(call.wanted) /\ Ends("loaded")
         \/ Len(call.files) # Len(call.wanted) /\ CallIs(c)
  BY DEF TakesWanted
<1>2. /\ DOMAIN call = DOMAIN Idle /\ call.mode = "listed"
      /\ FilesFit(call) /\ ListFits(call) /\ IsSeq(call.stack) /\ IsSeq(call.nested)
      /\ call.wanted \in Seq(Seq(TreeNames)) /\ Len(call.wanted) \in Nat
      /\ DOMAIN call.wanted = 1..Len(call.wanted)
      /\ Len(call.files) \in Nat /\ Len(call.files) <= Len(call.wanted)
  BY <1>1, ListIs
<1>3. CASE Ends("duplicate")
  BY <1>2, <1>3, EndsInside
<1>4. CASE Len(call.files) = Len(call.wanted) /\ Ends("loaded")
  BY <1>2, <1>4, EndsInside
<1>5. CASE Len(call.files) # Len(call.wanted) /\ CallIs(c)
  <2>1. Len(call.files) < Len(call.wanted) /\ Len(call.files) + 1 \in 1..Len(call.wanted)
    BY <1>2, <1>5
  <2>2. next \in Seq(TreeNames)
    BY <1>2, <2>1
  <2>3. /\ DOMAIN c = DOMAIN Idle /\ c.pc = "walk" /\ c.mode = "listed" /\ c.stack = call.stack
        /\ c.nested = call.nested /\ c.files = call.files /\ c.bytes = call.bytes
        /\ c.wanted = call.wanted /\ c.here = here /\ c.names = next /\ c.result = call.result
    BY <1>2, CallFields
  <2>4. here[1].prefix = <<>>
    BY DEF Frame
  <2>5. <<>> \in Seq(TreeNames) /\ <<>> \o next = next
    BY <2>2
  <2> HIDE DEF c, here, next
  <2>6. FilesFit(c)
    BY <1>2, <2>3 DEF FilesFit
  <2>7. c.here[1].prefix \in Seq(TreeNames) /\ c.here[1].prefix \o c.names = next
    BY <2>3, <2>4, <2>5
  <2>8. ListFits(c)
    BY <1>2, <2>1, <2>2, <2>3, <2>7 DEF ListFits, next
  <2>9. CallIsInside(c)
    BY <1>2, <2>3, <2>6, <2>8, ListedFits
  <2>10. QED
    BY <1>5, <2>3, <2>9, CallGoesOn
<1>6. QED
  BY <1>1, <1>3, <1>4, <1>5

LEMMA WalkIs ==
    ASSUME TreeInv, call.pc \in {"walk", "leaf"}
    PROVE  /\ Len(call.files) < Len(call.wanted)
           /\ call.here[1].prefix \in Seq(TreeNames) /\ call.names \in Seq(TreeNames)
           /\ call.here[1].prefix \o call.names = call.wanted[Len(call.files) + 1]
           /\ call.pc = "leaf" => Len(call.names) = 1
BY ListIs DEF ListFits

LEMMA WalkingInv ==
    ASSUME TreeInv, WalksDown
    PROVE  TreeInv'
<1> DEFINE frame == call.here[1]
           x == At(frame, Head(call.names))
           path == Append(frame.prefix, Head(call.names))
           here == <<Frame(x, path, frame.depth + 1)>>
           c == [call EXCEPT !.names = Tail(@), !.here = here]
<1>1. call.pc = "walk" /\ Len(call.names) > 1 /\ (Ends("error") \/ CallIs(c))
  BY DEF WalksDown
<1>2. /\ DOMAIN call = DOMAIN Idle /\ call.mode = "listed"
      /\ FilesFit(call) /\ ListFits(call) /\ IsSeq(call.stack) /\ IsSeq(call.nested)
  BY <1>1, ListIs
<1>3. /\ Len(call.files) < Len(call.wanted)
      /\ frame.prefix \in Seq(TreeNames) /\ call.names \in Seq(TreeNames)
      /\ frame.prefix \o call.names = call.wanted[Len(call.files) + 1]
  BY <1>1, WalkIs
<1>4. CASE Ends("error")
  BY <1>2, <1>4, EndsInside
<1>5. CASE CallIs(c)
  <2>1. /\ DOMAIN c = DOMAIN Idle /\ c.pc = "walk" /\ c.mode = "listed" /\ c.stack = call.stack
        /\ c.nested = call.nested /\ c.files = call.files /\ c.bytes = call.bytes
        /\ c.wanted = call.wanted /\ c.here = here /\ c.names = Tail(call.names)
        /\ c.result = call.result
    BY <1>1, <1>2, CallFields
  <2>2. here[1].prefix = path
    BY DEF Frame
  <2>3. call.names # <<>>
    BY <1>1, <1>3
  <2>4. /\ path \in Seq(TreeNames) /\ Tail(call.names) \in Seq(TreeNames)
        /\ path \o Tail(call.names) = frame.prefix \o call.names
    BY <1>3, <2>3, PathMovesOn
  <2> HIDE DEF c, here, path, frame
  <2>5. FilesFit(c)
    BY <1>2, <2>1 DEF FilesFit
  <2>6. c.here[1].prefix \in Seq(TreeNames) /\ c.names \in Seq(TreeNames)
        /\ c.here[1].prefix \o c.names = c.wanted[Len(c.files) + 1]
    BY <1>3, <2>1, <2>2, <2>4
  <2>7. ListFits(c)
    BY <1>2, <1>3, <2>1, <2>6 DEF ListFits
  <2>8. CallIsInside(c)
    BY <1>2, <2>1, <2>5, <2>7, ListedFits
  <2>9. QED
    BY <1>5, <2>1, <2>8, CallGoesOn
<1>6. QED
  BY <1>1, <1>4, <1>5

LEMMA LookingAtLeafInv ==
    ASSUME TreeInv, LooksAtLeaf
    PROVE  TreeInv'
<1> DEFINE c == [call EXCEPT !.pc = "leaf"]
<1>1. call.pc = "walk" /\ Len(call.names) = 1 /\ (Ends("error") \/ CallIs(c))
  BY DEF LooksAtLeaf
<1>2. /\ DOMAIN call = DOMAIN Idle /\ call.mode = "listed"
      /\ FilesFit(call) /\ ListFits(call) /\ IsSeq(call.stack) /\ IsSeq(call.nested)
  BY <1>1, ListIs
<1>3. CASE Ends("error")
  BY <1>2, <1>3, EndsInside
<1>4. CASE CallIs(c)
  <2>1. /\ DOMAIN c = DOMAIN Idle /\ c.pc = "leaf" /\ c.mode = "listed" /\ c.stack = call.stack
        /\ c.nested = call.nested /\ c.files = call.files /\ c.bytes = call.bytes
        /\ c.wanted = call.wanted /\ c.here = call.here /\ c.names = call.names
        /\ c.result = call.result
    BY <1>2, CallFields
  <2> HIDE DEF c
  <2>2. FilesFit(c)
    BY <1>2, <2>1 DEF FilesFit
  <2>3. ListFits(c)
    BY <1>1, <1>2, <2>1 DEF ListFits
  <2>4. CallIsInside(c)
    BY <1>2, <2>1, <2>2, <2>3, ListedFits
  <2>5. QED
    BY <1>4, <2>1, <2>4, CallGoesOn
<1>5. QED
  BY <1>1, <1>3, <1>4

LEMMA ReadingLeafInv ==
    ASSUME TreeInv, ReadsLeaf
    PROVE  TreeInv'
<1> DEFINE frame == call.here[1]
           c == [call EXCEPT !.pc = "wanted"]
           path == Append(frame.prefix, Head(call.names))
           found == Opened(At(frame, Head(call.names)))
<1>1. call.pc = "leaf" /\ (Ends("error") \/ \E x \in found : CallIs(Collects(c, path, x)))
  BY DEF ReadsLeaf
<1>2. /\ DOMAIN call = DOMAIN Idle /\ call.mode = "listed"
      /\ FilesFit(call) /\ ListFits(call) /\ IsSeq(call.stack) /\ IsSeq(call.nested)
      /\ Len(call.wanted) \in Nat /\ Len(call.files) \in Nat /\ DOMAIN call.files = 1..Len(call.files)
  BY <1>1, ListIs
<1>3. /\ Len(call.files) < Len(call.wanted)
      /\ frame.prefix \in Seq(TreeNames) /\ call.names \in Seq(TreeNames)
      /\ frame.prefix \o call.names = call.wanted[Len(call.files) + 1] /\ Len(call.names) = 1
  BY <1>1, WalkIs
<1>4. CASE Ends("error")
  BY <1>2, <1>4, EndsInside
<1>5. CASE \E x \in found : CallIs(Collects(c, path, x))
  <2>1. PICK x \in found : CallIs(Collects(c, path, x))
    BY <1>5
  <2>2. x \in TreeFiles
    BY <2>1, OpenedIsAFile
  <2> DEFINE e == Collects(c, path, x)
             new == [path |-> path, file |-> x]
  <2>3. /\ DOMAIN c = DOMAIN Idle /\ c.pc = "wanted" /\ c.mode = "listed"
        /\ c.stack = call.stack /\ c.nested = call.nested /\ c.wanted = call.wanted
        /\ c.files = call.files /\ c.bytes = call.bytes /\ c.result = call.result
    BY <1>2, CallFields
  <2>4. path = call.wanted[Len(call.files) + 1]
    <3>1. call.names # <<>>
      BY <1>3
    <3>2. QED
      BY <1>3, <3>1, PathMovesOn
  <2>5. new.path = path
    OBVIOUS
  <2> HIDE DEF c, path, frame, found
  <2>6. FilesFit(c)
    BY <1>2, <2>3 DEF FilesFit
  <2>7. /\ DOMAIN e = DOMAIN Idle /\ FilesFit(e)
        /\ e.mode = c.mode /\ e.stack = c.stack /\ e.nested = c.nested /\ e.wanted = c.wanted
        /\ \/ e.pc = "done" /\ e.result # "loaded" /\ e.files = c.files
           \/ e.pc = c.pc /\ e.result = c.result /\ e.files = Append(c.files, new)
    BY <2>2, <2>3, <2>6, FileIsTaken
  <2> HIDE DEF e, new
  <2>8. CASE e.pc = "done" /\ e.result # "loaded" /\ e.files = c.files
    <3>1. ListFits(e)
      BY <1>2, <2>3, <2>7, <2>8 DEF ListFits
    <3>2. CallIsInside(e)
      BY <1>2, <2>3, <2>7, <2>8, <3>1, ListedFits
    <3>3. QED
      BY <2>1, <2>3, <2>7, <3>2, CallGoesOn DEF e
  <2>9. CASE e.pc = c.pc /\ e.result = c.result /\ e.files = Append(c.files, new)
    <3>1. /\ Len(e.files) = Len(call.files) + 1 /\ DOMAIN e.files = 1..(Len(call.files) + 1)
          /\ e.files[Len(call.files) + 1] = new
          /\ \A i \in 1..Len(call.files) : e.files[i] = call.files[i]
      BY <1>2, <2>3, <2>9, SeqAppends DEF FilesFit
    <3>2. Len(e.files) <= Len(e.wanted)
      BY <1>2, <1>3, <2>3, <2>7, <3>1
    <3>3. \A i \in DOMAIN e.files : e.files[i].path = e.wanted[i]
      <4>1. SUFFICES ASSUME NEW i \in DOMAIN e.files PROVE e.files[i].path = call.wanted[i]
        BY <2>3, <2>7
      <4>2. i = Len(call.files) + 1 \/ i \in 1..Len(call.files)
        BY <1>2, <3>1, <4>1
      <4>3. \A j \in 1..Len(call.files) : call.files[j].path = call.wanted[j]
        BY <1>2 DEF ListFits
      <4>4. QED
        BY <2>4, <2>5, <3>1, <4>2, <4>3
    <3>4. call.result # "loaded"
      BY <1>2, <1>3 DEF ListFits
    <3>5. call.wanted \in Seq(Seq(TreeNames))
      BY <1>2 DEF ListFits
    <3>6. ListFits(e)
      BY <2>3, <2>7, <2>9, <3>2, <3>3, <3>4, <3>5 DEF ListFits
    <3>7. CallIsInside(e)
      BY <1>2, <2>3, <2>7, <2>9, <3>6, ListedFits
    <3>8. QED
      BY <2>1, <2>3, <2>7, <3>7, CallGoesOn DEF e
  <2>10. QED
    BY <2>7, <2>8, <2>9
<1>6. QED
  BY <1>1, <1>4, <1>5

LEMMA OthersEditInv ==
    ASSUME TreeInv, OthersEdit
    PROVE  TreeInv'
<1>1. call' = call /\ call.pc # "done" /\ (places' = places \/ \E k : places' = [places EXCEPT ![call.root] = k])
  BY DEF OthersEdit
<1>2. DOMAIN places' = Places
  BY <1>1 DEF TreeInv
<1>3. CallIsInside(call)' /\ RootIsTheOneNamed'
  BY <1>1 DEF TreeInv, RootIsTheOneNamed
<1>4. QED
  BY <1>2, <1>3 DEF TreeInv

LEMMA BeginningCallInv ==
    ASSUME TreeInv, CallsBegin
    PROVE  TreeInv'
<1>1. CASE \E q \in RootRequests : EnsuresRoot(q)
  BY <1>1, EnsuringInv
<1>2. CASE StartsScan("directory", Idle.limits, <<>>)
  BY <1>2, StartingInv
<1>3. CASE \E limits \in ScanLimits : StartsScan("catalog", limits, <<>>)
  BY <1>3, StartingInv
<1>4. CASE \E wanted \in WantedPaths : StartsScan("listed", Idle.limits, wanted)
  BY <1>4, StartingInv, TextTreeAssumption
<1>5. QED
  BY <1>1, <1>2, <1>3, <1>4 DEF CallsBegin

LEMMA TreeInitInv == TextTreeInit => TreeInv
<1>1. SUFFICES ASSUME TextTreeInit PROVE TreeInv
  OBVIOUS
<1>2. call = Idle /\ DOMAIN places = Places
  BY <1>1 DEF TextTreeInit
<1>3. CallIsInside(call) /\ call.mode # "ensure"
  BY <1>2, IdleFits, CallFields
<1>4. QED
  BY <1>2, <1>3 DEF TreeInv, RootIsTheOneNamed

LEMMA TreeStepInv == TreeInv /\ [TextTreeNext]_treeVars => TreeInv'
<1>1. SUFFICES ASSUME TreeInv, [TextTreeNext]_treeVars PROVE TreeInv'
  OBVIOUS
<1>2. CASE UNCHANGED treeVars
  BY <1>1, <1>2 DEF treeVars, TreeInv, RootIsTheOneNamed
<1>3. CASE OthersEdit \/ CallsBegin
  BY <1>1, <1>3, OthersEditInv, BeginningCallInv
<1>4. CASE ValidatesRoot \/ CreatesRoot
  BY <1>1, <1>4, RootStepInv
<1>5. CASE ReadsNames \/ Looks \/ OpensDirectory
  BY <1>1, <1>5, ReadingNamesInv, LookingInv, OpeningDirectoryInv
<1>6. CASE OpensFile \/ LeavesDirectory \/ FinishesScan
  BY <1>1, <1>6, OpeningFileInv, LeavingInv, FinishingInv
<1>7. CASE TakesWanted \/ WalksDown \/ LooksAtLeaf \/ ReadsLeaf
  BY <1>1, <1>7, TakingWantedInv, WalkingInv, LookingAtLeafInv, ReadingLeafInv
<1>8. QED
  BY <1>1, <1>2, <1>3, <1>4, <1>5, <1>6, <1>7 DEF TextTreeNext

LEMMA TreeInvIsInside == TreeInv => ScansStayInside /\ RootIsTheOneNamed
<1>1. SUFFICES ASSUME TreeInv PROVE ScansStayInside
  BY DEF TreeInv
<1>2. FilesFit(call) /\ LimitsFit(call) /\ ListFits(call)
  BY <1>1 DEF TreeInv, CallIsInside
<1>3. \A i \in DOMAIN call.files : call.files[i].file # OutsideFile
  BY <1>2, TextTreeAssumption DEF FilesFit
<1>4. call.bytes <= MaxTreeBytes
  BY <1>2 DEF FilesFit
<1>5. call.mode = "catalog" => /\ call.directories <= call.limits.directories
                               /\ Len(call.files) <= call.limits.sources
                               /\ \A i \in DOMAIN call.stack : call.stack[i].depth <= call.limits.depth
  BY <1>2 DEF LimitsFit, WithinDepth
<1>6. ASSUME call.mode = "listed", call.result = "loaded" PROVE PathsOf(call.files) = call.wanted
  <2>1. call.wanted \in Seq(Seq(TreeNames)) /\ Len(call.files) = Len(call.wanted)
        /\ \A i \in DOMAIN call.files : call.files[i].path = call.wanted[i]
    BY <1>2, <1>6 DEF ListFits
  <2>2. DOMAIN call.files = 1..Len(call.wanted)
    BY <1>2, <2>1, SeqHas DEF FilesFit
  <2>3. call.wanted = [i \in 1..Len(call.wanted) |-> call.wanted[i]]
    <3> DEFINE S == Seq(TreeNames)
    <3>1. call.wanted \in Seq(S)
      BY <2>1
    <3> HIDE DEF S
    <3>2. QED
      BY <3>1
  <2>4. QED
    BY <2>1, <2>2, <2>3 DEF PathsOf
<1>7. QED
  BY <1>3, <1>4, <1>5, <1>6 DEF ScansStayInside

-----------------------------------------------------------------------------
(***************************************************************************)
(* The parts of MCSafety: only the one that was chosen moves.              *)
(***************************************************************************)
ReadsInv == (On("catalogs") => CatalogsInv) /\ (On("tree") => TreeInv)

LEMMA ReadsInitInv == SafetyInit => ReadsInv
BY CatalogsInitInv, TreeInitInv DEF SafetyInit, ReadsInv

LEMMA ReadsStepInv == ReadsInv /\ [SafetyNext]_safetyVars => ReadsInv'
<1>1. SUFFICES ASSUME ReadsInv, [SafetyNext]_safetyVars PROVE ReadsInv'
  OBVIOUS
<1>2. /\ part' = part
      /\ On("catalogs") => [CatalogsNext]_catalogVars
      /\ On("tree") => [TextTreeNext]_treeVars
  <2>1. CASE UNCHANGED safetyVars
    BY <2>1 DEF safetyVars
  <2>2. CASE SafetyNext
    BY <2>2 DEF SafetyNext, On, BootstrapOnly, CancelledOnly, BotsOnly, CatalogsOnly, LocalesOnly, TreeOnly
  <2>3. QED
    BY <1>1, <2>1, <2>2
<1>3. \A name : On(name)' <=> On(name)
  BY <1>2 DEF On
<1>4. On("catalogs") => CatalogsInv'
  BY <1>1, <1>2, CatalogsStepInv DEF ReadsInv
<1>5. On("tree") => TreeInv'
  BY <1>1, <1>2, TreeStepInv DEF ReadsInv
<1>6. QED
  BY <1>3, <1>4, <1>5 DEF ReadsInv

\* For any catalogs, loads and readers and for any tree and any number of edits: a look-up misses
\* nothing that is there all the while and answers nothing that is not, a loaded catalog keeps its
\* default locale, no file from behind a symlink is read, limits hold at every moment, and a data
\* root is at the place its most explicit source names.
THEOREM ReadsStayTrue == SafetySpec => []ReadsAreTrue
<1>1. CatalogsInv => LookupsAreTrue
  BY DEF CatalogsInv, CallFits, LookupsAreTrue, LookupsMissNothing, DefaultsStayEnabled
<1>2. ReadsInv => ReadsAreTrue
  BY <1>1, TreeInvIsInside DEF ReadsInv, ReadsAreTrue
<1>3. QED
  BY <1>2, ReadsInitInv, ReadsStepInv, PTL DEF SafetySpec

=============================================================================
