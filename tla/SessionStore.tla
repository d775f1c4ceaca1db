----------------------------- MODULE SessionStore -----------------------------
(***************************************************************************)
(* The file the bots keep their sessions in: createSessionStore of         *)
(* notify-kit/bots/_shared/session_store.mjs, with the process around it.  *)
(*                                                                         *)
(* The map is the order of its keys, which decides what is evicted, and an *)
(* edition that stands for the values.  JavaScript runs one callback at a  *)
(* time: an action is what happens between two awaits.                     *)
(***************************************************************************)
EXTENDS Naturals, Sequences, SequencesExt

CONSTANTS Chats,       \* the keys
          EntryLimits, \* the entryLimit a process may be started with
          MaxEdits     \* bound on the changes of the map

ASSUME SessionStoreAssumption ==
    EntryLimits \subseteq Nat \ {0} /\ EntryLimits # {} /\ MaxEdits \in Nat

VARIABLES
    botPc,       \* "down", "loading", "up", "exiting" or "exited"
    entryLimit,
    shelf,       \* the keys of `map`, oldest first
    edition,     \* the contents of `map`, by the change that made them
    edits,       \* changes so far, of every process
    dirty,
    flushTimer,  \* whether the debounce timer is set
    flushes,     \* flushNow calls in the chain `pending` that have not begun
    writers,     \* atomicWriteUtf8 calls: what each writes, and whether it has the temporary file
    onDisk,      \* what the file holds
    flushFailed, \* history: the last flush that wrote failed
    signalledAt  \* history: the edition when the exit hooks ran

storeVars == <<botPc, entryLimit, shelf, edition, edits, dirty, flushTimer, flushes,
               writers, onDisk, flushFailed, signalledAt>>

\* A file holds an edition; "old" is the object format of earlier releases.
Contents(kind, keys, n) == [kind |-> kind, keys |-> keys, edition |-> n]
NoStoreFile == Contents("none", <<>>, 0)

SessionStoreInit ==
    /\ botPc = "down"
    /\ entryLimit \in EntryLimits
    /\ shelf = <<>> /\ edition = 0 /\ edits = 0
    /\ dirty = FALSE /\ flushTimer = FALSE /\ flushes = 0 /\ writers = {}
    /\ onDisk \in {NoStoreFile} \cup {Contents("old", SetToSeq(Chats), 0)}
    /\ flushFailed = FALSE /\ signalledAt = 0

\* enforceEntryLimit: the least recently set keys go
Evicted(keys, limit) ==
    IF Len(keys) > limit THEN SubSeq(keys, Len(keys) - limit + 1, Len(keys)) ELSE keys

\* setMapValue: a key that is set again moves to the end
SetKey(keys, k) == Evicted(Append(SelectSeq(keys, LAMBDA x : x # k), k), entryLimit)

Edited == edits' = edits + 1 /\ edition' = edits + 1

(*****************************************************************************)
(* load(): what was evicted, or was in the old format, is written back at    *)
(* once, and the start waits for it.  (A file that does not parse, which the *)
(* store never writes, would count as none.)                                 *)
(*****************************************************************************)
StoreStarts ==
    /\ botPc = "down"
    /\ \E limit \in EntryLimits :
          LET keys == Evicted(onDisk.keys, limit)
              compact == keys # onDisk.keys \/ (onDisk.kind = "old" /\ keys # <<>>)
          IN /\ entryLimit' = limit
             /\ shelf' = keys
             /\ IF compact
                  THEN /\ edits < MaxEdits /\ Edited
                       /\ dirty' = TRUE /\ flushes' = 1 /\ botPc' = "loading"
                  ELSE /\ edition' = onDisk.edition
                       /\ botPc' = "up" /\ UNCHANGED <<edits, dirty, flushes>>
    /\ UNCHANGED <<flushTimer, writers, onDisk, flushFailed, signalledAt>>

(***************************************************************************)
(* set and delete.  The bots go on while the exit hooks flush.             *)
(***************************************************************************)
MarkDirty ==
    /\ botPc \in {"up", "exiting"}
    /\ edits < MaxEdits /\ Edited
    /\ dirty' = TRUE /\ flushTimer' = TRUE
    /\ UNCHANGED <<botPc, entryLimit, flushes, writers, onDisk, flushFailed, signalledAt>>

SetSession(k) == shelf' = SetKey(shelf, k) /\ MarkDirty

DeleteSession(k) ==
    /\ Contains(shelf, k)
    /\ shelf' = SelectSeq(shelf, LAMBDA x : x # k)
    /\ MarkDirty

TimerFires ==
    /\ botPc \in {"up", "exiting"} /\ flushTimer
    /\ flushTimer' = FALSE
    /\ flushes' = flushes + 1
    /\ UNCHANGED <<botPc, entryLimit, shelf, edition, edits, dirty, writers, onDisk,
                   flushFailed, signalledAt>>

(***************************************************************************)
(* flushNow, one at a time: `pending` chains them.  It takes what the map  *)
(* holds now, and clears `dirty` before it writes.                         *)
(***************************************************************************)
FlushBegins ==
    /\ flushes > 0 /\ writers = {}
    /\ flushes' = flushes - 1
    /\ IF dirty
         THEN /\ dirty' = FALSE
              /\ writers' = writers \cup {[keys |-> shelf, edition |-> edition, hasTmp |-> FALSE]}
              /\ UNCHANGED botPc
         ELSE UNCHANGED <<dirty, writers, botPc>>
    /\ UNCHANGED <<entryLimit, shelf, edition, edits, flushTimer, onDisk, flushFailed,
                   signalledAt>>

TmpWritten(w) ==
    /\ w \in writers /\ ~w.hasTmp
    /\ writers' = (writers \ {w}) \cup {[w EXCEPT !.hasTmp = TRUE]}
    /\ UNCHANGED <<botPc, entryLimit, shelf, edition, edits, dirty, flushTimer, flushes,
                   onDisk, flushFailed, signalledAt>>

\* the rename
Renamed(w) ==
    /\ w \in writers /\ w.hasTmp
    /\ onDisk' = Contents("entries", w.keys, w.edition)
    /\ writers' = writers \ {w}
    /\ flushFailed' = FALSE
    /\ botPc' = IF botPc = "loading" THEN "up" ELSE botPc
    /\ UNCHANGED <<entryLimit, shelf, edition, edits, dirty, flushTimer, flushes, signalledAt>>

\* What a bug would do: leave the map marked clean.
WriteFailedForGood(w) ==
    /\ w \in writers
    /\ writers' = writers \ {w}
    /\ flushFailed' = TRUE
    /\ botPc' = IF botPc = "loading" THEN "exited" ELSE botPc
    /\ UNCHANGED <<entryLimit, shelf, edition, edits, dirty, flushTimer, flushes, onDisk,
                   signalledAt>>

\* the directory, the temporary file or the rename: a start that waits for the
\* flush fails with it
WriteFailed(w) ==
    /\ w \in writers
    /\ writers' = writers \ {w}
    /\ dirty' = TRUE /\ flushFailed' = TRUE
    /\ botPc' = IF botPc = "loading" THEN "exited" ELSE botPc
    /\ UNCHANGED <<entryLimit, shelf, edition, edits, flushTimer, flushes, onDisk, signalledAt>>

(***************************************************************************)
(* SIGINT and SIGTERM: flush once more, and exit when that is through.     *)
(***************************************************************************)
Signalled ==
    /\ botPc = "up"
    /\ botPc' = "exiting"
    /\ signalledAt' = edition
    /\ flushes' = flushes + 1
    /\ UNCHANGED <<entryLimit, shelf, edition, edits, dirty, flushTimer, writers, onDisk,
                   flushFailed>>

Exits ==
    /\ botPc = "exiting" /\ flushes = 0 /\ writers = {}
    /\ botPc' = "exited"
    /\ UNCHANGED <<entryLimit, shelf, edition, edits, dirty, flushTimer, flushes, writers,
                   onDisk, flushFailed, signalledAt>>

\* The process is gone, killed or after its exit; another may be started.
Restarts ==
    /\ botPc # "down" /\ edits < MaxEdits
    /\ botPc' = "down"
    /\ shelf' = <<>> /\ edition' = 0
    /\ dirty' = FALSE /\ flushTimer' = FALSE /\ flushes' = 0 /\ writers' = {}
    /\ flushFailed' = FALSE /\ signalledAt' = 0
    /\ UNCHANGED <<entryLimit, edits, onDisk>>

FlushGoesOn == TimerFires \/ FlushBegins \/ Exits \/ \E w \in writers : TmpWritten(w) \/ Renamed(w)

SessionStoreNext ==
    \/ StoreStarts \/ Signalled \/ Restarts \/ FlushGoesOn
    \/ \E k \in Chats : SetSession(k) \/ DeleteSession(k)
    \/ \E w \in writers : WriteFailed(w)

SessionStoreSpec == SessionStoreInit /\ [][SessionStoreNext]_storeVars

\* The event loop runs and a write ends; nothing has to be set.
FairSessionStoreSpec == SessionStoreSpec /\ WF_storeVars(FlushGoesOn)

-----------------------------------------------------------------------------
SessionStoreTypeOK ==
    /\ botPc \in {"down", "loading", "up", "exiting", "exited"}
    /\ entryLimit \in EntryLimits
    /\ shelf \in Seq(Chats) /\ IsInjective(shelf) /\ Len(shelf) <= entryLimit
    /\ edition \in 0..MaxEdits /\ edits \in 0..MaxEdits /\ signalledAt \in 0..MaxEdits
    /\ {dirty, flushTimer, flushFailed} \subseteq BOOLEAN
    /\ flushes \in Nat
    /\ onDisk.kind \in {"none", "old", "entries"}
    /\ onDisk.keys \in Seq(Chats) /\ onDisk.edition \in 0..MaxEdits

\* The file never goes back to an older map, whatever timers, failed writes and
\* restarts came before.
FileNeverGoesBack ==
    [][onDisk'.kind = "entries" => onDisk'.edition >= onDisk.edition]_storeVars

Saved == onDisk.edition = edition

\* What is not in the file is on its way there: a flush writes it, or `dirty` is
\* set and a flush is to come.  Only a write that failed may leave it to the next
\* change, or to the exit.
ChangesAreOnTheirWay ==
    botPc \in {"up", "exiting"} /\ ~Saved /\ edition # 0 =>
        \/ \E w \in writers : w.edition = edition
        \/ dirty /\ (flushTimer \/ flushes > 0 \/ flushFailed)

\* A process that exits on a signal has written what it held when the signal
\* came, unless the last write failed.
ExitSaves ==
    botPc = "exited" /\ ~flushFailed =>
        onDisk.edition >= signalledAt

\* What was set is on its way to the file, through timers, failed writes and exits.
ChangesAreKept == ChangesAreOnTheirWay /\ ExitSaves

\* A change reaches the file, or a write fails.
Unsaved == botPc = "up" /\ dirty /\ ~flushFailed

ChangesAreSaved == Unsaved ~> ~Unsaved

-----------------------------------------------------------------------------
(***************************************************************************)
(* The inductive invariant.                                                *)
(***************************************************************************)

\* One write at a time, of a map that is newer than the file's and not newer
\* than the process's.
WritesGoForward ==
    /\ edition <= edits /\ onDisk.edition <= edits /\ signalledAt <= edition
    /\ IF botPc = "down" THEN edition = 0 ELSE onDisk.edition <= edition
    /\ \A w \in writers : onDisk.edition <= w.edition /\ w.edition <= edition
    /\ \A w, x \in writers : w = x

\* What has no flush to wait for: a process that is down or has exited, and one
\* that starts waits for its own.
StartsAreAlone ==
    /\ botPc \in {"down", "exited"} => flushes = 0 /\ writers = {}
    /\ botPc = "loading" => flushes <= 1 /\ (flushes = 1 <=> writers = {})
    /\ botPc = "loading" /\ writers = {} => dirty

\* A flush that writes an older map has another behind it.
FlushFollows ==
    /\ \A w \in writers : w.edition # edition => dirty /\ (flushTimer \/ flushes > 0)
    /\ botPc = "loading" => \A w \in writers : w.edition = edition

\* The flush of the signal is to come, or its write is under way or over.
SignalIsServed ==
    botPc = "exiting" =>
        /\ \A w \in writers : w.edition >= signalledAt \/ flushes > 0
        /\ writers = {} => onDisk.edition >= signalledAt \/ flushes > 0 \/ flushFailed

StoreTyped ==
    /\ botPc \in {"down", "loading", "up", "exiting", "exited"}
    /\ edition \in Nat /\ edits \in Nat /\ signalledAt \in Nat /\ flushes \in Nat
    /\ onDisk.edition \in Nat
    /\ \A w \in writers : w \in [keys : {w.keys}, edition : Nat, hasTmp : BOOLEAN]

StoreInv ==
    /\ StoreTyped /\ WritesGoForward /\ StartsAreAlone /\ FlushFollows /\ SignalIsServed
    /\ ChangesAreOnTheirWay /\ ExitSaves
=============================================================================
