----------------------------- MODULE StdoutLog -----------------------------
(***************************************************************************)
(* The rotating log of what a server process prints: LogState of           *)
(* stdout_log.rs, used by the reader of the JSON-RPC client.  Bytes go to  *)
(* the file at the base path; when it has max_bytes_per_part of them it is *)
(* renamed to the next numbered segment, old segments are pruned and the   *)
(* base is opened anew.                                                    *)
(*                                                                         *)
(* A step is one file-system call.  The client may stop between two, or in *)
(* the middle of a write, by a crash or because its reader was aborted;    *)
(* any call may fail, after which the client logs no more, except for two: *)
(* a length that cannot be asked for counts as 0, and parts that cannot be *)
(* listed count as none.  The next client on the path goes on with the     *)
(* files it finds.  Bytes are numbered in the order they reach the disk.   *)
(***************************************************************************)
EXTENDS Integers, Sequences, FiniteSets, FiniteSetsExt

CONSTANTS PartBytes,    \* max_bytes_per_part
          MaxParts,     \* max_parts, 0 for None
          MaxWritten,   \* bytes in all
          MaxLine       \* bytes of a line with its end

ASSUME LogAssumption ==
    /\ PartBytes \in Nat \ {0} /\ MaxParts \in Nat
    /\ MaxWritten \in Nat /\ MaxLine \in Nat \ {0}

NoFile == <<-1>>
PartNumbers == 1..MaxWritten

VARIABLES
    logPc,
    base,        \* the bytes of the file at the base path, or NoFile
    segments,    \* the bytes of each numbered segment, or NoFile
    currentLen, nextPart,
    candidate,   \* the part rotate_log_file tries
    toLog,       \* bytes of the current line still to be written
    bytes,       \* bytes written so far
    misnumbered  \* history: a segment got a lower number than one that was there

logVars == <<logPc, base, segments, currentLen, nextPart, candidate, toLog, bytes, misnumbered>>
logFiles == <<base, segments, bytes, misnumbered>>

LogInit ==
    /\ logPc = "off"
    /\ base = NoFile
    /\ segments = [p \in PartNumbers |-> NoFile]
    /\ currentLen = 0 /\ nextPart = 1 /\ candidate = 1
    /\ toLog = 0
    /\ bytes = 0 /\ misnumbered = FALSE

Parts == {p \in PartNumbers : segments[p] # NoFile}

\* create(true).append(true)
OpenAppend == base' = IF base = NoFile THEN <<>> ELSE base

(***************************************************************************)
(* LogState::new                                                           *)
(***************************************************************************)
OpenLog ==
    /\ logPc = "off"
    /\ OpenAppend
    /\ currentLen' \in {Len(base'), 0}
    /\ logPc' = "list"
    /\ UNCHANGED <<segments, bytes, misnumbered, nextPart, candidate, toLog>>

FirstFreePart == IF Parts = {} THEN 1 ELSE Max(Parts) + 1

ListParts ==
    /\ logPc = "list"
    /\ nextPart' \in {FirstFreePart, 1}
    /\ logPc' = "prune old"
    /\ UNCHANGED <<logFiles, currentLen, candidate, toLog>>

\* What a bug would do: prune from the wrong end.
PrunesNewest(p) == p = Max(Parts)

\* The part with the lowest number is the oldest.
Prunes(p) == p = Min(Parts)

\* It goes as long as there are more than max_parts.
TooMany == MaxParts > 0 /\ Cardinality(Parts) > MaxParts

Prune ==
    /\ logPc \in {"prune old", "prune"} /\ TooMany
    /\ \E p \in Parts : Prunes(p) /\ segments' = [segments EXCEPT ![p] = NoFile]
    /\ UNCHANGED <<logPc, base, bytes, misnumbered, currentLen, nextPart, candidate, toLog>>

Pruned ==
    /\ logPc \in {"prune old", "prune"} /\ ~TooMany
    /\ logPc' = IF logPc = "prune" THEN "reopen" ELSE "ready"
    /\ UNCHANGED <<logFiles, currentLen, nextPart, candidate, toLog>>

(***************************************************************************)
(* write_line_bytes                                                        *)
(***************************************************************************)
LogLine(n) ==
    /\ logPc = "ready" /\ toLog = 0 /\ bytes + n <= MaxWritten
    /\ toLog' = n
    /\ UNCHANGED <<logPc, logFiles, currentLen, nextPart, candidate>>

Remaining == IF currentLen < PartBytes THEN PartBytes - currentLen ELSE 0

Upto(n, limit) == IF n < limit THEN n ELSE limit

\* n more bytes at the end of the base file.
WriteOut(n) ==
    /\ base' = base \o [i \in 1..n |-> bytes + i]
    /\ bytes' = bytes + n

WriteBytes ==
    /\ logPc = "ready" /\ toLog > 0 /\ Remaining > 0
    /\ LET n == Upto(toLog, Remaining) IN
       /\ WriteOut(n)
       /\ currentLen' = currentLen + n
       /\ toLog' = toLog - n
    /\ UNCHANGED <<logPc, segments, misnumbered, nextPart, candidate>>

StartRotation ==
    /\ logPc = "ready" /\ toLog > 0 /\ Remaining = 0
    /\ candidate' = nextPart
    /\ logPc' = "look"
    /\ UNCHANGED <<logFiles, currentLen, nextPart, toLog>>

\* rotate_log_file: the first part from next_part on that does not exist.
LookForPart ==
    /\ logPc = "look"
    /\ IF segments[candidate] # NoFile
       THEN candidate' = candidate + 1 /\ UNCHANGED logPc
       ELSE logPc' = "rename" /\ UNCHANGED candidate
    /\ UNCHANGED <<logFiles, currentLen, nextPart, toLog>>

IsAhead(p) == \E q \in Parts : p < q

\* The rename; a base that is gone keeps the part free.
RenameBase ==
    /\ logPc = "rename"
    /\ IF base = NoFile
       THEN nextPart' = candidate /\ UNCHANGED <<base, segments, misnumbered>>
       ELSE /\ segments' = [segments EXCEPT ![candidate] = base]
            /\ base' = NoFile
            /\ nextPart' = candidate + 1
            /\ misnumbered' = (misnumbered \/ IsAhead(candidate))
    /\ logPc' = "prune"
    /\ UNCHANGED <<bytes, currentLen, candidate, toLog>>

ReopenBase ==
    /\ logPc = "reopen"
    /\ OpenAppend
    /\ currentLen' = 0
    /\ logPc' = "ready"
    /\ UNCHANGED <<segments, bytes, misnumbered, nextPart, candidate, toLog>>

\* A call fails, the client crashes or its reader is aborted; of a write in
\* progress some bytes may be on the disk.
LogStops ==
    /\ logPc # "off"
    /\ \/ UNCHANGED <<base, bytes>>
       \/ /\ logPc = "ready" /\ toLog > 0
          /\ \E n \in 1..Upto(toLog, Remaining) : WriteOut(n)
    /\ logPc' = "off" /\ toLog' = 0 /\ currentLen' = 0 /\ nextPart' = 1 /\ candidate' = 1
    /\ UNCHANGED <<segments, misnumbered>>

LogNext ==
    \/ OpenLog \/ ListParts \/ Prune \/ Pruned
    \/ \E n \in 1..MaxLine : LogLine(n)
    \/ WriteBytes \/ StartRotation \/ LookForPart \/ RenameBase \/ ReopenBase
    \/ LogStops

LogSpec == LogInit /\ [][LogNext]_logVars

-----------------------------------------------------------------------------
LogTypeOK ==
    /\ logPc \in {"off", "list", "prune old", "ready", "look", "rename", "prune", "reopen"}
    /\ base = NoFile \/ base \in Seq(1..MaxWritten)
    /\ \A p \in Parts : segments[p] \in Seq(1..MaxWritten)
    /\ currentLen \in 0..MaxWritten /\ nextPart \in Nat /\ candidate \in Nat
    /\ toLog \in 0..MaxLine /\ bytes \in 0..MaxWritten /\ misnumbered \in BOOLEAN

BaseBytes == IF base = NoFile THEN <<>> ELSE base

\* What is on the disk, read in the order of the part numbers.
Readable ==
    LET f[p \in 0..MaxWritten] ==
            IF p = 0 THEN <<>>
            ELSE f[p - 1] \o (IF segments[p] = NoFile THEN <<>> ELSE segments[p])
    IN f[MaxWritten] \o BaseBytes

\* What max_parts full segments hold, of all that was written.
Kept == IF MaxParts = 0 THEN bytes ELSE Upto(bytes, MaxParts * PartBytes)

\* "The numbers go on from the highest there is, and only the newest N segments are kept"
\* (docs/logging.md of mcp-kit): read part by part, the log is the newest bytes written, in
\* order and without a gap, and what max_parts full segments hold is never pruned.
NewestSegmentsKept ==
    LET n == Len(Readable) IN
    /\ Readable = [i \in 1..n |-> bytes - n + i]
    /\ n >= Kept

\* So it is wherever the clients before stopped, in mid-line, between a rename and the pruning
\* or in front of a file of unknown length, as long as no client whose listing failed has put
\* its bytes under a lower number than one that was there.
NewestBytesKept == misnumbered \/ NewestSegmentsKept

-----------------------------------------------------------------------------
\* Why: what is left of the segments is a range of numbers; each holds the bytes from the end
\* of the one before to its own, at least a part of them, and the base goes on after the last.
BytesAfter(start, n) == [i \in 1..n |-> start + i]

\* The parts after `first` up to `last` are there, and part p ends with byte ends[p].
FilesAreInLine(first, last, ends) ==
    /\ first <= last /\ (first = 0 \/ (MaxParts > 0 /\ last - first >= MaxParts))
    /\ Parts = (first + 1)..last
    /\ first = 0 => ends[0] = 0
    /\ \A p \in (first + 1)..last : segments[p] = BytesAfter(ends[p - 1], ends[p] - ends[p - 1])
    /\ \A p, q \in first..last : p <= q => ends[p] + (q - p) * PartBytes <= ends[q]
    /\ last <= ends[last] /\ ends[last] <= bytes
    /\ BaseBytes = BytesAfter(ends[last], bytes - ends[last])

\* What the client that runs knows of them: never more than there is.
CallsFollowFiles(last, end) ==
    /\ logPc \in {"list", "prune old", "ready", "look", "rename"} => currentLen <= bytes - end
    /\ logPc \notin {"off", "list"} => nextPart \in 1..(last + 1)
    /\ logPc \in {"look", "rename"} => candidate \in 1..(last + 1) /\ PartBytes <= currentLen
    /\ logPc = "rename" => segments[candidate] = NoFile

\* Whatever the numbers are: the base is there when it is written to, and lengths are of bytes.
LengthsFit ==
    /\ logPc \in {"list", "prune old", "ready", "look", "rename"} => base # NoFile
    /\ logPc \in {"prune", "reopen"} => base = NoFile
    /\ currentLen <= bytes /\ Len(BaseBytes) <= bytes /\ bytes + toLog <= MaxWritten
    /\ DOMAIN segments = PartNumbers

LogInv ==
    /\ LogTypeOK /\ LengthsFit
    /\ misnumbered \/ \E first, last \in Nat, ends \in [Nat -> Nat] :
                        FilesAreInLine(first, last, ends) /\ CallsFollowFiles(last, ends[last])

=============================================================================
