------------------------------ MODULE SseReader ------------------------------
(*****************************************************************************)
(* The reader of server-sent events of http-kit/src/sse.rs, fed by a         *)
(* connection that cuts the bytes wherever it likes, and what the bytes mean *)
(* whole.                                                                    *)
(*                                                                           *)
(* "data" is one byte here, the field name; any other letter would do what   *)
(* it does behind a colon.  "bad" is a byte that is not UTF-8.               *)
(*****************************************************************************)
EXTENDS Naturals, Sequences, FiniteSets, SequencesExt

CONSTANTS MaxBytes,      \* bound on the length of a stream
          MaxLineBytes,  \* SseLimits
          MaxEventBytes

ASSUME SseReaderAssumption ==
    MaxBytes \in Nat /\ MaxLineBytes \in Nat \ {0} /\ MaxEventBytes \in Nat \ {0}

Alphabet == {"data", ":", " ", "CR", "LF", "bad"}
ByteStreams == SeqOf(Alphabet, MaxBytes)

VARIABLES
    bodyBytes,  \* the whole stream
    consumed,   \* how much of it has been read
    lineBytes,  \* line_bytes
    dataBuffer, \* buffer
    dataFields, \* data_field_count
    sseEvents,  \* what the stream has yielded
    sseEnd      \* "open", or how it ended

readerVars == <<bodyBytes, consumed, lineBytes, dataBuffer, dataFields, sseEvents, sseEnd>>

SseReaderInit ==
    /\ bodyBytes \in ByteStreams
    /\ consumed = 0 /\ lineBytes = <<>> /\ dataBuffer = <<>> /\ dataFields = 0
    /\ sseEvents = <<>> /\ sseEnd = "open"

\* line.trim_end_matches(['\r', '\n'])
Trimmed(line) ==
    LET kept == {i \in 1..Len(line) : line[i] \notin {"CR", "LF"}}
    IN SubSeq(line, 1, IF kept = {} THEN 0 ELSE CHOOSE i \in kept : \A j \in kept : j <= i)

\* split_once(':'), and the one space that may follow
Field(line) == IF Contains(line, ":")
               THEN SubSeq(line, 1, SelectInSeq(line, LAMBDA b : b = ":") - 1)
                                      ELSE line
AfterSpace(rest) == IF rest # <<>> /\ Head(rest) = " " THEN Tail(rest) ELSE rest
Value(line) == IF Contains(line, ":")
                 THEN AfterSpace(SubSeq(line, Len(Field(line)) + 2, Len(line)))
                 ELSE <<>>

IsData(line) == Field(line) = <<"data">>

\* What a bug would do: take an empty buffer for the beginning of an event.
JoinedIfAny(buffer, n, value) == buffer \o (IF buffer # <<>> THEN <<"LF">> ELSE <<>>) \o value

Joined(buffer, n, value) == buffer \o (IF n > 0 THEN <<"LF">> ELSE <<>>) \o value

Ends(how) == sseEnd' = how /\ UNCHANGED <<lineBytes, dataBuffer, dataFields, sseEvents>>

Yields ==
    /\ sseEvents' = Append(sseEvents, dataBuffer)
    /\ dataBuffer' = <<>> /\ dataFields' = 0 /\ lineBytes' = <<>>
    /\ UNCHANGED sseEnd

NextLine == lineBytes' = <<>> /\ UNCHANGED sseEnd

(***************************************************************************)
(* read_next_sse_data_with_limits, for a line that is complete             *)
(***************************************************************************)
TakesLine(raw) ==
    LET line == Trimmed(raw)
        buffer == Joined(dataBuffer, dataFields, Value(line))
    IN IF Contains(raw, "bad") THEN Ends("invalidUtf8")
       ELSE IF line = <<>> /\ dataFields > 0 THEN Yields
       ELSE IF line # <<>> /\ Head(line) # ":" /\ IsData(line)
              THEN IF Len(buffer) > MaxEventBytes
                     THEN Ends("eventTooLarge")
                     ELSE /\ dataBuffer' = buffer /\ dataFields' = dataFields + 1
                          /\ NextLine /\ UNCHANGED sseEvents
       ELSE NextLine /\ UNCHANGED <<dataBuffer, dataFields, sseEvents>>

(***************************************************************************)
(* read_next_line_bytes_limited: fill_buf hands out the next n bytes, of   *)
(* which those up to a newline are taken.                                  *)
(***************************************************************************)
TakeLen(chunk) ==
    IF Contains(chunk, "LF") THEN SelectInSeq(chunk, LAMBDA b : b = "LF") ELSE Len(chunk)

\* What a bug would do: look at the line before the chunk is added to it.
TooLongSoFar(taken) == Len(lineBytes) > MaxLineBytes

TooLong(taken) == Len(lineBytes) + Len(taken) > MaxLineBytes

FillsBuf(n) ==
    LET chunk == SubSeq(bodyBytes, consumed + 1, consumed + n)
        taken == SubSeq(chunk, 1, TakeLen(chunk))
    IN /\ sseEnd = "open" /\ consumed + n <= Len(bodyBytes)
       /\ IF TooLong(taken)
            THEN Ends("lineTooLarge") /\ UNCHANGED consumed
            ELSE /\ consumed' = consumed + Len(taken)
                 /\ IF Contains(taken, "LF")
                      THEN TakesLine(lineBytes \o taken)
                      ELSE /\ lineBytes' = lineBytes \o taken
                           /\ UNCHANGED <<dataBuffer, dataFields, sseEvents, sseEnd>>
       /\ UNCHANGED bodyBytes

\* The body ends: a last line without a newline counts, and so does an event
\* without its empty line.
BodyEnds ==
    /\ sseEnd = "open" /\ consumed = Len(bodyBytes)
    /\ IF lineBytes # <<>> THEN TakesLine(lineBytes)
       ELSE IF dataFields > 0 THEN Yields
       ELSE Ends("none")
    /\ UNCHANGED <<bodyBytes, consumed>>

\* fill_buf fails, as when the connection breaks: the error ends the stream, and what was read
\* of a line or an event is gone.
ReadFails == sseEnd = "open" /\ Ends("readFailed") /\ UNCHANGED <<bodyBytes, consumed>>

SseReaderNext == BodyEnds \/ ReadFails \/ \E n \in 1..MaxBytes : FillsBuf(n)

SseReaderSpec == SseReaderInit /\ [][SseReaderNext]_readerVars

-----------------------------------------------------------------------------
SseReaderTypeOK ==
    /\ bodyBytes \in Seq(Alphabet) /\ consumed \in 0..Len(bodyBytes)
    /\ lineBytes \in Seq(Alphabet) /\ Len(lineBytes) <= MaxLineBytes
    /\ dataBuffer \in Seq(Alphabet) /\ Len(dataBuffer) <= MaxEventBytes
    /\ dataFields \in 0..MaxBytes /\ sseEvents \in Seq(Seq(Alphabet))
    /\ sseEnd \in {"open", "none", "readFailed", "lineTooLarge", "eventTooLarge", "invalidUtf8"}

\* The lines of a whole stream, and the data of line i; a stream that does not end
\* in an empty line is read as if it did.
LineEnds == {i \in 1..Len(bodyBytes) : bodyBytes[i] = "LF"} \cup {Len(bodyBytes)}
LineTo(e) == LET before == {i \in LineEnds : i < e}
             IN SubSeq(bodyBytes, (IF before = {} THEN 0 ELSE CHOOSE i \in before :
                                  \A j \in before : j <= i) + 1, e)
LinesUpTo(n) == LET ends == SelectSeq([i \in 1..n |-> i], LAMBDA i : i \in LineEnds)
                IN [i \in DOMAIN ends |-> LineTo(ends[i])]
AllLines == LinesUpTo(Len(bodyBytes))

Blank(line) == Trimmed(line) = <<>>
DataLine(line) == ~Blank(line) /\ Head(line) # ":" /\ IsData(Trimmed(line))

\* the data lines of one event: those between two blank lines
DataOf(lines) ==
    LET data == SelectSeq(lines, DataLine)
    IN FlattenSeq([i \in 1..Len(data) |-> (IF i > 1 THEN <<"LF">> ELSE <<>>)
                                          \o Value(Trimmed(data[i]))])

Blocks(lines) ==
    LET blank == SelectSeq([i \in 1..Len(lines) |-> i], LAMBDA i : Blank(lines[i]))
        cuts == <<0>> \o blank \o <<Len(lines) + 1>>
    IN [k \in 1..(Len(cuts) - 1) |-> SubSeq(lines, cuts[k] + 1, cuts[k + 1] - 1)]

Meaning(lines) ==
    LET blocks == SelectSeq(Blocks(lines), LAMBDA b : \E i \in 1..Len(b) : DataLine(b[i]))
    IN [k \in 1..Len(blocks) |-> DataOf(blocks[k])]

WithinLimits(lines, meaning) ==
    /\ \A i \in 1..Len(lines) : ~Contains(lines[i], "bad") /\ Len(lines[i]) <= MaxLineBytes
    /\ \A k \in 1..Len(meaning) : Len(meaning[k]) <= MaxEventBytes

\* The end of the last blank line that was read.
LastBlank == Max({0} \cup {e \in 1..consumed : bodyBytes[e] = "LF" /\ Blank(LineTo(e))})

\* However the bytes are cut, the reader yields what the stream means, from its
\* beginning and in order, and before the end of the body only events that a blank
\* line has closed; it ends with the error of a limit or of malformed bytes only if
\* there are such, and without an error only if there are none and everything was
\* yielded.  A connection that breaks takes no more than the event it breaks in.
EventsAreTheStreams ==
    LET lines == AllLines
        meaning == Meaning(lines)
    IN /\ sseEvents # <<>> => IsPrefix(sseEvents, meaning)
       /\ consumed < Len(bodyBytes) => sseEvents = Meaning(LinesUpTo(LastBlank))
       /\ sseEnd = "none" => sseEvents = meaning /\ WithinLimits(lines, meaning)
       /\ sseEnd \in {"lineTooLarge", "eventTooLarge", "invalidUtf8"} => ~WithinLimits(lines, meaning)
=============================================================================
