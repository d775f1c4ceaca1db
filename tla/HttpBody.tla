------------------------------- MODULE HttpBody -------------------------------
(***************************************************************************)
(* How http-kit reads the body of a response (body.rs): whole up to a      *)
(* limit, cut at a limit, written out with or without a limit, shown as a  *)
(* preview, or thrown away, to a limit or to the end, so that the          *)
(* connection can be used again.                                           *)
(*                                                                         *)
(* A body is the sizes of the chunks that arrive; it may end or break off  *)
(* after any of them.  Bytes are counted, and what they say is left out.   *)
(***************************************************************************)
EXTENDS Integers, Sequences, FiniteSetsExt

CONSTANTS MaxChunk,     \* bound on the bytes of a chunk
          MaxSent,      \* bound on the bytes of a body
          BodyLimits,   \* limits of the callers
          DrainLimit    \* RESPONSE_BODY_DRAIN_LIMIT_BYTES

ASSUME HttpBodyAssumption ==
    MaxChunk \in Nat \ {0} /\ MaxSent \in Nat /\ BodyLimits \subseteq Nat /\ DrainLimit \in Nat

Unknown == -1
Readers == {"limited", "truncated", "written", "preview", "success", "drained"}

\* max_bytes = None, which a writer may ask for; drain_response_body has no limit
Unlimited == -1

VARIABLES
    response,   \* what the peer declared and has sent so far
    reading     \* the reader and what it kept

bodyVars == <<response, reading>>

\* What a reader may be given as its limit
LimitFits ==
    /\ reading.limit \in BodyLimits \cup {Unlimited}
    /\ reading.limit = Unlimited => reading.reader \in {"written", "drained"}
    /\ reading.reader = "drained" => reading.limit = Unlimited

HttpBodyInit ==
    /\ response \in [declared : {Unknown} \cup 0..MaxSent, sent : {0}, ended : {"no"}]
    /\ reading \in [pc : {"start"}, reader : Readers, limit : BodyLimits \cup {Unlimited},
                    kept : {0}, cut : {FALSE}, drained : {0}, result : {"none"}]
    /\ LimitFits

Reads(r) == reading' = r /\ UNCHANGED response
Returns(result) == [reading EXCEPT !.pc = "done", !.result = result]
Drains(result) ==
    IF DrainLimit = 0 THEN Returns(result)
    ELSE [reading EXCEPT !.pc = "drain", !.result = result]

DeclaredTooLong == reading.limit # Unlimited /\ response.declared > reading.limit
Goes == [reading EXCEPT !.pc = "chunk"]

\* What a reader decides before the first chunk
StartsLimited == IF reading.limit = 0 \/ DeclaredTooLong THEN Drains("too large") ELSE Goes
StartsTruncated ==
    IF reading.limit = 0 THEN [Drains("body") EXCEPT !.cut = TRUE] ELSE [Goes EXCEPT !.cut = DeclaredTooLong]
StartsWritten == IF DeclaredTooLong THEN Returns("too large") ELSE Goes
StartsPreview == IF reading.limit = 0 THEN Returns("nothing") ELSE Goes
StartsSuccess == IF response.declared = 0 THEN Returns("dropped") ELSE Drains("dropped")
StartsDrained == Goes

StartsReading ==
    /\ reading.pc = "start"
    /\ Reads(CASE reading.reader = "limited" -> StartsLimited
               [] reading.reader = "truncated" -> StartsTruncated
               [] reading.reader = "written" -> StartsWritten
               [] reading.reader = "preview" -> StartsPreview
               [] reading.reader = "success" -> StartsSuccess
               [] reading.reader = "drained" -> StartsDrained)

Room == reading.limit - reading.kept
All(n) == [reading EXCEPT !.kept = @ + n]

\* What a bug would do: look at what is kept before it looks at what came.
TakesLimitedLate(n) == IF Room <= 0 THEN Drains("too large") ELSE All(n)

\* A chunk of n bytes, by reader
TakesLimited(n) == IF n > Room THEN Drains("too large") ELSE All(n)
TakesTruncated(n) ==
    IF Room = 0 \/ n > Room THEN [Drains("body") EXCEPT !.kept = reading.limit, !.cut = TRUE] ELSE All(n)
Exceeds(n) == reading.limit # Unlimited /\ n > Room
TakesWritten(n) == IF Exceeds(n) THEN Returns("too large") ELSE All(n)
TakesPreview(n) ==
    IF n >= Room THEN [Returns("body") EXCEPT !.kept = reading.limit] ELSE All(n)
TakesDrained(n) == [reading EXCEPT !.drained = @ + n]

Takes(n) ==
    CASE reading.reader = "limited" -> TakesLimited(n)
      [] reading.reader = "truncated" -> TakesTruncated(n)
      [] reading.reader = "written" -> TakesWritten(n)
      [] reading.reader = "preview" -> TakesPreview(n)
      [] reading.reader = "drained" -> TakesDrained(n)

\* The body is over, or the connection broke
FinishesPreview == Returns(IF reading.kept = 0 THEN "nothing" ELSE "body")
Finishes(ended) ==
    CASE reading.reader = "preview" -> FinishesPreview
      [] reading.reader = "drained" -> Returns("dropped")
      [] reading.reader \notin {"preview", "drained"} /\ ended = "broken" -> Returns("transport")
      [] reading.reader = "truncated" /\ ended = "whole" /\ reading.cut -> Drains("body")
      [] OTHER -> Returns("body")

\* drain_response_body_limited; a body broken off ends it as well
DrainEnds(n) ==
    IF reading.drained + n >= DrainLimit THEN [reading EXCEPT !.pc = "done", !.drained = @ + n]
    ELSE [reading EXCEPT !.drained = @ + n]

PeerSends(n) ==
    /\ response.ended = "no" /\ response.sent + n <= MaxSent
    /\ response.declared # Unknown => response.sent + n <= response.declared
    /\ response' = [response EXCEPT !.sent = @ + n]

ChunkArrives ==
    /\ reading.pc \in {"chunk", "drain"}
    /\ \E n \in 1..MaxChunk :
         /\ PeerSends(n)
         /\ reading' = IF reading.pc = "drain" THEN DrainEnds(n) ELSE Takes(n)

\* writer.write_all fails, with some of the chunk written
WriterFails ==
    /\ reading.pc = "chunk" /\ reading.reader = "written"
    /\ \E n \in 1..MaxChunk, written \in 0..MaxChunk :
         /\ PeerSends(n) /\ ~Exceeds(n) /\ written <= n
         /\ reading' = [Returns("write failed") EXCEPT !.kept = @ + written]

ResponseEnds ==
    /\ reading.pc \in {"chunk", "drain"}
    /\ \E ended \in IF response.ended = "no" THEN {"whole", "broken"} ELSE {response.ended} :
         /\ ended = "whole" => response.declared \in {Unknown, response.sent}
         /\ response' = [response EXCEPT !.ended = ended]
         /\ reading' = IF reading.pc = "drain" THEN [reading EXCEPT !.pc = "done"] ELSE Finishes(ended)

HttpBodyNext == StartsReading \/ ChunkArrives \/ WriterFails \/ ResponseEnds

-----------------------------------------------------------------------------

HttpBodyTypeOK ==
    /\ response.sent \in 0..MaxSent /\ response.ended \in {"no", "whole", "broken"}
    /\ reading.kept \in 0..MaxSent /\ reading.drained \in 0..MaxSent
    /\ reading.pc \in {"start", "chunk", "drain", "done"}

KeptWithinLimit ==
    reading.limit # Unlimited /\ reading.reader # "success" => reading.kept <= reading.limit
ReadOnlyForMore ==
    reading.reader # "drained" =>
        /\ reading.drained < DrainLimit + MaxChunk
        /\ response.sent <= reading.kept + reading.drained + MaxChunk

(***************************************************************************)
(* No reader with a limit keeps or writes more than that, and once it      *)
(* knows enough it reads at most the drain limit and one chunk more: a     *)
(* peer that sends for ever ends its call.  Two go on for as long as the   *)
(* peer does, a write without a limit and drain_response_body, and the     *)
(* write has written what it read.  What a reader returns as the body is   *)
(* all of it, and what it returns as cut has as many bytes as the limit    *)
(* allows: a body is refused as too large exactly when it is, or says it   *)
(* is, and one that broke off, or was not written whole, is never passed   *)
(* off as whole.                                                           *)
(***************************************************************************)
BodiesAreBounded ==
    /\ KeptWithinLimit
    /\ ReadOnlyForMore
    /\ reading.pc = "done" /\ reading.reader \in {"limited", "written"} =>
         /\ reading.result = "body" => reading.kept = response.sent /\ response.ended = "whole"
         /\ reading.result = "too large" => reading.limit # Unlimited
         /\ reading.result = "too large" =>
              \/ Max({response.sent, response.declared}) > reading.limit
              \/ reading.reader = "limited" /\ reading.limit = 0
    /\ reading.pc = "done" /\ reading.reader = "truncated" /\ reading.result = "body" =>
         /\ ~reading.cut => reading.kept = response.sent /\ response.ended = "whole"
         /\ reading.cut /\ reading.limit > 0 =>
              /\ Max({response.sent, response.declared}) > reading.limit
              /\ reading.kept = reading.limit
    /\ reading.reader = "preview" /\ reading.result = "nothing" =>
         reading.limit = 0 \/ response.sent = 0

(***************************************************************************)
(* The inductive invariant: what has been sent is kept while chunks are    *)
(* taken, and what ended the taking is known after that.                   *)
(***************************************************************************)
HttpBodyFits ==
    /\ DOMAIN response = {"declared", "sent", "ended"}
    /\ response.declared \in {Unknown} \cup 0..MaxSent /\ response.sent \in 0..MaxSent
    /\ response.ended \in {"no", "whole", "broken"}
    /\ DOMAIN reading = {"pc", "reader", "limit", "kept", "cut", "drained", "result"}
    /\ reading.pc \in {"start", "chunk", "drain", "done"}
    /\ reading.reader \in Readers /\ LimitFits
    /\ reading.kept \in Nat /\ reading.drained \in Nat /\ reading.cut \in BOOLEAN
    /\ response.declared # Unknown => response.sent <= response.declared

\* A reader that goes on has all that was sent, and its limit has not been reached.
ReaderHasAll ==
    /\ reading.pc = "start" =>
         /\ response.sent = 0 /\ reading.kept = 0 /\ reading.drained = 0
         /\ response.ended = "no" /\ reading.result = "none"
    /\ reading.pc = "chunk" =>
         /\ reading.reader # "drained" => reading.kept = response.sent /\ reading.drained = 0
         /\ response.ended = "no" /\ reading.result = "none" /\ reading.reader # "success"
         /\ reading.reader = "truncated" => (reading.cut => DeclaredTooLong) /\ reading.limit > 0
         /\ reading.reader = "limited" => ~DeclaredTooLong /\ reading.limit > 0
         /\ reading.reader = "written" => ~DeclaredTooLong
    /\ reading.pc = "drain" =>
         /\ reading.drained < DrainLimit
         /\ reading.reader \in {"limited", "truncated", "success"}

\* Why a reader stopped, before it drains as well as after.
StopsAreTrue ==
    LET over ==
            reading.limit # Unlimited
            /\ (response.sent > reading.limit \/ response.declared > reading.limit)
    IN reading.pc \in {"drain", "done"} =>
         /\ reading.result = "too large" =>
              over \/ (reading.reader = "limited" /\ reading.limit = 0)
         /\ reading.reader \in {"limited", "written"} /\ reading.result = "body" =>
              /\ reading.pc = "done" /\ reading.kept = response.sent /\ response.ended = "whole"
         /\ reading.reader = "truncated" /\ reading.result = "body" =>
              /\ ~reading.cut =>
                   reading.pc = "done" /\ reading.kept = response.sent /\ response.ended = "whole"
              /\ reading.cut /\ reading.limit > 0 => over /\ reading.kept = reading.limit
         /\ reading.reader = "preview" /\ reading.result = "nothing" =>
              reading.limit = 0 \/ response.sent = 0

HttpBodyInv ==
    /\ HttpBodyFits /\ ReaderHasAll /\ StopsAreTrue
    /\ KeptWithinLimit
    /\ ReadOnlyForMore

=============================================================================
