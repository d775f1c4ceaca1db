--------------------------- MODULE StreamableHttp ---------------------------
(***************************************************************************)
(* The streamable HTTP transport of the JSON-RPC client: two tasks behind  *)
(* an in-memory pipe.  The POST bridge takes the client's lines one at a   *)
(* time, posts each and writes what the server answers into the pipe; the  *)
(* SSE task keeps one GET stream open and writes the server's events into  *)
(* the same pipe.  They share the session id the server last announced,    *)
(* the lock of the pipe's writer and a queue of wake-ups.                  *)
(*                                                                         *)
(* A step ends at an await.  A line goes into the pipe as its text and     *)
(* then its end, under the lock; the select! of the SSE task may drop the  *)
(* pump between the two.  Closing is one step here, its own interleavings  *)
(* are those of JsonRpcClient.  The server is the environment: it answers, *)
(* streams, rolls its session over, asks the client something of its own.  *)
(***************************************************************************)
EXTENDS Integers, Sequences, FiniteSets, Functions

CONSTANTS PostIds,          \* ids of the client's requests
          AskIds,           \* ids of the server's requests: the server's choice
          MaxPostNotes,     \* notifications the client sends
          MaxSession,       \* sessions the server goes through
          MaxPushes,        \* events without an answer, and graceful ends, of the streams
          WaitsForAnswer    \* the server ends no stream while its request is unanswered

ASSUME StreamableAssumption ==
    /\ PostIds \subseteq Nat /\ AskIds \subseteq Nat
    /\ MaxPostNotes \in Nat /\ MaxSession \in Nat \ {0} /\ MaxPushes \in Nat
    /\ WaitsForAnswer \in BOOLEAN

VARIABLES
    outbox,        \* lines the client wrote that the bridge has not read
    postPc, postLine, \* where the POST bridge stands, and the line it serves
    postText,      \* what it is writing into the pipe
    ssePc,         \* where the SSE task stands
    sseText,       \* what it is writing into the pipe
    streamSession, \* the session of the GET in flight or of the open stream
    sessionId,     \* session_id, 0 for None
    wakes,         \* the unbounded channel of SseWakeReason
    pipe,          \* texts and line ends the client's reader has not taken
    pipeOwner,     \* who holds the writer's lock
    fate,          \* what became of each request
    transportClosed,
    \* the server
    serverSession,
    announced,     \* the newest session an answer named
    owed,          \* requests it accepted and will answer on the GET stream
    unasked,       \* the requests of its own it may still send
    unanswered,    \* those it sent and has no answer for
    asked,         \* those the client has read and not answered
    pushes, notes, \* how many of each there were
    lost,          \* requests whose reply a dropped pump or a silent server took along
    torn           \* a dropped pump left a text without its end

httpVars == <<outbox, postPc, postLine, postText, ssePc, sseText, streamSession,
              sessionId, wakes, pipe, pipeOwner, fate, transportClosed, serverSession,
              announced, owed, unasked, unanswered, asked, pushes, notes, lost, torn>>

sessionVars == <<sessionId, wakes, serverSession, announced>>
askVars == <<unasked, unanswered, asked>>
countVars == <<pushes, notes, lost, torn>>
postVars == <<outbox, postPc, postLine, postText>>
sseVars == <<ssePc, sseText, streamSession>>

NoLine == [kind |-> "none", id |-> 0]
LineEnd == [kind |-> "end", id |-> 0]
Line(kind, id) == [kind |-> kind, id |-> id]

\* The first GET was answered by a stream, which named its session or not, or
\* refused with 405; any other answer fails the connect, and there is no client.
HttpInit ==
    /\ outbox = <<>> /\ postPc = "reading" /\ postLine = NoLine /\ postText = NoLine
    /\ ssePc \in {"idle", "pumping"} /\ sseText = NoLine
    /\ streamSession = IF ssePc = "pumping" THEN 1 ELSE 0
    /\ sessionId \in {0, streamSession} /\ announced = sessionId
    /\ wakes = <<>> /\ pipe = <<>> /\ pipeOwner = "nobody"
    /\ fate = [id \in PostIds |-> "unsent"]
    /\ transportClosed = FALSE
    /\ serverSession = 1 /\ owed = {}
    /\ unasked = AskIds /\ unanswered = {} /\ asked = {}
    /\ pushes = 0 /\ notes = 0 /\ lost = {} /\ torn = FALSE

(***************************************************************************)
(* The client.  Its ids and the server's are independent: both sides may   *)
(* count from the same number.                                             *)
(***************************************************************************)
SendRequest(id) ==
    /\ ~transportClosed /\ fate[id] = "unsent"
    /\ fate' = [fate EXCEPT ![id] = "waiting"]
    /\ outbox' = Append(outbox, Line("request", id))
    /\ UNCHANGED <<postPc, postLine, postText, sseVars, sessionVars, pipe, pipeOwner,
                   transportClosed, owed, askVars, countVars>>

SendNote ==
    /\ ~transportClosed /\ notes < MaxPostNotes
    /\ notes' = notes + 1
    /\ outbox' = Append(outbox, Line("note", 0))
    /\ UNCHANGED <<postPc, postLine, postText, sseVars, sessionVars, pipe, pipeOwner, fate,
                   transportClosed, owed, askVars, pushes, lost, torn>>

\* The application answers a request of the server.
SendAnswer(id) ==
    /\ ~transportClosed /\ id \in asked
    /\ asked' = asked \ {id}
    /\ outbox' = Append(outbox, Line("answer", id))
    /\ UNCHANGED <<postPc, postLine, postText, sseVars, sessionVars, pipe, pipeOwner, fate,
                   transportClosed, owed, unasked, unanswered, countVars>>

\* Closing drains the pending requests and aborts both tasks and the reader.
CloseTransport ==
    /\ transportClosed' = TRUE
    /\ fate' = [id \in PostIds |-> IF fate[id] = "waiting" THEN "closed" ELSE fate[id]]
    /\ outbox' = <<>> /\ postPc' = "stopped" /\ postLine' = NoLine /\ postText' = NoLine
    /\ ssePc' = "stopped" /\ sseText' = NoLine /\ streamSession' = 0
    /\ wakes' = <<>> /\ pipe' = <<>> /\ pipeOwner' = "nobody"
    /\ asked' = {} /\ unanswered' = {} /\ unasked' = {} /\ owed' = {}
    /\ UNCHANGED <<sessionId, serverSession, announced, countVars>>

\* What an entry of the pending table is settled with, if it is still there.
SettleRequest(id, how) ==
    fate' = IF id \in PostIds /\ fate[id] = "waiting" THEN [fate EXCEPT ![id] = how] ELSE fate

\* The reader takes one line: one text and its end.  Two texts without an end
\* between them are no JSON, and an invalid line closes the client.
ReadLine ==
    /\ ~transportClosed
    /\ LineEnd \in Range(pipe)
    /\ IF pipe[2] # LineEnd
       THEN CloseTransport
       ELSE /\ pipe' = SubSeq(pipe, 3, Len(pipe))
            /\ CASE pipe[1].kind = "reply" -> SettleRequest(pipe[1].id, "replied")
                 [] pipe[1].kind = "request failed" -> SettleRequest(pipe[1].id, "failed")
                 [] pipe[1].kind = "answer failed" ->
                     SettleRequest(pipe[1].id, "failed by an answer")
                 [] OTHER -> UNCHANGED fate
            /\ asked' = IF pipe[1].kind = "ask" THEN asked \cup {pipe[1].id} ELSE asked
            /\ UNCHANGED <<postVars, sseVars, sessionVars, pipeOwner, transportClosed,
                           owed, unasked, unanswered, countVars>>

(***************************************************************************)
(* The POST bridge: HttpPostBridge::run serves one line to its end before  *)
(* it reads the next.                                                      *)
(***************************************************************************)
PostTake ==
    /\ postPc = "reading" /\ outbox # <<>>
    /\ postLine' = Head(outbox) /\ outbox' = Tail(outbox) /\ postPc' = "sent"
    /\ UNCHANGED <<postText, sseVars, sessionVars, pipe, pipeOwner, fate, transportClosed,
                   owed, askVars, countVars>>

PostGoto(label) ==
    /\ postPc' = label
    /\ UNCHANGED <<outbox, postText, sseVars, pipe, pipeOwner, transportClosed>>

\* What a bug would do: a 202 asks for a stream, whatever session it named.
WakeReasonStatusFirst(status, changed) ==
    IF status = "accepted" THEN <<"connect">>
    ELSE IF changed THEN <<"session changed">> ELSE <<>>

\* The wake-up an answer gives the SSE task: 202 asks for a stream, a new
\* session id overrides that.
WakeReason(status, changed) ==
    IF changed THEN <<"session changed">>
    ELSE IF status = "accepted" THEN <<"connect">> ELSE <<>>

\* What the bridge has to do with an answer's body.
BodyOf(status, body) ==
    CASE status = "error" -> "refused"
      [] status = "accepted" /\ body = "empty" -> "accepted"
      [] OTHER -> body

\* The head of the answer: its session id is stored and the SSE task woken.
PostAnswered(status, body) ==
    /\ postPc = "sent"
    /\ body = "json" => postLine.kind = "request"
    /\ \E announces \in BOOLEAN :
         /\ sessionId' = IF announces THEN serverSession ELSE sessionId
         /\ announced' = IF announces THEN serverSession ELSE announced
         /\ wakes' = wakes \o WakeReason(status, sessionId' # sessionId)
    /\ unanswered' = IF postLine.kind = "answer" /\ status # "error"
                     THEN unanswered \ {postLine.id} ELSE unanswered
    /\ owed' = IF postLine.kind = "request" /\ BodyOf(status, body) = "accepted"
               THEN owed \cup {postLine.id} ELSE owed
    /\ PostGoto(BodyOf(status, body))
    /\ UNCHANGED <<postLine, fate, serverSession, unasked, asked, countVars>>

\* emit_post_bridge_error: an error response under the id of the line, whoever
\* asked under that id; a line without an id closes the client.
BridgeError ==
    IF postLine.kind = "note"
    THEN CloseTransport
    ELSE /\ postPc' = "write"
         /\ postText' = Line(IF postLine.kind = "request" THEN "request failed"
                             ELSE "answer failed", postLine.id)
         /\ UNCHANGED <<outbox, postLine, sseVars, sessionVars, pipe, pipeOwner, fate,
                        transportClosed, owed, askVars, countVars>>

\* The client could not be selected, the request failed, or the status or the
\* body is not one of a reply.
PostFails ==
    /\ postPc \in {"sent", "refused", "json"}
    /\ BridgeError

\* The stream fails, or an event of it is too large or no JSON.
PostStreamFails ==
    /\ postPc \in {"stream", "tail"}
    /\ BridgeError

\* A success without a body: an answer to a note, or an error.
PostEmpty ==
    /\ postPc = "empty"
    /\ IF postLine.kind = "note"
       THEN /\ PostGoto("reading") /\ postLine' = NoLine
            /\ UNCHANGED <<sessionVars, fate, owed, askVars, countVars>>
       ELSE BridgeError

PostAccepted ==
    /\ postPc = "accepted"
    /\ PostGoto("reading") /\ postLine' = NoLine
    /\ UNCHANGED <<sessionVars, fate, owed, askVars, countVars>>

\* emit_wait_timeout: the pending entry under the line's id fails.
PostTimesOut ==
    /\ postPc \in {"sent", "json"}
    /\ IF postLine.kind = "note"
       THEN CloseTransport
       ELSE /\ SettleRequest(postLine.id,
                  IF postLine.kind = "request" THEN "failed" ELSE "failed by an answer")
            /\ PostGoto("reading") /\ postLine' = NoLine
            /\ UNCHANGED <<sessionVars, owed, askVars, countVars>>

PostReply ==
    /\ postPc = "json"
    /\ postPc' = "write" /\ postText' = Line("reply", postLine.id)
    /\ UNCHANGED <<outbox, postLine, sseVars, sessionVars, pipe, pipeOwner, fate,
                   transportClosed, owed, askVars, countVars>>

\* Does the server go on, or wait for the client's answer first?
ServerGoesOn == WaitsForAnswer => unanswered = {}

\* An event of the server on a stream it has open: the text to write.
ServerEvent(text) ==
    \/ /\ text = Line("push", 0) /\ pushes < MaxPushes
       /\ pushes' = pushes + 1
       /\ UNCHANGED <<askVars, notes, lost, torn>>
    \/ /\ \E id \in unasked :
            /\ text = Line("ask", id)
            /\ unasked' = unasked \ {id} /\ unanswered' = unanswered \cup {id}
       /\ UNCHANGED <<asked, countVars>>

StreamTexts == {Line("push", 0)} \cup {Line("ask", id) : id \in AskIds}

\* sse_pump_to_writer on the body of a POST.
PostStreams ==
    /\ postPc = "stream"
    /\ postPc' = "stream write"
    /\ \/ \E text \in StreamTexts : postText' = text /\ ServerEvent(text)
       \/ /\ postLine.kind = "request" /\ ServerGoesOn
          /\ postText' = Line("reply", postLine.id)
          /\ UNCHANGED <<askVars, countVars>>
    /\ UNCHANGED <<outbox, postLine, sseVars, sessionVars, pipe, pipeOwner, fate,
                   transportClosed, owed>>

\* The body ends, or [DONE] does: nothing is reported, with a reply or without.
PostStreamEnds ==
    /\ \/ postPc = "tail" /\ UNCHANGED countVars
       \/ /\ postPc = "stream" /\ ServerGoesOn
          /\ lost' = IF postLine.kind = "request" THEN lost \cup {postLine.id} ELSE lost
          /\ UNCHANGED <<pushes, notes, torn>>
    /\ PostGoto("reading") /\ postLine' = NoLine
    /\ UNCHANGED <<sessionVars, fate, owed, askVars>>

\* What a bug would do: write without waiting for the lock.
PostWritesTextUnlocked ==
    /\ postPc \in {"write", "stream write"} /\ pipeOwner # "post"
    /\ pipeOwner' = "post" /\ pipe' = Append(pipe, postText)
    /\ UNCHANGED <<postVars, sseVars, sessionVars, fate, transportClosed, owed, askVars, countVars>>

\* write_json_line: the text, then its end, under the writer's lock.
PostWritesText ==
    /\ postPc \in {"write", "stream write"} /\ pipeOwner = "nobody"
    /\ pipeOwner' = "post" /\ pipe' = Append(pipe, postText)
    /\ UNCHANGED <<postVars, sseVars, sessionVars, fate, transportClosed, owed, askVars, countVars>>

PostWritesEnd ==
    /\ pipeOwner = "post"
    /\ pipe' = Append(pipe, LineEnd) /\ pipeOwner' = "nobody" /\ postText' = NoLine
    /\ IF postPc = "stream write"
       THEN /\ postPc' = IF postText.kind = "reply" THEN "tail" ELSE "stream"
            /\ UNCHANGED postLine
       ELSE postPc' = "reading" /\ postLine' = NoLine
    /\ UNCHANGED <<outbox, sseVars, sessionVars, fate, transportClosed, owed, askVars, countVars>>

(***************************************************************************)
(* The SSE task.                                                           *)
(***************************************************************************)
\* A GET goes out under the session id of this moment.
Connect ==
    /\ ssePc' = "connecting" /\ sseText' = NoLine
    /\ streamSession' = sessionId

\* Without a stream the task sleeps until any wake-up.
SseWakes ==
    /\ ssePc = "idle" /\ wakes # <<>>
    /\ wakes' = Tail(wakes)
    /\ Connect
    /\ UNCHANGED <<postVars, sessionId, serverSession, announced, pipe, pipeOwner, fate,
                   transportClosed, owed, askVars, countVars>>

\* The answer of the GET names a session: it replaces the shared one, whatever
\* a POST has put there since the GET went out, and wakes nobody.
Names(named) ==
    /\ sessionId' = named
    /\ announced' = IF named > announced THEN named ELSE announced

\* The GET is answered by a stream of the session it was sent under, named or
\* not, or of the server's current session: without a session in the request
\* the server takes that one, and with an older one it names it.
GetStreams ==
    /\ ssePc = "connecting"
    /\ ssePc' = "pumping"
    /\ \/ /\ streamSession' = IF streamSession = 0 THEN serverSession ELSE streamSession
          /\ Names(streamSession') \/ UNCHANGED <<sessionId, announced>>
       \/ streamSession' = serverSession /\ Names(serverSession)
    /\ UNCHANGED <<postVars, sseText, wakes, serverSession, pipe, pipeOwner, fate,
                   transportClosed, owed, askVars, countVars>>

\* 405: no stream now.
GetRefused ==
    /\ ssePc = "connecting"
    /\ ssePc' = "idle" /\ streamSession' = 0
    /\ UNCHANGED <<postVars, sseText, sessionVars, pipe, pipeOwner, fate, transportClosed,
                   owed, askVars, countVars>>

\* A GET or a stream that fails closes the client.
SseFails ==
    /\ ssePc \in {"connecting", "pumping"}
    /\ CloseTransport

SseStreams ==
    /\ ssePc = "pumping"
    /\ ssePc' = "writing"
    /\ \/ \E text \in StreamTexts : sseText' = text /\ ServerEvent(text) /\ UNCHANGED owed
       \/ /\ ServerGoesOn
          /\ \E id \in owed : sseText' = Line("reply", id) /\ owed' = owed \ {id}
          /\ UNCHANGED <<askVars, countVars>>
    /\ UNCHANGED <<postVars, streamSession, sessionVars, pipe, pipeOwner, fate, transportClosed>>

SseWritesText ==
    /\ ssePc = "writing" /\ pipeOwner = "nobody"
    /\ pipeOwner' = "sse" /\ pipe' = Append(pipe, sseText)
    /\ UNCHANGED <<postVars, sseVars, sessionVars, fate, transportClosed, owed, askVars, countVars>>

SseWritesEnd ==
    /\ pipeOwner = "sse"
    /\ pipe' = Append(pipe, LineEnd) /\ pipeOwner' = "nobody"
    /\ ssePc' = "pumping" /\ sseText' = NoLine
    /\ UNCHANGED <<postVars, streamSession, sessionVars, fate, transportClosed, owed, askVars,
                   countVars>>

\* The stream ends: the task sleeps for the backoff before it connects again.
SseEof ==
    /\ ssePc = "pumping" /\ pushes < MaxPushes
    /\ pushes' = pushes + 1
    /\ ssePc' = "backoff"
    /\ UNCHANGED <<postVars, sseText, streamSession, sessionVars, pipe, pipeOwner, fate,
                   transportClosed, owed, askVars, notes, lost, torn>>

BackoffEnds ==
    /\ ssePc = "backoff"
    /\ Connect
    /\ UNCHANGED <<postVars, sessionVars, pipe, pipeOwner, fate, transportClosed, owed, askVars,
                   countVars>>

\* Which wake-ups make a task that has a stream, or is in its backoff, connect anew?
Reconnects(reason) == reason = "session changed"

\* A wake-up while there is a stream.  A new session drops the pump, wherever
\* its write stands, and its lock with it.
SseTakesWake ==
    /\ ssePc \in {"pumping", "writing", "backoff"} /\ wakes # <<>>
    /\ wakes' = Tail(wakes)
    /\ IF Reconnects(Head(wakes))
       THEN /\ Connect
            /\ pipeOwner' = IF pipeOwner = "sse" THEN "nobody" ELSE pipeOwner
            /\ torn' = (torn \/ pipeOwner = "sse")
            /\ lost' = IF sseText.kind = "reply" THEN lost \cup {sseText.id} ELSE lost
            /\ UNCHANGED <<pushes, notes>>
       ELSE UNCHANGED <<sseVars, pipeOwner, countVars>>
    /\ UNCHANGED <<postVars, sessionId, serverSession, announced, pipe, fate, transportClosed,
                   owed, askVars>>

\* The server rolls its session over.
ServerRolls ==
    /\ ~transportClosed /\ serverSession < MaxSession
    /\ serverSession' = serverSession + 1
    /\ UNCHANGED <<postVars, sseVars, sessionId, wakes, announced, pipe, pipeOwner, fate,
                   transportClosed, owed, askVars, countVars>>

(***************************************************************************)
PostWorks == PostTake \/ PostEmpty \/ PostAccepted \/ PostReply \/ PostWritesText \/ PostWritesEnd

PostIsAnswered ==
    \/ /\ postPc = "sent"
       /\ \E status \in {"ok", "accepted", "error"}, body \in {"json", "stream", "empty", "refused"} :
            PostAnswered(status, body)
    \/ PostTimesOut
    \/ PostFails

SseWorks == SseWakes \/ BackoffEnds \/ SseTakesWake \/ SseWritesText \/ SseWritesEnd

GetIsAnswered == GetStreams \/ GetRefused

ServerStreams == PostStreams \/ PostStreamEnds

HttpNext ==
    \/ \E id \in PostIds : SendRequest(id)
    \/ SendNote
    \/ \E id \in AskIds : SendAnswer(id)
    \/ ReadLine
    \/ PostWorks \/ PostIsAnswered \/ ServerStreams \/ PostStreamFails
    \/ SseWorks \/ GetIsAnswered \/ SseStreams \/ SseEof \/ SseFails
    \/ ServerRolls

HttpSpec == HttpInit /\ [][HttpNext]_httpVars

\* The runtime polls both tasks and the reader; request_timeout bounds the wait
\* for an answer; the server ends the streams it has begun, unless it waits.
HttpFairness ==
    /\ WF_httpVars(PostWorks) /\ WF_httpVars(PostIsAnswered)
    /\ WF_httpVars(SseWorks) /\ WF_httpVars(ReadLine)
    /\ WF_httpVars(ServerStreams)

FairHttpSpec == HttpSpec /\ HttpFairness

-----------------------------------------------------------------------------
Texts ==
    {NoLine, Line("push", 0)}
    \cup [kind : {"reply", "request failed"}, id : PostIds]
    \cup [kind : {"ask", "answer failed"}, id : AskIds]
OutLines ==
    {Line("note", 0)}
    \cup [kind : {"request"}, id : PostIds] \cup [kind : {"answer"}, id : AskIds]

HttpTypeOK ==
    /\ outbox \in Seq(OutLines) /\ postLine \in OutLines \cup {NoLine}
    /\ postPc \in {"reading", "sent", "json", "stream", "tail", "empty", "refused", "accepted",
                   "write", "stream write", "stopped"}
    /\ ssePc \in {"idle", "connecting", "pumping", "writing", "backoff", "stopped"}
    /\ postText \in Texts /\ sseText \in Texts
    /\ streamSession \in 0..MaxSession /\ sessionId \in 0..MaxSession
    /\ wakes \in Seq({"connect", "session changed"})
    /\ pipe \in Seq(Texts \cup {LineEnd}) /\ pipeOwner \in {"nobody", "post", "sse"}
    /\ fate \in [PostIds -> {"unsent", "waiting", "replied", "failed", "failed by an answer",
                             "closed"}]
    /\ transportClosed \in BOOLEAN /\ torn \in BOOLEAN
    /\ serverSession \in 1..MaxSession /\ announced \in 0..MaxSession
    /\ owed \subseteq PostIds /\ lost \subseteq PostIds
    /\ unasked \subseteq AskIds /\ unanswered \subseteq AskIds /\ asked \subseteq AskIds
    /\ pushes \in 0..MaxPushes /\ notes \in 0..MaxPostNotes

\* Every line in the pipe is one text of one of the two tasks.
LinesAreWhole ==
    \A n \in DOMAIN pipe : pipe[n] # LineEnd =>
        IF n = Len(pipe) THEN pipeOwner # "nobody" ELSE pipe[n + 1] = LineEnd

\* The two tasks never write into each other's lines; what breaks a line is
\* only a pump dropped for a new session.
LinesDoNotMix == torn \/ LinesAreWhole

InPipe(id) == \E n \in DOMAIN pipe : pipe[n].kind \in {"reply", "request failed"} /\ pipe[n].id = id

\* A waiting request is never forgotten: it has still to be posted, is being
\* served, its reply is on the way or the server accepted it and owes one,
\* unless the server ended the stream of its reply without it, or the stream
\* that carried it was dropped.
RequestIsSomewhere ==
    \A id \in PostIds : fate[id] = "waiting" =>
        \/ Line("request", id) \in Range(outbox) \cup {postLine}
        \/ InPipe(id) \/ sseText = Line("reply", id)
        \/ id \in owed \/ id \in lost

\* What goes over the transport keeps its form and is not forgotten.
MessagesAreKept == LinesDoNotMix /\ RequestIsSomewhere

\* Once no new session is left to handle, an open stream belongs to the session
\* the client posts under.
StreamFollowsSession ==
    (sessionId # 0 /\ ssePc \in {"pumping", "writing"} /\ "session changed" \notin Range(wakes))
    => streamSession = sessionId

\* "After a session rollover the active SSE reliably switches to the new session"
\* (CHANGELOG.md of mcp-jsonrpc): once no new session is left to handle, an open
\* stream belongs to the newest session the server has named.
NewestSessionIsFollowed ==
    (announced # 0 /\ ssePc \in {"pumping", "writing"} /\ "session changed" \notin Range(wakes))
    => streamSession = announced

\* A request fails for its own POST only.
FailsByItsOwnPost == \A id \in PostIds : fate[id] # "failed by an answer"

\* The answer to a request of the server goes out.
AnswerWaits(id) == Line("answer", id) \in Range(outbox)

AnswersArePosted == \A id \in AskIds : AnswerWaits(id) ~> ~AnswerWaits(id)

-----------------------------------------------------------------------------
(***************************************************************************)
(* The inductive invariant of the transport.                               *)
(***************************************************************************)

\* In the pipe every line end has a text before it.
EndsFollowTexts ==
    \A n \in DOMAIN pipe : pipe[n] = LineEnd => n > 1 /\ pipe[n - 1] # LineEnd

\* Who has the lock is writing, and has written its text last.
WritersHaveTheirText ==
    /\ pipeOwner = "post" =>
          postPc \in {"write", "stream write"} /\ pipe # <<>> /\ pipe[Len(pipe)] = postText
    /\ pipeOwner = "sse" => ssePc = "writing" /\ pipe # <<>> /\ pipe[Len(pipe)] = sseText

\* What a task writes is about the line it serves.
TextsAnswerLines ==
    /\ postPc \in {"reading", "stopped"} <=> postLine = NoLine
    /\ postPc = "json" => postLine.kind = "request"
    /\ postPc = "write" /\ postLine.kind = "request" =>
          postText \in {Line("reply", postLine.id), Line("request failed", postLine.id)}
    /\ postPc = "stream write" /\ postText.kind = "reply" => postText.id = postLine.id
    /\ ssePc # "writing" => sseText = NoLine

\* A waiting request is with the bridge until it is accepted or replied to, and has left
\* a trace then.
WithTheBridge(id) ==
    \/ \E n \in DOMAIN outbox : outbox[n] = Line("request", id)
    \/ postLine = Line("request", id) /\ postPc \notin {"accepted", "tail"}

Traced(id) == InPipe(id) \/ sseText = Line("reply", id) \/ id \in owed \/ id \in lost

RequestsAreTraced == \A id \in PostIds : fate[id] = "waiting" => WithTheBridge(id) \/ Traced(id)

\* A GET that went out, or a stream that is open, under another session than the
\* shared one has the news of it to come.
SessionsAgree ==
    sessionId # 0 /\ ssePc \in {"connecting", "pumping", "writing"}
        /\ (\A n \in DOMAIN wakes : wakes[n] # "session changed")
    => streamSession = sessionId

HttpInv ==
    /\ HttpTypeOK
    /\ EndsFollowTexts /\ WritersHaveTheirText /\ LinesDoNotMix
    /\ TextsAnswerLines /\ RequestsAreTraced
    /\ SessionsAgree
=============================================================================
