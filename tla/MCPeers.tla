------------------------------- MODULE MCPeers -------------------------------
(******************************************************************************)
(* What talks to a server, reads from it or sends to it.  The parts share     *)
(* nothing: a behaviour runs the one `part` chosen at the start, and the      *)
(* others rest.                                                               *)
(*   client: two requests, one with a timeout, over a map with room for one;  *)
(*   http: one request of each side and a notification, over two sessions;    *)
(*   sse: streams of five bytes, cut anywhere;                                *)
(*   log: eight bytes over segments of two, two of which are kept;            *)
(*   gate: managers of six kinds of trust connect to servers of any kind,     *)
(*     while the environment may change once;                                 *)
(*   body: bodies of up to eight bytes, read in the six ways;                 *)
(*   github: a release asked for at up to three bases;                        *)
(*   notices: texts, markdown, posts, edits, paths and image roots;           *)
(*   sinks: each sink delivers a notice;                                      *)
(*   inbox: three envelopes for the webhook of WeCom, and a full cache;       *)
(*   action: a job of GitHub that is started for a comment;                   *)
(*   pushed: three posts to each of the bots that are pushed theirs, and one  *)
(*     restart.                                                               *)
(******************************************************************************)
EXTENDS JsonRpcClient, StreamableHttp, SseReader, StdoutLog, TrustGate, HttpBody, GithubFetch,
        NotifyRules, SinkSend, WecomInbox, ActionRun, PushedBots, TLC

VARIABLE part

MCKindOfHost == "api.example" :> "name" @@ "localhost" :> "loopback name" @@ "printer.local" :> "local name"
                @@ "10.0.0.1" :> "literal" @@ "127.0.0.1" :> "literal"
MCLiteralOf == "10.0.0.1" :> "private" @@ "127.0.0.1" :> "loopback"
MCUnder == [h \in Hosts |-> IF h = "api.example" THEN {h} ELSE {}]
MCManagers ==
    LET manager(trusted, https, policy, logOutside) ==
            [trusted |-> trusted, https |-> https, policy |-> policy, logOutside |-> logOutside]
    IN {manager(TRUE, TRUE, DefaultPolicy, FALSE), manager(TRUE, TRUE, DefaultPolicy, TRUE),
        manager(FALSE, TRUE, DefaultPolicy, FALSE),
        manager(FALSE, FALSE, Policy(TRUE, FALSE, TRUE, FALSE, {}), FALSE),
        manager(FALSE, TRUE, Policy(FALSE, TRUE, TRUE, TRUE, {}), FALSE),
        manager(FALSE, TRUE, Policy(FALSE, FALSE, FALSE, FALSE, {"api.example"}), FALSE)}
Http(sse, post, headers, value, bearer, envHeader) ==
    [transport |-> "http", sse |-> sse, post |-> post, headers |-> headers, value |-> value,
     bearer |-> bearer, envHeader |-> envHeader]
Plain(host) == Http(Url("https", host), Url("https", host), {}, "text", "none", "none")
MCServers ==
    {[transport |-> "stdio", argv |-> argv, env |-> "var", log |-> log] :
        argv \in {"text", "var"}, log \in {"none", "outside"}}
    \cup {[transport |-> "unix"]}
    \cup {Plain(h) : h \in Hosts}
    \cup {[Plain("api.example") EXCEPT !.post = Url("https", h)] : h \in Hosts}
    \cup {[Plain("api.example") EXCEPT !.sse.scheme = "http"],
          [Plain("api.example") EXCEPT !.sse.credentials = TRUE],
          [Plain("api.example") EXCEPT !.sse.path = "var", !.post.path = "var"],
          [Plain("api.example") EXCEPT !.headers = {"plain"}, !.value = "var"],
          [Plain("api.example") EXCEPT !.headers = {"sensitive"}],
          [Plain("api.example") EXCEPT !.headers = {"reserved"}],
          [Plain("api.example") EXCEPT !.bearer = "var"],
          [Plain("api.example") EXCEPT !.envHeader = "var"],
          [Plain("api.example") EXCEPT !.envHeader = "reserved"]}

ABase(kind, url, query) == [kind |-> kind, url |-> url, query |-> query]
Https(host) == ABase("url", Url("https", host), FALSE)
MCBaseLists ==
    LET blank == ABase("blank", Url("https", "none"), FALSE)
        unparsable == ABase("unparsable", Url("https", "none"), FALSE)
        insecure == ABase("url", Url("http", "api.example"), FALSE)
        withCredentials == [Https("api.example") EXCEPT !.url.credentials = TRUE]
        withQuery == [Https("api.example") EXCEPT !.query = TRUE]
    IN {<<>>, <<blank>>, <<blank, Https("api.example"), Https("localhost")>>,
        <<unparsable, Https("10.0.0.1"), Https("api.example")>>,
        <<insecure, Https("api.example")>>, <<withCredentials, withQuery>>}
MCFetches ==
    {[bases |-> bases, token |-> token, profile |-> profile, repository |-> repository,
      headers |-> headers, follows |-> follows] :
       bases \in MCBaseLists, token \in BOOLEAN, profile \in BOOLEAN, repository \in BOOLEAN,
       headers \in BOOLEAN, follows \in BOOLEAN}

MCClipLimits == [title |-> 5, body |-> 6, tags |-> 2, key |-> 4, value |-> 5]
MCTextQuestions ==
    LET tagLists == {<<>>} \cup {<<[key |-> Chars(k, "k"), value |-> Chars(v, "v")]>> : k \in {1, 5}, v \in {0, 1, 6}}
                    \cup {[i \in 1..3 |-> [key |-> Chars(1, "k"), value |-> Chars(1, "v")]]}
    IN [of : {"text"}, withTitle : BOOLEAN, max : 0..14,
        event : [title : {Chars(n, "t") : n \in {0, 1, 4, 5, 6}},
                 body : {Chars(n, "b") : n \in {0, 1, 5, 7}}, tags : tagLists]]
Balanced(events, start, end) ==
    \A n \in DOMAIN events :
        LET before(e) == Cardinality({i \in 1..n : events[i] = e})
        IN before(end) <= before(start) /\ (n = Len(events) => before(end) = before(start))
MCMarkdownQuestions ==
    {[of |-> "markdown", events |-> events] :
        events \in {e \in UNION {[1..n -> {"a", "b", "link", "/link", "image", "/image", "code", "/code", "break", "/block"}] : n \in 0..4} :
                       Balanced(e, "link", "/link") /\ Balanced(e, "image", "/image") /\ Balanced(e, "code", "/code")}}
MCPostQuestions ==
    LET entries == {Said(Chars(2, "t")), [is |-> "link", text |-> Chars(3, "l")],
                    [is |-> "image", text |-> <<"x">>], [is |-> "image", text |-> <<"y">>]}
        lines == UNION {[1..n -> entries] : n \in 1..2}
    IN [of : {"post"}, lines : {<<l>> : l \in lines} \cup {<<k, l>> : k \in lines, l \in lines},
        tags : {<<>>, <<<<Said(Chars(3, "g"))>>>>}, max : 0..9, keys : {{}, {<<"x">>}, {<<"x">>, <<"y">>}}]
MCEdits == [do : {"plain"}, text : {<<"p">>, <<"q">>}] \cup [do : {"catalog", "clear"}, text : {<<>>}]
MCEditQuestions == [of : {"edits"}, edits : UNION {[1..n -> MCEdits] : n \in 0..4}]
MCPathQuestions ==
    LET paths == UNION {[1..n -> {"/", "a"}] : n \in 1..4}
    IN [of : {"path"}, path : paths, prefix : paths \cup {<<>>}]
MCEnvQuestions ==
    [of : {"env"}, env : [sound : {"unset", "yes", "no", "bad"}, soundDefault : BOOLEAN, required : BOOLEAN,
                          webhooks : SUBSET {"webhook", "feishu"} \cup {{"bad"}}, events : {{}, {"done"}},
                          sink : {0, -1, 6000, Malformed}, legacy : {0, 1, 9000, Malformed},
                          hub : {0, 1, 5000, 6001, Malformed}]]
MCImageQuestions ==
    [of : {"image"}, absolute : BOOLEAN, base : {<<"r">>, <<"r", "s">>, <<"o">>},
     roots : {<<>>, <<<<"r">>>>, <<<<"r", "s">>, <<"r">>>>, <<<<"o">>, <<"r">>>>},
     path : UNION {[1..n -> {"r", "s", "x", ".."}] : n \in 1..4},
     symlinks : {{}, {<<"r", "s">>}, {<<"r", "x">>}, {<<"r">>}}]
MCNoticeQuestions ==
    MCImageQuestions \cup
    MCTextQuestions \cup MCMarkdownQuestions \cup MCPostQuestions \cup MCEditQuestions \cup MCPathQuestions \cup MCEnvQuestions

MCDelivery(sink, url) ==
    [sink |-> sink, url |-> url, fault |-> "none", enforce |-> TRUE,
     scope |-> [strict |-> FALSE, hosts |-> {}, prefix |-> FALSE],
     rich |-> FALSE, images |-> <<>>, credentials |-> FALSE, remote |-> FALSE, local |-> FALSE]
MCSinks == {"webhook", "github", "sound", "feishu", "slack", "discord", "telegram", "wecom",
            "dingtalk", "pushplus", "bark", "serverchan"}
MCImages ==
    LET remote(host) == [remote |-> TRUE, host |-> host, inside |-> FALSE]
        local(within) == [remote |-> FALSE, host |-> "none", inside |-> within]
    IN {<<remote("api.example"), remote("api.example")>>, <<remote("10.0.0.1"), local(TRUE)>>,
        <<local(FALSE), remote("localhost")>>}
MCDeliveries ==
    LET ok(sink) == MCDelivery(sink, Url("https", "api.example"))
    IN {ok(sink) : sink \in MCSinks}
       \cup {[ok(sink) EXCEPT !.fault = f] : sink \in MCSinks, f \in {"path", "key", "name"}}
       \cup {[ok(sink) EXCEPT !.enforce = FALSE] : sink \in MCSinks}
       \cup {MCDelivery(sink, Url("https", h)) : sink \in {"webhook", "github", "slack"}, h \in Hosts}
       \cup {MCDelivery(sink, Url("http", "api.example")) : sink \in {"webhook", "github", "slack"}}
       \cup {[ok("webhook") EXCEPT !.scope = [strict |-> strict, hosts |-> hosts, prefix |-> prefix], !.enforce = enforce] :
               strict \in BOOLEAN, hosts \in {{}, {"api.example"}, {""}, {"api.example", ""}, {"localhost"}},
               prefix \in BOOLEAN, enforce \in BOOLEAN}
       \cup {[ok("feishu") EXCEPT !.rich = TRUE, !.images = images, !.credentials = credentials, !.remote = remote,
                                  !.local = local, !.enforce = enforce, !.scope.strict = strict] :
               images \in MCImages, credentials \in BOOLEAN, remote \in BOOLEAN, local \in BOOLEAN,
               enforce \in BOOLEAN, strict \in BOOLEAN}

MCJob == [event |-> "issue_comment", number |-> TRUE, comment |-> TRUE, bot |-> FALSE, command |-> TRUE,
          request |-> 1, parts |-> <<1>>, hunk |-> 0, reply |-> 1]
MCJobs ==
    {[MCJob EXCEPT !.event = e, !.parts = lengths, !.hunk = h, !.reply = r] :
       e \in {"issue_comment", "pull_request_review_comment"}, lengths \in {<<1>>, <<9, 2>>, <<9, 9, 9>>},
       h \in {0, 9}, r \in {1, 8, 20}}
    \cup {[MCJob EXCEPT !.event = e, !.number = n, !.bot = b, !.command = c, !.request = request] :
            e \in {"issue_comment", "pull_request_review_comment", "push"}, n \in BOOLEAN, b \in BOOLEAN,
            c \in BOOLEAN, request \in 0..1}

MCBots == {[platform |-> name, scope |-> "user", replyTo |-> "user"] :
             name \in {"slack", "discord", "feishu", "dingtalk"}}
          \cup {[platform |-> "wecom", scope |-> "user", replyTo |-> "chat"],
                [platform |-> "wecom", scope |-> "chat", replyTo |-> "user"]}
MCPushed(user, place, side, sort, text) ==
    [user |-> user, place |-> place, side |-> side, sort |-> sort, text |-> text]
MCPostsOf(platform) ==
    LET ann(place, side, sort, text) == MCPushed("ann", place, side, sort, text)
    IN CASE platform = "slack" ->
              {ann("room", "red", "plain", "ask"), ann("room", "blue", "plain", "blank"),
               ann("room", "red", "plain", "test")}
         [] platform = "feishu" ->
              {ann("room", "red", "plain", "ask"), ann("room", None, "plain", "ask"),
               ann("room", "red", "other", "ask")}
         [] platform = "discord" ->
              {ann("room", None, "plain", "ask"), ann("hall", None, "plain", "ask"), ann("room", None, "plain", "blank")}
         [] platform = "dingtalk" ->
              {ann("room", None, "plain", "ask"), ann("hall", None, "plain", "test")}
         [] OTHER ->
              {ann("room", None, "plain", "ask"), ann(None, None, "plain", "ask"),
               MCPushed("bob", "room", None, "plain", "ask")}

On(name) == part = name

peersVars ==
    <<part, vars, httpVars, readerVars, logVars, gateVars, bodyVars, fetch, noticeVars, delivery,
      inboxVars, actionVars, pushedVars>>

\* What a part that does not run has in its variables.
Rest == 0
SseRests ==
    /\ bodyBytes = Rest /\ consumed = Rest /\ lineBytes = Rest /\ dataBuffer = Rest
    /\ dataFields = Rest /\ sseEvents = Rest /\ sseEnd = Rest
LogRests ==
    /\ logPc = Rest /\ base = Rest /\ segments = Rest /\ currentLen = Rest
    /\ nextPart = Rest /\ candidate = Rest /\ toLog = Rest /\ bytes = Rest
    /\ misnumbered = Rest
InboxRests ==
    /\ now = Rest /\ mail = Rest /\ remembered = Rest /\ cleanedAt = Rest /\ letIn = Rest
    /\ early = Rest /\ tried = Rest /\ crowded = Rest
ActionRests ==
    /\ job = Rest /\ at = Rest /\ context = Rest /\ link = Rest /\ comments = Rest
PushedRest ==
    /\ bot = Rest /\ posts = Rest /\ stage = Rest /\ behind = Rest /\ newest = Rest
    /\ waitingFor = Rest /\ kept = Rest /\ routes = Rest /\ talk = Rest /\ told = Rest
    /\ missed = Rest /\ reboots = Rest

\* One part starts in any of its initial states, the others rest.
PeersInit ==
    /\ part \in {"client", "http", "sse", "log", "gate", "body", "github", "notices", "sinks", "inbox",
                "action", "pushed"}
    /\ ClientInit
    /\ HttpInit /\ (On("http") \/ ssePc = "idle")
    /\ IF On("sse") THEN SseReaderInit ELSE SseRests
    /\ IF On("log") THEN LogInit ELSE LogRests
    /\ IF On("gate") THEN TrustGateInit ELSE environ = Rest /\ envEdits = Rest /\ gating = Rest
    /\ IF On("body") THEN HttpBodyInit ELSE response = Rest /\ reading = Rest
    /\ IF On("github") THEN GithubFetchInit ELSE fetch = Rest
    /\ IF On("notices") THEN NoticeInit ELSE noticeQuestion = Rest /\ notice = Rest
    /\ IF On("sinks") THEN SinkSendInit ELSE delivery = Rest
    /\ IF On("inbox") THEN WecomInboxInit ELSE InboxRests
    /\ IF On("action") THEN ActionRunInit ELSE ActionRests
    /\ IF On("pushed") THEN PushedBotsInit ELSE PushedRest

\* A step of one part, the others at rest.
PeersNext ==
    \/ /\ On("client")
       /\ UNCHANGED <<part, httpVars, readerVars, logVars, gateVars, bodyVars, fetch, noticeVars,
                       delivery, inboxVars, actionVars, pushedVars>>
       /\ ClientNext
    \/ /\ On("http")
       /\ UNCHANGED <<part, vars, readerVars, logVars, gateVars, bodyVars, fetch, noticeVars,
                       delivery, inboxVars, actionVars, pushedVars>>
       /\ HttpNext
    \/ /\ On("sse")
       /\ UNCHANGED <<part, vars, httpVars, logVars, gateVars, bodyVars, fetch, noticeVars,
                       delivery, inboxVars, actionVars, pushedVars>>
       /\ SseReaderNext
    \/ /\ On("log")
       /\ UNCHANGED <<part, vars, httpVars, readerVars, gateVars, bodyVars, fetch, noticeVars,
                       delivery, inboxVars, actionVars, pushedVars>>
       /\ LogNext
    \/ /\ On("gate")
       /\ UNCHANGED <<part, vars, httpVars, readerVars, logVars, bodyVars, fetch, noticeVars,
                       delivery, inboxVars, actionVars, pushedVars>>
       /\ TrustGateNext
    \/ /\ On("body")
       /\ UNCHANGED <<part, vars, httpVars, readerVars, logVars, gateVars, fetch, noticeVars,
                       delivery, inboxVars, actionVars, pushedVars>>
       /\ HttpBodyNext
    \/ /\ On("github")
       /\ UNCHANGED <<part, vars, httpVars, readerVars, logVars, gateVars, bodyVars, noticeVars,
                       delivery, inboxVars, actionVars, pushedVars>>
       /\ GithubFetchNext
    \/ /\ On("notices")
       /\ UNCHANGED <<part, vars, httpVars, readerVars, logVars, gateVars, bodyVars, fetch,
                       delivery, inboxVars, actionVars, pushedVars>>
       /\ NoticeNext
    \/ /\ On("sinks")
       /\ UNCHANGED <<part, vars, httpVars, readerVars, logVars, gateVars, bodyVars, fetch,
                       noticeVars, inboxVars, actionVars, pushedVars>>
       /\ SinkSendNext
    \/ /\ On("inbox")
       /\ UNCHANGED <<part, vars, httpVars, readerVars, logVars, gateVars, bodyVars, fetch,
                       noticeVars, delivery, actionVars, pushedVars>>
       /\ WecomInboxNext
    \/ /\ On("action")
       /\ UNCHANGED <<part, vars, httpVars, readerVars, logVars, gateVars, bodyVars, fetch,
                       noticeVars, delivery, inboxVars, pushedVars>>
       /\ ActionRunNext
    \/ /\ On("pushed")
       /\ UNCHANGED <<part, vars, httpVars, readerVars, logVars, gateVars, bodyVars, fetch,
                       noticeVars, delivery, inboxVars, actionVars>>
       /\ PushedBotsNext

PeersSpec == PeersInit /\ [][PeersNext]_peersVars

\* The HTTP client sends a notification or the stream has an event of its own, not both: a
\* state with both is checked, and nothing is explored behind it.
NoteOrPush == notes + pushes <= 1

\* Types, each looked at while its part runs.
PeersTypeOK ==
    /\ On("sse") => SseReaderTypeOK
    /\ On("log") => LogTypeOK
    /\ On("gate") => TrustGateTypeOK
    /\ On("body") => HttpBodyTypeOK
    /\ On("github") => GithubFetchTypeOK
    /\ On("sinks") => SinkSendTypeOK
    /\ On("inbox") => WecomInboxTypeOK
    /\ On("action") => ActionRunTypeOK
    /\ On("pushed") => PushedBotsTypeOK

\* What comes is taken whole and once: the bytes of a log, the envelopes of a webhook, and the
\* comment that asks the action, which is answered once.
InputIsTakenOnce ==
    /\ On("log") => NewestBytesKept
    /\ On("inbox") => EnvelopesAreTakenOnce
    /\ On("action") => ActionAnswersOnce

\* Nothing is sent to a host, and no token with it, that a manager's policy, the caller's trust or
\* the scope of a sink does not cover; no more of a body is kept than was asked for; and a message
\* is called sent when it was taken.
OutboundIsKept ==
    /\ On("gate") => GateIsKept
    /\ On("github") => ReleasesAreFetched
    /\ On("body") => BodiesAreBounded
    /\ On("sinks") => DeliveriesAreTrue

\* What is made of a text says what its source said: the events of the bytes of a stream, and what
\* a sink sends of the event.
TextsSayTheirSource ==
    /\ On("sse") => EventsAreTheStreams
    /\ On("notices") => NoticesSayTheEvent

\* The bots that are pushed their messages answer each where it was asked.
PushedChatsAnswered == On("pushed") => PushedChatsAreServed
===============================================================================
