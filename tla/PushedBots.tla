------------------------------- MODULE PushedBots -------------------------------
(*****************************************************************************)
(* The chat bots of notify-kit that are pushed their messages: Slack,        *)
(* Discord, Feishu, WeCom and DingTalk.  BotSessions has the limiter and the *)
(* evictions of the store in full; here are the things the bots do in their  *)
(* own ways: which messages they take, what they call a conversation, where  *)
(* an answer and the report of a tool go, what a restart loads, and which    *)
(* sends may fail under the handler.                                         *)
(*                                                                           *)
(* A post is [user, place, side, sort, text]: the place is a channel, a chat *)
(* or a webhook, the side a thread or a tenant.  JavaScript runs one         *)
(* callback at a time: an action is what happens between two awaits.         *)
(*****************************************************************************)
EXTENDS Naturals, Sequences, FiniteSets

CONSTANTS Bots,         \* [platform, scope, replyTo]; the last two are WeCom's
          PostsOf(_),   \* the posts a platform may push
          None,         \* no chat, no tenant, no user
          MaxPosts,     \* bound on the posts
          PendingLimit, \* sessionPendingLimit
          MaxReboots    \* bound on the restarts

ASSUME PushedBotsAssumption ==
    /\ PendingLimit \in Nat \ {0} /\ MaxPosts \in Nat /\ MaxReboots \in Nat
    /\ \A b \in Bots : /\ b.platform \in {"slack", "discord", "feishu", "wecom", "dingtalk"}
                       /\ {b.scope, b.replyTo} \subseteq {"user", "chat"}
    /\ \A p \in PostsOf("feishu") : p.side # "default"

VARIABLES
    bot,
    posts,       \* the posts so far, in order
    stage,       \* of each post, where its handler is
    behind,      \* the post whose promise it is chained to, or 0
    newest,      \* messageInflight: the last post of a key
    waitingFor,  \* pendingCounts
    kept,        \* the store: key -> [session, route]
    routes,      \* sessionsById
    talk,        \* the session a post is handled in, or 0
    told,        \* history: how often a text was sent to the asker
    missed,      \* history: a send of this handler threw
    reboots

pushedVars == <<bot, posts, stage, behind, newest, waitingFor, kept, routes, talk, told, missed,
                reboots>>
lineVars == <<behind, newest, waitingFor>>
placeVars == <<kept, routes, talk>>
endVars == <<told, missed>>

Numbers == 1..MaxPosts

(*****************************************************************************)
(* Which posts are taken, the key of their queue and session, and the route  *)
(* that is stored with the session.                                          *)
(*****************************************************************************)
\* a message without a subtype that has a text; "/test" is a command of its own
SlackHears(p) == p.sort = "plain" /\ p.text # "test"
DiscordHears(p) == p.sort = "plain"
\* of a user, of type text, and its content parses
FeishuHears(p) == p.sort = "plain"
\* for this agent, from a user, of type text
WecomHears(p) == p.sort = "plain" /\ p.user # None
\* the webhook is one of DingTalk, by https
DingTalkHears(p) == p.sort = "plain"

Hears(p) == CASE bot.platform = "slack" -> SlackHears(p)
              [] bot.platform = "discord" -> DiscordHears(p)
              [] bot.platform = "feishu" -> FeishuHears(p)
              [] bot.platform = "wecom" -> WecomHears(p)
              [] OTHER -> DingTalkHears(p)

SlackKey(p) == <<p.place, p.side>>

\* What a bug would do: the sessions of two tenants' chats share a key.
FeishuKeyOfChat(p) == <<"default", p.place>>
FeishuKey(p) == <<IF p.side = None THEN "default" ELSE p.side, p.place>>

WecomKey(p) == IF bot.scope = "chat" /\ p.place # None THEN <<"chat", p.place>>
                                                         ELSE <<"user", p.user>>

Key(p) == CASE bot.platform = "slack" -> SlackKey(p)
            [] bot.platform = "feishu" -> FeishuKey(p)
            [] bot.platform = "wecom" -> WecomKey(p)
            [] OTHER -> <<p.place>>

\* what ensureSession makes of the asker's context
SlackRoute(p) == [place |-> p.place, side |-> p.side]
DiscordRoute(p) == [place |-> p.place]
FeishuRoute(p) == [place |-> p.place, side |-> p.side]
WecomRoute(p) == [place |-> p.place, user |-> p.user]
DingTalkRoute(p) == [place |-> p.place]

Route(p) == CASE bot.platform = "slack" -> SlackRoute(p)
              [] bot.platform = "discord" -> DiscordRoute(p)
              [] bot.platform = "feishu" -> FeishuRoute(p)
              [] bot.platform = "wecom" -> WecomRoute(p)
              [] OTHER -> DingTalkRoute(p)

\* sendText: to the chat if that is asked for and there is one, else to the user
WecomSendsTo(r) == IF bot.replyTo = "chat" /\ r.place # None THEN <<"chat", r.place>>
                                                               ELSE <<"user", r.user>>
SpeaksTo(r) == IF bot.platform = "wecom" THEN WecomSendsTo(r) ELSE r

(*****************************************************************************)
(* How a send may end for the handler.  One that is lost is logged and       *)
(* forgotten, "sent" to the handler; one that throws may have arrived.       *)
(*****************************************************************************)
Sent == [arrives |-> TRUE, throws |-> FALSE]
Thrown == [arrives |-> FALSE, throws |-> TRUE]
SlackSays == {Sent, Thrown, [arrives |-> TRUE, throws |-> TRUE]}
SlackPosts == {Sent}
DiscordSends == {Sent}
FeishuSends == {Sent}
WecomSends == {Sent}
\* the access token is fetched outside ignoreError
DingTalkSends == {Sent, Thrown}

Sendings(wayOfSlack) == CASE bot.platform = "slack" -> wayOfSlack
                          [] bot.platform = "discord" -> DiscordSends
                          [] bot.platform = "feishu" -> FeishuSends
                          [] bot.platform = "wecom" -> WecomSends
                          [] OTHER -> DingTalkSends

(*****************************************************************************)
(* The start of the process: the map from sessions to routes is made of the  *)
(* stored values, the store itself stays as it was loaded.                   *)
(*****************************************************************************)
SlackLoads(v) == [place |-> v.route.place, side |-> v.route.side]
FeishuLoads(v) == [place |-> v.route.place, side |-> v.route.side]
WecomLoads(v) == [place |-> v.route.place, user |-> v.route.user]
\* by the key, not by the value
DiscordLoads(k) == [place |-> k[1]]
DingTalkLoads(k) == [place |-> k[1]]

Loads(k, v) == CASE bot.platform = "slack" -> SlackLoads(v)
                 [] bot.platform = "feishu" -> FeishuLoads(v)
                 [] bot.platform = "wecom" -> WecomLoads(v)
                 [] bot.platform = "discord" -> DiscordLoads(k)
                 [] OTHER -> DingTalkLoads(k)

Holders(store, s) == {k \in DOMAIN store : store[k].session = s}
Relearnt(store) ==
    [s \in {store[k].session : k \in DOMAIN store} |->
       LET k == CHOOSE k \in Holders(store, s) : TRUE IN Loads(k, store[k])]

NoMap == [x \in {} |-> 0]

PushedBotsInit ==
    /\ bot \in Bots
    /\ posts = <<>> /\ stage = <<>> /\ behind = <<>> /\ talk = <<>> /\ told = <<>> /\ missed = <<>>
    /\ newest = NoMap /\ waitingFor = NoMap /\ kept = NoMap /\ routes = NoMap
    /\ reboots = 0

Without(f, k) == [x \in DOMAIN f \ {k} |-> f[x]]
With(f, k, v) == [x \in DOMAIN f \cup {k} |-> IF x = k THEN v ELSE f[x]]
Count(k) == IF k \in DOMAIN waitingFor THEN waitingFor[k] ELSE 0

Reboots ==
    /\ reboots < MaxReboots /\ reboots' = reboots + 1
    /\ stage' = [m \in DOMAIN stage |-> IF stage[m] = "over" THEN "over" ELSE "gone"]
    /\ newest' = NoMap /\ waitingFor' = NoMap
    /\ routes' = Relearnt(kept)
    /\ UNCHANGED <<bot, posts, behind, kept, talk, told, missed>>

(*****************************************************************************)
(* A post arrives.  The queue of its key takes at most PendingLimit, and the *)
(* asker is told when it is full; otherwise the post is chained to the last  *)
(* one of its key that is not over.                                          *)
(*****************************************************************************)
Arrives(p, at, after) ==
    /\ Len(posts) < MaxPosts
    /\ posts' = Append(posts, p) /\ stage' = Append(stage, at) /\ behind' = Append(behind, after)
    /\ talk' = Append(talk, 0) /\ told' = Append(told, 0) /\ missed' = Append(missed, FALSE)
    /\ UNCHANGED <<bot, kept, routes, reboots>>

PassesOver(p) == ~Hears(p) /\ p.text # "test" /\ Arrives(p, "over", 0) /\ UNCHANGED <<newest, waitingFor>>

\* app.command("/test")
SlackCommand(p) ==
    /\ bot.platform = "slack" /\ p.text = "test"
    /\ Arrives(p, "telling", 0) /\ UNCHANGED <<newest, waitingFor>>

TurnsDown(p) ==
    /\ Hears(p) /\ Count(Key(p)) >= PendingLimit
    /\ Arrives(p, "telling", 0) /\ UNCHANGED <<newest, waitingFor>>

Chains(p) ==
    /\ Hears(p) /\ Count(Key(p)) < PendingLimit
    /\ Arrives(p, "chained", IF Key(p) \in DOMAIN newest THEN newest[Key(p)] ELSE 0)
    /\ newest' = With(newest, Key(p), Len(posts) + 1)
    /\ waitingFor' = With(waitingFor, Key(p), Count(Key(p)) + 1)

GoTo(m, at) == stage' = [stage EXCEPT ![m] = at]

\* the `finally` of a chained post
Leaves(k, m) ==
    /\ waitingFor' = IF Count(k) <= 1 THEN Without(waitingFor, k) ELSE [waitingFor EXCEPT ![k] = @ - 1]
    /\ newest' = IF k \in DOMAIN newest /\ newest[k] = m THEN Without(newest, k) ELSE newest
    /\ UNCHANGED behind

\* What a bug would do: a post leaves its queue to the others as soon as it has begun.
ReadyAtOnce(m) == stage[m] = "chained"
Ready(m) == stage[m] = "chained" /\ (behind[m] # 0 => stage[behind[m]] = "over")

\* handleUserText: blank texts and "/test" end without the limiter (Slack asks at once)
Handles(m) ==
    /\ Ready(m)
    /\ CASE bot.platform # "slack" /\ posts[m].text = "blank" ->
              GoTo(m, "over") /\ Leaves(Key(posts[m]), m)
         [] bot.platform # "slack" /\ posts[m].text = "test" ->
              GoTo(m, "closing") /\ UNCHANGED lineVars
         [] OTHER -> GoTo(m, "limited") /\ UNCHANGED lineVars
    /\ UNCHANGED <<bot, posts, placeVars, endVars, reboots>>

\* limiter.run refuses
LimiterFull(m) ==
    /\ stage[m] = "limited" /\ GoTo(m, "closing")
    /\ UNCHANGED <<bot, posts, lineVars, placeVars, endVars, reboots>>

(*****************************************************************************)
(* ensureSession.  A stored session is stored again with the route of this   *)
(* asker; a new one is stored before its link is shared.                     *)
(*****************************************************************************)
Remembers(m, s) ==
    LET p == posts[m] IN
    /\ kept' = With(kept, Key(p), [session |-> s, route |-> Route(p)])
    /\ routes' = With(routes, s, Route(p))
    /\ talk' = [talk EXCEPT ![m] = s]

Resumes(m) ==
    /\ stage[m] = "limited" /\ Key(posts[m]) \in DOMAIN kept
    /\ Remembers(m, kept[Key(posts[m])].session)
    /\ GoTo(m, "asking")
    /\ UNCHANGED <<bot, posts, lineVars, endVars, reboots>>

Creates(m) ==
    /\ stage[m] = "limited" /\ Key(posts[m]) \notin DOMAIN kept
    /\ GoTo(m, "creating")
    /\ UNCHANGED <<bot, posts, lineVars, placeVars, endVars, reboots>>

\* sessions are named for the post they were made for
SessionMade(m) ==
    /\ stage[m] = "creating" /\ Remembers(m, m) /\ GoTo(m, "sharing")
    /\ UNCHANGED <<bot, posts, lineVars, endVars, reboots>>

SessionNotMade(m) ==
    /\ stage[m] = "creating" /\ GoTo(m, "replying")
    /\ UNCHANGED <<bot, posts, lineVars, placeVars, endVars, reboots>>

\* the link is sent if there is one; a send that throws fails ensureSession
LinkShared(m) ==
    /\ stage[m] = "sharing"
    /\ \E way \in Sendings(SlackPosts) : GoTo(m, IF way.throws THEN "replying" ELSE "asking")
    /\ UNCHANGED <<bot, posts, lineVars, placeVars, endVars, reboots>>

\* session.prompt ends, one way or another: the answer or an apology is sent
Prompted(m) ==
    /\ stage[m] = "asking" /\ GoTo(m, "replying")
    /\ UNCHANGED <<bot, posts, lineVars, placeVars, endVars, reboots>>

(****************************************************************************)
(* Sends.  One that throws under the limiter is followed by an apology; the *)
(* one after that, the answer to "/test" and the refusal of a full queue    *)
(* are the last of their handler.                                           *)
(****************************************************************************)
Tells(m, way) ==
    /\ told' = [told EXCEPT ![m] = IF way.arrives THEN @ + 1 ELSE @]
    /\ missed' = [missed EXCEPT ![m] = @ \/ way.throws]
    /\ UNCHANGED <<bot, posts, placeVars, reboots>>

Replies(m, way) ==
    /\ stage[m] = "replying"
    /\ IF way.throws THEN GoTo(m, "closing") /\ UNCHANGED lineVars
                     ELSE GoTo(m, "over") /\ Leaves(Key(posts[m]), m)
    /\ Tells(m, way)

Closes(m, way) ==
    /\ stage[m] = "closing" /\ GoTo(m, "over") /\ Leaves(Key(posts[m]), m) /\ Tells(m, way)

TellsOnly(m, way) ==
    /\ stage[m] = "telling" /\ GoTo(m, "over") /\ Tells(m, way) /\ UNCHANGED lineVars

\* handleToolUpdate
ReportGoesTo(s) == IF s \in DOMAIN routes THEN {SpeaksTo(routes[s])} ELSE {}

PushedBotsNext ==
    \/ \E p \in PostsOf(bot.platform) : PassesOver(p) \/ SlackCommand(p) \/ TurnsDown(p) \/ Chains(p)
    \/ \E m \in DOMAIN posts :
         \/ Handles(m) \/ LimiterFull(m) \/ Resumes(m) \/ Creates(m)
         \/ SessionMade(m) \/ SessionNotMade(m) \/ LinkShared(m) \/ Prompted(m)
         \/ \E way \in Sendings(SlackSays) : Replies(m, way) \/ Closes(m, way) \/ TellsOnly(m, way)
    \/ Reboots

PushedBotsSpec == PushedBotsInit /\ [][PushedBotsNext]_pushedVars

-----------------------------------------------------------------------------
Stages == {"chained", "limited", "creating", "sharing", "asking", "replying", "closing", "telling",
           "over", "gone"}

\* Types.
PushedBotsTypeOK ==
    /\ bot \in Bots
    /\ Len(posts) <= MaxPosts /\ reboots \in 0..MaxReboots
    /\ \A m \in DOMAIN posts :
         /\ posts[m] \in PostsOf(bot.platform) /\ stage[m] \in Stages
         /\ behind[m] \in 0..(m - 1) /\ talk[m] \in 0..MaxPosts
         /\ told[m] \in 0..2 /\ missed[m] \in BOOLEAN
    /\ \A k \in DOMAIN newest : newest[k] \in DOMAIN posts
    /\ \A k \in DOMAIN waitingFor : waitingFor[k] \in 1..PendingLimit
    /\ \A k \in DOMAIN kept : kept[k].session \in Numbers
    /\ DOMAIN routes \subseteq Numbers

\* What the people on both ends would call one conversation.
SameConversation(p, q) ==
    CASE bot.platform = "wecom" ->
             IF bot.scope = "chat" /\ {p.place, q.place} # {None} THEN p.place = q.place
                                                                  ELSE p.user = q.user
      [] bot.platform \in {"slack", "feishu"} -> p.place = q.place /\ p.side = q.side
      [] OTHER -> p.place = q.place

\* A session never serves two conversations, over restarts too, and what its tools report goes to
\* somebody who asked in it.
SessionsStayApart ==
    /\ \A m, n \in DOMAIN posts :
         talk[m] # 0 /\ talk[m] = talk[n] => SameConversation(posts[m], posts[n])
    /\ \A s \in DOMAIN routes :
         ReportGoesTo(s) \subseteq {SpeaksTo(Route(posts[m])) : m \in {x \in DOMAIN posts : talk[x] = s}}

Begun(m) == stage[m] \in {"limited", "creating", "sharing", "asking", "replying", "closing"}

\* The messages of a conversation are handled one at a time and in order, and the count of those
\* that wait is true.
ConversationsTakeTurns ==
    /\ \A m, n \in DOMAIN posts :
         m < n /\ SameConversation(posts[m], posts[n]) /\ stage[m] \in Stages \ {"telling", "over", "gone"}
           => ~Begun(n)
    /\ \A k \in DOMAIN waitingFor \cup DOMAIN newest :
         Count(k) = Cardinality({m \in DOMAIN posts : (stage[m] = "chained" \/ Begun(m)) /\ Key(posts[m]) = k})

\* Whoever asked is told once, unless a send failed: then at most twice, by Slack alone.
AskersAreTold ==
    \A m \in DOMAIN posts :
      /\ told[m] > 1 => bot.platform = "slack" /\ missed[m]
      /\ stage[m] = "over" /\ ~missed[m] /\ Hears(posts[m]) /\ posts[m].text = "ask" => told[m] = 1

\* The bots that are pushed their messages keep conversations apart, in turn and answered.
PushedChatsAreServed == SessionsStayApart /\ ConversationsTakeTurns /\ AskersAreTold

-----------------------------------------------------------------------------
(*****************************************************************************)
(* The inductive invariant.                                                  *)
(*****************************************************************************)
Live(m) == stage[m] = "chained" \/ Begun(m)
KeyOf(m) == Key(posts[m])
Comer == Len(posts) + 1
InLine(k) == {m \in DOMAIN posts : Live(m) /\ KeyOf(m) = k}
Mates(m) == {v \in DOMAIN posts : Live(v) /\ KeyOf(v) = KeyOf(m)}
KeysInUse == {KeyOf(m) : m \in DOMAIN posts} \cup DOMAIN newest \cup DOMAIN waitingFor

\* The histories are as long as there are posts.
FeedFits ==
    /\ bot \in Bots /\ reboots \in 0..MaxReboots
    /\ posts \in Seq(PostsOf(bot.platform)) /\ Len(posts) <= MaxPosts
    /\ stage \in Seq(Stages) /\ behind \in Seq(Nat) /\ talk \in Seq(Nat)
    /\ told \in Seq(Nat) /\ missed \in Seq(BOOLEAN)
    /\ Len(stage) = Len(posts) /\ Len(behind) = Len(posts) /\ Len(talk) = Len(posts)
    /\ Len(told) = Len(posts) /\ Len(missed) = Len(posts)

\* A session was made for a post, and every post it is used for has the key of that
\* one; the routes, stored or not, are those of posts the session was used for.
TalkFits ==
    \A m \in DOMAIN posts :
        /\ talk[m] # 0 => talk[m] \in DOMAIN posts /\ KeyOf(talk[m]) = KeyOf(m)
        /\ stage[m] \in {"chained", "limited", "creating"} => talk[m] = 0

KeptFits ==
    \A k \in DOMAIN kept :
        \E m \in DOMAIN posts :
            /\ talk[m] = kept[k].session /\ talk[m] # 0 /\ KeyOf(m) = k
            /\ kept[k] = [session |-> talk[m], route |-> Route(posts[m])]

RoutesFit ==
    \A s \in DOMAIN routes : \E m \in DOMAIN posts :
        talk[m] = s /\ s # 0 /\ routes[s] = Route(posts[m])

\* The entry of a key is its newest post that is not over.
LinesFit ==
    /\ \A k \in DOMAIN newest : newest[k] \in InLine(k) /\ \A m \in InLine(k) : m <= newest[k]
    /\ \A m \in DOMAIN posts : Live(m) => KeyOf(m) \in DOMAIN newest

\* A post is chained to the one before it, if that was not over by then.
ChainsHold ==
    \A m \in DOMAIN posts : stage[m] = "chained" =>
        /\ \A v \in Mates(m) : v < m => v <= behind[m]
        /\ behind[m] # 0 =>
             \E w \in DOMAIN posts :
                /\ w = behind[m] /\ w < m /\ KeyOf(w) = KeyOf(m) /\ stage[w] # "telling"
                /\ stage[w] = "over" => \A v \in Mates(m) : w < v

\* Who has begun is the first of its line.
FirstInLineRuns == \A m \in DOMAIN posts : Begun(m) => \A v \in Mates(m) : m <= v

CountsFit ==
    /\ \A k \in DOMAIN waitingFor : waitingFor[k] \in 1..PendingLimit
    /\ \A k \in KeysInUse : Count(k) = Cardinality(InLine(k))

\* What a handler has sent by where it is.
TellingFits ==
    \A m \in DOMAIN posts :
        /\ stage[m] \in Stages \ {"closing", "over", "gone"} => told[m] = 0 /\ ~missed[m]
        /\ stage[m] = "closing" =>
             \/ told[m] = 0
             \/ told[m] = 1 /\ missed[m] /\ bot.platform = "slack"

PushedInv ==
    /\ FeedFits /\ TalkFits /\ KeptFits /\ RoutesFit
    /\ LinesFit /\ ChainsHold /\ FirstInLineRuns /\ CountsFit
    /\ TellingFits /\ AskersAreTold

=============================================================================
