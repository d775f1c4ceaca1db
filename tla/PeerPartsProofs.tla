--------------------------- MODULE PeerPartsProofs ---------------------------
(*****************************************************************************)
(* Parts that read from servers or send to them, each for every value of its *)
(* constants.                                                                *)
(*   PushedBots: posts are answered in turn and where they were asked, for   *)
(*   any posts of any bot, and any restarts: PushedInv is inductive.         *)
(*   HttpBody: what is kept of a body is what was asked for, for any limits: *)
(*   HttpBodyInv is inductive.                                               *)
(*   TrustGate: nothing leaves for what the manager does not trust, for any  *)
(*   managers, servers and changes of the environment: TrustGateInv is       *)
(*   inductive.                                                              *)
(*   GithubFetch: tokens go to trusted hosts alone and the bases take turns, *)
(*   for any lists of bases and any redirects: GithubFetchInv is inductive.  *)
(*   ActionRun: a comment that asks is answered once, for any job and any    *)
(*   limits: ActionInv is inductive.                                         *)
(*   SinkSend: a message is called sent when it was taken, and nothing leaves *)
(*   the scope of its sink, for any deliveries: SinkInv is inductive.        *)
(*   WecomInbox: an envelope is let in once, for any clocks, windows and     *)
(*   deliveries: InboxInv is inductive.                                      *)
(*   StdoutLog: the newest bytes are kept, in order and without a gap, for   *)
(*   any lengths of lines and parts, and wherever the clients stopped: LogInv *)
(*   is inductive.                                                           *)
(*****************************************************************************)
EXTENDS PushedBots, HttpBody, TrustGate, GithubFetch,
        ActionRun, SinkSend, WecomInbox, StdoutLog,
        FiniteSetTheorems, SequenceTheorems, WellFoundedInduction, TLAPS

-----------------------------------------------------------------------------
(***************************************************************************)
(* The bots that are pushed their messages.                                *)
(***************************************************************************)

\* Two posts have one key if they belong to one conversation.
LEMMA KeysAreConversations ==
    ASSUME bot \in Bots, NEW p \in PostsOf(bot.platform), NEW q \in PostsOf(bot.platform)
    PROVE  Key(p) = Key(q) <=> SameConversation(p, q)
<1>1. bot.platform \in {"slack", "discord", "feishu", "wecom", "dingtalk"}
      /\ bot.scope \in {"user", "chat"}
  BY PushedBotsAssumption
<1>2. CASE bot.platform = "slack"
  BY <1>2 DEF Key, SlackKey, SameConversation
<1>3. CASE bot.platform = "feishu"
  <2>1. p.side # "default" /\ q.side # "default"
    BY <1>3, PushedBotsAssumption
  <2>2. QED
    BY <1>3, <2>1 DEF Key, FeishuKey, SameConversation
<1>4. CASE bot.platform = "wecom"
  <2>1. Key(p) = WecomKey(p) /\ Key(q) = WecomKey(q)
    BY <1>4 DEF Key
  <2>2. \A r \in {p, q} : WecomKey(r) = IF bot.scope = "chat" /\ r.place # None
                                        THEN <<"chat", r.place>> ELSE <<"user", r.user>>
    BY DEF WecomKey
  <2>3. {p.place, q.place} = {None} <=> p.place = None /\ q.place = None
    OBVIOUS
  <2>4. SameConversation(p, q) <=> IF bot.scope = "chat" /\ ~(p.place = None /\ q.place = None)
                                   THEN p.place = q.place ELSE p.user = q.user
    BY <1>4, <2>3 DEF SameConversation
  <2>5. QED
    BY <2>1, <2>2, <2>4
<1>5. CASE bot.platform \in {"discord", "dingtalk"}
  BY <1>5 DEF Key, SameConversation
<1>6. QED
  BY <1>1, <1>2, <1>3, <1>4, <1>5

\* What a bot makes of a post does not change.
LEMMA KeysRest ==
    ASSUME bot' = bot
    PROVE  \A p : Key(p)' = Key(p) /\ Route(p)' = Route(p) /\ Hears(p)' = Hears(p)
BY DEF Key, WecomKey, Route, Hears

LEMMA PostsAre ==
    ASSUME PushedInv
    PROVE  /\ Len(posts) \in Nat /\ MaxPosts \in Nat /\ DOMAIN posts = 1..Len(posts)
           /\ DOMAIN stage = DOMAIN posts /\ DOMAIN behind = DOMAIN posts
           /\ DOMAIN talk = DOMAIN posts /\ DOMAIN told = DOMAIN posts
           /\ DOMAIN missed = DOMAIN posts
           /\ \A m \in DOMAIN posts :
                 /\ m \in Nat /\ m > 0 /\ posts[m] \in PostsOf(bot.platform) /\ stage[m] \in Stages
                 /\ behind[m] \in Nat /\ talk[m] \in Nat /\ told[m] \in Nat /\ missed[m] \in BOOLEAN
BY PushedBotsAssumption DEF PushedInv, FeedFits

\* A sequence with one more element.
LEMMA OneMore ==
    ASSUME NEW S, NEW s \in Seq(S), NEW e \in S
    PROVE  /\ Append(s, e) \in Seq(S) /\ Len(Append(s, e)) = Len(s) + 1
           /\ DOMAIN Append(s, e) = DOMAIN s \cup {Len(s) + 1}
           /\ \A i \in 1..Len(s) : Append(s, e)[i] = s[i]
           /\ Append(s, e)[Len(s) + 1] = e
OBVIOUS

\* The histories of a post that arrives.
LEMMA ArrivalIsAppended ==
    ASSUME PushedInv, NEW p \in PostsOf(bot.platform), NEW goal \in Stages, NEW after \in Nat,
           Arrives(p, goal, after)
    PROVE  /\ posts' \in Seq(PostsOf(bot.platform)) /\ Len(posts') = Comer /\ posts'[Comer] = p
           /\ stage' \in Seq(Stages) /\ Len(stage') = Comer /\ stage'[Comer] = goal
           /\ behind' \in Seq(Nat) /\ Len(behind') = Comer /\ behind'[Comer] = after
           /\ talk' \in Seq(Nat) /\ Len(talk') = Comer /\ talk'[Comer] = 0
           /\ told' \in Seq(Nat) /\ Len(told') = Comer /\ told'[Comer] = 0
           /\ DOMAIN posts' = DOMAIN posts \cup {Comer} /\ Comer <= MaxPosts
           /\ \A m \in 1..Len(posts) :
                 /\ posts'[m] = posts[m] /\ stage'[m] = stage[m] /\ behind'[m] = behind[m]
                 /\ talk'[m] = talk[m] /\ told'[m] = told[m]
<1>1. /\ posts' = Append(posts, p) /\ stage' = Append(stage, goal) /\ behind' = Append(behind, after)
      /\ talk' = Append(talk, 0) /\ told' = Append(told, 0)
      /\ Len(posts) < MaxPosts /\ bot' = bot /\ reboots' = reboots
  BY DEF Arrives
<1>2. /\ bot \in Bots /\ reboots \in 0..MaxReboots /\ MaxPosts \in Nat
      /\ posts \in Seq(PostsOf(bot.platform)) /\ Len(posts) <= MaxPosts /\ Len(posts) \in Nat
      /\ stage \in Seq(Stages) /\ behind \in Seq(Nat) /\ talk \in Seq(Nat)
      /\ told \in Seq(Nat) /\ missed \in Seq(BOOLEAN)
      /\ Len(stage) = Len(posts) /\ Len(behind) = Len(posts) /\ Len(talk) = Len(posts)
      /\ Len(told) = Len(posts) /\ Len(missed) = Len(posts)
  BY PushedBotsAssumption DEF PushedInv, FeedFits
<1>3. /\ posts' \in Seq(PostsOf(bot.platform)) /\ Len(posts') = Comer
      /\ DOMAIN posts' = DOMAIN posts \cup {Comer} /\ posts'[Comer] = p
      /\ \A m \in 1..Len(posts) : posts'[m] = posts[m]
  BY <1>1, <1>2, OneMore DEF Comer
<1>4. /\ stage' \in Seq(Stages) /\ Len(stage') = Comer /\ stage'[Comer] = goal
      /\ \A m \in 1..Len(posts) : stage'[m] = stage[m]
  BY <1>1, <1>2, OneMore DEF Comer
<1>5. /\ behind' \in Seq(Nat) /\ Len(behind') = Comer /\ behind'[Comer] = after
      /\ \A m \in 1..Len(posts) : behind'[m] = behind[m]
  BY <1>1, <1>2, OneMore DEF Comer
<1>6. /\ talk' \in Seq(Nat) /\ Len(talk') = Comer /\ talk'[Comer] = 0
      /\ \A m \in 1..Len(posts) : talk'[m] = talk[m]
  <2>1. 0 \in Nat
    OBVIOUS
  <2>2. QED
    BY <1>1, <1>2, <2>1, OneMore DEF Comer
<1>7. /\ told' \in Seq(Nat) /\ Len(told') = Comer /\ told'[Comer] = 0
      /\ \A m \in 1..Len(posts) : told'[m] = told[m]
  <2>1. 0 \in Nat
    OBVIOUS
  <2>2. QED
    BY <1>1, <1>2, <2>1, OneMore DEF Comer
<1>8. Comer <= MaxPosts
  BY <1>1, <1>2 DEF Comer
<1>9. QED
  BY <1>3, <1>4, <1>5, <1>6, <1>7, <1>8

\* Whether a send was missed.
LEMMA ArrivalMissesNothing ==
    ASSUME PushedInv, NEW p \in PostsOf(bot.platform), NEW goal \in Stages, NEW after \in Nat,
           Arrives(p, goal, after)
    PROVE  /\ missed' \in Seq(BOOLEAN) /\ Len(missed') = Comer /\ ~missed'[Comer]
           /\ \A m \in 1..Len(posts) : missed'[m] = missed[m]
<1>1. PICK no \in BOOLEAN : no = FALSE /\ missed' = Append(missed, no)
  BY DEF Arrives
<1>2. missed \in Seq(BOOLEAN) /\ Len(missed) = Len(posts)
  BY DEF PushedInv, FeedFits
<1>3. QED
  BY <1>1, <1>2, OneMore DEF Comer

LEMMA ArrivalFits ==
    ASSUME PushedInv, NEW p \in PostsOf(bot.platform), NEW goal \in Stages, NEW after \in Nat,
           Arrives(p, goal, after)
    PROVE  FeedFits'
<1>1. bot' = bot /\ reboots' = reboots /\ bot \in Bots /\ reboots \in 0..MaxReboots
  BY DEF Arrives, PushedInv, FeedFits
<1>2. QED
  BY <1>1, ArrivalIsAppended, ArrivalMissesNothing DEF FeedFits

\* The post that arrives comes behind the others.
LEMMA ArrivesAdds ==
    ASSUME PushedInv, NEW p \in PostsOf(bot.platform), NEW goal \in Stages, NEW after \in Nat,
           Arrives(p, goal, after)
    PROVE  /\ DOMAIN posts' = DOMAIN posts \cup {Comer}
           /\ Comer \notin DOMAIN posts /\ Comer \in Nat
           /\ \A m \in DOMAIN posts : m < Comer
           /\ posts'[Comer] = p /\ stage'[Comer] = goal
           /\ behind'[Comer] = after /\ talk'[Comer] = 0
           /\ told'[Comer] = 0
           /\ \A m \in DOMAIN posts :
                 /\ posts'[m] = posts[m] /\ stage'[m] = stage[m] /\ behind'[m] = behind[m]
                 /\ talk'[m] = talk[m] /\ told'[m] = told[m] /\ missed'[m] = missed[m]
                 /\ KeyOf(m)' = KeyOf(m)
           /\ (\A m : KeyOf(m)' = Key(posts'[m]))
<1>1. /\ DOMAIN posts' = DOMAIN posts \cup {Comer} /\ posts'[Comer] = p /\ stage'[Comer] = goal
      /\ behind'[Comer] = after /\ talk'[Comer] = 0 /\ told'[Comer] = 0
      /\ \A m \in 1..Len(posts) :
            /\ posts'[m] = posts[m] /\ stage'[m] = stage[m] /\ behind'[m] = behind[m]
            /\ talk'[m] = talk[m] /\ told'[m] = told[m]
  BY ArrivalIsAppended
<1>2. \A m \in 1..Len(posts) : missed'[m] = missed[m]
  BY ArrivalMissesNothing
<1>3. DOMAIN posts = 1..Len(posts) /\ Len(posts) \in Nat
  BY PostsAre
<1>4. \A q : Key(q)' = Key(q)
  BY KeysRest DEF Arrives
<1>5. (\A m \in DOMAIN posts : KeyOf(m)' = KeyOf(m)) /\ (\A m : KeyOf(m)' = Key(posts'[m]))
  <2>1. \A m : KeyOf(m)' = Key(posts[m])'
    BY DEF KeyOf
  <2>2. \A m : KeyOf(m)' = Key(posts'[m])
    BY <2>1, <1>4
  <2>3. \A m \in DOMAIN posts : Key(posts'[m]) = KeyOf(m)
    BY <1>1, <1>3 DEF KeyOf
  <2>4. QED
    BY <2>2, <2>3, <1>1
<1>6. /\ Comer \notin DOMAIN posts /\ Comer \in Nat
       /\ \A m \in DOMAIN posts : m < Comer
  BY <1>3 DEF Comer
<1>7. QED
  BY <1>1, <1>2, <1>3, <1>5, <1>6

LEMMA LinesAreFinite ==
    ASSUME PushedInv, NEW S \in SUBSET DOMAIN posts
    PROVE  IsFiniteSet(S) /\ Cardinality(S) \in Nat
<1>1. DOMAIN posts = 1..Len(posts) /\ 1 \in Int /\ Len(posts) \in Int
  BY PostsAre
<1>2. IsFiniteSet(DOMAIN posts)
  BY <1>1, FS_Interval
<1>3. QED
  BY <1>2, FS_Subset, FS_CardinalityType

\* The count of every key is that of its line, also of a key that is not in use.
LEMMA AllCountsAreTrue ==
    ASSUME PushedInv, NEW k
    PROVE  /\ Count(k) = Cardinality(InLine(k)) /\ Count(k) \in Nat
           /\ IsFiniteSet(InLine(k)) /\ InLine(k) \subseteq DOMAIN posts
<1>1. InLine(k) \subseteq DOMAIN posts
  BY DEF InLine
<1>2. IsFiniteSet(InLine(k)) /\ Cardinality(InLine(k)) \in Nat
  BY <1>1, LinesAreFinite
<1>3. CASE k \in KeysInUse
  BY <1>1, <1>2, <1>3 DEF PushedInv, CountsFit
<1>4. CASE k \notin KeysInUse
  <2>1. InLine(k) = {} /\ Count(k) = 0
    BY <1>4 DEF KeysInUse, InLine, Count
  <2>2. QED
    BY <1>1, <1>2, <2>1, FS_EmptySet
<1>5. QED
  BY <1>3, <1>4

\* Who is in a line is in no other.
LEMMA InOneLine ==
    ASSUME NEW m \in DOMAIN posts
    PROVE  \A k : m \in InLine(k) <=> Live(m) /\ k = KeyOf(m)
BY DEF InLine

\* The sessions and their routes do not change by a new post.
LEMMA ArrivalApart ==
    ASSUME PushedInv, NEW p \in PostsOf(bot.platform), NEW goal \in Stages, NEW after \in Nat,
           Arrives(p, goal, after)
    PROVE  FeedFits' /\ TalkFits' /\ KeptFits' /\ RoutesFit'
<1>0. PICK n : n = Comer
  OBVIOUS
<1>1. /\ DOMAIN posts' = DOMAIN posts \cup {n}
      /\ n \notin DOMAIN posts /\ talk'[n] = 0
      /\ \A m \in DOMAIN posts :
            /\ posts'[m] = posts[m] /\ stage'[m] = stage[m] /\ talk'[m] = talk[m]
            /\ KeyOf(m)' = KeyOf(m)
  BY <1>0, ArrivesAdds
<1>2. kept' = kept /\ routes' = routes /\ \A q : Route(q)' = Route(q)
  BY KeysRest DEF Arrives
<1>3. TalkFits'
  <2>1. SUFFICES ASSUME NEW m \in DOMAIN posts'
                 PROVE  /\ talk'[m] # 0 => talk'[m] \in DOMAIN posts' /\ KeyOf(talk[m])' = KeyOf(m)'
                        /\ stage'[m] \in {"chained", "limited", "creating"} => talk'[m] = 0
    BY DEF TalkFits
  <2>2. CASE m = n
    BY <1>1, <2>2
  <2>3. CASE m \in DOMAIN posts
    <3> DEFINE s == talk[m]
    <3>1. /\ s # 0 => s \in DOMAIN posts /\ KeyOf(s) = KeyOf(m)
          /\ stage[m] \in {"chained", "limited", "creating"} => s = 0
      BY <2>3 DEF PushedInv, TalkFits
    <3>2. talk'[m] = s /\ stage'[m] = stage[m] /\ KeyOf(m)' = KeyOf(m)
      BY <1>1, <2>3
    <3>3. \A t \in DOMAIN posts : t = talk'[m] => KeyOf(talk[m])' = KeyOf(t)
      BY <1>1 DEF KeyOf
    <3>4. QED
      BY <1>1, <3>1, <3>2, <3>3
  <2>4. QED
    BY <1>1, <2>1, <2>2, <2>3
<1>4. KeptFits'
  <2>1. SUFFICES ASSUME NEW k \in DOMAIN kept
                 PROVE  \E m \in DOMAIN posts' :
                          /\ talk'[m] = kept[k].session /\ talk'[m] # 0 /\ KeyOf(m)' = k
                          /\ kept[k] = [session |-> talk'[m], route |-> Route(posts'[m])]
    BY <1>2 DEF KeptFits
  <2>2. PICK m \in DOMAIN posts :
          /\ talk[m] = kept[k].session /\ talk[m] # 0 /\ KeyOf(m) = k
          /\ kept[k] = [session |-> talk[m], route |-> Route(posts[m])]
    BY <2>1 DEF PushedInv, KeptFits
  <2>3. QED
    BY <1>1, <2>2
<1>5. RoutesFit'
  <2>1. SUFFICES ASSUME NEW s \in DOMAIN routes
                 PROVE  \E m \in DOMAIN posts' :
                            talk'[m] = s /\ s # 0 /\ routes[s] = Route(posts'[m])
    BY <1>2 DEF RoutesFit
  <2>2. PICK m \in DOMAIN posts : talk[m] = s /\ s # 0 /\ routes[s] = Route(posts[m])
    BY <2>1 DEF PushedInv, RoutesFit
  <2>3. QED
    BY <1>1, <2>2
<1>6. FeedFits'
  BY <1>0, ArrivalFits
<1>7. QED
  BY <1>3, <1>4, <1>5, <1>6

LEMMA ArrivalTells ==
    ASSUME PushedInv, NEW p \in PostsOf(bot.platform), NEW goal \in {"telling", "chained", "over"},
           NEW after \in Nat, Arrives(p, goal, after), goal = "over" => ~Hears(p)
    PROVE  TellingFits' /\ AskersAreTold'
<1>0. PICK n : n = Comer
  OBVIOUS
<1>1. /\ DOMAIN posts' = DOMAIN posts \cup {n}
      /\ n \notin DOMAIN posts /\ told'[n] = 0 /\ stage'[n] = goal
      /\ posts'[n] = p
      /\ \A m \in DOMAIN posts :
            /\ posts'[m] = posts[m] /\ stage'[m] = stage[m] /\ told'[m] = told[m]
            /\ missed'[m] = missed[m]
  BY <1>0, ArrivesAdds DEF Stages
<1>2. bot' = bot /\ \A q : Hears(q)' = Hears(q)
  BY KeysRest DEF Arrives
<1>3. ~missed'[n]
  BY <1>0, ArrivalMissesNothing DEF Stages
<1>4. TellingFits'
  BY <1>1, <1>3, <1>2 DEF PushedInv, TellingFits
<1>5. AskersAreTold'
  <2>1. SUFFICES ASSUME NEW m \in DOMAIN posts'
                 PROVE  /\ told'[m] > 1 => bot.platform = "slack" /\ missed'[m]
                        /\ stage'[m] = "over" /\ ~missed'[m] /\ Hears(posts'[m]) /\ posts'[m].text = "ask"
                             => told'[m] = 1
    BY <1>2 DEF AskersAreTold
  <2>2. CASE m = n
    BY <1>1, <1>2, <2>2
  <2>3. CASE m \in DOMAIN posts
    BY <1>1, <2>3 DEF PushedInv, AskersAreTold
  <2>4. QED
    BY <1>1, <2>1, <2>2, <2>3
<1>6. QED
  BY <1>4, <1>5

\* Who is ready to run, or runs, is the first of its line.
LEMMA ReadyIsFirst ==
    ASSUME PushedInv, NEW m \in DOMAIN posts, Ready(m) \/ Begun(m)
    PROVE  m \in Mates(m) /\ \A v \in Mates(m) : m <= v
<1>1. m \in Mates(m)
  BY DEF Mates, Live, Ready
<1>2. CASE Begun(m)
  BY <1>1, <1>2 DEF PushedInv, FirstInLineRuns
<1>3. CASE Ready(m)
  <2>1. SUFFICES ASSUME NEW v \in Mates(m), v < m PROVE FALSE
    <3>1. \A v \in Mates(m) : v \in DOMAIN posts
      BY DEF Mates
    <3>2. \A v \in DOMAIN posts : v < m \/ m <= v
      BY PostsAre
    <3>3. QED
      BY <1>1, <2>1, <3>1, <3>2
  <2>2. /\ v <= behind[m]
        /\ behind[m] # 0 => behind[m] < v
    BY <1>3, <2>1 DEF PushedInv, ChainsHold, Ready
  <2>3. v \in Nat /\ v > 0 /\ behind[m] \in Nat
    BY <2>1, PostsAre DEF Mates
  <2>4. QED
    BY <2>2, <2>3
<1>4. QED
  BY <1>2, <1>3

\* A step after which the same posts are in line, behind the same ones.
LEMMA LinesRest ==
    ASSUME PushedInv, DOMAIN posts \subseteq DOMAIN posts', UNCHANGED <<newest, waitingFor>>,
           \A m \in DOMAIN posts' \ DOMAIN posts : ~Live(m)',
           \A m \in DOMAIN posts : /\ (Live(m)' <=> Live(m)) /\ KeyOf(m)' = KeyOf(m)
                                   /\ behind'[m] = behind[m]
                                   /\ stage'[m] = "chained" => stage[m] = "chained"
                                   /\ stage'[m] \in {"telling", "over"} => stage[m] \in {"telling", stage'[m]}
                                   /\ Begun(m)' => Begun(m) \/ Ready(m)
    PROVE  LinesFit' /\ ChainsHold' /\ FirstInLineRuns' /\ CountsFit'
<1>1. \A k : InLine(k)' = InLine(k)
  <2>1. SUFFICES ASSUME NEW k PROVE InLine(k)' = InLine(k)
    OBVIOUS
  <2>2. InLine(k)' = {m \in DOMAIN posts' : Live(m)' /\ KeyOf(m)' = k}
    BY DEF InLine
  <2>3. QED
    BY <2>2 DEF InLine
<1>2. \A m \in DOMAIN posts : Mates(m)' = Mates(m)
  <2>1. SUFFICES ASSUME NEW m \in DOMAIN posts PROVE Mates(m)' = Mates(m)
    OBVIOUS
  <2>2. Mates(m)' = {v \in DOMAIN posts' : Live(v)' /\ KeyOf(v)' = KeyOf(m)'}
    BY DEF Mates
  <2>3. QED
    BY <2>2 DEF Mates
<1>3. \A m \in DOMAIN posts' : (stage'[m] = "chained" \/ Begun(m)') => m \in DOMAIN posts
  BY DEF Live
<1>4. LinesFit'
  BY <1>1 DEF PushedInv, LinesFit
<1>5. ChainsHold'
  <2>1. SUFFICES ASSUME NEW m \in DOMAIN posts, stage'[m] = "chained"
                 PROVE  /\ \A v \in Mates(m)' : v < m => v <= behind'[m]
                        /\ behind'[m] # 0 =>
                             \E w \in DOMAIN posts' :
                                /\ w = behind'[m] /\ w < m /\ KeyOf(w)' = KeyOf(m)'
                                /\ stage'[w] # "telling"
                                /\ stage'[w] = "over" => \A v \in Mates(m)' : w < v
    BY <1>3 DEF ChainsHold
  <2>2. /\ \A v \in Mates(m) : v < m => v <= behind[m]
        /\ behind[m] # 0 =>
             \E w \in DOMAIN posts :
                /\ w = behind[m] /\ w < m /\ KeyOf(w) = KeyOf(m) /\ stage[w] # "telling"
                /\ stage[w] = "over" => \A v \in Mates(m) : w < v
    BY <2>1 DEF PushedInv, ChainsHold
  <2>3. QED
    BY <1>2, <2>1, <2>2
<1>6. FirstInLineRuns'
  <2>1. SUFFICES ASSUME NEW m \in DOMAIN posts, Begun(m)' PROVE \A v \in Mates(m)' : m <= v
    BY <1>3 DEF FirstInLineRuns
  <2>2. QED
    BY <1>2, <2>1, ReadyIsFirst
<1>7. CountsFit'
  <2>1. \A k : Count(k)' = Count(k)
    BY DEF Count
  <2>2. \A k : Count(k) = Cardinality(InLine(k))
    BY AllCountsAreTrue
  <2>3. QED
    BY <1>1, <2>1, <2>2 DEF PushedInv, CountsFit
<1>8. QED
  BY <1>4, <1>5, <1>6, <1>7

\* A post that is told off, or passed over, is in no line.
LEMMA OutOfLine ==
    ASSUME PushedInv, NEW p \in PostsOf(bot.platform), NEW goal \in {"telling", "over"},
           Arrives(p, goal, 0), UNCHANGED <<newest, waitingFor>>
    PROVE  LinesFit' /\ ChainsHold' /\ FirstInLineRuns' /\ CountsFit'
<1>0. PICK n : n = Comer
  OBVIOUS
<1>1. /\ DOMAIN posts' = DOMAIN posts \cup {n} /\ n \notin DOMAIN posts
      /\ stage'[n] = goal
      /\ \A m \in DOMAIN posts :
            /\ stage'[m] = stage[m] /\ behind'[m] = behind[m] /\ KeyOf(m)' = KeyOf(m)
  BY <1>0, ArrivesAdds DEF Stages
<1>2. /\ ~Live(n)'
      /\ \A m \in DOMAIN posts : (Live(m)' <=> Live(m)) /\ (Begun(m)' <=> Begun(m))
  BY <1>1 DEF Live, Begun
<1>3. QED
  BY <1>1, <1>2, LinesRest

\* A post that finds room is the last of its line, behind the one that was.
LEMMA ChainingLines ==
    ASSUME PushedInv, NEW p \in PostsOf(bot.platform), Chains(p)
    PROVE  LinesFit' /\ ChainsHold' /\ FirstInLineRuns' /\ CountsFit'
<1> DEFINE k0 == Key(p)
<1>0. PICK n, after : n = Comer /\ after = IF k0 \in DOMAIN newest THEN newest[k0] ELSE 0
  OBVIOUS
<1>1. after \in Nat /\ Arrives(p, "chained", after) /\ Count(k0) < PendingLimit
      /\ newest' = With(newest, k0, n) /\ waitingFor' = With(waitingFor, k0, Count(k0) + 1)
  <2>1. k0 \in DOMAIN newest => newest[k0] \in DOMAIN posts
    BY DEF PushedInv, LinesFit, InLine
  <2>2. after \in Nat
    BY <1>0, <2>1, PostsAre
  <2>3. QED
    BY <1>0, <2>2 DEF Chains, Comer
<1>2. /\ DOMAIN posts' = DOMAIN posts \cup {n} /\ n \notin DOMAIN posts /\ n \in Nat
      /\ stage'[n] = "chained" /\ behind'[n] = after
      /\ \A m \in DOMAIN posts :
            /\ stage'[m] = stage[m] /\ behind'[m] = behind[m] /\ KeyOf(m)' = KeyOf(m) /\ m < n
  <2>1. "chained" \in Stages
    BY DEF Stages
  <2>2. QED
    BY <1>0, <1>1, <2>1, ArrivesAdds
<1>3. KeyOf(n)' = k0
  <2>1. "chained" \in Stages
    BY DEF Stages
  <2>2. QED
    BY <1>0, <1>1, <2>1, ArrivesAdds
<1>4. /\ Live(n)' /\ ~Begun(n)'
      /\ \A m \in DOMAIN posts : (Live(m)' <=> Live(m)) /\ (Begun(m)' <=> Begun(m))
  BY <1>2 DEF Live, Begun
<1>5. \A k : InLine(k)' = IF k = k0 THEN InLine(k) \cup {n} ELSE InLine(k)
  <2>1. SUFFICES ASSUME NEW k PROVE InLine(k)' = IF k = k0 THEN InLine(k) \cup {n} ELSE InLine(k)
    OBVIOUS
  <2>2. InLine(k)' = {m \in DOMAIN posts' : Live(m)' /\ KeyOf(m)' = k}
    BY DEF InLine
  <2>3. QED
    BY <1>2, <1>3, <1>4, <2>2 DEF InLine
<1>6. \A m \in DOMAIN posts : Mates(m)' = IF KeyOf(m) = k0 THEN Mates(m) \cup {n} ELSE Mates(m)
  <2>1. SUFFICES ASSUME NEW m \in DOMAIN posts
                 PROVE  Mates(m)' = IF KeyOf(m) = k0 THEN Mates(m) \cup {n} ELSE Mates(m)
    OBVIOUS
  <2>2. Mates(m)' = {v \in DOMAIN posts' : Live(v)' /\ KeyOf(v)' = KeyOf(m)'}
    BY DEF Mates
  <2>3. QED
    BY <1>2, <1>3, <1>4, <2>2 DEF Mates
<1>7. Mates(n)' = InLine(k0) \cup {n}
  <2>1. Mates(n)' = {v \in DOMAIN posts' : Live(v)' /\ KeyOf(v)' = KeyOf(n)'}
    BY DEF Mates
  <2>2. QED
    BY <1>2, <1>3, <1>4, <2>1 DEF InLine
<1>8. \A k : InLine(k) \subseteq DOMAIN posts
  BY DEF InLine
<1>9. LinesFit'
  <2>1. \A k \in DOMAIN newest' : newest'[k] \in InLine(k)' /\ \A m \in InLine(k)' : m <= newest'[k]
    <3>1. SUFFICES ASSUME NEW k \in DOMAIN newest \cup {k0}
                   PROVE  newest'[k] \in InLine(k)' /\ \A m \in InLine(k)' : m <= newest'[k]
      BY <1>1 DEF With
    <3>2. CASE k = k0
      <4>1. newest'[k] = n /\ InLine(k)' = InLine(k) \cup {n}
        BY <1>1, <1>5, <3>2 DEF With
      <4>2. n <= n /\ \A m \in DOMAIN posts : m <= n
        BY <1>2, PostsAre
      <4>3. QED
        BY <1>8, <4>1, <4>2
    <3>3. CASE k # k0
      BY <1>1, <1>5, <3>1, <3>3 DEF With, PushedInv, LinesFit
    <3>4. QED
      BY <3>2, <3>3
  <2>2. \A m \in DOMAIN posts' : Live(m)' => KeyOf(m)' \in DOMAIN newest'
    BY <1>1, <1>2, <1>3, <1>4 DEF With, PushedInv, LinesFit
  <2>3. QED
    BY <2>1, <2>2 DEF LinesFit
<1>10. ChainsHold'
  <2>1. SUFFICES ASSUME NEW m \in DOMAIN posts', stage'[m] = "chained"
                 PROVE  /\ \A v \in Mates(m)' : v < m => v <= behind'[m]
                        /\ behind'[m] # 0 =>
                             \E w \in DOMAIN posts' :
                                /\ w = behind'[m] /\ w < m /\ KeyOf(w)' = KeyOf(m)'
                                /\ stage'[w] # "telling"
                                /\ stage'[w] = "over" => \A v \in Mates(m)' : w < v
    BY DEF ChainsHold
  <2>2. CASE m \in DOMAIN posts
    <3>1. /\ \A v \in Mates(m) : v < m => v <= behind[m]
          /\ behind[m] # 0 =>
               \E w \in DOMAIN posts :
                  /\ w = behind[m] /\ w < m /\ KeyOf(w) = KeyOf(m) /\ stage[w] # "telling"
                  /\ stage[w] = "over" => \A v \in Mates(m) : w < v
      BY <1>2, <2>1, <2>2 DEF PushedInv, ChainsHold
    <3>2. ~(n < m)
      BY <1>2, <2>2, PostsAre
    <3>3. \A v \in Mates(m)' : v \in Mates(m) \/ v = n
      BY <1>6, <2>2
    <3>4. QED
      BY <1>2, <2>2, <3>1, <3>2, <3>3
  <2>3. CASE m = n
    <3>1. CASE k0 \in DOMAIN newest
      <4>1. after \in InLine(k0) /\ \A v \in InLine(k0) : v <= after
        BY <1>0, <3>1 DEF PushedInv, LinesFit
      <4>2. after \in DOMAIN posts /\ Live(after) /\ KeyOf(after) = k0
        BY <4>1 DEF InLine
      <4>3. stage[after] # "telling" /\ stage[after] # "over"
        BY <4>2 DEF Live, Begun
      <4>4. ~(n < n)
        BY <1>2
      <4>5. QED
        BY <1>2, <1>3, <1>7, <2>3, <4>1, <4>2, <4>3, <4>4
    <3>2. CASE k0 \notin DOMAIN newest
      <4>1. InLine(k0) = {}
        BY <3>2 DEF PushedInv, LinesFit, InLine
      <4>2. after = 0 /\ ~(n < n)
        BY <1>0, <1>2, <3>2
      <4>3. QED
        BY <1>2, <1>7, <2>3, <4>1, <4>2
    <3>3. QED
      BY <3>1, <3>2
  <2>4. QED
    BY <1>2, <2>1, <2>2, <2>3
<1>11. FirstInLineRuns'
  <2>1. SUFFICES ASSUME NEW m \in DOMAIN posts, Begun(m) PROVE \A v \in Mates(m)' : m <= v
    BY <1>2, <1>4 DEF FirstInLineRuns
  <2>2. \A v \in Mates(m) : m <= v
    BY <2>1 DEF PushedInv, FirstInLineRuns
  <2>3. m <= n
    BY <1>2, PostsAre
  <2>4. QED
    BY <1>6, <2>2, <2>3
<1>12. CountsFit'
  <2>1. \A k : /\ Count(k) = Cardinality(InLine(k)) /\ Count(k) \in Nat
               /\ IsFiniteSet(InLine(k)) /\ n \notin InLine(k)
    BY AllCountsAreTrue, <1>2, <1>8
  <2>2. \A k : Count(k)' = IF k = k0 THEN Count(k0) + 1 ELSE Count(k)
    BY <1>1 DEF Count, With
  <2>3. Cardinality(InLine(k0) \cup {n}) = Count(k0) + 1
    BY <2>1, FS_AddElement
  <2>4. \A k \in DOMAIN waitingFor' : waitingFor'[k] \in 1..PendingLimit
    <3>1. SUFFICES ASSUME NEW k \in DOMAIN waitingFor \cup {k0}
                   PROVE  waitingFor'[k] \in 1..PendingLimit
      BY <1>1 DEF With
    <3>2. CASE k = k0
      <4>1. waitingFor'[k] = Count(k0) + 1
        BY <1>1, <3>2 DEF With
      <4>2. QED
        BY <1>1, <2>1, <4>1, PushedBotsAssumption
    <3>3. CASE k # k0
      BY <1>1, <3>1, <3>3 DEF With, PushedInv, CountsFit
    <3>4. QED
      BY <3>2, <3>3
  <2>5. \A k : Count(k)' = Cardinality(InLine(k)')
    BY <1>5, <2>1, <2>2, <2>3
  <2>6. \A k : Cardinality(InLine(k)') = Cardinality(InLine(k))'
    OBVIOUS
  <2>7. QED
    BY <2>4, <2>5 DEF CountsFit
<1>13. QED
  BY <1>9, <1>10, <1>11, <1>12

\* A handler goes on, in its line.
LEMMA MovingInLine ==
    ASSUME PushedInv, NEW m \in DOMAIN posts, Ready(m) \/ Begun(m),
           NEW goal \in {"limited", "creating", "sharing", "asking", "replying", "closing"},
           GoTo(m, goal), UNCHANGED <<bot, posts, lineVars>>
    PROVE  LinesFit' /\ ChainsHold' /\ FirstInLineRuns' /\ CountsFit'
<1>1. /\ stage'[m] = goal /\ Live(m) /\ stage[m] \in Stages
      /\ \A v \in DOMAIN posts : v # m => stage'[v] = stage[v]
      /\ \A v \in DOMAIN posts : KeyOf(v)' = KeyOf(v)
  BY PostsAre, KeysRest DEF GoTo, Live, Ready, KeyOf
<1>2. Live(m)' /\ Begun(m)' /\ stage'[m] \notin {"chained", "telling", "over"}
  BY <1>1 DEF Live, Begun
<1>3. \A v \in DOMAIN posts : v # m => (Live(v)' <=> Live(v)) /\ (Begun(v)' <=> Begun(v))
  BY <1>1 DEF Live, Begun
<1>4. QED
  BY <1>1, <1>2, <1>3, LinesRest DEF lineVars

\* A handler ends, and its line goes on.
LEMMA LeavingTheLine ==
    ASSUME PushedInv, NEW m \in DOMAIN posts, Ready(m) \/ Begun(m),
           GoTo(m, "over"), Leaves(KeyOf(m), m), UNCHANGED <<bot, posts>>
    PROVE  LinesFit' /\ ChainsHold' /\ FirstInLineRuns' /\ CountsFit'
<1> DEFINE k0 == KeyOf(m)
<1>1. /\ stage'[m] = "over" /\ behind' = behind
      /\ \A v \in DOMAIN posts : v # m => stage'[v] = stage[v]
      /\ \A v \in DOMAIN posts : KeyOf(v)' = KeyOf(v)
  BY PostsAre, KeysRest DEF GoTo, Leaves, KeyOf
<1>2. ~Live(m)' /\ ~Begun(m)' /\ stage'[m] # "chained"
  BY <1>1 DEF Live, Begun
<1>3. \A v \in DOMAIN posts : v # m => (Live(v)' <=> Live(v)) /\ (Begun(v)' <=> Begun(v))
  BY <1>1 DEF Live, Begun
<1>4. \A k : InLine(k)' = IF k = k0 THEN InLine(k) \ {m} ELSE InLine(k)
  <2>1. SUFFICES ASSUME NEW k PROVE InLine(k)' = IF k = k0 THEN InLine(k) \ {m} ELSE InLine(k)
    OBVIOUS
  <2>2. InLine(k)' = {v \in DOMAIN posts : Live(v)' /\ KeyOf(v)' = k}
    BY DEF InLine
  <2>3. QED
    BY <1>1, <1>2, <1>3, <2>2 DEF InLine
<1>5. \A v \in DOMAIN posts : Mates(v)' = Mates(v) \ {m}
  <2>1. SUFFICES ASSUME NEW v \in DOMAIN posts PROVE Mates(v)' = Mates(v) \ {m}
    OBVIOUS
  <2>2. Mates(v)' = {u \in DOMAIN posts : Live(u)' /\ KeyOf(u)' = KeyOf(v)'}
    BY DEF Mates
  <2>3. QED
    BY <1>1, <1>2, <1>3, <2>2 DEF Mates
<1>6. m \in Mates(m) /\ \A v \in Mates(m) : m <= v
  BY ReadyIsFirst
<1>7. Mates(m) = InLine(k0)
  BY DEF Mates, InLine
<1>8. k0 \in DOMAIN newest /\ newest[k0] \in InLine(k0) /\ \A v \in InLine(k0) : v <= newest[k0]
  BY <1>6 DEF Mates, PushedInv, LinesFit
<1>9. newest' = IF newest[k0] = m THEN Without(newest, k0) ELSE newest
  BY <1>8 DEF Leaves
<1>10. LinesFit'
  <2>1. \A k \in DOMAIN newest' : newest'[k] \in InLine(k)' /\ \A v \in InLine(k)' : v <= newest'[k]
    <3>1. SUFFICES ASSUME NEW k \in DOMAIN newest'
                   PROVE  newest'[k] \in InLine(k)' /\ \A v \in InLine(k)' : v <= newest'[k]
      OBVIOUS
    <3>2. k \in DOMAIN newest /\ newest'[k] = newest[k] /\ (k = k0 => newest[k] # m)
      BY <1>9, <3>1 DEF Without
    <3>3. QED
      BY <1>4, <3>2 DEF PushedInv, LinesFit
  <2>2. SUFFICES ASSUME NEW v \in DOMAIN posts, v # m, Live(v) PROVE KeyOf(v) \in DOMAIN newest'
    BY <1>1, <1>2, <1>3, <2>1 DEF LinesFit
  <2>3. KeyOf(v) \in DOMAIN newest
    BY <2>2 DEF PushedInv, LinesFit
  <2>4. CASE KeyOf(v) = k0
    <3>1. v \in InLine(k0)
      BY <2>2, <2>4 DEF InLine
    <3>2. m <= v /\ v <= newest[k0]
      BY <1>6, <1>7, <1>8, <3>1
    <3>3. newest[k0] # m
      BY <2>2, <3>2, PostsAre
    <3>4. QED
      BY <1>9, <2>3, <3>3
  <2>5. CASE KeyOf(v) # k0
    BY <1>9, <2>3, <2>5 DEF Without
  <2>6. QED
    BY <2>4, <2>5
<1>11. ChainsHold'
  <2>1. SUFFICES ASSUME NEW n \in DOMAIN posts, stage[n] = "chained", n # m
                 PROVE  /\ \A v \in Mates(n)' : v < n => v <= behind[n]
                        /\ behind[n] # 0 =>
                             \E w \in DOMAIN posts :
                                /\ w = behind[n] /\ w < n /\ KeyOf(w) = KeyOf(n)
                                /\ stage'[w] # "telling"
                                /\ stage'[w] = "over" => \A v \in Mates(n)' : w < v
    BY <1>1 DEF ChainsHold
  <2>2. /\ \A v \in Mates(n) : v < n => v <= behind[n]
        /\ behind[n] # 0 =>
             \E w \in DOMAIN posts :
                /\ w = behind[n] /\ w < n /\ KeyOf(w) = KeyOf(n) /\ stage[w] # "telling"
                /\ stage[w] = "over" => \A v \in Mates(n) : w < v
    BY <2>1 DEF PushedInv, ChainsHold
  <2>3. SUFFICES ASSUME NEW w \in DOMAIN posts, w = behind[n], w < n, KeyOf(w) = KeyOf(n),
                        stage[w] # "telling", stage[w] = "over" => \A v \in Mates(n) : w < v
                 PROVE  /\ stage'[w] # "telling"
                        /\ stage'[w] = "over" => \A v \in Mates(n)' : w < v
    BY <1>5, <2>2
  <2>4. CASE w = m
    <3>1. Mates(n) = Mates(m)
      BY <2>3, <2>4 DEF Mates
    <3>2. \A v \in Mates(n)' : m <= v /\ v # m /\ v \in DOMAIN posts
      BY <1>5, <1>6, <3>1 DEF Mates
    <3>3. \A v \in DOMAIN posts : m <= v /\ v # m => m < v
      BY PostsAre
    <3>4. QED
      BY <1>1, <2>4, <3>2, <3>3
  <2>5. CASE w # m
    BY <1>1, <1>5, <2>3, <2>5
  <2>6. QED
    BY <2>4, <2>5
<1>12. FirstInLineRuns'
  <2>1. SUFFICES ASSUME NEW n \in DOMAIN posts, Begun(n), n # m PROVE \A v \in Mates(n)' : n <= v
    BY <1>2, <1>3 DEF FirstInLineRuns
  <2>2. QED
    BY <1>5, <2>1 DEF PushedInv, FirstInLineRuns
<1>13. CountsFit'
  <2>1. \A k : /\ Count(k) = Cardinality(InLine(k)) /\ Count(k) \in Nat
               /\ IsFiniteSet(InLine(k))
    BY AllCountsAreTrue
  <2>2. m \in InLine(k0)
    BY <1>6, <1>7
  <2>3. Cardinality(InLine(k0) \ {m}) = Count(k0) - 1 /\ Count(k0) # 0
    BY <2>1, <2>2, FS_RemoveElement, FS_EmptySet
  <2>4. k0 \in DOMAIN waitingFor /\ Count(k0) = waitingFor[k0]
    BY <2>3 DEF Count
  <2>5. waitingFor' = IF Count(k0) <= 1 THEN Without(waitingFor, k0)
                                        ELSE [waitingFor EXCEPT ![k0] = @ - 1]
    BY DEF Leaves
  <2>6. \A k : Count(k)' = IF k = k0 THEN Count(k0) - 1 ELSE Count(k)
    <3>1. CASE Count(k0) <= 1
      BY <2>1, <2>3, <2>5, <3>1 DEF Count, Without
    <3>2. CASE ~(Count(k0) <= 1)
      BY <2>4, <2>5, <3>2 DEF Count
    <3>3. QED
      BY <3>1, <3>2
  <2>7. \A k \in DOMAIN waitingFor' : waitingFor'[k] \in 1..PendingLimit
    <3>1. \A k \in DOMAIN waitingFor : waitingFor[k] \in 1..PendingLimit
      BY DEF PushedInv, CountsFit
    <3>2. CASE Count(k0) <= 1
      BY <2>5, <3>1, <3>2 DEF Without
    <3>3. CASE ~(Count(k0) <= 1)
      BY <2>1, <2>4, <2>5, <3>1, <3>3, PushedBotsAssumption
    <3>4. QED
      BY <3>2, <3>3
  <2>8. \A k : Count(k)' = Cardinality(InLine(k)')
    BY <1>4, <2>1, <2>3, <2>6
  <2>9. QED
    BY <2>7, <2>8 DEF CountsFit
<1>14. QED
  BY <1>10, <1>11, <1>12, <1>13

\* A step that uses no session.
LEMMA TalkRests ==
    ASSUME PushedInv, UNCHANGED <<bot, posts, placeVars>>,
           \A m \in DOMAIN posts : stage'[m] \in {"chained", "limited", "creating"} =>
                                     stage[m] \in {"chained", "limited", "creating"}
    PROVE  TalkFits' /\ KeptFits' /\ RoutesFit'
<1>1. \A q : Key(q)' = Key(q) /\ Route(q)' = Route(q)
  BY KeysRest
<1>2. \A m : KeyOf(m)' = KeyOf(m)
  BY <1>1 DEF KeyOf
<1>3. talk' = talk /\ kept' = kept /\ routes' = routes
  BY DEF placeVars
<1>4. TalkFits'
  <2>1. SUFFICES ASSUME NEW m \in DOMAIN posts
                 PROVE  /\ talk[m] # 0 => talk[m] \in DOMAIN posts /\ KeyOf(talk[m])' = KeyOf(m)'
                        /\ stage'[m] \in {"chained", "limited", "creating"} => talk[m] = 0
    BY <1>3 DEF TalkFits
  <2>2. KeyOf(talk[m])' = KeyOf(talk[m])
    BY <1>1, <1>3 DEF KeyOf
  <2>3. QED
    BY <1>2, <2>1, <2>2 DEF PushedInv, TalkFits
<1>5. KeptFits'
  <2>1. SUFFICES ASSUME NEW k \in DOMAIN kept
                 PROVE  \E m \in DOMAIN posts :
                          /\ talk[m] = kept[k].session /\ talk[m] # 0 /\ KeyOf(m)' = k
                          /\ kept[k] = [session |-> talk[m], route |-> Route(posts[m])']
    BY <1>3 DEF KeptFits
  <2>2. \A m : Route(posts[m])' = Route(posts[m])
    BY <1>1
  <2>3. QED
    BY <1>2, <2>1, <2>2 DEF PushedInv, KeptFits
<1>6. RoutesFit'
  <2>1. \A m : Route(posts[m])' = Route(posts[m])
    BY <1>1
  <2>2. QED
    BY <1>3, <2>1 DEF PushedInv, RoutesFit
<1>7. QED
  BY <1>4, <1>5, <1>6

\* A session that was made for a post of the same key is used.
LEMMA RemembersFits ==
    ASSUME PushedInv, NEW m \in DOMAIN posts, NEW s \in DOMAIN posts, KeyOf(s) = KeyOf(m),
           talk[m] = 0, Remembers(m, s), UNCHANGED <<bot, posts>>,
           stage'[m] \notin {"chained", "limited", "creating"},
           \A v \in DOMAIN posts : v # m => stage'[v] = stage[v]
    PROVE  TalkFits' /\ KeptFits' /\ RoutesFit'
<1>1. \A q : Key(q)' = Key(q) /\ Route(q)' = Route(q)
  BY KeysRest
<1>2. \A v : KeyOf(v)' = KeyOf(v) /\ Route(posts[v])' = Route(posts[v])
  BY <1>1 DEF KeyOf
<1>3. /\ talk'[m] = s /\ \A v \in DOMAIN posts : v # m => talk'[v] = talk[v]
      /\ s # 0
      /\ kept' = With(kept, KeyOf(m), [session |-> s, route |-> Route(posts[m])])
      /\ routes' = With(routes, s, Route(posts[m]))
  BY PostsAre DEF Remembers, KeyOf
<1>4. TalkFits'
  <2>1. SUFFICES ASSUME NEW v \in DOMAIN posts
                 PROVE  /\ talk'[v] # 0 => talk'[v] \in DOMAIN posts /\ KeyOf(talk[v])' = KeyOf(v)'
                        /\ stage'[v] \in {"chained", "limited", "creating"} => talk'[v] = 0
    BY DEF TalkFits
  <2>2. KeyOf(talk[v])' = Key(posts[talk'[v]])
    BY <1>1 DEF KeyOf
  <2>3. \A t : KeyOf(t) = Key(posts[t])
    BY DEF KeyOf
  <2>4. CASE v = m
    BY <1>2, <1>3, <2>2, <2>3, <2>4
  <2>5. CASE v # m
    <3>1. /\ talk[v] # 0 => talk[v] \in DOMAIN posts /\ KeyOf(talk[v]) = KeyOf(v)
          /\ stage[v] \in {"chained", "limited", "creating"} => talk[v] = 0
      BY DEF PushedInv, TalkFits
    <3>2. QED
      BY <1>2, <1>3, <2>2, <2>3, <2>5, <3>1
  <2>6. QED
    BY <2>4, <2>5
<1>5. KeptFits'
  <2>1. SUFFICES ASSUME NEW k \in DOMAIN kept'
                 PROVE  \E v \in DOMAIN posts :
                          /\ talk'[v] = kept'[k].session /\ talk'[v] # 0 /\ KeyOf(v)' = k
                          /\ kept'[k] = [session |-> talk'[v], route |-> Route(posts[v])']
    BY DEF KeptFits
  <2>2. CASE k = KeyOf(m)
    <3>1. kept'[k] = [session |-> s, route |-> Route(posts[m])]
      BY <1>3, <2>2 DEF With
    <3>2. QED
      BY <1>2, <1>3, <2>2, <3>1
  <2>3. CASE k # KeyOf(m)
    <3>1. k \in DOMAIN kept /\ kept'[k] = kept[k]
      BY <1>3, <2>1, <2>3 DEF With
    <3>2. PICK v \in DOMAIN posts :
            /\ talk[v] = kept[k].session /\ talk[v] # 0 /\ KeyOf(v) = k
            /\ kept[k] = [session |-> talk[v], route |-> Route(posts[v])]
      BY <3>1 DEF PushedInv, KeptFits
    <3>3. talk'[v] = talk[v]
      BY <1>3, <3>2
    <3>4. QED
      BY <1>2, <3>1, <3>2, <3>3
  <2>4. QED
    BY <2>2, <2>3
<1>6. RoutesFit'
  <2>1. SUFFICES ASSUME NEW t \in DOMAIN routes'
                 PROVE  \E v \in DOMAIN posts : talk'[v] = t /\ t # 0 /\ routes'[t] = Route(posts[v])'
    BY DEF RoutesFit
  <2>2. CASE t = s
    BY <1>2, <1>3, <2>2 DEF With
  <2>3. CASE t # s
    <3>1. t \in DOMAIN routes /\ routes'[t] = routes[t]
      BY <1>3, <2>1, <2>3 DEF With
    <3>2. PICK v \in DOMAIN posts : talk[v] = t /\ t # 0 /\ routes[t] = Route(posts[v])
      BY <3>1 DEF PushedInv, RoutesFit
    <3>3. talk'[v] = talk[v]
      BY <1>3, <3>2
    <3>4. QED
      BY <1>2, <3>1, <3>2, <3>3
  <2>4. QED
    BY <2>2, <2>3
<1>7. QED
  BY <1>4, <1>5, <1>6

\* A handler goes on or ends without a send.
LEMMA SilentStep ==
    ASSUME PushedInv, NEW m \in DOMAIN posts, NEW goal \in Stages, GoTo(m, goal),
           UNCHANGED <<bot, posts, endVars>>, stage[m] \notin {"closing", "over", "gone", "telling"},
           goal = "over" => posts[m].text # "ask", goal # "gone"
    PROVE  TellingFits' /\ AskersAreTold'
<1>1. /\ told' = told /\ missed' = missed /\ bot' = bot /\ posts' = posts
      /\ stage'[m] = goal /\ stage[m] \in Stages \ {"closing", "over", "gone"}
      /\ \A v \in DOMAIN posts : v # m => stage'[v] = stage[v]
  BY PostsAre DEF GoTo, endVars
<1>2. told[m] = 0 /\ ~missed[m]
  BY <1>1 DEF PushedInv, TellingFits
<1>3. TellingFits'
  BY <1>1, <1>2 DEF PushedInv, TellingFits
<1>4. AskersAreTold'
  <2>1. \A p : Hears(p)' = Hears(p)
    BY KeysRest
  <2>2. SUFFICES ASSUME NEW v \in DOMAIN posts
                 PROVE  /\ told[v] > 1 => bot.platform = "slack" /\ missed[v]
                        /\ stage'[v] = "over" /\ ~missed[v] /\ Hears(posts[v])'
                           /\ posts[v].text = "ask" => told[v] = 1
    BY <1>1 DEF AskersAreTold
  <2>3. CASE v = m
    BY <1>1, <1>2, <2>3
  <2>4. CASE v # m
    BY <1>1, <2>1, <2>4 DEF PushedInv, AskersAreTold
  <2>5. QED
    BY <2>3, <2>4
<1>5. QED
  BY <1>3, <1>4

\* How the sends of each bot may end.
LEMMA WaysToEnd ==
    ASSUME NEW way \in Sendings(SlackSays)
    PROVE  /\ way.arrives \/ way.throws
           /\ way.arrives /\ way.throws => bot.platform = "slack"
<1>1. CASE bot.platform = "slack"
  <2>1. Sendings(SlackSays) = SlackSays
    BY <1>1 DEF Sendings
  <2>2. QED
    BY <1>1, <2>1 DEF SlackSays, Sent, Thrown
<1>2. CASE bot.platform # "slack"
  <2>1. Sendings(SlackSays) \subseteq {Sent, Thrown}
    <3>1. CASE bot.platform = "discord"
      BY <3>1 DEF Sendings, DiscordSends
    <3>2. CASE bot.platform = "feishu"
      BY <3>2 DEF Sendings, FeishuSends
    <3>3. CASE bot.platform = "wecom"
      BY <3>3 DEF Sendings, WecomSends
    <3>4. CASE bot.platform \notin {"slack", "discord", "feishu", "wecom"}
      BY <3>4 DEF Sendings, DingTalkSends
    <3>5. QED
      BY <1>2, <3>1, <3>2, <3>3, <3>4
  <2>2. way = Sent \/ way = Thrown
    BY <2>1
  <2>3. QED
    BY <2>2 DEF Sent, Thrown
<1>3. QED
  BY <1>1, <1>2

\* A handler sends a text: the first unless one was missed, and then the last.
LEMMA SendingStep ==
    ASSUME PushedInv, NEW m \in DOMAIN posts, NEW way \in Sendings(SlackSays), Tells(m, way),
           NEW goal \in {"closing", "over"}, GoTo(m, goal), goal = "closing" => way.throws,
           stage[m] \in {"replying", "telling"} \/ (stage[m] = "closing" /\ goal = "over")
    PROVE  TellingFits' /\ AskersAreTold'
<1>1. /\ bot' = bot /\ posts' = posts
      /\ stage'[m] = goal /\ \A v \in DOMAIN posts : v # m => stage'[v] = stage[v]
  BY PostsAre DEF GoTo, Tells
<1>2. \A v \in DOMAIN posts : v # m => told'[v] = told[v] /\ missed'[v] = missed[v]
  BY PostsAre DEF Tells
<1>3. told'[m] = IF way.arrives THEN told[m] + 1 ELSE told[m]
  BY PostsAre DEF Tells
<1>4. missed'[m] = (missed[m] \/ way.throws)
  BY PostsAre DEF Tells
<1>5. /\ way.arrives \/ way.throws
      /\ way.arrives /\ way.throws => bot.platform = "slack"
  BY WaysToEnd
<1>6. \/ told[m] = 0
      \/ told[m] = 1 /\ missed[m] /\ bot.platform = "slack" /\ goal = "over"
  <2>1. CASE stage[m] \in {"replying", "telling"}
    BY <2>1 DEF PushedInv, TellingFits, Stages
  <2>2. CASE stage[m] = "closing" /\ goal = "over"
    BY <2>2 DEF PushedInv, TellingFits
  <2>3. QED
    BY <2>1, <2>2
<1>7. /\ goal = "closing" => told'[m] = 0 \/ (told'[m] = 1 /\ missed'[m] /\ bot.platform = "slack")
      /\ told'[m] > 1 => bot.platform = "slack" /\ missed'[m]
  <2>1. CASE told[m] = 0
    <3>1. told'[m] = 0 \/ told'[m] = 1
      BY <1>3, <2>1
    <3>2. goal = "closing" /\ told'[m] = 1 => way.arrives /\ way.throws
      BY <1>3, <2>1
    <3>3. way.throws => missed'[m]
      BY <1>4
    <3>4. QED
      BY <1>5, <3>1, <3>2, <3>3
  <2>2. CASE told[m] = 1 /\ missed[m] /\ bot.platform = "slack" /\ goal = "over"
    BY <1>4, <2>2
  <2>3. QED
    BY <1>6, <2>1, <2>2
<1>8. ~missed'[m] => told'[m] = 1
  <2>1. SUFFICES ASSUME ~missed'[m] PROVE told'[m] = 1
    OBVIOUS
  <2>2. ~missed[m] /\ ~way.throws
    BY <1>4, <2>1
  <2>3. QED
    BY <1>3, <1>5, <1>6, <2>2
<1>9. TellingFits'
  BY <1>1, <1>2, <1>7 DEF PushedInv, TellingFits
<1>10. AskersAreTold'
  <2>1. \A p : Hears(p)' = Hears(p)
    BY <1>1, KeysRest
  <2>2. SUFFICES ASSUME NEW v \in DOMAIN posts
                 PROVE  /\ told'[v] > 1 => bot.platform = "slack" /\ missed'[v]
                        /\ stage'[v] = "over" /\ ~missed'[v] /\ Hears(posts[v])'
                           /\ posts[v].text = "ask" => told'[v] = 1
    BY <1>1 DEF AskersAreTold
  <2>3. CASE v = m
    BY <1>7, <1>8, <2>3
  <2>4. CASE v # m
    BY <1>1, <1>2, <2>1, <2>4 DEF PushedInv, AskersAreTold
  <2>5. QED
    BY <2>3, <2>4
<1>11. QED
  BY <1>9, <1>10

\* What a restart makes of what was stored is the route of the post it was stored for.
LEMMA LoadsTheRoute ==
    ASSUME PushedInv, NEW k \in DOMAIN kept, NEW m \in DOMAIN posts, KeyOf(m) = k,
           kept[k].route = Route(posts[m])
    PROVE  Loads(k, kept[k]) = Route(posts[m])
<1>1. /\ bot.platform \in {"slack", "discord", "feishu", "wecom", "dingtalk"}
      /\ k = Key(posts[m])
  BY PushedBotsAssumption DEF PushedInv, FeedFits, KeyOf
<1>2. CASE bot.platform = "slack"
  BY <1>2 DEF Loads, SlackLoads, Route, SlackRoute
<1>3. CASE bot.platform = "feishu"
  BY <1>3 DEF Loads, FeishuLoads, Route, FeishuRoute
<1>4. CASE bot.platform = "wecom"
  BY <1>4 DEF Loads, WecomLoads, Route, WecomRoute
<1>5. CASE bot.platform = "discord"
  <2>1. k = <<posts[m].place>> /\ Loads(k, kept[k]) = [place |-> k[1]]
        /\ Route(posts[m]) = [place |-> posts[m].place]
    BY <1>1, <1>5 DEF Loads, DiscordLoads, Route, DiscordRoute, Key
  <2>2. QED
    BY <2>1
<1>6. CASE bot.platform = "dingtalk"
  <2>1. k = <<posts[m].place>> /\ Loads(k, kept[k]) = [place |-> k[1]]
        /\ Route(posts[m]) = [place |-> posts[m].place]
    BY <1>1, <1>6 DEF Loads, DingTalkLoads, Route, DingTalkRoute, Key
  <2>2. QED
    BY <2>1
<1>7. QED
  BY <1>1, <1>2, <1>3, <1>4, <1>5, <1>6

LEMMA PushedRebootsInv ==
    ASSUME PushedInv, Reboots
    PROVE  PushedInv'
<1>1. /\ bot' = bot /\ posts' = posts /\ behind' = behind /\ talk' = talk /\ kept' = kept
      /\ told' = told /\ missed' = missed
      /\ newest' = NoMap /\ waitingFor' = NoMap /\ routes' = Relearnt(kept)
      /\ stage' = [m \in DOMAIN stage |-> IF stage[m] = "over" THEN "over" ELSE "gone"]
      /\ reboots' \in 0..MaxReboots
  BY PushedBotsAssumption DEF Reboots, PushedInv, FeedFits
<1>2. \A m \in DOMAIN posts : /\ stage'[m] \in {"over", "gone"}
                              /\ stage'[m] = "over" => stage[m] = "over"
  BY <1>1, PostsAre
<1>3. \A m \in DOMAIN posts : ~Live(m)' /\ ~Begun(m)'
  BY <1>2 DEF Live, Begun
<1>4. \A p : Key(p)' = Key(p) /\ Route(p)' = Route(p) /\ Hears(p)' = Hears(p)
  BY <1>1, KeysRest
<1>5. \A m : KeyOf(m)' = KeyOf(m) /\ Route(posts[m])' = Route(posts[m])
  BY <1>1, <1>4 DEF KeyOf
<1>6. DOMAIN NoMap = {}
  BY DEF NoMap
<1>7. FeedFits'
  <2>1. stage' \in Seq(Stages) /\ Len(stage') = Len(posts)
    <3>1. \A m \in 1..Len(posts) : (IF stage[m] = "over" THEN "over" ELSE "gone") \in Stages
      BY DEF Stages
    <3>2. DOMAIN stage = 1..Len(posts) /\ Len(posts) \in Nat
      BY PostsAre
    <3>3. stage' = [m \in 1..Len(posts) |-> IF stage[m] = "over" THEN "over" ELSE "gone"]
      BY <1>1, <3>2
    <3>4. QED
      BY <3>1, <3>2, <3>3
  <2>2. QED
    BY <1>1, <2>1 DEF PushedInv, FeedFits
<1>8. TalkFits'
  <2>1. SUFFICES ASSUME NEW m \in DOMAIN posts
                 PROVE  talk[m] # 0 => talk[m] \in DOMAIN posts /\ KeyOf(talk[m])' = KeyOf(m)'
    BY <1>1, <1>2 DEF TalkFits
  <2>2. KeyOf(talk[m])' = KeyOf(talk[m])
    BY <1>1, <1>4 DEF KeyOf
  <2>3. QED
    BY <1>5, <2>2 DEF PushedInv, TalkFits
<1>9. KeptFits'
  BY <1>1, <1>5 DEF PushedInv, KeptFits
<1>10. RoutesFit'
  <2>1. SUFFICES ASSUME NEW s \in DOMAIN Relearnt(kept)
                 PROVE  \E m \in DOMAIN posts : talk[m] = s /\ s # 0 /\ Relearnt(kept)[s] = Route(posts[m])
    BY <1>1, <1>5 DEF RoutesFit
  <2>2. PICK k \in Holders(kept, s) : Relearnt(kept)[s] = Loads(k, kept[k])
    <3>1. s \in {kept[k].session : k \in DOMAIN kept}
      BY DEF Relearnt
    <3>2. Holders(kept, s) # {}
      BY <3>1 DEF Holders
    <3>3. (CHOOSE k \in Holders(kept, s) : TRUE) \in Holders(kept, s)
      BY <3>2
    <3>4. QED
      BY <3>1, <3>3 DEF Relearnt
  <2>3. k \in DOMAIN kept /\ kept[k].session = s
    BY DEF Holders
  <2>4. PICK m \in DOMAIN posts :
          /\ talk[m] = kept[k].session /\ talk[m] # 0 /\ KeyOf(m) = k
          /\ kept[k] = [session |-> talk[m], route |-> Route(posts[m])]
    BY <2>3 DEF PushedInv, KeptFits
  <2>5. kept[k].route = Route(posts[m])
    BY <2>4
  <2>6. QED
    BY <2>2, <2>3, <2>4, <2>5, LoadsTheRoute
<1>11. LinesFit' /\ ChainsHold' /\ FirstInLineRuns'
  BY <1>1, <1>2, <1>3, <1>6 DEF LinesFit, ChainsHold, FirstInLineRuns
<1>12. CountsFit'
  <2>1. \A k : InLine(k)' = {}
    BY <1>1, <1>3 DEF InLine
  <2>2. \A k : Count(k)' = 0
    BY <1>1, <1>6 DEF Count
  <2>3. Cardinality({}) = 0
    BY FS_EmptySet
  <2>4. QED
    BY <1>1, <1>6, <2>1, <2>2, <2>3 DEF CountsFit
<1>13. TellingFits'
  BY <1>1, <1>2 DEF TellingFits
<1>14. AskersAreTold'
  <2>1. SUFFICES ASSUME NEW v \in DOMAIN posts
                 PROVE  /\ told[v] > 1 => bot.platform = "slack" /\ missed[v]
                        /\ stage'[v] = "over" /\ ~missed[v] /\ Hears(posts[v])'
                           /\ posts[v].text = "ask" => told[v] = 1
    BY <1>1 DEF AskersAreTold
  <2>2. QED
    BY <1>1, <1>2, <1>4 DEF PushedInv, AskersAreTold
<1>15. QED
  BY <1>7, <1>8, <1>9, <1>10, <1>11, <1>12, <1>13, <1>14 DEF PushedInv

LEMMA PushedInitInv ==
    ASSUME PushedBotsInit
    PROVE  PushedInv
<1>1. /\ bot \in Bots /\ reboots = 0
      /\ posts = <<>> /\ stage = <<>> /\ behind = <<>> /\ talk = <<>> /\ told = <<>> /\ missed = <<>>
      /\ newest = NoMap /\ waitingFor = NoMap /\ kept = NoMap /\ routes = NoMap
  BY DEF PushedBotsInit
<1>2. DOMAIN NoMap = {} /\ DOMAIN posts = {} /\ Cardinality({}) = 0
  BY <1>1, FS_EmptySet DEF NoMap
<1>3. FeedFits
  BY <1>1, PushedBotsAssumption DEF FeedFits
<1>4. /\ TalkFits /\ KeptFits /\ RoutesFit /\ LinesFit /\ ChainsHold /\ FirstInLineRuns
      /\ TellingFits /\ AskersAreTold
  BY <1>1, <1>2 DEF TalkFits, KeptFits, RoutesFit, LinesFit, ChainsHold, FirstInLineRuns,
                    TellingFits, AskersAreTold
<1>5. CountsFit
  BY <1>1, <1>2 DEF CountsFit, KeysInUse
<1>6. QED
  BY <1>3, <1>4, <1>5 DEF PushedInv

LEMMA PushedArrivalInv ==
    ASSUME PushedInv, NEW p \in PostsOf(bot.platform),
           PassesOver(p) \/ SlackCommand(p) \/ TurnsDown(p) \/ Chains(p)
    PROVE  PushedInv'
<1>1. CASE PassesOver(p)
  <2>1. ~Hears(p) /\ Arrives(p, "over", 0) /\ UNCHANGED <<newest, waitingFor>>
    BY <1>1 DEF PassesOver
  <2>2. "over" \in Stages /\ 0 \in Nat
    BY DEF Stages
  <2>3. QED
    BY <2>1, <2>2, ArrivalApart, ArrivalTells, OutOfLine DEF PushedInv
<1>2. CASE SlackCommand(p) \/ TurnsDown(p)
  <2>1. Arrives(p, "telling", 0) /\ UNCHANGED <<newest, waitingFor>>
    BY <1>2 DEF SlackCommand, TurnsDown
  <2>2. "telling" \in Stages /\ 0 \in Nat
    BY DEF Stages
  <2>3. QED
    BY <2>1, <2>2, ArrivalApart, ArrivalTells, OutOfLine DEF PushedInv
<1>3. CASE Chains(p)
  <2>1. PICK after : after = IF Key(p) \in DOMAIN newest THEN newest[Key(p)] ELSE 0
    OBVIOUS
  <2>2. after \in Nat /\ Arrives(p, "chained", after)
    <3>1. Key(p) \in DOMAIN newest => newest[Key(p)] \in DOMAIN posts
      BY DEF PushedInv, LinesFit, InLine
    <3>2. QED
      BY <1>3, <2>1, <3>1, PostsAre DEF Chains
  <2>3. "chained" \in Stages
    BY DEF Stages
  <2>4. TalkFits' /\ KeptFits' /\ RoutesFit' /\ FeedFits'
    BY <2>2, <2>3, ArrivalApart
  <2>5. TellingFits' /\ AskersAreTold'
    BY <2>2, ArrivalTells
  <2>6. LinesFit' /\ ChainsHold' /\ FirstInLineRuns' /\ CountsFit'
    BY <1>3, ChainingLines
  <2>7. QED
    BY <2>4, <2>5, <2>6 DEF PushedInv
<1>4. QED
  BY <1>1, <1>2, <1>3

\* What every step of a handler keeps.
LEMMA HandlersFit ==
    ASSUME PushedInv, NEW m \in DOMAIN posts, NEW goal \in Stages, GoTo(m, goal),
           UNCHANGED <<bot, posts, reboots, behind>>,
           talk' \in Seq(Nat), Len(talk') = Len(talk),
           told' \in Seq(Nat), Len(told') = Len(told),
           missed' \in Seq(BOOLEAN), Len(missed') = Len(missed)
    PROVE  FeedFits'
<1>1. stage' \in Seq(Stages) /\ Len(stage') = Len(stage)
  BY DEF GoTo, PushedInv, FeedFits
<1>2. QED
  BY <1>1 DEF PushedInv, FeedFits

LEMMA PushedHandlesInv ==
    ASSUME PushedInv, NEW m \in DOMAIN posts, Handles(m)
    PROVE  PushedInv'
<1>1. /\ Ready(m) /\ UNCHANGED <<bot, posts, placeVars, endVars, reboots>>
      /\ \/ posts[m].text = "blank" /\ GoTo(m, "over") /\ Leaves(KeyOf(m), m)
         \/ \E goal \in {"closing", "limited"} : GoTo(m, goal) /\ UNCHANGED lineVars
  <2>1. CASE bot.platform # "slack" /\ posts[m].text = "blank"
    BY <2>1 DEF Handles, KeyOf
  <2>2. CASE bot.platform # "slack" /\ posts[m].text = "test"
    BY <2>2 DEF Handles
  <2>3. CASE ~(bot.platform # "slack" /\ posts[m].text \in {"blank", "test"})
    BY <2>3 DEF Handles
  <2>4. QED
    BY <2>1, <2>2, <2>3
<1>2. PICK goal \in {"over", "closing", "limited"} :
        /\ GoTo(m, goal)
        /\ goal = "over" => posts[m].text = "blank" /\ Leaves(KeyOf(m), m)
        /\ goal # "over" => UNCHANGED lineVars
  BY <1>1
<1>3. goal \in Stages /\ goal # "gone" /\ stage[m] = "chained" /\ stage[m] \notin {"closing", "over", "gone", "telling"}
  BY <1>1 DEF Ready, Stages
<1>4. TellingFits' /\ AskersAreTold'
  BY <1>1, <1>2, <1>3, SilentStep
<1>5. /\ stage'[m] = goal /\ \A v \in DOMAIN posts : v # m => stage'[v] = stage[v]
  BY <1>2, PostsAre DEF GoTo
<1>6. TalkFits' /\ KeptFits' /\ RoutesFit'
  BY <1>1, <1>3, <1>5, TalkRests
<1>7. FeedFits'
  <2>1. behind' = behind /\ talk' = talk /\ told' = told /\ missed' = missed
    BY <1>1, <1>2 DEF Leaves, lineVars, placeVars, endVars
  <2>2. QED
    BY <1>1, <1>2, <1>3, <2>1, HandlersFit DEF PushedInv, FeedFits
<1>8. LinesFit' /\ ChainsHold' /\ FirstInLineRuns' /\ CountsFit'
  <2>1. CASE goal = "over"
    BY <1>1, <1>2, <2>1, LeavingTheLine
  <2>2. CASE goal # "over"
    BY <1>1, <1>2, <2>2, MovingInLine
  <2>3. QED
    BY <2>1, <2>2
<1>9. QED
  BY <1>4, <1>6, <1>7, <1>8 DEF PushedInv

\* The steps of a handler that neither send nor use a session.
LEMMA PushedMovesInv ==
    ASSUME PushedInv, NEW m \in DOMAIN posts,
           LimiterFull(m) \/ Creates(m) \/ SessionNotMade(m) \/ LinkShared(m) \/ Prompted(m)
    PROVE  PushedInv'
<1>1. PICK goal \in {"closing", "creating", "replying", "asking"} :
        /\ GoTo(m, goal) /\ stage[m] \in {"limited", "creating", "sharing", "asking"}
        /\ goal = "creating" => stage[m] = "limited"
        /\ UNCHANGED <<bot, posts, lineVars, placeVars, endVars, reboots>>
  BY DEF LimiterFull, Creates, SessionNotMade, LinkShared, Prompted
<1>2. /\ goal \in Stages /\ goal # "gone" /\ goal # "over" /\ Begun(m)
      /\ stage[m] \notin {"closing", "over", "gone", "telling"}
  BY <1>1 DEF Begun, Stages
<1>3. TellingFits' /\ AskersAreTold'
  BY <1>1, <1>2, SilentStep
<1>4. /\ stage'[m] = goal /\ \A v \in DOMAIN posts : v # m => stage'[v] = stage[v]
  BY <1>1, PostsAre DEF GoTo
<1>5. TalkFits' /\ KeptFits' /\ RoutesFit'
  BY <1>1, <1>4, TalkRests
<1>6. FeedFits'
  <2>1. behind' = behind /\ talk' = talk /\ told' = told /\ missed' = missed
    BY <1>1 DEF lineVars, placeVars, endVars
  <2>2. QED
    BY <1>1, <1>2, <2>1, HandlersFit DEF PushedInv, FeedFits
<1>7. LinesFit' /\ ChainsHold' /\ FirstInLineRuns' /\ CountsFit'
  BY <1>1, <1>2, MovingInLine
<1>8. QED
  BY <1>3, <1>5, <1>6, <1>7 DEF PushedInv

LEMMA PushedRemembersInv ==
    ASSUME PushedInv, NEW m \in DOMAIN posts, Resumes(m) \/ SessionMade(m)
    PROVE  PushedInv'
<1>1. PICK goal \in {"asking", "sharing"}, s \in DOMAIN posts :
        /\ GoTo(m, goal) /\ stage[m] \in {"limited", "creating"}
        /\ KeyOf(s) = KeyOf(m) /\ Remembers(m, s)
        /\ UNCHANGED <<bot, posts, lineVars, endVars, reboots>>
  <2>1. CASE Resumes(m)
    <3>1. KeyOf(m) \in DOMAIN kept /\ Remembers(m, kept[KeyOf(m)].session)
      BY <2>1 DEF Resumes, KeyOf
    <3>2. PICK w \in DOMAIN posts :
            talk[w] = kept[KeyOf(m)].session /\ talk[w] # 0 /\ KeyOf(w) = KeyOf(m)
      BY <3>1 DEF PushedInv, KeptFits
    <3>3. talk[w] \in DOMAIN posts /\ KeyOf(talk[w]) = KeyOf(m)
      BY <3>2 DEF PushedInv, TalkFits
    <3>4. QED
      BY <2>1, <3>1, <3>2, <3>3 DEF Resumes
  <2>2. CASE SessionMade(m)
    BY <2>2 DEF SessionMade
  <2>3. QED
    BY <2>1, <2>2
<1>2. /\ goal \in Stages /\ goal # "gone" /\ goal # "over" /\ Begun(m)
      /\ stage[m] \notin {"closing", "over", "gone", "telling"}
  BY <1>1 DEF Begun, Stages
<1>3. TellingFits' /\ AskersAreTold'
  BY <1>1, <1>2, SilentStep
<1>4. /\ stage'[m] = goal /\ \A v \in DOMAIN posts : v # m => stage'[v] = stage[v]
  BY <1>1, PostsAre DEF GoTo
<1>5. TalkFits' /\ KeptFits' /\ RoutesFit'
  <2>1. talk[m] = 0
    BY <1>1 DEF PushedInv, TalkFits
  <2>2. QED
    BY <1>1, <1>4, <2>1, RemembersFits
<1>6. FeedFits'
  <2>1. behind' = behind /\ told' = told /\ missed' = missed
    BY <1>1 DEF lineVars, endVars
  <2>2. talk' \in Seq(Nat) /\ Len(talk') = Len(talk)
    <3>1. talk' = [talk EXCEPT ![m] = s] /\ s \in Nat
      BY <1>1, PostsAre DEF Remembers
    <3>2. QED
      BY <3>1 DEF PushedInv, FeedFits
  <2>3. QED
    BY <1>1, <1>2, <2>1, <2>2, HandlersFit DEF PushedInv, FeedFits
<1>7. LinesFit' /\ ChainsHold' /\ FirstInLineRuns' /\ CountsFit'
  BY <1>1, <1>2, MovingInLine
<1>8. QED
  BY <1>3, <1>5, <1>6, <1>7 DEF PushedInv

LEMMA PushedSendsInv ==
    ASSUME PushedInv, NEW m \in DOMAIN posts, NEW way \in Sendings(SlackSays),
           Replies(m, way) \/ Closes(m, way) \/ TellsOnly(m, way)
    PROVE  PushedInv'
<1>1. PICK goal \in {"closing", "over"} :
        /\ GoTo(m, goal)
        /\ stage[m] \in {"replying", "telling"} \/ (stage[m] = "closing" /\ goal = "over")
        /\ IF stage[m] = "telling" \/ goal = "closing" THEN UNCHANGED lineVars ELSE Leaves(KeyOf(m), m)
        /\ stage[m] = "telling" => goal = "over"
        /\ Tells(m, way)
  BY DEF Replies, Closes, TellsOnly, KeyOf
<1>2. TellingFits' /\ AskersAreTold'
  <2>1. goal = "closing" => way.throws
    <3>1. stage'[m] = goal
      BY <1>1, PostsAre DEF GoTo
    <3>2. ~way.throws => GoTo(m, "over")
      BY DEF Replies, Closes, TellsOnly
    <3>3. GoTo(m, "over") => stage'[m] = "over"
      BY PostsAre DEF GoTo
    <3>4. QED
      BY <3>1, <3>2, <3>3
  <2>2. QED
    BY <1>1, <2>1, SendingStep
<1>3. /\ stage'[m] = goal /\ \A v \in DOMAIN posts : v # m => stage'[v] = stage[v]
  BY <1>1, PostsAre DEF GoTo
<1>4. UNCHANGED <<bot, posts, placeVars, reboots, behind>>
  BY <1>1 DEF Tells, lineVars, Leaves
<1>5. TalkFits' /\ KeptFits' /\ RoutesFit'
  BY <1>1, <1>3, <1>4, TalkRests
<1>6. FeedFits'
  <2>1. told' \in Seq(Nat) /\ Len(told') = Len(told)
    <3>1. PICK count \in Nat : told' = [told EXCEPT ![m] = count]
      <4>1. told[m] \in Nat /\ told[m] + 1 \in Nat
        BY PostsAre
      <4>2. QED
        BY <1>1, <4>1 DEF Tells
    <3>2. QED
      BY <3>1 DEF PushedInv, FeedFits
  <2>2. missed' \in Seq(BOOLEAN) /\ Len(missed') = Len(missed)
    <3>1. PICK yes \in BOOLEAN : missed' = [missed EXCEPT ![m] = yes]
      BY <1>1 DEF Tells
    <3>2. QED
      BY <3>1 DEF PushedInv, FeedFits
  <2>3. talk' = talk /\ goal \in Stages
    BY <1>4 DEF placeVars, Stages
  <2>4. QED
    BY <1>1, <1>4, <2>1, <2>2, <2>3, HandlersFit DEF PushedInv, FeedFits
<1>7. LinesFit' /\ ChainsHold' /\ FirstInLineRuns' /\ CountsFit'
  <2>1. CASE stage[m] = "telling"
    <3>1. goal = "over" /\ UNCHANGED lineVars
      BY <1>1, <2>1
    <3>2. \A v \in DOMAIN posts : KeyOf(v)' = KeyOf(v)
      BY <1>4, KeysRest DEF KeyOf
    <3>3. ~Live(m)' /\ ~Begun(m)' /\ ~Live(m) /\ stage'[m] # "chained"
      BY <1>3, <2>1, <3>1 DEF Live, Begun
    <3>4. \A v \in DOMAIN posts : v # m => (Live(v)' <=> Live(v)) /\ (Begun(v)' <=> Begun(v))
      BY <1>3 DEF Live, Begun
    <3>5. QED
      BY <1>3, <1>4, <2>1, <3>1, <3>2, <3>3, <3>4, LinesRest DEF lineVars
  <2>2. CASE stage[m] # "telling" /\ goal = "closing"
    <3>1. Begun(m)
      BY <1>1, <2>2 DEF Begun
    <3>2. QED
      BY <1>1, <1>4, <2>2, <3>1, MovingInLine
  <2>3. CASE stage[m] # "telling" /\ goal = "over"
    <3>1. Begun(m)
      BY <1>1, <2>3 DEF Begun
    <3>2. QED
      BY <1>1, <1>4, <2>3, <3>1, LeavingTheLine
  <2>4. QED
    BY <2>1, <2>2, <2>3
<1>8. QED
  BY <1>2, <1>5, <1>6, <1>7 DEF PushedInv

LEMMA PushedStutterInv ==
    ASSUME PushedInv, UNCHANGED pushedVars
    PROVE  PushedInv'
<1>1. UNCHANGED <<bot, posts, stage, behind, newest, waitingFor, kept, routes, talk, told, missed,
                  reboots>>
  BY DEF pushedVars
<1>2. FeedFits' /\ TellingFits'
  BY <1>1 DEF PushedInv, FeedFits, TellingFits
<1>3. \A m \in DOMAIN posts : /\ KeyOf(m)' = KeyOf(m)
                              /\ (Live(m)' <=> Live(m)) /\ (Begun(m)' <=> Begun(m))
  BY <1>1, KeysRest DEF KeyOf, Live, Begun
<1>4. TalkFits' /\ KeptFits' /\ RoutesFit'
  BY <1>1, TalkRests DEF placeVars
<1>5. LinesFit' /\ ChainsHold' /\ FirstInLineRuns' /\ CountsFit'
  BY <1>1, <1>3, LinesRest
<1>6. AskersAreTold'
  BY <1>1, KeysRest DEF PushedInv, AskersAreTold
<1>7. QED
  BY <1>2, <1>4, <1>5, <1>6 DEF PushedInv

LEMMA PushedStepInv ==
    ASSUME PushedInv, [PushedBotsNext]_pushedVars
    PROVE  PushedInv'
<1>1. CASE \E p \in PostsOf(bot.platform) : PassesOver(p) \/ SlackCommand(p) \/ TurnsDown(p) \/ Chains(p)
  BY <1>1, PushedArrivalInv
<1>2. CASE \E m \in DOMAIN posts :
             \/ Handles(m) \/ LimiterFull(m) \/ Resumes(m) \/ Creates(m)
             \/ SessionMade(m) \/ SessionNotMade(m) \/ LinkShared(m) \/ Prompted(m)
             \/ \E way \in Sendings(SlackSays) : Replies(m, way) \/ Closes(m, way) \/ TellsOnly(m, way)
  BY <1>2, PushedHandlesInv, PushedMovesInv, PushedRemembersInv, PushedSendsInv
<1>3. CASE Reboots
  BY <1>3, PushedRebootsInv
<1>4. CASE UNCHANGED pushedVars
  BY <1>4, PushedStutterInv
<1>5. QED
  BY <1>1, <1>2, <1>3, <1>4 DEF PushedBotsNext

\* The invariant has what is promised: one key is one conversation.
LEMMA PushedInvServes ==
    ASSUME PushedInv
    PROVE  PushedChatsAreServed
<1>1. \A m, n \in DOMAIN posts : KeyOf(m) = KeyOf(n) <=> SameConversation(posts[m], posts[n])
  BY PostsAre, KeysAreConversations DEF KeyOf, PushedInv, FeedFits
<1>2. SessionsStayApart
  <2>1. \A m, n \in DOMAIN posts :
           talk[m] # 0 /\ talk[m] = talk[n] => SameConversation(posts[m], posts[n])
    <3>1. \A m \in DOMAIN posts : talk[m] # 0 => KeyOf(talk[m]) = KeyOf(m)
      BY DEF PushedInv, TalkFits
    <3>2. QED
      BY <1>1, <3>1
  <2>2. \A s \in DOMAIN routes :
           ReportGoesTo(s) \subseteq {SpeaksTo(Route(posts[m])) : m \in {x \in DOMAIN posts : talk[x] = s}}
    <3>1. SUFFICES ASSUME NEW s \in DOMAIN routes
                   PROVE  \E m \in DOMAIN posts : talk[m] = s /\ SpeaksTo(routes[s]) = SpeaksTo(Route(posts[m]))
      BY DEF ReportGoesTo
    <3>2. QED
      BY DEF PushedInv, RoutesFit
  <2>3. QED
    BY <2>1, <2>2 DEF SessionsStayApart
<1>3. ConversationsTakeTurns
  <2>1. SUFFICES ASSUME NEW m \in DOMAIN posts, NEW n \in DOMAIN posts, m < n,
                        SameConversation(posts[m], posts[n]),
                        stage[m] \in Stages \ {"telling", "over", "gone"}, Begun(n)
                 PROVE  FALSE
    <3>1. \A k : InLine(k) = {m \in DOMAIN posts : (stage[m] = "chained" \/ Begun(m)) /\ Key(posts[m]) = k}
      BY DEF InLine, Live, KeyOf
    <3>2. \A k : Count(k) = Cardinality({m \in DOMAIN posts :
                                (stage[m] = "chained" \/ Begun(m)) /\ Key(posts[m]) = k})
      BY <3>1, AllCountsAreTrue
    <3>3. QED
      BY <2>1, <3>2 DEF ConversationsTakeTurns
  <2>2. m \in Mates(n)
    BY <1>1, <2>1 DEF Mates, Live, Begun, Stages
  <2>3. n <= m
    BY <2>1, <2>2 DEF PushedInv, FirstInLineRuns
  <2>4. QED
    BY <2>1, <2>3, PostsAre
<1>4. QED
  BY <1>2, <1>3 DEF PushedChatsAreServed, PushedInv

(***************************************************************************)
(* The bots that are pushed their messages answer each where it was asked, *)
(* one at a time in a conversation and in its order; what they know of a   *)
(* conversation after a restart is what they knew before it.               *)
(***************************************************************************)
THEOREM PushedChatsStayServed == PushedBotsSpec => []PushedChatsAreServed
<1>1. PushedBotsInit => PushedInv
  BY PushedInitInv
<1>2. PushedInv /\ [PushedBotsNext]_pushedVars => PushedInv'
  BY PushedStepInv
<1>3. PushedInv => PushedChatsAreServed
  BY PushedInvServes
<1>4. QED
  BY <1>1, <1>2, <1>3, PTL DEF PushedBotsSpec

(***************************************************************************)
(* The bodies.                                                             *)
(***************************************************************************)

\* The greater of two numbers.
LEMMA MaxOfTwo ==
    ASSUME NEW a \in Int, NEW b \in Int
    PROVE  \A c \in Int : Max({a, b}) > c <=> a > c \/ b > c
<1>1. \E x \in {a, b} : \A y \in {a, b} : x >= y
  OBVIOUS
<1>2. Max({a, b}) \in {a, b} /\ \A y \in {a, b} : Max({a, b}) >= y
  BY <1>1 DEF Max
<1>3. QED
  BY <1>2

LEMMA HttpBodyInitInv == HttpBodyInit => HttpBodyInv
<1>1. SUFFICES ASSUME HttpBodyInit PROVE HttpBodyInv
  OBVIOUS
<1>2. /\ DOMAIN response = {"declared", "sent", "ended"}
      /\ response.declared \in {Unknown} \cup 0..MaxSent /\ response.sent = 0 /\ response.ended = "no"
  BY <1>1 DEF HttpBodyInit
<1>3. /\ DOMAIN reading = {"pc", "reader", "limit", "kept", "cut", "drained", "result"}
      /\ reading.pc = "start" /\ reading.reader \in Readers /\ LimitFits
      /\ reading.kept = 0 /\ reading.drained = 0 /\ reading.result = "none"
  BY <1>1 DEF HttpBodyInit
<1>4. reading.cut \in BOOLEAN
  BY <1>1 DEF HttpBodyInit
<1>5. /\ MaxSent \in Nat /\ MaxChunk \in Nat \ {0} /\ DrainLimit \in Nat
      /\ reading.limit # Unlimited => reading.limit \in Nat
  BY <1>3, HttpBodyAssumption DEF LimitFits
<1>6. HttpBodyFits
  BY <1>2, <1>3, <1>4, <1>5 DEF HttpBodyFits, Unknown
<1>7. ReaderHasAll /\ StopsAreTrue
  BY <1>2, <1>3 DEF ReaderHasAll, StopsAreTrue
<1>8. KeptWithinLimit /\ ReadOnlyForMore
  BY <1>2, <1>3, <1>5 DEF KeptWithinLimit, ReadOnlyForMore
<1>9. QED
  BY <1>6, <1>7, <1>8 DEF HttpBodyInv

\* A reader whose limit is a number.
HasLimit == reading.limit \in Nat /\ reading.reader # "drained"

\* The numbers of a state.
LEMMA BodyFacts ==
    ASSUME HttpBodyInv
    PROVE  /\ MaxSent \in Nat /\ MaxChunk \in Nat \ {0} /\ DrainLimit \in Nat
           /\ response.sent \in 0..MaxSent /\ response.declared \in {-1} \cup 0..MaxSent
           /\ response.declared \in Int /\ response.sent \in Int
           /\ reading.limit \in Int /\ reading.kept \in Nat /\ reading.drained \in Nat
           /\ HasLimit => reading.limit \in Nat /\ reading.limit # Unlimited
           /\ ~HasLimit => reading.limit = Unlimited /\ reading.reader \in {"written", "drained"}
           /\ reading.reader \in Readers
<1>1. /\ response.declared \in {Unknown} \cup 0..MaxSent /\ response.sent \in 0..MaxSent
      /\ reading.reader \in Readers /\ LimitFits
      /\ reading.kept \in Nat /\ reading.drained \in Nat
  BY DEF HttpBodyInv, HttpBodyFits
<1>2. /\ MaxSent \in Nat /\ MaxChunk \in Nat \ {0} /\ DrainLimit \in Nat /\ BodyLimits \subseteq Nat
  BY HttpBodyAssumption
<1>3. /\ reading.limit \in Int
      /\ HasLimit => reading.limit \in Nat /\ reading.limit # Unlimited
      /\ ~HasLimit => reading.limit = Unlimited /\ reading.reader \in {"written", "drained"}
  <2>1. CASE reading.limit \in BodyLimits
    <3>0. reading.limit \in Nat
      BY <1>2, <2>1
    <3>1. reading.limit \in Nat /\ reading.limit # -1
      BY <3>0
    <3>2. reading.reader # "drained"
      BY <1>1, <3>1 DEF LimitFits, Unlimited
    <3>3. QED
      BY <3>1, <3>2 DEF HasLimit, Unlimited
  <2>2. CASE reading.limit = Unlimited
    <3>1. reading.limit = -1 /\ -1 \notin Nat /\ -1 \in Int
      BY <2>2 DEF Unlimited
    <3>2. reading.reader \in {"written", "drained"}
      BY <1>1, <2>2 DEF LimitFits
    <3>3. QED
      BY <2>2, <3>1, <3>2 DEF HasLimit
  <2>3. QED
    BY <1>1, <2>1, <2>2 DEF LimitFits
<1>4. response.declared \in {-1} \cup 0..MaxSent /\ response.declared \in Int /\ response.sent \in Int
  BY <1>1, <1>2 DEF Unknown
<1>5. QED
  BY <1>1, <1>2, <1>3, <1>4

\* What the outcomes of a reader leave in its fields.
LEMMA OutcomesAre ==
    ASSUME HttpBodyInv, NEW result
    PROVE  /\ DOMAIN reading = {"pc", "reader", "limit", "kept", "cut", "drained", "result"}
           /\ LET r == Drains(result)
              IN /\ DOMAIN r = DOMAIN reading
                 /\ r.pc = IF DrainLimit = 0 THEN "done" ELSE "drain"
                 /\ r.reader = reading.reader /\ r.limit = reading.limit /\ r.kept = reading.kept
                 /\ r.cut = reading.cut /\ r.drained = reading.drained /\ r.result = result
           /\ LET r == Returns(result)
              IN /\ DOMAIN r = DOMAIN reading
                 /\ r.pc = "done"
                 /\ r.reader = reading.reader /\ r.limit = reading.limit /\ r.kept = reading.kept
                 /\ r.cut = reading.cut /\ r.drained = reading.drained /\ r.result = result
BY DEF Drains, Returns, HttpBodyInv, HttpBodyFits

\* A reader that drains what is cut at n bytes.
LEMMA CutDrainsAre ==
    ASSUME HttpBodyInv, NEW n,
           reading' = [Drains("body") EXCEPT !.kept = n, !.cut = TRUE]
    PROVE  /\ DOMAIN reading' = DOMAIN reading
           /\ reading'.pc = IF DrainLimit = 0 THEN "done" ELSE "drain"
           /\ reading'.reader = reading.reader /\ reading'.limit = reading.limit /\ reading'.kept = n
           /\ reading'.drained = reading.drained /\ reading'.result = "body"
           /\ reading'.cut
<1>1. PICK yes \in BOOLEAN : yes
  OBVIOUS
<1>2. PICK r : r = Drains("body")
  OBVIOUS
<1>5. reading' = [r EXCEPT !.kept = n, !.cut = yes]
  BY <1>1, <1>2
<1>6. /\ DOMAIN r = {"pc", "reader", "limit", "kept", "cut", "drained", "result"}
      /\ r.pc = IF DrainLimit = 0 THEN "done" ELSE "drain"
      /\ r.reader = reading.reader /\ r.limit = reading.limit
      /\ r.drained = reading.drained /\ r.result = "body"
  BY <1>2, OutcomesAre
<1>3. /\ DOMAIN reading' = DOMAIN reading
      /\ reading'.pc = IF DrainLimit = 0 THEN "done" ELSE "drain"
      /\ reading'.reader = reading.reader /\ reading'.limit = reading.limit /\ reading'.kept = n
      /\ reading'.drained = reading.drained /\ reading'.result = "body"
      /\ reading'.cut = yes
  BY <1>5, <1>6, OutcomesAre
<1>4. QED
  BY <1>1, <1>3

\* A reader that has decided.
LEMMA DecidedInv ==
    ASSUME HttpBodyInv, HttpBodyFits', StopsAreTrue',
           reading'.pc = "done" \/ (reading'.pc = "drain" /\ reading'.drained < DrainLimit
                                    /\ reading'.reader \in {"limited", "truncated", "success"}),
           reading'.reader # "success" => reading'.kept <= reading'.limit,
           reading'.drained < DrainLimit + MaxChunk,
           response'.sent <= reading'.kept + reading'.drained + MaxChunk
    PROVE  HttpBodyInv'
<1>1. ReaderHasAll'
  BY DEF ReaderHasAll
<1>2. QED
  BY <1>1 DEF HttpBodyInv, KeptWithinLimit, ReadOnlyForMore

\* A reader that goes on to the next chunk.
LEMMA GoesOnInv ==
    ASSUME HttpBodyInv, HttpBodyFits', HasLimit', reading'.pc = "chunk", reading'.drained = 0,
           reading'.kept = response'.sent, reading'.kept <= reading'.limit,
           response'.ended = "no", reading'.result = "none", reading'.reader # "success",
           reading'.reader = "truncated" =>
               (reading'.cut => response'.declared > reading'.limit) /\ reading'.limit > 0,
           reading'.reader = "limited" => ~(response'.declared > reading'.limit) /\ reading'.limit > 0,
           reading'.reader = "written" => ~(response'.declared > reading'.limit)
    PROVE  HttpBodyInv'
<1>5. reading'.limit # Unlimited /\ reading'.reader # "drained"
  BY DEF HasLimit, Unlimited
<1>1. ReaderHasAll'
  BY <1>5 DEF ReaderHasAll, DeclaredTooLong
<1>2. StopsAreTrue'
  BY DEF StopsAreTrue
<1>3. response'.sent \in Nat /\ reading'.drained < DrainLimit + MaxChunk
      /\ response'.sent <= reading'.kept + reading'.drained + MaxChunk
  BY HttpBodyAssumption DEF HttpBodyFits
<1>4. QED
  BY <1>1, <1>2, <1>3 DEF HttpBodyInv, KeptWithinLimit, ReadOnlyForMore

\* A limit stays what it is.
LEMMA SameLimit ==
    ASSUME HttpBodyInv, reading'.reader = reading.reader, reading'.limit = reading.limit
    PROVE  reading'.reader \in Readers /\ LimitFits' /\ (HasLimit' <=> HasLimit)
BY DEF HttpBodyInv, HttpBodyFits, LimitFits, HasLimit

\* The numbers before the first chunk.
LEMMA NothingKept ==
    ASSUME reading'.kept = 0, reading'.drained = 0, response'.sent = 0, reading'.limit \in Nat
    PROVE  /\ reading'.reader # "success" => reading'.kept <= reading'.limit
           /\ reading'.drained < DrainLimit + MaxChunk
           /\ response'.sent <= reading'.kept + reading'.drained + MaxChunk
BY HttpBodyAssumption

LEMMA StartsWithLimitInv ==
    ASSUME HttpBodyInv, HasLimit, StartsReading
    PROVE  HttpBodyInv'
<1>1. /\ response' = response /\ reading.pc = "start"
      /\ response.sent = 0 /\ reading.kept = 0 /\ reading.drained = 0
  BY DEF StartsReading, Reads, HttpBodyInv, ReaderHasAll
<1>2. /\ MaxChunk \in Nat /\ MaxChunk > 0 /\ DrainLimit \in Nat /\ 0 < DrainLimit + MaxChunk
      /\ DrainLimit # 0 => 0 < DrainLimit
      /\ reading.limit \in Nat /\ reading.limit # Unlimited /\ response.declared \in Int
  BY BodyFacts
<1>3. CASE \E result \in {"too large", "dropped"} :
               /\ reading' = Drains(result)
               /\ \/ reading.reader = "limited" /\ result = "too large" /\ (reading.limit = 0 \/ DeclaredTooLong)
                  \/ reading.reader = "success" /\ result = "dropped"
  <2>1. PICK result \in {"too large", "dropped"} :
               /\ reading' = Drains(result)
               /\ \/ reading.reader = "limited" /\ result = "too large" /\ (reading.limit = 0 \/ DeclaredTooLong)
                  \/ reading.reader = "success" /\ result = "dropped"
    BY <1>3
  <2>2. /\ DOMAIN reading' = DOMAIN reading
        /\ reading'.pc = IF DrainLimit = 0 THEN "done" ELSE "drain"
        /\ reading'.reader = reading.reader /\ reading'.limit = reading.limit /\ reading'.kept = 0
        /\ reading'.drained = 0 /\ reading'.result = result
    BY <1>1, <2>1, OutcomesAre
  <2>3. reading'.cut \in BOOLEAN
    BY <2>1, OutcomesAre DEF HttpBodyInv, HttpBodyFits
  <2>4. HttpBodyFits'
    BY <1>1, <2>2, <2>3, SameLimit DEF HttpBodyInv, HttpBodyFits
  <2>5. StopsAreTrue'
    BY <1>1, <1>2, <2>1, <2>2 DEF StopsAreTrue, DeclaredTooLong
  <2>6. /\ reading'.reader # "success" => reading'.kept <= reading'.limit
        /\ reading'.drained < DrainLimit + MaxChunk
        /\ response'.sent <= reading'.kept + reading'.drained + MaxChunk
    BY <1>1, <1>2, <2>2, NothingKept
  <2>7. reading'.pc = "done" \/ (reading'.pc = "drain" /\ reading'.drained < DrainLimit
            /\ reading'.reader \in {"limited", "truncated", "success"})
    BY <1>2, <2>1, <2>2
  <2>8. QED
    BY <2>4, <2>5, <2>6, <2>7, DecidedInv
<1>13. CASE reading.reader = "truncated" /\ reading.limit = 0 /\ reading' = [Drains("body") EXCEPT !.cut = TRUE]
  <2>1. /\ DOMAIN reading' = DOMAIN reading
        /\ reading'.pc = IF DrainLimit = 0 THEN "done" ELSE "drain"
        /\ reading'.reader = "truncated" /\ reading'.limit = 0 /\ reading'.kept = 0
        /\ reading'.drained = 0 /\ reading'.result = "body"
    <3>1. PICK yes \in BOOLEAN : reading' = [Drains("body") EXCEPT !.cut = yes]
      BY <1>13
    <3>2. QED
      BY <1>1, <1>13, <3>1, OutcomesAre
  <2>2. reading'.cut /\ reading'.cut \in BOOLEAN
    <3>1. PICK yes \in BOOLEAN : yes /\ reading' = [Drains("body") EXCEPT !.cut = yes]
      BY <1>13
    <3>2. reading'.cut = yes
      BY <3>1, OutcomesAre
    <3>3. QED
      BY <3>1, <3>2
  <2>3. HttpBodyFits'
    BY <1>1, <1>13, <2>1, <2>2, SameLimit DEF HttpBodyInv, HttpBodyFits
  <2>4. StopsAreTrue'
    BY <2>1, <2>2 DEF StopsAreTrue
  <2>5. /\ reading'.reader # "success" => reading'.kept <= reading'.limit
        /\ reading'.drained < DrainLimit + MaxChunk
        /\ response'.sent <= reading'.kept + reading'.drained + MaxChunk
    BY <1>1, <1>2, <2>1
  <2>6. reading'.pc = "done" \/ (reading'.pc = "drain" /\ reading'.drained < DrainLimit
            /\ reading'.reader \in {"limited", "truncated", "success"})
    BY <1>2, <2>1
  <2>7. QED
    BY <2>3, <2>4, <2>5, <2>6, DecidedInv
<1>4. CASE \E result \in {"too large", "nothing", "dropped"} :
               /\ reading' = Returns(result)
               /\ \/ reading.reader = "written" /\ result = "too large" /\ DeclaredTooLong
                  \/ reading.reader = "preview" /\ result = "nothing" /\ reading.limit = 0
                  \/ reading.reader = "success" /\ result = "dropped"
  <2>1. PICK result \in {"too large", "nothing", "dropped"} :
               /\ reading' = Returns(result)
               /\ \/ reading.reader = "written" /\ result = "too large" /\ DeclaredTooLong
                  \/ reading.reader = "preview" /\ result = "nothing" /\ reading.limit = 0
                  \/ reading.reader = "success" /\ result = "dropped"
    BY <1>4
  <2>2. /\ DOMAIN reading' = DOMAIN reading /\ reading'.pc = "done"
        /\ reading'.reader = reading.reader /\ reading'.limit = reading.limit /\ reading'.kept = 0
        /\ reading'.drained = 0 /\ reading'.result = result
    BY <1>1, <2>1, OutcomesAre
  <2>3. reading'.cut \in BOOLEAN
    BY <2>1, OutcomesAre DEF HttpBodyInv, HttpBodyFits
  <2>4. HttpBodyFits'
    BY <1>1, <2>2, <2>3, SameLimit DEF HttpBodyInv, HttpBodyFits
  <2>5. StopsAreTrue'
    BY <1>1, <1>2, <2>1, <2>2 DEF StopsAreTrue, DeclaredTooLong
  <2>6. /\ reading'.reader # "success" => reading'.kept <= reading'.limit
        /\ reading'.drained < DrainLimit + MaxChunk
        /\ response'.sent <= reading'.kept + reading'.drained + MaxChunk
    BY <1>1, <1>2, <2>2, NothingKept
  <2>7. QED
    BY <2>2, <2>4, <2>5, <2>6, DecidedInv
<1>5. CASE /\ reading' = Goes \/ (reading.reader = "truncated" /\ reading' = [Goes EXCEPT !.cut = DeclaredTooLong])
           /\ reading.result = "none" /\ response.ended = "no"
           /\ reading.reader \in {"limited", "truncated", "written", "preview"}
           /\ reading.reader \in {"limited", "written"} => ~DeclaredTooLong
           /\ reading.reader # "written" => reading.limit # 0
           /\ reading.reader = "truncated" => reading' = [Goes EXCEPT !.cut = DeclaredTooLong]
  <2>1. /\ DOMAIN reading' = DOMAIN reading /\ reading'.pc = "chunk"
        /\ reading'.reader = reading.reader /\ reading'.limit = reading.limit /\ reading'.kept = 0
        /\ reading'.drained = 0 /\ reading'.result = "none"
    BY <1>1, <1>5 DEF Goes, HttpBodyInv, HttpBodyFits
  <2>2. reading'.cut \in BOOLEAN /\ (reading.reader = "truncated" /\ reading'.cut => DeclaredTooLong)
    <3>1. \E long \in BOOLEAN : long = DeclaredTooLong /\ [Goes EXCEPT !.cut = DeclaredTooLong] = [Goes EXCEPT !.cut = long]
      <4>1. CASE DeclaredTooLong
        <5>1. DeclaredTooLong = TRUE
          BY <4>1 DEF DeclaredTooLong
        <5>2. QED
          BY <5>1
      <4>2. CASE ~DeclaredTooLong
        <5>1. DeclaredTooLong = FALSE
          BY <4>2 DEF DeclaredTooLong
        <5>2. QED
          BY <5>1
      <4>3. QED
        BY <4>1, <4>2
    <3>5. PICK long \in BOOLEAN : long = DeclaredTooLong /\ [Goes EXCEPT !.cut = DeclaredTooLong] = [Goes EXCEPT !.cut = long]
      BY <3>1
    <3>2. CASE reading' = Goes /\ reading.reader # "truncated"
      BY <3>2 DEF Goes, HttpBodyInv, HttpBodyFits
    <3>3. CASE reading.reader = "truncated" /\ reading' = [Goes EXCEPT !.cut = long]
      BY <3>5, <3>3 DEF Goes, HttpBodyInv, HttpBodyFits
    <3>4. QED
      BY <1>5, <3>5, <3>2, <3>3
  <2>3. HttpBodyFits'
    BY <1>1, <2>1, <2>2, SameLimit DEF HttpBodyInv, HttpBodyFits
  <2>5. HasLimit'
    BY <2>1, SameLimit
  <2>4. QED
    BY <1>1, <1>2, <1>5, <2>1, <2>2, <2>3, <2>5, GoesOnInv DEF DeclaredTooLong
<1>6. reading.result = "none" /\ response.ended = "no"
  BY <1>1 DEF HttpBodyInv, ReaderHasAll
<1>7. CASE reading.reader = "limited"
  <2>1. reading' = StartsLimited
    BY <1>7 DEF StartsReading, Reads
  <2>2. QED
    BY <1>3, <1>5, <1>6, <1>7, <2>1 DEF StartsLimited
<1>8. CASE reading.reader = "truncated"
  <2>1. reading' = StartsTruncated
    BY <1>8 DEF StartsReading, Reads
  <2>2. QED
    BY <1>5, <1>6, <1>8, <1>13, <2>1 DEF StartsTruncated
<1>9. CASE reading.reader = "written"
  <2>1. reading' = StartsWritten
    BY <1>9 DEF StartsReading, Reads
  <2>2. QED
    BY <1>4, <1>5, <1>6, <1>9, <2>1 DEF StartsWritten
<1>10. CASE reading.reader = "preview"
  <2>1. reading' = StartsPreview
    BY <1>10 DEF StartsReading, Reads
  <2>2. QED
    BY <1>4, <1>5, <1>6, <1>10, <2>1 DEF StartsPreview
<1>11. CASE reading.reader = "success"
  <2>1. reading' = StartsSuccess
    BY <1>11 DEF StartsReading, Reads
  <2>2. QED
    BY <1>3, <1>4, <1>11, <2>1 DEF StartsSuccess
<1>12. QED
  BY <1>7, <1>8, <1>9, <1>10, <1>11 DEF HttpBodyInv, HttpBodyFits, Readers, HasLimit

\* The response after a chunk.
LEMMA SentMore ==
    ASSUME HttpBodyInv, NEW n \in 1..MaxChunk, response.ended = "no",
           response.sent + n <= MaxSent,
           response.declared # Unknown => response.sent + n <= response.declared,
           response' = [response EXCEPT !.sent = @ + n]
    PROVE  /\ DOMAIN response' = {"declared", "sent", "ended"}
           /\ response'.sent = response.sent + n /\ response'.declared = response.declared
           /\ response'.ended = "no"
           /\ response'.sent \in 0..MaxSent
           /\ response'.declared # Unknown => response'.sent <= response'.declared
           /\ n \in Nat /\ n <= MaxChunk /\ n > 0
<1>1. /\ DOMAIN response = {"declared", "sent", "ended"}
  BY DEF HttpBodyInv, HttpBodyFits
<1>2. /\ response'.sent = response.sent + n /\ response'.declared = response.declared
      /\ response'.ended = "no" /\ DOMAIN response' = {"declared", "sent", "ended"}
  BY <1>1
<1>3. n \in Nat /\ n <= MaxChunk /\ n > 0
  BY HttpBodyAssumption
<1>4. response'.sent \in 0..MaxSent
  BY <1>2, <1>3, BodyFacts
<1>5. QED
  BY <1>2, <1>3, <1>4

\* What is thrown away to a limit was read with one.
LEMMA DrainsHaveLimit == ASSUME HttpBodyInv, reading.pc = "drain" PROVE HasLimit
BY BodyFacts DEF HttpBodyInv, ReaderHasAll

\* A chunk that is thrown away.
LEMMA DrainedChunkInv ==
    ASSUME HttpBodyInv, NEW n \in 1..MaxChunk, response.ended = "no", reading.pc = "drain",
           response.sent + n <= MaxSent,
           response.declared # Unknown => response.sent + n <= response.declared,
           response' = [response EXCEPT !.sent = @ + n],
           reading' = DrainEnds(n)
    PROVE  HttpBodyInv'
<1>1. /\ DOMAIN response' = {"declared", "sent", "ended"}
      /\ response'.sent = response.sent + n /\ response'.declared = response.declared
      /\ response'.ended = "no" /\ response'.sent \in 0..MaxSent
      /\ response'.declared # Unknown => response'.sent <= response'.declared
      /\ n \in Nat /\ n <= MaxChunk /\ n > 0
  BY SentMore
<1>2. /\ DOMAIN reading = {"pc", "reader", "limit", "kept", "cut", "drained", "result"}
      /\ reading.drained \in Nat
  BY DEF HttpBodyInv, HttpBodyFits
<1>3. /\ DOMAIN reading' = DOMAIN reading
      /\ reading'.reader = reading.reader /\ reading'.limit = reading.limit
      /\ reading'.kept = reading.kept /\ reading'.drained = reading.drained + n
      /\ reading'.result = reading.result
  BY <1>2 DEF DrainEnds
<1>4. reading'.cut = reading.cut
  BY <1>2 DEF DrainEnds
<1>5. /\ reading.drained + n >= DrainLimit => reading'.pc = "done"
      /\ ~(reading.drained + n >= DrainLimit) => reading'.pc = "drain"
  BY <1>2 DEF DrainEnds
<1>6. /\ MaxChunk \in Nat /\ DrainLimit \in Nat /\ reading.drained \in Nat /\ reading.kept \in Nat
      /\ reading.limit \in Nat /\ response.sent \in Nat /\ response.declared \in Int
      /\ reading.limit # Unlimited
  BY BodyFacts, DrainsHaveLimit
<1>7. /\ reading.drained < DrainLimit /\ reading.reader \in {"limited", "truncated", "success"}
  BY DEF HttpBodyInv, ReaderHasAll
<1>8. HttpBodyFits'
  <2>1. reading'.pc \in {"start", "chunk", "drain", "done"}
    BY <1>5
  <2>2. reading'.drained \in Nat /\ reading'.kept \in Nat
    BY <1>1, <1>3, <1>6
  <2>3. reading'.cut \in BOOLEAN
    BY <1>4 DEF HttpBodyInv, HttpBodyFits
  <2>4. reading'.reader \in Readers /\ LimitFits'
        /\ response'.declared \in {Unknown} \cup 0..MaxSent
    BY <1>1, <1>3, SameLimit DEF HttpBodyInv, HttpBodyFits
  <2>5. QED
    BY <1>1, <1>2, <1>3, <2>1, <2>2, <2>3, <2>4 DEF HttpBodyFits
<1>9. StopsAreTrue'
  <2>1. response.sent > reading.limit \/ response.declared > reading.limit =>
           response'.sent > reading'.limit \/ response'.declared > reading'.limit
    BY <1>1, <1>3, <1>6
  <2>2. reading.result = "too large" =>
           \/ response.sent > reading.limit \/ response.declared > reading.limit
           \/ (reading.reader = "limited" /\ reading.limit = 0)
    BY DEF HttpBodyInv, StopsAreTrue
  <2>3. reading.reader \in {"limited", "written"} => reading.result # "body"
    BY DEF HttpBodyInv, StopsAreTrue
  <2>4. reading.reader = "truncated" /\ reading.result = "body" =>
           /\ reading.cut
           /\ reading.limit > 0 =>
                (response.sent > reading.limit \/ response.declared > reading.limit) /\ reading.kept = reading.limit
    BY DEF HttpBodyInv, StopsAreTrue
  <2>5. QED
    BY <1>3, <1>4, <1>6, <1>7, <2>1, <2>2, <2>3, <2>4 DEF StopsAreTrue
<1>10. /\ reading'.reader # "success" => reading'.kept <= reading'.limit
       /\ reading'.drained < DrainLimit + MaxChunk
       /\ response'.sent <= reading'.kept + reading'.drained + MaxChunk
  <2>1. /\ reading.reader # "success" => reading.kept <= reading.limit
        /\ response.sent <= reading.kept + reading.drained + MaxChunk
    BY <1>6, <1>7 DEF HttpBodyInv, KeptWithinLimit, ReadOnlyForMore
  <2>2. reading'.reader # "success" => reading'.kept <= reading'.limit
    BY <1>3, <2>1
  <2>3. reading'.drained < DrainLimit + MaxChunk
    BY <1>1, <1>3, <1>6, <1>7
  <2>4. response'.sent <= reading'.kept + reading'.drained + MaxChunk
    BY <1>1, <1>3, <1>6, <2>1
  <2>5. QED
    BY <2>2, <2>3, <2>4
<1>11. reading'.pc = "done" \/ (reading'.pc = "drain" /\ reading'.drained < DrainLimit
            /\ reading'.reader \in {"limited", "truncated", "success"})
  BY <1>1, <1>3, <1>5, <1>6, <1>7
<1>12. QED
  BY <1>8, <1>9, <1>10, <1>11, DecidedInv

\* A chunk that is kept.
LEMMA KeptChunkInv ==
    ASSUME HttpBodyInv, HasLimit, NEW n \in 1..MaxChunk, response.ended = "no", reading.pc = "chunk",
           response.sent + n <= MaxSent,
           response.declared # Unknown => response.sent + n <= response.declared,
           response' = [response EXCEPT !.sent = @ + n],
           reading' = All(n), n <= Room
    PROVE  HttpBodyInv'
<1>1. /\ DOMAIN response' = {"declared", "sent", "ended"}
      /\ response'.sent = response.sent + n /\ response'.declared = response.declared
      /\ response'.ended = "no" /\ response'.sent \in 0..MaxSent
      /\ response'.declared # Unknown => response'.sent <= response'.declared
      /\ n \in Nat /\ n <= MaxChunk /\ n > 0
  BY SentMore
<1>2. /\ DOMAIN reading = {"pc", "reader", "limit", "kept", "cut", "drained", "result"}
  BY DEF HttpBodyInv, HttpBodyFits
<1>3. /\ DOMAIN reading' = DOMAIN reading /\ reading'.pc = "chunk"
      /\ reading'.reader = reading.reader /\ reading'.limit = reading.limit
      /\ reading'.kept = reading.kept + n /\ reading'.drained = reading.drained
      /\ reading'.result = reading.result
  BY <1>2 DEF All
<1>4. reading'.cut = reading.cut
  BY <1>2 DEF All
<1>6. /\ reading.kept \in Nat /\ reading.limit \in Nat /\ response.sent \in Nat
      /\ reading.limit # Unlimited /\ reading.reader # "drained" /\ HasLimit'
  BY <1>3, BodyFacts, SameLimit DEF HasLimit
<1>7. /\ reading.kept = response.sent /\ reading.drained = 0 /\ reading.result = "none"
      /\ reading.reader # "success"
      /\ reading.reader = "limited" => ~DeclaredTooLong /\ reading.limit > 0
      /\ reading.reader = "written" => ~DeclaredTooLong
  BY <1>6 DEF HttpBodyInv, ReaderHasAll
<1>8. reading.reader = "truncated" => (reading.cut => DeclaredTooLong) /\ reading.limit > 0
  BY DEF HttpBodyInv, ReaderHasAll
<1>9. reading'.kept <= reading'.limit
  BY <1>1, <1>3, <1>6 DEF Room
<1>10. HttpBodyFits'
  <2>1. reading'.drained \in Nat /\ reading'.kept \in Nat
    BY <1>1, <1>3, <1>6, <1>7
  <2>2. reading'.cut \in BOOLEAN
    BY <1>4 DEF HttpBodyInv, HttpBodyFits
  <2>3. reading'.reader \in Readers /\ LimitFits'
        /\ response'.declared \in {Unknown} \cup 0..MaxSent
    BY <1>1, <1>3, SameLimit DEF HttpBodyInv, HttpBodyFits
  <2>4. QED
    BY <1>1, <1>2, <1>3, <2>1, <2>2, <2>3 DEF HttpBodyFits
<1>11. reading'.reader = "truncated" =>
           (reading'.cut => response'.declared > reading'.limit) /\ reading'.limit > 0
  BY <1>1, <1>3, <1>4, <1>8 DEF DeclaredTooLong
<1>12. /\ reading'.reader = "limited" => ~(response'.declared > reading'.limit) /\ reading'.limit > 0
       /\ reading'.reader = "written" => ~(response'.declared > reading'.limit)
  BY <1>1, <1>3, <1>6, <1>7 DEF DeclaredTooLong
<1>13. /\ reading'.drained = 0 /\ reading'.kept = response'.sent /\ reading'.result = "none"
       /\ reading'.reader # "success"
  BY <1>1, <1>3, <1>7
<1>14. QED
  BY <1>1, <1>3, <1>6, <1>9, <1>10, <1>11, <1>12, <1>13, GoesOnInv

\* A chunk of n bytes after which no more is kept.
LastChunk(n) ==
    /\ DOMAIN reading' = DOMAIN reading /\ reading'.pc \in {"drain", "done"}
    /\ reading'.pc = "drain" => DrainLimit # 0 /\ reading.reader \in {"limited", "truncated"}
    /\ reading'.reader = reading.reader /\ reading'.limit = reading.limit
    /\ reading'.drained = 0 /\ reading'.kept \in {reading.kept, reading.limit}
    /\ \/ reading.reader \in {"limited", "written"} /\ reading'.result = "too large" /\ n > Room
       \/ /\ reading.reader = "truncated" /\ reading'.result = "body" /\ (Room = 0 \/ n > Room)
          /\ reading'.kept = reading.limit
       \/ reading.reader = "preview" /\ reading'.result = "body"

MarksTheCut ==
    /\ reading'.cut \in BOOLEAN
    /\ reading.reader = "truncated" => reading'.cut

LEMMA LastChunkInv ==
    ASSUME HttpBodyInv, HasLimit, NEW n \in 1..MaxChunk, response.ended = "no", reading.pc = "chunk",
           response.sent + n <= MaxSent,
           response.declared # Unknown => response.sent + n <= response.declared,
           response' = [response EXCEPT !.sent = @ + n],
           LastChunk(n), MarksTheCut
    PROVE  HttpBodyInv'
<1>10. /\ DOMAIN reading' = DOMAIN reading /\ reading'.pc \in {"drain", "done"}
       /\ reading'.pc = "drain" => DrainLimit # 0 /\ reading.reader \in {"limited", "truncated"}
       /\ reading'.reader = reading.reader /\ reading'.limit = reading.limit
       /\ reading'.drained = 0 /\ reading'.kept \in {reading.kept, reading.limit}
  BY DEF LastChunk
<1>11. reading.reader \in {"limited", "truncated", "written"} => n > Room \/ Room = 0
  BY DEF LastChunk
<1>12. \/ reading.reader \in {"limited", "written"} /\ reading'.result = "too large"
       \/ reading.reader = "truncated" /\ reading'.result = "body" /\ reading'.kept = reading.limit
       \/ reading.reader = "preview" /\ reading'.result = "body"
  BY DEF LastChunk
<1>1. /\ DOMAIN response' = {"declared", "sent", "ended"}
      /\ response'.sent = response.sent + n /\ response'.declared = response.declared
      /\ response'.ended = "no" /\ response'.sent \in 0..MaxSent
      /\ response'.declared # Unknown => response'.sent <= response'.declared
      /\ n \in Nat /\ n <= MaxChunk /\ n > 0
  BY SentMore
<1>2. /\ reading.kept \in Nat /\ reading.limit \in Nat /\ response.sent \in Nat
      /\ DrainLimit \in Nat /\ MaxChunk \in Nat
      /\ reading.limit # Unlimited /\ reading.reader # "drained"
  BY BodyFacts DEF HasLimit
<1>3. /\ reading.kept = response.sent /\ reading.kept <= reading.limit
      /\ reading.reader \in {"limited", "written", "truncated", "preview"}
  BY <1>2 DEF HttpBodyInv, HttpBodyFits, ReaderHasAll, Readers, KeptWithinLimit
<1>4. reading'.kept \in Nat /\ reading'.kept >= reading.kept /\ reading'.kept <= reading'.limit
  BY <1>2, <1>3, <1>10
<1>5. HttpBodyFits'
  <2>1. /\ DOMAIN reading' = {"pc", "reader", "limit", "kept", "cut", "drained", "result"}
    BY <1>10 DEF HttpBodyInv, HttpBodyFits
  <2>2. reading'.reader \in Readers /\ LimitFits'
        /\ response'.declared \in {Unknown} \cup 0..MaxSent
    BY <1>1, <1>10, SameLimit DEF HttpBodyInv, HttpBodyFits
  <2>3. reading'.cut \in BOOLEAN
    BY DEF MarksTheCut
  <2>4. reading'.pc \in {"start", "chunk", "drain", "done"} /\ reading'.drained \in Nat
    BY <1>10
  <2>5. QED
    BY <1>1, <1>4, <2>1, <2>2, <2>3, <2>4 DEF HttpBodyFits
<1>6. StopsAreTrue'
  <2>1. n > Room \/ Room = 0 => response'.sent > reading'.limit
    BY <1>1, <1>2, <1>3, <1>10 DEF Room
  <2>2. reading.reader = "truncated" => reading'.cut
    BY DEF MarksTheCut
  <2>3. reading'.reader \in {"limited", "truncated", "written"} => response'.sent > reading'.limit
    BY <1>10, <1>11, <2>1
  <2>4. QED
    BY <1>2, <1>10, <1>12, <2>2, <2>3 DEF StopsAreTrue
<1>7. /\ reading'.reader # "success" => reading'.kept <= reading'.limit
      /\ reading'.drained < DrainLimit + MaxChunk
      /\ response'.sent <= reading'.kept + reading'.drained + MaxChunk
  <2>1. reading'.drained < DrainLimit + MaxChunk
    BY <1>1, <1>2, <1>10
  <2>2. response'.sent <= reading'.kept + reading'.drained + MaxChunk
    BY <1>1, <1>2, <1>3, <1>4, <1>10
  <2>3. QED
    BY <1>4, <2>1, <2>2
<1>8. reading'.pc = "done" \/ (reading'.pc = "drain" /\ reading'.drained < DrainLimit
            /\ reading'.reader \in {"limited", "truncated", "success"})
  BY <1>2, <1>10
<1>9. QED
  BY <1>5, <1>6, <1>7, <1>8, DecidedInv

\* A reader without a limit goes on, or is over.
LEMMA WithoutLimitInv ==
    ASSUME HttpBodyInv, ~HasLimit, HttpBodyFits',
           reading'.reader = reading.reader, reading'.limit = reading.limit,
           reading.reader = "written" => reading'.drained = 0 /\ reading'.kept = response'.sent,
           \/ reading'.pc = "chunk" /\ reading'.result = "none" /\ response'.ended = "no"
           \/ /\ reading'.pc = "done" /\ reading'.result \in {"body", "transport", "dropped"}
              /\ reading.reader = "written" /\ reading'.result = "body" => response'.ended = "whole"
    PROVE  HttpBodyInv'
<1>1. /\ reading'.limit = Unlimited /\ reading'.reader \in {"written", "drained"}
      /\ MaxChunk \in Nat /\ MaxChunk > 0 /\ DrainLimit \in Nat
  BY BodyFacts
<1>2. response'.sent \in Nat
  BY BodyFacts DEF HttpBodyFits
<1>3. ReaderHasAll'
  BY <1>1 DEF ReaderHasAll, DeclaredTooLong
<1>4. StopsAreTrue'
  BY <1>1 DEF StopsAreTrue
<1>5. KeptWithinLimit' /\ ReadOnlyForMore'
  BY <1>1, <1>2 DEF KeptWithinLimit, ReadOnlyForMore
<1>6. QED
  BY <1>3, <1>4, <1>5 DEF HttpBodyInv

LEMMA StartsReadingInv ==
    ASSUME HttpBodyInv, StartsReading
    PROVE  HttpBodyInv'
<1>1. CASE HasLimit
  BY <1>1, StartsWithLimitInv
<1>2. CASE ~HasLimit
  <2>1. reading.limit = Unlimited /\ reading.reader \in {"written", "drained"}
    BY <1>2, BodyFacts
  <2>2. /\ response' = response /\ response.sent = 0 /\ reading.kept = 0 /\ reading.drained = 0
        /\ reading.result = "none" /\ response.ended = "no"
    BY DEF StartsReading, Reads, HttpBodyInv, ReaderHasAll
  <2>3. reading' = Goes
    BY <2>1 DEF StartsReading, Reads, StartsWritten, StartsDrained, DeclaredTooLong
  <2>4. /\ DOMAIN reading' = DOMAIN reading /\ reading'.pc = "chunk"
        /\ reading'.reader = reading.reader /\ reading'.limit = reading.limit /\ reading'.kept = 0
        /\ reading'.drained = 0 /\ reading'.result = "none" /\ reading'.cut = reading.cut
    BY <2>2, <2>3 DEF Goes, HttpBodyInv, HttpBodyFits
  <2>5. HttpBodyFits'
    BY <2>2, <2>4, SameLimit DEF HttpBodyInv, HttpBodyFits
  <2>6. QED
    BY <1>2, <2>2, <2>4, <2>5, WithoutLimitInv
<1>3. QED
  BY <1>1, <1>2

LEMMA TakenWithoutLimitInv ==
    ASSUME HttpBodyInv, ~HasLimit, NEW n \in 1..MaxChunk, reading.pc = "chunk", PeerSends(n),
           reading' = Takes(n)
    PROVE  HttpBodyInv'
<1>1. reading.limit = Unlimited /\ reading.reader \in {"written", "drained"}
  BY BodyFacts
<1>2. /\ DOMAIN response' = {"declared", "sent", "ended"}
      /\ response'.sent = response.sent + n /\ response'.declared = response.declared
      /\ response'.ended = "no" /\ response'.sent \in 0..MaxSent
      /\ response'.declared # Unknown => response'.sent <= response'.declared
      /\ n \in Nat
  BY SentMore DEF PeerSends
<1>3. /\ reading.kept \in Nat /\ reading.drained \in Nat /\ reading.result = "none"
      /\ reading.reader = "written" => reading.kept = response.sent /\ reading.drained = 0
      /\ DOMAIN reading = {"pc", "reader", "limit", "kept", "cut", "drained", "result"}
      /\ reading.cut \in BOOLEAN
  BY DEF HttpBodyInv, HttpBodyFits, ReaderHasAll
<1>4. reading' = IF reading.reader = "written" THEN All(n) ELSE TakesDrained(n)
  BY <1>1 DEF Takes, TakesWritten, Exceeds
<1>5. /\ DOMAIN reading' = DOMAIN reading /\ reading'.pc = "chunk"
      /\ reading'.reader = reading.reader /\ reading'.limit = reading.limit
      /\ reading'.result = "none" /\ reading'.cut = reading.cut
      /\ reading.reader = "written" => reading'.kept = reading.kept + n /\ reading'.drained = 0
      /\ reading.reader # "written" =>
           reading'.kept = reading.kept /\ reading'.drained = reading.drained + n
  BY <1>3, <1>4 DEF All, TakesDrained
<1>6. reading'.kept \in Nat /\ reading'.drained \in Nat
  BY <1>2, <1>3, <1>5
<1>7. HttpBodyFits'
  <2>1. response'.declared \in {Unknown} \cup 0..MaxSent
    BY <1>2 DEF HttpBodyInv, HttpBodyFits
  <2>2. QED
    BY <1>2, <1>3, <1>5, <1>6, <2>1, SameLimit DEF HttpBodyFits
<1>8. QED
  BY <1>2, <1>3, <1>5, <1>7, WithoutLimitInv

\* A chunk a reader takes.
LEMMA TakenWithinLimitInv ==
    ASSUME HttpBodyInv, HasLimit, NEW n \in 1..MaxChunk, response.ended = "no", reading.pc = "chunk",
           response.sent + n <= MaxSent,
           response.declared # Unknown => response.sent + n <= response.declared,
           response' = [response EXCEPT !.sent = @ + n],
           reading' = Takes(n)
    PROVE  HttpBodyInv'
<1>1. /\ reading.kept \in Nat /\ reading.limit \in Nat /\ n \in Nat /\ DrainLimit \in Nat
      /\ Room \in Int /\ reading.limit # Unlimited /\ reading.reader # "drained"
  BY BodyFacts DEF Room, HasLimit
<1>2. /\ reading.reader \in {"limited", "written", "truncated", "preview"}
      /\ reading.drained = 0
  BY <1>1 DEF HttpBodyInv, HttpBodyFits, ReaderHasAll, Readers
<1>3. reading.cut \in BOOLEAN
  BY DEF HttpBodyInv, HttpBodyFits
<1>4. ~(n > Room) => n <= Room
  BY <1>1
<1>5. CASE reading.reader = "limited"
  <2>1. reading' = TakesLimited(n)
    BY <1>5 DEF Takes
  <2>2. CASE n > Room
    <3>1. reading' = Drains("too large")
      BY <2>1, <2>2 DEF TakesLimited
    <3>2. PICK r : r = Drains("too large")
      OBVIOUS
    <3>3. /\ DOMAIN r = DOMAIN reading /\ r.pc = IF DrainLimit = 0 THEN "done" ELSE "drain"
          /\ r.reader = reading.reader /\ r.limit = reading.limit /\ r.kept = reading.kept
          /\ r.drained = 0 /\ r.result = "too large"
      BY <1>2, <3>2, OutcomesAre
    <3>4. r.cut = reading.cut
      BY <3>2, OutcomesAre
    <3>5. reading' = r
      BY <3>1, <3>2
    <3>6. LastChunk(n)
      BY <1>5, <2>2, <3>3, <3>5 DEF LastChunk
    <3>7. MarksTheCut
      BY <1>3, <1>5, <3>4, <3>5 DEF MarksTheCut
    <3>8. QED
      BY <3>6, <3>7, LastChunkInv
  <2>3. CASE ~(n > Room)
    BY <1>4, <2>1, <2>3, KeptChunkInv DEF TakesLimited
  <2>4. QED
    BY <2>2, <2>3
<1>6. CASE reading.reader = "truncated"
  <2>1. reading' = TakesTruncated(n)
    BY <1>6 DEF Takes
  <2>2. CASE Room = 0 \/ n > Room
    <3>1. reading' = [Drains("body") EXCEPT !.kept = reading.limit, !.cut = TRUE]
      BY <2>1, <2>2 DEF TakesTruncated
    <3>2. /\ DOMAIN reading' = DOMAIN reading
          /\ reading'.pc = IF DrainLimit = 0 THEN "done" ELSE "drain"
          /\ reading'.reader = reading.reader /\ reading'.limit = reading.limit
          /\ reading'.kept = reading.limit /\ reading'.drained = 0 /\ reading'.result = "body"
      BY <1>2, <3>1, CutDrainsAre
    <3>3. reading'.cut
      BY <3>1, CutDrainsAre
    <3>6. reading'.cut \in BOOLEAN
      <4>1. PICK yes \in BOOLEAN : yes /\ reading' = [Drains("body") EXCEPT !.kept = reading.limit, !.cut = yes]
        BY <3>1
      <4>2. PICK r : r = Drains("body")
        OBVIOUS
      <4>3. DOMAIN r = {"pc", "reader", "limit", "kept", "cut", "drained", "result"}
        BY <4>2, OutcomesAre
      <4>4. reading' = [r EXCEPT !.kept = reading.limit, !.cut = yes]
        BY <4>1, <4>2
      <4>5. reading'.cut = yes
        BY <4>3, <4>4
      <4>6. QED
        BY <4>5
    <3>4. LastChunk(n)
      BY <1>6, <2>2, <3>2 DEF LastChunk
    <3>5. MarksTheCut
      BY <3>3, <3>6 DEF MarksTheCut
    <3>7. QED
      BY <3>4, <3>5, LastChunkInv
  <2>3. CASE ~(Room = 0 \/ n > Room)
    BY <1>4, <2>1, <2>3, KeptChunkInv DEF TakesTruncated
  <2>4. QED
    BY <2>2, <2>3
<1>7. CASE reading.reader = "written"
  <2>1. reading' = TakesWritten(n)
    BY <1>7 DEF Takes
  <2>2. CASE n > Room
    <3>1. reading' = Returns("too large")
      BY <1>1, <2>1, <2>2 DEF TakesWritten, Exceeds
    <3>2. PICK r : r = Returns("too large")
      OBVIOUS
    <3>3. /\ DOMAIN r = DOMAIN reading /\ r.pc = "done"
          /\ r.reader = reading.reader /\ r.limit = reading.limit /\ r.kept = reading.kept
          /\ r.drained = 0 /\ r.result = "too large"
      BY <1>2, <3>2, OutcomesAre
    <3>4. r.cut = reading.cut
      BY <3>2, OutcomesAre
    <3>5. reading' = r
      BY <3>1, <3>2
    <3>6. LastChunk(n)
      BY <1>7, <2>2, <3>3, <3>5 DEF LastChunk
    <3>7. MarksTheCut
      BY <1>3, <1>7, <3>4, <3>5 DEF MarksTheCut
    <3>8. QED
      BY <3>6, <3>7, LastChunkInv
  <2>3. CASE ~(n > Room)
    BY <1>4, <2>1, <2>3, KeptChunkInv DEF TakesWritten, Exceeds
  <2>4. QED
    BY <2>2, <2>3
<1>8. CASE reading.reader = "preview"
  <2>1. reading' = TakesPreview(n)
    BY <1>8 DEF Takes
  <2>2. CASE n >= Room
    <3>1. reading' = [Returns("body") EXCEPT !.kept = reading.limit]
      BY <2>1, <2>2 DEF TakesPreview
    <3>2. PICK r : r = Returns("body")
      OBVIOUS
    <3>3. /\ DOMAIN r = {"pc", "reader", "limit", "kept", "cut", "drained", "result"}
          /\ r.pc = "done" /\ r.reader = reading.reader /\ r.limit = reading.limit
          /\ r.drained = 0 /\ r.result = "body"
      BY <1>2, <3>2, OutcomesAre
    <3>4. r.cut = reading.cut
      BY <3>2, OutcomesAre
    <3>5. reading' = [r EXCEPT !.kept = reading.limit]
      BY <3>1, <3>2
    <3>6. /\ DOMAIN reading' = DOMAIN reading /\ reading'.pc = "done"
          /\ reading'.reader = reading.reader /\ reading'.limit = reading.limit
          /\ reading'.kept = reading.limit /\ reading'.drained = 0 /\ reading'.result = "body"
      BY <3>3, <3>5, OutcomesAre
    <3>7. reading'.cut \in BOOLEAN
      BY <1>3, <3>3, <3>4, <3>5
    <3>8. LastChunk(n)
      BY <1>8, <3>6 DEF LastChunk
    <3>9. MarksTheCut
      BY <1>8, <3>7 DEF MarksTheCut
    <3>10. QED
      BY <3>8, <3>9, LastChunkInv
  <2>3. CASE ~(n >= Room)
    <3>1. n <= Room
      BY <1>1, <2>3
    <3>2. QED
      BY <2>1, <2>3, <3>1, KeptChunkInv DEF TakesPreview
  <2>4. QED
    BY <2>2, <2>3
<1>9. QED
  BY <1>2, <1>5, <1>6, <1>7, <1>8

LEMMA ChunkArrivesInv ==
    ASSUME HttpBodyInv, ChunkArrives
    PROVE  HttpBodyInv'
<1>1. PICK n \in 1..MaxChunk :
         /\ PeerSends(n)
         /\ reading' = IF reading.pc = "drain" THEN DrainEnds(n) ELSE Takes(n)
  BY DEF ChunkArrives
<1>2. reading.pc \in {"chunk", "drain"}
  BY DEF ChunkArrives
<1>3. CASE reading.pc = "drain"
  BY <1>1, <1>3, DrainedChunkInv DEF PeerSends
<1>4. CASE reading.pc = "chunk" /\ HasLimit
  BY <1>1, <1>4, TakenWithinLimitInv DEF PeerSends
<1>5. CASE reading.pc = "chunk" /\ ~HasLimit
  BY <1>1, <1>5, TakenWithoutLimitInv
<1>6. QED
  BY <1>2, <1>3, <1>4, <1>5

\* The rest of a chunk is not written.
StopsWriting(written) ==
    /\ DOMAIN reading' = DOMAIN reading /\ reading'.pc = "done"
    /\ reading'.reader = reading.reader /\ reading'.limit = reading.limit
    /\ reading'.kept = reading.kept + written /\ reading'.drained = 0
    /\ reading'.cut \in BOOLEAN /\ reading'.result = "write failed"

LEMMA PartWrittenInv ==
    ASSUME HttpBodyInv, reading.pc = "chunk", reading.reader = "written",
           NEW n \in 1..MaxChunk, NEW written \in Nat, ~Exceeds(n), written <= n,
           response.ended = "no", response.sent + n <= MaxSent,
           response.declared # Unknown => response.sent + n <= response.declared,
           response' = [response EXCEPT !.sent = @ + n],
           StopsWriting(written)
    PROVE  HttpBodyInv'
<1>10. /\ DOMAIN reading' = DOMAIN reading /\ reading'.pc = "done"
       /\ reading'.reader = reading.reader /\ reading'.limit = reading.limit
       /\ reading'.drained = 0 /\ reading'.result = "write failed"
  BY DEF StopsWriting
<1>13. reading'.cut \in BOOLEAN
  BY DEF StopsWriting
<1>11. reading'.kept = reading.kept + written
  BY DEF StopsWriting
<1>1. /\ DOMAIN response' = {"declared", "sent", "ended"}
      /\ response'.sent = response.sent + n /\ response'.declared = response.declared
      /\ response'.ended = "no" /\ response'.sent \in 0..MaxSent
      /\ response'.declared # Unknown => response'.sent <= response'.declared
      /\ n \in Nat /\ n <= MaxChunk /\ n > 0
  BY SentMore
<1>2. reading.kept \in Nat /\ response.sent \in Nat
  BY BodyFacts
<1>14. DrainLimit \in Nat /\ MaxChunk \in Nat
  BY HttpBodyAssumption
<1>15. reading.limit \in Int
  BY BodyFacts
<1>16. reading'.drained = 0 /\ reading'.limit = reading.limit
  BY <1>10
<1>17. response'.sent = response.sent + n /\ n \in Nat /\ n <= MaxChunk /\ n > 0
  BY <1>1
<1>3. reading.kept = response.sent
  BY DEF HttpBodyInv, ReaderHasAll
<1>4. reading.limit # Unlimited => n <= reading.limit - reading.kept
  BY <1>2, <1>15, <1>17 DEF Exceeds, Room
<1>5. HttpBodyFits'
  <2>1. response'.declared \in {Unknown} \cup 0..MaxSent
    BY <1>1 DEF HttpBodyInv, HttpBodyFits
  <2>2. reading'.kept \in Nat
    BY <1>2, <1>11
  <2>3. DOMAIN reading' = {"pc", "reader", "limit", "kept", "cut", "drained", "result"}
    BY <1>10 DEF HttpBodyInv, HttpBodyFits
  <2>4. reading'.reader \in Readers /\ LimitFits'
    BY <1>10, SameLimit DEF Readers
  <2>5. reading'.pc \in {"start", "chunk", "drain", "done"}
    BY <1>10
  <2>10. reading'.drained \in Nat
    BY <1>16
  <2>6. response'.ended \in {"no", "whole", "broken"}
    BY <1>1
  <2>7. response'.declared # Unknown => response'.sent <= response'.declared
    BY <1>1
  <2>8. DOMAIN response' = {"declared", "sent", "ended"} /\ response'.sent \in 0..MaxSent
    BY <1>1
  <2>9. QED
    BY <1>13, <2>1, <2>2, <2>3, <2>4, <2>5, <2>6, <2>7, <2>8, <2>10 DEF HttpBodyFits
<1>6. KeptWithinLimit'
  BY <1>2, <1>4, <1>11, <1>15, <1>16, <1>17 DEF KeptWithinLimit
<1>7. ReadOnlyForMore'
  <2>1. reading'.drained < DrainLimit + MaxChunk
    BY <1>14, <1>16, <1>17
  <2>2. response'.sent <= reading'.kept + reading'.drained + MaxChunk
    BY <1>2, <1>3, <1>11, <1>14, <1>16, <1>17
  <2>3. QED
    BY <2>1, <2>2 DEF ReadOnlyForMore
<1>8. StopsAreTrue'
  BY <1>10 DEF StopsAreTrue
<1>9. ReaderHasAll'
  BY <1>10 DEF ReaderHasAll
<1>12. QED
  BY <1>5, <1>6, <1>7, <1>8, <1>9 DEF HttpBodyInv

LEMMA WriterFailsInv ==
    ASSUME HttpBodyInv, WriterFails
    PROVE  HttpBodyInv'
<1>1. PICK n \in 1..MaxChunk : \E w \in 0..MaxChunk :
         /\ PeerSends(n) /\ ~Exceeds(n) /\ w <= n
         /\ reading' = [Returns("write failed") EXCEPT !.kept = @ + w]
  BY DEF WriterFails
<1>2. PICK written \in 0..MaxChunk :
         /\ PeerSends(n) /\ ~Exceeds(n) /\ written <= n
         /\ reading' = [Returns("write failed") EXCEPT !.kept = @ + written]
  BY <1>1
<1>3. reading.pc = "chunk" /\ reading.reader = "written"
  BY DEF WriterFails
<1>4. PeerSends(n)
  BY <1>2
<1>5. ~Exceeds(n) /\ written <= n
  BY <1>2
<1>6. written \in Nat
  BY HttpBodyAssumption
<1>7. /\ response.ended = "no" /\ response.sent + n <= MaxSent
      /\ response.declared # Unknown => response.sent + n <= response.declared
      /\ response' = [response EXCEPT !.sent = @ + n]
  BY <1>4 DEF PeerSends
<1>9. PICK r : r = Returns("write failed")
  OBVIOUS
<1>10. reading.drained = 0
  BY <1>3 DEF HttpBodyInv, ReaderHasAll
<1>11. /\ DOMAIN r = {"pc", "reader", "limit", "kept", "cut", "drained", "result"} /\ r.pc = "done"
       /\ r.reader = reading.reader /\ r.limit = reading.limit /\ r.kept = reading.kept
       /\ r.drained = 0 /\ r.result = "write failed" /\ r.cut = reading.cut
  BY <1>9, <1>10, OutcomesAre
<1>12. reading' = [r EXCEPT !.kept = @ + written]
  BY <1>2, <1>9
<1>13. /\ DOMAIN reading' = DOMAIN r /\ reading'.pc = "done"
       /\ reading'.reader = reading.reader /\ reading'.limit = reading.limit
       /\ reading'.kept = reading.kept + written /\ reading'.drained = 0
       /\ reading'.cut = reading.cut /\ reading'.result = "write failed"
  BY <1>11, <1>12
<1>14. DOMAIN reading' = DOMAIN reading
  BY <1>11, <1>13 DEF HttpBodyInv, HttpBodyFits
<1>15. reading'.cut \in BOOLEAN
  BY <1>13 DEF HttpBodyInv, HttpBodyFits
<1>16. StopsWriting(written)
  BY <1>13, <1>14, <1>15 DEF StopsWriting
<1>17. QED
  BY <1>3, <1>5, <1>6, <1>7, <1>16, PartWrittenInv

\* The response after its end.
LEMMA EndedAs ==
    ASSUME HttpBodyInv, NEW ended, response' = [response EXCEPT !.ended = ended]
    PROVE  /\ DOMAIN response' = {"declared", "sent", "ended"}
           /\ response'.sent = response.sent /\ response'.declared = response.declared
           /\ response'.ended = ended
BY DEF HttpBodyInv, HttpBodyFits

\* A reader that is over keeps its other fields.
LEMMA OverInv ==
    ASSUME HttpBodyInv, HasLimit, NEW ended \in {"whole", "broken"},
           response' = [response EXCEPT !.ended = ended],
           DOMAIN reading' = DOMAIN reading, reading'.pc = "done",
           reading'.reader = reading.reader, reading'.limit = reading.limit,
           reading'.kept = reading.kept, reading'.drained = reading.drained,
           reading'.cut \in BOOLEAN, StopsAreTrue'
    PROVE  HttpBodyInv'
<1>1. /\ DOMAIN response' = {"declared", "sent", "ended"}
      /\ response'.sent = response.sent /\ response'.declared = response.declared
      /\ response'.ended = ended
  BY EndedAs
<1>2. HttpBodyFits'
  BY <1>1, SameLimit DEF HttpBodyInv, HttpBodyFits
<1>3. /\ reading'.reader # "success" => reading'.kept <= reading'.limit
      /\ reading'.drained < DrainLimit + MaxChunk
      /\ response'.sent <= reading'.kept + reading'.drained + MaxChunk
  BY <1>1, BodyFacts DEF HttpBodyInv, KeptWithinLimit, ReadOnlyForMore, HasLimit
<1>4. QED
  BY <1>2, <1>3, DecidedInv

\* The body is over while its rest is thrown away.
LEMMA DrainedInv ==
    ASSUME HttpBodyInv, reading.pc = "drain", NEW ended \in {"whole", "broken"},
           response' = [response EXCEPT !.ended = ended],
           reading' = [reading EXCEPT !.pc = "done"]
    PROVE  HttpBodyInv'
<1>1. response'.sent = response.sent /\ response'.declared = response.declared
  BY EndedAs
<1>2. /\ DOMAIN reading' = DOMAIN reading /\ reading'.pc = "done"
      /\ reading'.reader = reading.reader /\ reading'.limit = reading.limit
      /\ reading'.kept = reading.kept /\ reading'.drained = reading.drained
      /\ reading'.result = reading.result
  BY DEF HttpBodyInv, HttpBodyFits
<1>6. HasLimit /\ reading.limit # Unlimited
  BY BodyFacts, DrainsHaveLimit
<1>3. reading'.cut = reading.cut /\ reading'.cut \in BOOLEAN
  BY DEF HttpBodyInv, HttpBodyFits
<1>4. StopsAreTrue'
  <2>1. reading.result = "too large" =>
           \/ response.sent > reading.limit \/ response.declared > reading.limit
           \/ (reading.reader = "limited" /\ reading.limit = 0)
    BY DEF HttpBodyInv, StopsAreTrue
  <2>2. reading.reader \in {"limited", "written"} => reading.result # "body"
    BY DEF HttpBodyInv, StopsAreTrue
  <2>3. reading.reader = "truncated" /\ reading.result = "body" =>
           /\ reading.cut
           /\ reading.limit > 0 =>
                (response.sent > reading.limit \/ response.declared > reading.limit) /\ reading.kept = reading.limit
    BY DEF HttpBodyInv, StopsAreTrue
  <2>4. reading.reader # "preview"
    BY DEF HttpBodyInv, ReaderHasAll
  <2>5. QED
    BY <1>1, <1>2, <1>3, <1>6, <2>1, <2>2, <2>3, <2>4 DEF StopsAreTrue
<1>5. QED
  BY <1>2, <1>3, <1>4, <1>6, OverInv

\* The body is over while it is kept.
LEMMA FinishedWithLimitInv ==
    ASSUME HttpBodyInv, HasLimit, reading.pc = "chunk", NEW ended \in {"whole", "broken"},
           ended = "whole" => response.declared \in {Unknown, response.sent},
           response' = [response EXCEPT !.ended = ended],
           reading' = Finishes(ended)
    PROVE  HttpBodyInv'
<1>1. response'.sent = response.sent /\ response'.declared = response.declared /\ response'.ended = ended
  BY EndedAs
<1>2. /\ reading.reader \in {"limited", "written", "truncated", "preview"}
      /\ reading.kept = response.sent /\ reading.kept <= reading.limit
      /\ response.sent \in Nat /\ reading.limit \in Nat
  BY BodyFacts DEF HttpBodyInv, HttpBodyFits, ReaderHasAll, Readers, KeptWithinLimit, HasLimit
<1>3. reading.reader = "truncated" /\ reading.cut => ended # "whole"
  <2>1. reading.reader = "truncated" /\ reading.cut => response.declared > reading.limit
    BY DEF HttpBodyInv, ReaderHasAll, DeclaredTooLong
  <2>2. response.declared \in {-1, response.sent} => ~(response.declared > reading.limit)
    BY <1>2
  <2>3. QED
    BY <2>1, <2>2 DEF Unknown
<1>4. PICK result \in {"nothing", "body", "transport"} :
         /\ reading' = Returns(result)
         /\ reading.reader = "preview" /\ result = "nothing" => reading.kept = 0
         /\ reading.reader # "preview" =>
              \/ result = "transport"
              \/ result = "body" /\ ended = "whole"
  <2>1. CASE reading.reader = "preview"
    BY <2>1 DEF Finishes, FinishesPreview
  <2>2. CASE reading.reader # "preview" /\ ended = "broken"
    <3>1. reading' = Returns("transport")
      BY <1>2, <2>2 DEF Finishes
    <3>2. QED
      BY <2>2, <3>1
  <2>3. CASE reading.reader # "preview" /\ ended = "whole"
    <3>1. ~(reading.reader = "truncated" /\ ended = "whole" /\ reading.cut)
      BY <1>3
    <3>2. reading' = Returns("body")
      BY <1>2, <2>3, <3>1 DEF Finishes
    <3>3. QED
      BY <2>3, <3>2
  <2>4. QED
    BY <2>1, <2>2, <2>3
<1>5. PICK r : r = Returns(result)
  OBVIOUS
<1>6. /\ DOMAIN r = DOMAIN reading /\ r.pc = "done"
      /\ r.reader = reading.reader /\ r.limit = reading.limit /\ r.kept = reading.kept
      /\ r.drained = reading.drained /\ r.result = result
  BY <1>5, OutcomesAre
<1>7. r.cut = reading.cut
  BY <1>5, OutcomesAre
<1>8. reading' = r
  BY <1>4, <1>5
<1>9. StopsAreTrue'
  <2>1. reading.reader = "truncated" /\ reading.cut => result # "body"
    BY <1>3, <1>4
  <2>2. reading'.cut = reading.cut
    BY <1>7, <1>8
  <2>3. /\ reading'.result = result /\ reading'.reader = reading.reader /\ reading'.kept = response'.sent
        /\ reading'.pc = "done"
    BY <1>1, <1>2, <1>6, <1>8
  <2>4. reading'.reader = "preview" /\ reading'.result = "nothing" => response'.sent = 0
    BY <1>1, <1>2, <1>4, <2>3
  <2>5. reading'.reader # "preview" =>
           \/ reading'.result = "transport"
           \/ reading'.result = "body" /\ response'.ended = "whole"
    BY <1>1, <1>4, <2>3
  <2>6. result # "too large"
    OBVIOUS
  <2>7. reading'.reader = "truncated" /\ reading'.result = "body" => ~reading'.cut
    BY <2>1, <2>2, <2>3
  <2>8. QED
    BY <2>3, <2>4, <2>5, <2>6, <2>7 DEF StopsAreTrue
<1>10. reading'.cut \in BOOLEAN
  BY <1>7, <1>8 DEF HttpBodyInv, HttpBodyFits
<1>11. QED
  BY <1>6, <1>8, <1>9, <1>10, OverInv

LEMMA FinishedWithoutLimitInv ==
    ASSUME HttpBodyInv, ~HasLimit, reading.pc = "chunk", NEW ended \in {"whole", "broken"},
           response' = [response EXCEPT !.ended = ended],
           reading' = Finishes(ended)
    PROVE  HttpBodyInv'
<1>1. reading.limit = Unlimited /\ reading.reader \in {"written", "drained"}
  BY BodyFacts
<1>2. /\ DOMAIN response' = {"declared", "sent", "ended"}
      /\ response'.sent = response.sent /\ response'.declared = response.declared
      /\ response'.ended = ended
  BY EndedAs
<1>3. /\ reading.reader = "written" => reading.kept = response.sent /\ reading.drained = 0
      /\ reading.cut \in BOOLEAN /\ reading.kept \in Nat /\ reading.drained \in Nat
  BY DEF HttpBodyInv, HttpBodyFits, ReaderHasAll
<1>4. PICK result \in {"body", "transport", "dropped"} :
         /\ reading' = Returns(result)
         /\ reading.reader = "written" /\ result = "body" => ended = "whole"
  <2>1. CASE reading.reader = "drained"
    BY <2>1 DEF Finishes
  <2>2. CASE reading.reader = "written"
    BY <2>2 DEF Finishes
  <2>3. QED
    BY <1>1, <2>1, <2>2
<1>5. /\ DOMAIN reading' = {"pc", "reader", "limit", "kept", "cut", "drained", "result"}
      /\ reading'.pc = "done" /\ reading'.reader = reading.reader /\ reading'.limit = reading.limit
      /\ reading'.kept = reading.kept /\ reading'.cut = reading.cut
      /\ reading'.drained = reading.drained /\ reading'.result = result
  BY <1>4, OutcomesAre
<1>6. HttpBodyFits'
  BY <1>2, <1>3, <1>5, SameLimit DEF HttpBodyInv, HttpBodyFits
<1>7. QED
  BY <1>2, <1>3, <1>4, <1>5, <1>6, WithoutLimitInv

LEMMA ResponseEndsInv ==
    ASSUME HttpBodyInv, ResponseEnds
    PROVE  HttpBodyInv'
<1>1. PICK ended \in IF response.ended = "no" THEN {"whole", "broken"} ELSE {response.ended} :
         /\ ended = "whole" => response.declared \in {Unknown, response.sent}
         /\ response' = [response EXCEPT !.ended = ended]
         /\ reading' = IF reading.pc = "drain" THEN [reading EXCEPT !.pc = "done"] ELSE Finishes(ended)
  BY DEF ResponseEnds
<1>2. ended \in {"whole", "broken"}
  BY <1>1 DEF HttpBodyInv, HttpBodyFits
<1>3. reading.pc \in {"chunk", "drain"}
  BY DEF ResponseEnds
<1>4. CASE reading.pc = "drain"
  BY <1>1, <1>2, <1>4, DrainedInv
<1>5. CASE reading.pc = "chunk" /\ HasLimit
  BY <1>1, <1>2, <1>5, FinishedWithLimitInv
<1>6. CASE reading.pc = "chunk" /\ ~HasLimit
  BY <1>1, <1>2, <1>6, FinishedWithoutLimitInv
<1>7. QED
  BY <1>3, <1>4, <1>5, <1>6

LEMMA HttpBodyStepInv ==
    ASSUME HttpBodyInv, [HttpBodyNext]_bodyVars
    PROVE  HttpBodyInv'
<1>1. CASE StartsReading
  BY <1>1, StartsReadingInv
<1>2. CASE ChunkArrives
  BY <1>2, ChunkArrivesInv
<1>3. CASE ResponseEnds
  BY <1>3, ResponseEndsInv
<1>4. CASE UNCHANGED bodyVars
  <2>1. response' = response /\ reading' = reading
    BY <1>4 DEF bodyVars
  <2>2. HttpBodyFits'
    BY <2>1, SameLimit DEF HttpBodyInv, HttpBodyFits
  <2>3. ReaderHasAll'
    BY <2>1 DEF HttpBodyInv, ReaderHasAll, DeclaredTooLong
  <2>4. StopsAreTrue'
    BY <2>1 DEF HttpBodyInv, StopsAreTrue
  <2>5. KeptWithinLimit' /\ ReadOnlyForMore'
    BY <2>1 DEF HttpBodyInv, KeptWithinLimit, ReadOnlyForMore
  <2>6. QED
    BY <2>2, <2>3, <2>4, <2>5 DEF HttpBodyInv
<1>5. CASE WriterFails
  BY <1>5, WriterFailsInv
<1>6. QED
  BY <1>1, <1>2, <1>3, <1>4, <1>5 DEF HttpBodyNext

\* What the runs check of the bodies follows from the invariant.
LEMMA HttpBodyInvBounds == HttpBodyInv => BodiesAreBounded
<1>1. SUFFICES ASSUME HttpBodyInv PROVE BodiesAreBounded
  OBVIOUS
<1>2. \A c \in Int : Max({response.sent, response.declared}) > c <=>
                        response.sent > c \/ response.declared > c
  BY <1>1, BodyFacts, MaxOfTwo
<1>3. Max({response.sent, response.declared}) > reading.limit <=>
         response.sent > reading.limit \/ response.declared > reading.limit
  <2>1. reading.limit \in Int
    BY <1>1, BodyFacts
  <2>2. QED
    BY <1>2, <2>1
<1>4. KeptWithinLimit /\ ReadOnlyForMore
  BY <1>1 DEF HttpBodyInv
<1>9. reading.reader = "limited" => reading.limit # Unlimited
  BY <1>1 DEF HttpBodyInv, HttpBodyFits, LimitFits
<1>5. reading.pc = "done" /\ reading.reader \in {"limited", "written"} =>
         /\ reading.result = "body" => reading.kept = response.sent /\ response.ended = "whole"
         /\ reading.result = "too large" => reading.limit # Unlimited
         /\ reading.result = "too large" =>
              \/ Max({response.sent, response.declared}) > reading.limit
              \/ reading.reader = "limited" /\ reading.limit = 0
  BY <1>1, <1>3, <1>9 DEF HttpBodyInv, StopsAreTrue
<1>6. reading.pc = "done" /\ reading.reader = "truncated" /\ reading.result = "body" =>
         /\ ~reading.cut => reading.kept = response.sent /\ response.ended = "whole"
         /\ reading.cut /\ reading.limit > 0 =>
              /\ Max({response.sent, response.declared}) > reading.limit
              /\ reading.kept = reading.limit
  BY <1>1, <1>3 DEF HttpBodyInv, StopsAreTrue
<1>7. reading.reader = "preview" /\ reading.result = "nothing" =>
         reading.limit = 0 \/ response.sent = 0
  <2>1. reading.pc \in {"start", "chunk", "drain", "done"}
    BY <1>1 DEF HttpBodyInv, HttpBodyFits
  <2>2. reading.pc \in {"start", "chunk"} => reading.result = "none"
    BY <1>1 DEF HttpBodyInv, ReaderHasAll
  <2>3. QED
    BY <1>1, <2>1, <2>2 DEF HttpBodyInv, StopsAreTrue
<1>8. QED
  BY <1>4, <1>5, <1>6, <1>7 DEF BodiesAreBounded

(***************************************************************************)
(* The gate.                                                               *)
(***************************************************************************)

\* A URL that v stands in.
LEMMA UrlWith ==
    ASSUME NEW url \in [scheme : STRING, host : Hosts, credentials : BOOLEAN, path : {"text", "var"}],
           NEW v
    PROVE  /\ [url EXCEPT !.path = v].path = v
           /\ [url EXCEPT !.path = v].host = url.host
           /\ [url EXCEPT !.path = v].scheme = url.scheme
           /\ [url EXCEPT !.path = v].credentials = url.credentials
           /\ [url EXCEPT !.path = url.path] = url
           /\ url.host \in Hosts /\ url.path \in {"text", "var"}
OBVIOUS

\* What a configuration over HTTP holds.
LEMMA HttpServers ==
    ASSUME NEW s \in Servers, s.transport = "http"
    PROVE  /\ s.sse \in [scheme : STRING, host : Hosts, credentials : BOOLEAN, path : {"text", "var"}]
           /\ s.post \in [scheme : STRING, host : Hosts, credentials : BOOLEAN, path : {"text", "var"}]
           /\ s.value \in {"text", "var"} /\ s.bearer \in {"none", "var"}
           /\ s.envHeader \in {"none", "var", "reserved"}
BY TrustGateAssumption

\* A value becomes one thing at most; what had no placeholder stays.
LEMMA ExpandsToOne ==
    ASSUME NEW value \in {"text", "var"}, GateFits
    PROVE  /\ \A a, b \in Expanded(value) : a = b
           /\ \A a \in Expanded(value) : a \in {"text", "one", "two"} /\ (a = "text" => value = "text")
           /\ value = "text" => Expanded(value) = {"text"}
BY DEF Expanded, GateFits, VarValues, Unset

LEMMA ExpandsIfTrusted ==
    ASSUME NEW value \in {"text", "var"}, GateFits
    PROVE  /\ \A a, b \in ExpandedIfTrusted(value) : a = b
           /\ Trusted => \A a \in ExpandedIfTrusted(value) : a \in {"text", "one", "two"} /\ (a = "text" => value = "text")
           /\ ~Trusted => ExpandedIfTrusted(value) = {value}
           /\ value = "text" => ExpandedIfTrusted(value) = {"text"}
<1>1. CASE Trusted
  BY <1>1, ExpandsToOne DEF ExpandedIfTrusted
<1>2. CASE ~Trusted
  BY <1>2 DEF ExpandedIfTrusted
<1>3. QED
  BY <1>1, <1>2

LEMMA ReadsOne ==
    ASSUME NEW name \in {"none", "var", "reserved"}, GateFits
    PROVE  /\ \A a, b \in ReadVar(name) : a = b
           /\ \A a \in ReadVar(name) : a \in {"none", "one", "two"} /\ (a = "none" => name = "none")
           /\ name = "none" => ReadVar(name) = {"none"}
BY DEF ReadVar, Expanded, GateFits, VarValues, Unset

\* The URLs of a configuration are one pair at most.
LEMMA UrlsAreOne ==
    ASSUME NEW s \in Servers, s.transport = "http", GateFits
    PROVE  \A a, b \in UrlsOf(s) : a = b
<1>1. s.sse.path \in {"text", "var"} /\ s.post.path \in {"text", "var"}
  BY HttpServers, UrlWith
<1>2. /\ \A a, b \in ExpandedIfTrusted(s.sse.path) : a = b
      /\ \A a, b \in ExpandedIfTrusted(s.post.path) : a = b
  BY <1>1, ExpandsIfTrusted
<1>3. QED
  BY <1>2 DEF UrlsOf

LEMMA HeadersAreOne ==
    ASSUME NEW s \in Servers, s.transport = "http", GateFits
    PROVE  \A a, b \in HeadersOf(s) : a = b
<1>1. s.value \in {"text", "var"} /\ s.bearer \in {"none", "var", "reserved"}
      /\ s.envHeader \in {"none", "var", "reserved"}
  BY HttpServers
<1>2. /\ \A a, b \in ExpandedIfTrusted(s.value) : a = b
      /\ \A a, b \in ReadVar(s.bearer) : a = b
      /\ \A a, b \in ReadVar(s.envHeader) : a = b
  BY <1>1, ExpandsIfTrusted, ReadsOne
<1>3. QED
  BY <1>2 DEF HeadersOf

\* A configuration is one identity at most.
LEMMA IdentitiesAreOne ==
    ASSUME NEW s \in Servers, GateFits
    PROVE  \A a, b \in IdentityOfServer(s) : a = b
<1>1. CASE s.transport = "stdio"
  <2>1. s.argv \in {"text", "var"} /\ s.env \in {"text", "var"}
    BY <1>1, TrustGateAssumption
  <2>2. /\ \A a, b \in Expanded(s.argv) : a = b
        /\ \A a, b \in Expanded(s.env) : a = b
    BY <2>1, ExpandsToOne
  <2>3. QED
    BY <1>1, <2>2 DEF IdentityOfServer
<1>2. CASE s.transport = "unix"
  BY <1>2 DEF IdentityOfServer
<1>3. CASE s.transport = "http"
  <2>1. /\ \A a, b \in UrlsOf(s) : a = b
        /\ \A a, b \in HeadersOf(s) : a = b
    BY <1>3, UrlsAreOne, HeadersAreOne
  <2>2. QED
    BY <1>3, <2>1 DEF IdentityOfServer
<1>4. QED
  BY <1>1, <1>2, <1>3, TrustGateAssumption

\* The parts of tuples that are equal.
LEMMA PairParts ==
    ASSUME NEW a, NEW b, NEW c, NEW d, <<a, b>> = <<c, d>>
    PROVE  a = c /\ b = d
<1>1. <<a, b>>[1] = a /\ <<c, d>>[1] = c /\ <<a, b>>[2] = b /\ <<c, d>>[2] = d
  OBVIOUS
<1>2. QED
  BY <1>1

LEMMA TripleParts ==
    ASSUME NEW a, NEW b, NEW c, NEW d, NEW e, NEW f, <<a, b, c>> = <<d, e, f>>
    PROVE  a = d /\ b = e /\ c = f
<1>1. /\ <<a, b, c>>[1] = a /\ <<a, b, c>>[2] = b /\ <<a, b, c>>[3] = c
      /\ <<d, e, f>>[1] = d /\ <<d, e, f>>[2] = e /\ <<d, e, f>>[3] = f
  OBVIOUS
<1>2. QED
  BY <1>1

LEMMA QuadParts ==
    ASSUME NEW a, NEW b, NEW c, NEW d, NEW e, NEW f, NEW g, NEW h, <<a, b, c, d>> = <<e, f, g, h>>
    PROVE  a = e /\ b = f /\ c = g /\ d = h
<1>1. /\ <<a, b, c, d>>[1] = a /\ <<a, b, c, d>>[2] = b /\ <<a, b, c, d>>[3] = c /\ <<a, b, c, d>>[4] = d
      /\ <<e, f, g, h>>[1] = e /\ <<e, f, g, h>>[2] = f /\ <<e, f, g, h>>[3] = g /\ <<e, f, g, h>>[4] = h
  OBVIOUS
<1>2. QED
  BY <1>1

\* A URL that is spelled as one that was reached has no placeholder that is filled in.
LEMMA SpelledUrl ==
    ASSUME NEW url \in [scheme : STRING, host : Hosts, credentials : BOOLEAN, path : {"text", "var"}],
           NEW old \in [scheme : STRING, host : Hosts, credentials : BOOLEAN, path : {"text", "var"}],
           GateFits, NEW v \in ExpandedIfTrusted(old.path), url = [old EXCEPT !.path = v]
    PROVE  {[url EXCEPT !.path = w] : w \in ExpandedIfTrusted(url.path)} = {url}
<1>1. url.path = v /\ url.path \in {"text", "var"} /\ old.path \in {"text", "var"}
  BY UrlWith
<1>5. [url EXCEPT !.path = url.path] = url
  BY UrlWith
<1>6. ExpandedIfTrusted(url.path) = {url.path} =>
         {[url EXCEPT !.path = w] : w \in ExpandedIfTrusted(url.path)} = {url}
  <2>1. ASSUME ExpandedIfTrusted(url.path) = {url.path}
        PROVE  {[url EXCEPT !.path = w] : w \in ExpandedIfTrusted(url.path)} = {url}
    <3> DEFINE S == {[url EXCEPT !.path = w] : w \in ExpandedIfTrusted(url.path)}
    <3>1. \A x : x \in S <=> \E w \in ExpandedIfTrusted(url.path) : x = [url EXCEPT !.path = w]
      BY Zenon
    <3> HIDE DEF S
    <3>2. \A x : x \in S <=> x = [url EXCEPT !.path = url.path]
      BY <2>1, <3>1, Zenon
    <3>3. \A x : x \in S <=> x = url
      <4>1. PICK same : same = [url EXCEPT !.path = url.path]
        OBVIOUS
      <4>2. \A x : x \in S <=> x = same
        BY <3>2, <4>1
      <4>3. same = url
        BY <1>5, <4>1
      <4>4. QED
        BY <4>2, <4>3
    <3>4. S = {url}
      BY <3>3, Zenon
    <3>5. QED
      BY <3>4 DEF S
  <2>2. QED
    BY <2>1
<1>2. CASE Trusted
  <2>1. v \in {"text", "one", "two"}
    BY <1>1, <1>2, ExpandsIfTrusted
  <2>2. ExpandedIfTrusted(url.path) = {url.path}
    BY <1>1, <2>1, ExpandsIfTrusted
  <2>3. QED
    BY <1>6, <2>2
<1>3. CASE ~Trusted
  <2>1. ExpandedIfTrusted(url.path) = {url.path}
    BY <1>1, <1>3, ExpandsIfTrusted
  <2>2. QED
    BY <1>6, <2>1
<1>4. QED
  BY <1>2, <1>3

\* A configuration that is spelled as what a connection was made with would make just that one.
LEMMA SpelledAsMade ==
    ASSUME NEW s \in Servers, NEW t \in Servers, GateFits, RawIdentityOf(s) \in IdentityOfServer(t)
    PROVE  IdentityOfServer(s) = {RawIdentityOf(s)}
<1>1. CASE t.transport = "stdio"
  <2>1. PICK argv \in Expanded(t.argv), env \in Expanded(t.env) : RawIdentityOf(s) = <<"stdio", argv, env, t.log>>
    BY <1>1 DEF IdentityOfServer
  <2>2. s.transport = "stdio"
    <3>1. <<"stdio", argv, env, t.log>>[1] = "stdio"
      OBVIOUS
    <3>2. s.transport = "unix" => RawIdentityOf(s)[1] = "unix"
      BY DEF RawIdentityOf
    <3>3. s.transport = "http" => RawIdentityOf(s)[1] = "http"
      BY DEF RawIdentityOf
    <3>4. QED
      BY <2>1, <3>1, <3>2, <3>3, TrustGateAssumption
  <2>3. RawIdentityOf(s) = <<"stdio", s.argv, s.env, s.log>>
    BY <2>2 DEF RawIdentityOf
  <2>4. s.argv = argv /\ s.env = env
    BY <2>1, <2>3, QuadParts
  <2>5. /\ t.argv \in {"text", "var"} /\ t.env \in {"text", "var"}
        /\ s.argv \in {"text", "var"} /\ s.env \in {"text", "var"}
    BY <1>1, <2>2, TrustGateAssumption
  <2>6. argv \in {"text", "one", "two"} /\ env \in {"text", "one", "two"}
    BY <2>5, ExpandsToOne
  <2>7. Expanded(s.argv) = {s.argv} /\ Expanded(s.env) = {s.env}
    BY <2>4, <2>5, <2>6, ExpandsToOne
  <2>8. QED
    BY <2>2, <2>3, <2>7 DEF IdentityOfServer
<1>2. CASE t.transport = "unix"
  <2>1. RawIdentityOf(s) = <<"unix">>
    BY <1>2 DEF IdentityOfServer
  <2>2. s.transport = "unix"
    <3>1. <<"unix">>[1] = "unix"
      OBVIOUS
    <3>2. s.transport = "stdio" => RawIdentityOf(s)[1] = "stdio"
      BY DEF RawIdentityOf
    <3>3. s.transport = "http" => RawIdentityOf(s)[1] = "http"
      BY DEF RawIdentityOf
    <3>4. QED
      BY <2>1, <3>1, <3>2, <3>3, TrustGateAssumption
  <2>3. QED
    BY <2>1, <2>2 DEF IdentityOfServer
<1>3. CASE t.transport = "http"
  <2>1. PICK urls \in UrlsOf(t), headers \in HeadersOf(t) : RawIdentityOf(s) = <<"http", urls, headers>>
    BY <1>3 DEF IdentityOfServer
  <2>2. s.transport = "http"
    <3>1. <<"http", urls, headers>>[1] = "http"
      OBVIOUS
    <3>2. s.transport = "stdio" => RawIdentityOf(s)[1] = "stdio"
      BY DEF RawIdentityOf
    <3>3. s.transport = "unix" => RawIdentityOf(s)[1] = "unix"
      BY DEF RawIdentityOf
    <3>4. QED
      BY <2>1, <3>1, <3>2, <3>3, TrustGateAssumption
  <2>3. RawIdentityOf(s) = <<"http", <<s.sse, s.post>>, <<s.headers, s.value, s.bearer, s.envHeader>>>>
    BY <2>2 DEF RawIdentityOf
  <2>4. urls = <<s.sse, s.post>> /\ headers = <<s.headers, s.value, s.bearer, s.envHeader>>
    BY <2>1, <2>3, TripleParts
  <2>5. UrlsOf(s) = {<<s.sse, s.post>>}
    <3>1. PICK v \in ExpandedIfTrusted(t.sse.path), w \in ExpandedIfTrusted(t.post.path) :
             urls = <<[t.sse EXCEPT !.path = v], [t.post EXCEPT !.path = w]>>
      BY DEF UrlsOf
    <3>2. s.sse = [t.sse EXCEPT !.path = v] /\ s.post = [t.post EXCEPT !.path = w]
      BY <2>4, <3>1, PairParts
    <3>3. /\ {[s.sse EXCEPT !.path = x] : x \in ExpandedIfTrusted(s.sse.path)} = {s.sse}
          /\ {[s.post EXCEPT !.path = x] : x \in ExpandedIfTrusted(s.post.path)} = {s.post}
      BY <1>3, <2>2, <3>2, HttpServers, SpelledUrl
    <3>4. UrlsOf(s) = {<<sse, post>> : sse \in {s.sse}, post \in {s.post}}
      BY <3>3 DEF UrlsOf
    <3>5. QED
      BY <3>4
  <2>6. HeadersOf(s) = {<<s.headers, s.value, s.bearer, s.envHeader>>}
    <3>1. /\ ~(~Trusted /\ (t.bearer # "none" \/ t.envHeader # "none")) /\ ~NamesReserved(t)
          /\ HeadersOf(t) = {<<t.headers, value, bearer, header>> :
                value \in ExpandedIfTrusted(t.value), bearer \in ReadVar(t.bearer),
                header \in ReadVar(t.envHeader)}
      BY DEF HeadersOf
    <3>2. PICK value \in ExpandedIfTrusted(t.value), bearer \in ReadVar(t.bearer), header \in ReadVar(t.envHeader) :
             headers = <<t.headers, value, bearer, header>>
      BY <3>1
    <3>3. s.headers = t.headers /\ s.value = value /\ s.bearer = bearer /\ s.envHeader = header
      BY <2>4, <3>2, QuadParts
    <3>4. /\ s.value \in {"text", "var"} /\ s.bearer \in {"none", "var"} /\ s.envHeader \in {"none", "var", "reserved"}
          /\ t.value \in {"text", "var"} /\ t.bearer \in {"none", "var", "reserved"}
          /\ t.envHeader \in {"none", "var", "reserved"}
      BY <1>3, <2>2, HttpServers
    <3>5. bearer \in {"none", "one", "two"} /\ header \in {"none", "one", "two"}
      BY <3>4, ReadsOne
    <3>6. s.bearer = "none" /\ s.envHeader = "none"
      BY <3>3, <3>4, <3>5
    <3>7. ReadVar(s.bearer) = {"none"} /\ ReadVar(s.envHeader) = {"none"}
      BY <3>6, ReadsOne
    <3>8. ExpandedIfTrusted(s.value) = {s.value}
      <4>1. CASE Trusted
        <5>1. value \in {"text", "one", "two"}
          BY <3>4, <4>1, ExpandsIfTrusted
        <5>2. QED
          BY <3>3, <3>4, <5>1, ExpandsIfTrusted
      <4>2. CASE ~Trusted
        BY <3>4, <4>2, ExpandsIfTrusted
      <4>3. QED
        BY <4>1, <4>2
    <3>9. ~NamesReserved(s)
      BY <3>1, <3>3, <3>6 DEF NamesReserved
    <3>10. HeadersOf(s) = {<<s.headers, x, bearer2, header2>> :
                x \in {s.value}, bearer2 \in {"none"}, header2 \in {"none"}}
      BY <3>6, <3>7, <3>8, <3>9 DEF HeadersOf
    <3>11. QED
      BY <3>6, <3>10
  <2>7. IdentityOfServer(s) = {<<"http", urls2, headers2>> : urls2 \in {<<s.sse, s.post>>},
                                 headers2 \in {<<s.headers, s.value, s.bearer, s.envHeader>>}}
    BY <2>2, <2>5, <2>6 DEF IdentityOfServer
  <2>8. QED
    BY <2>3, <2>7
<1>4. QED
  BY <1>1, <1>2, <1>3, TrustGateAssumption

LEMMA TrustGateInitInv == TrustGateInit => TrustGateInv
<1>1. SUFFICES ASSUME TrustGateInit PROVE TrustGateInv
  OBVIOUS
<1>2. /\ DOMAIN gating = {"pc", "manager", "server", "todo", "used", "recorded", "reached", "looked",
                          "sends", "connected", "result"}
      /\ gating.pc = "idle" /\ gating.recorded = <<>> /\ gating.reached = {} /\ gating.looked = {}
      /\ gating.result = "none" /\ environ \in VarValues \cup {Unset} /\ envEdits = 0
  BY <1>1 DEF TrustGateInit
<1>3. GateFits /\ StagesFit /\ RefusalsFit
  BY <1>2 DEF GateFits, StagesFit, RefusalsFit
<1>4. UntrustedFits
  BY <1>2 DEF UntrustedFits, Waits
<1>5. IdentityFits
  BY <1>2 DEF IdentityFits
<1>6. QED
  BY <1>3, <1>4, <1>5 DEF TrustGateInv

\* What the policy says of a URL, and the environment of a value, does not change with a step of
\* the connection.
LEMMA SamePolicy ==
    ASSUME gating'.manager = gating.manager
    PROVE  /\ Trusted' <=> Trusted
           /\ \A url : WithinPolicy(url)' <=> WithinPolicy(url)
           /\ \A r : KeepsThePolicy(r)' <=> KeepsThePolicy(r)
<1>1. Trusted' <=> Trusted
  BY DEF Trusted
<1>2. \A url : WithinPolicy(url)' <=> WithinPolicy(url)
  BY DEF WithinPolicy, Rules
<1>3. \A r : KeepsThePolicy(r)' <=> KeepsThePolicy(r)
  BY DEF KeepsThePolicy, WithinPolicy, Rules
<1>4. QED
  BY <1>1, <1>2, <1>3

LEMMA SameValues ==
    ASSUME gating'.manager = gating.manager, environ' = environ
    PROVE  /\ \A s : UrlsOf(s)' = UrlsOf(s)
           /\ \A s : HeadersOf(s)' = HeadersOf(s)
           /\ \A s \in Servers : IdentityOfServer(s)' = IdentityOfServer(s)
<1>1. \A v : Expanded(v)' = Expanded(v)
  BY DEF Expanded
<1>2. \A v : ExpandedIfTrusted(v)' = ExpandedIfTrusted(v)
  BY <1>1 DEF ExpandedIfTrusted, Trusted
<1>3. \A v : ReadVar(v)' = ReadVar(v)
  BY DEF ReadVar, Expanded
<1>4. \A s : UrlsOf(s)' = UrlsOf(s)
  BY <1>2 DEF UrlsOf
<1>5. \A s : HeadersOf(s)' = HeadersOf(s)
  BY <1>2, <1>3 DEF HeadersOf, Trusted
<1>6. ASSUME NEW s \in Servers
      PROVE  IdentityOfServer(s)' = IdentityOfServer(s)
  <2>1. CASE s.transport = "stdio"
    BY <1>1, <2>1 DEF IdentityOfServer
  <2>2. CASE s.transport = "unix"
    BY <2>2 DEF IdentityOfServer
  <2>3. CASE s.transport = "http"
    BY <1>4, <1>5, <2>3 DEF IdentityOfServer
  <2>4. QED
    BY <2>1, <2>2, <2>3, TrustGateAssumption
<1>7. QED
  BY <1>4, <1>5, <1>6

\* A connection that is over.
LEMMA DeclinesInv ==
    ASSUME TrustGateInv, NEW why, why # "reused", Declines(why), RefusalsFit'
    PROVE  TrustGateInv'
<1>1. /\ DOMAIN gating' = DOMAIN gating /\ gating'.pc = "done" /\ gating'.result = why
      /\ gating'.manager = gating.manager /\ gating'.server = gating.server
      /\ gating'.used = gating.used /\ gating'.recorded = gating.recorded
      /\ gating'.reached = gating.reached /\ environ' = environ /\ envEdits' = envEdits
  BY DEF Declines, GateIs, TrustGateInv, GateFits
<1>2. GateFits' /\ StagesFit'
  BY <1>1 DEF TrustGateInv, GateFits, StagesFit
<1>3. UntrustedFits'
  BY <1>1, SamePolicy DEF TrustGateInv, UntrustedFits, Waits
<1>4. IdentityFits'
  BY <1>1 DEF TrustGateInv, IdentityFits
<1>5. QED
  BY <1>2, <1>3, <1>4 DEF TrustGateInv

LEMMA DeclinedAtOnceInv ==
    ASSUME TrustGateInv, gating.pc = "idle", Declines("config")
    PROVE  TrustGateInv'
<1>1. gating'.reached = {} /\ gating'.looked = {}
  BY DEF Declines, GateIs, TrustGateInv, GateFits, StagesFit
<1>2. RefusalsFit'
  BY <1>1 DEF RefusalsFit
<1>3. QED
  BY <1>2, DeclinesInv

LEMMA EnvironmentChangesInv ==
    ASSUME TrustGateInv, EnvironmentChanges
    PROVE  TrustGateInv'
<1>1. gating' = gating /\ environ' \in VarValues \cup {Unset} /\ envEdits' \in Nat /\ envEdits' # 0
  BY DEF EnvironmentChanges, TrustGateInv, GateFits
<1>2. GateFits' /\ StagesFit'
  BY <1>1 DEF TrustGateInv, GateFits, StagesFit
<1>3. UntrustedFits'
  BY <1>1, SamePolicy DEF TrustGateInv, UntrustedFits, Waits
<1>4. RefusalsFit' /\ IdentityFits'
  BY <1>1 DEF RefusalsFit, IdentityFits
<1>5. QED
  BY <1>2, <1>3, <1>4 DEF TrustGateInv

\* A process is started, or a socket opened, for a server that somebody vouched for.
LEMMA SpawnedInv ==
    ASSUME TrustGateInv, gating.pc = "idle", Trusted, NEW s \in Servers, NEW identity \in IdentityOfServer(s),
           GateIs([gating EXCEPT !.pc = "spawn", !.server = s, !.used = identity])
    PROVE  TrustGateInv'
<1>1. /\ DOMAIN gating' = DOMAIN gating /\ gating'.pc = "spawn" /\ gating'.result = gating.result
      /\ gating'.manager = gating.manager /\ gating'.server = s
      /\ gating'.used = identity /\ gating'.recorded = gating.recorded
      /\ gating'.reached = gating.reached /\ environ' = environ /\ envEdits' = envEdits
  BY DEF GateIs, TrustGateInv, GateFits
<1>2. GateFits' /\ StagesFit' /\ RefusalsFit'
  BY <1>1 DEF TrustGateInv, GateFits, StagesFit, RefusalsFit
<1>3. UntrustedFits'
  BY <1>1, SamePolicy DEF UntrustedFits
<1>4. IdentityFits'
  BY <1>1, SameValues DEF TrustGateInv, StagesFit, IdentityFits
<1>5. QED
  BY <1>2, <1>3, <1>4 DEF TrustGateInv

\* The URLs of a configuration that are allowed are ones the policy covers.
LEMMA AllowedUrls ==
    ASSUME TrustGateInv, ~Trusted, NEW s \in Servers, s.transport = "http", NEW urls \in UrlsOf(s),
           \A i \in DOMAIN UrlsToCheck(urls) : AllowsUrl(s, UrlsToCheck(urls)[i])
    PROVE  /\ ~NamesASecret(s)
           /\ \A url \in {urls[1], urls[2]} : WithinPolicy(url)
<1>1. /\ s.sse \in [scheme : STRING, host : Hosts, credentials : BOOLEAN, path : {"text", "var"}]
      /\ s.post \in [scheme : STRING, host : Hosts, credentials : BOOLEAN, path : {"text", "var"}]
  BY HttpServers
<1>2. urls = <<s.sse, s.post>>
  <2>1. GateFits /\ s.sse.path \in {"text", "var"} /\ s.post.path \in {"text", "var"}
    BY <1>1, UrlWith DEF TrustGateInv
  <2>2. ExpandedIfTrusted(s.sse.path) = {s.sse.path} /\ ExpandedIfTrusted(s.post.path) = {s.post.path}
    BY <2>1, ExpandsIfTrusted
  <2>3. PICK v \in ExpandedIfTrusted(s.sse.path), w \in ExpandedIfTrusted(s.post.path) :
           urls = <<[s.sse EXCEPT !.path = v], [s.post EXCEPT !.path = w]>>
    BY DEF UrlsOf
  <2>4. v = s.sse.path /\ w = s.post.path
    BY <2>2, <2>3
  <2>5. [s.sse EXCEPT !.path = v] = s.sse /\ [s.post EXCEPT !.path = w] = s.post
    BY <1>1, <2>4, UrlWith
  <2>6. QED
    BY <2>3, <2>5
<1>3. urls[1] = s.sse /\ urls[2] = s.post
  BY <1>2
<1>4. AllowsUrl(s, s.sse) /\ AllowsUrl(s, s.post)
  <2>1. CASE urls[1] = urls[2]
    <3>1. UrlsToCheck(urls) = <<urls[1]>>
      BY <2>1 DEF UrlsToCheck
    <3>2. 1 \in DOMAIN UrlsToCheck(urls) /\ UrlsToCheck(urls)[1] = urls[1]
      BY <3>1
    <3>3. QED
      BY <1>3, <2>1, <3>2
  <2>2. CASE urls[1] # urls[2]
    <3>1. UrlsToCheck(urls) = <<s.sse, s.post>>
      BY <1>2, <2>2 DEF UrlsToCheck
    <3>2. /\ 1 \in DOMAIN UrlsToCheck(urls) /\ 2 \in DOMAIN UrlsToCheck(urls)
          /\ UrlsToCheck(urls)[1] = s.sse /\ UrlsToCheck(urls)[2] = s.post
      BY <3>1
    <3>3. QED
      BY <3>2
  <2>3. QED
    BY <2>1, <2>2
<1>5. ~NamesASecret(s)
  BY <1>4 DEF AllowsUrl
<1>6. WithinPolicy(s.sse) /\ WithinPolicy(s.post)
  <2>1. /\ s.sse.host \in Hosts /\ s.sse.path \in {"text", "var"}
        /\ s.post.host \in Hosts /\ s.post.path \in {"text", "var"}
    BY <1>1, UrlWith
  <2>2. QED
    BY <1>4, <2>1 DEF AllowsUrl, WithinPolicy
<1>7. QED
  BY <1>3, <1>5, <1>6

LEMMA ConnectsHttpInv ==
    ASSUME TrustGateInv, gating.pc = "idle", NEW s \in Servers, s.transport = "http", ConnectsHttp(s)
    PROVE  TrustGateInv'
<1>1. CASE Declines("config")
  BY <1>1, DeclinedAtOnceInv
<1>2. CASE \E urls \in UrlsOf(s) :
             /\ ~(\/ \E i \in DOMAIN UrlsToCheck(urls) : ~AllowsUrl(s, UrlsToCheck(urls)[i])
                  \/ ~Trusted /\ (s.bearer # "none" \/ s.envHeader # "none"))
             /\ GateIs([gating EXCEPT !.pc = "check", !.server = s, !.used = <<"http", urls, <<>>>>,
                                  !.todo = IF Trusted THEN <<>> ELSE UrlsToCheck(urls)])
  <2>1. PICK urls \in UrlsOf(s) :
             /\ ~(\/ \E i \in DOMAIN UrlsToCheck(urls) : ~AllowsUrl(s, UrlsToCheck(urls)[i])
                  \/ ~Trusted /\ (s.bearer # "none" \/ s.envHeader # "none"))
             /\ GateIs([gating EXCEPT !.pc = "check", !.server = s, !.used = <<"http", urls, <<>>>>,
                                  !.todo = IF Trusted THEN <<>> ELSE UrlsToCheck(urls)])
    BY <1>2
  <2>2. PICK todo : GateIs([gating EXCEPT !.pc = "check", !.server = s, !.used = <<"http", urls, <<>>>>,
                                          !.todo = todo])
    BY <2>1
  <2>3. /\ DOMAIN gating' = DOMAIN gating /\ gating'.pc = "check" /\ gating'.result = gating.result
        /\ gating'.manager = gating.manager /\ gating'.server = s
        /\ gating'.used = <<"http", urls, <<>>>> /\ gating'.recorded = gating.recorded
        /\ gating'.reached = gating.reached /\ environ' = environ /\ envEdits' = envEdits
    BY <2>2 DEF GateIs, TrustGateInv, GateFits
  <2>4. gating'.used[2] = urls
    BY <2>3
  <2>5. GateFits' /\ StagesFit' /\ RefusalsFit'
    BY <2>3 DEF TrustGateInv, GateFits, StagesFit, RefusalsFit
  <2>6. UntrustedFits'
    <3>1. ~Trusted => /\ ~NamesASecret(s) /\ s.bearer = "none" /\ s.envHeader = "none"
                      /\ \A url \in {urls[1], urls[2]} : WithinPolicy(url)
      BY <2>1, AllowedUrls
    <3>2. ~Trusted => \A url \in {urls[1], urls[2]} : WithinPolicy(url)'
      BY <2>3, <3>1, SamePolicy
    <3>3. Trusted' <=> Trusted
      BY <2>3, SamePolicy
    <3>4. gating'.reached = {}
      BY <2>3 DEF TrustGateInv, StagesFit
    <3>5. QED
      BY <2>3, <2>4, <3>1, <3>2, <3>3, <3>4 DEF UntrustedFits
  <2>7. IdentityFits'
    BY <2>3, <2>4, SameValues DEF TrustGateInv, StagesFit, IdentityFits
  <2>8. QED
    BY <2>5, <2>6, <2>7 DEF TrustGateInv
<1>3. QED
  BY <1>1, <1>2 DEF ConnectsHttp

LEMMA ConnectsInv ==
    ASSUME TrustGateInv, NEW s \in Servers, Connects(s)
    PROVE  TrustGateInv'
<1>1. gating.pc = "idle"
  BY DEF Connects
<1>2. CASE s.transport = "stdio"
  <2>1. ConnectsStdio(s)
    BY <1>2 DEF Connects
  <2>2. CASE Declines("config")
    BY <1>1, <2>2, DeclinedAtOnceInv
  <2>3. CASE Trusted /\ \E identity \in IdentityOfServer(s) :
               GateIs([gating EXCEPT !.pc = "spawn", !.server = s, !.used = identity])
    BY <1>1, <2>3, SpawnedInv
  <2>4. QED
    BY <2>1, <2>2, <2>3 DEF ConnectsStdio
<1>3. CASE s.transport = "unix"
  <2>1. ConnectsUnix(s)
    BY <1>3 DEF Connects
  <2>2. CASE Declines("config")
    BY <1>1, <2>2, DeclinedAtOnceInv
  <2>3. CASE Trusted /\ GateIs([gating EXCEPT !.pc = "spawn", !.server = s, !.used = <<"unix">>])
    <3>1. <<"unix">> \in IdentityOfServer(s)
      BY <1>3 DEF IdentityOfServer
    <3>2. QED
      BY <1>1, <2>3, <3>1, SpawnedInv
  <2>4. QED
    BY <2>1, <2>2, <2>3 DEF ConnectsUnix
<1>4. CASE s.transport = "http"
  <2>1. ConnectsHttp(s)
    BY <1>4 DEF Connects
  <2>2. QED
    BY <1>1, <1>4, <2>1, ConnectsHttpInv
<1>5. QED
  BY <1>2, <1>3, <1>4, TrustGateAssumption

\* Names are looked up and checked, and nothing else changes.
LEMMA CheckGoesOnInv ==
    ASSUME TrustGateInv, gating.pc = "check", DOMAIN gating' = DOMAIN gating, gating'.pc = "check",
           gating'.result = gating.result, gating'.manager = gating.manager,
           gating'.server = gating.server, gating'.used = gating.used,
           gating'.recorded = gating.recorded, gating'.reached = gating.reached,
           environ' = environ, envEdits' = envEdits
    PROVE  TrustGateInv'
<1>1. GateFits' /\ StagesFit' /\ RefusalsFit'
  BY DEF TrustGateInv, GateFits, StagesFit, RefusalsFit
<1>2. UntrustedFits'
  BY SamePolicy DEF TrustGateInv, UntrustedFits, Waits
<1>3. IdentityFits'
  <2>1. gating.server \in Servers
    BY DEF TrustGateInv, GateFits
  <2>2. QED
    BY <2>1, SameValues DEF TrustGateInv, StagesFit, IdentityFits
<1>4. QED
  BY <1>1, <1>2, <1>3 DEF TrustGateInv

\* The connection is over, refused or broken, before or after it was made.
LEMMA OverAsInv ==
    ASSUME TrustGateInv, DOMAIN gating' = DOMAIN gating, gating'.pc = "done",
           gating'.result \notin {"config", "reused"}, gating'.manager = gating.manager,
           gating'.used = gating.used, gating'.recorded = gating.recorded,
           gating'.reached = gating.reached, environ' = environ, envEdits' = envEdits
    PROVE  TrustGateInv'
<1>1. GateFits' /\ StagesFit' /\ RefusalsFit'
  BY DEF TrustGateInv, GateFits, StagesFit, RefusalsFit
<1>2. UntrustedFits'
  BY SamePolicy DEF TrustGateInv, UntrustedFits, Waits
<1>3. IdentityFits'
  BY DEF TrustGateInv, IdentityFits
<1>4. QED
  BY <1>1, <1>2, <1>3 DEF TrustGateInv

LEMMA ChecksNameInv ==
    ASSUME TrustGateInv, ChecksName
    PROVE  TrustGateInv'
<1>1. gating.pc = "check"
  BY DEF ChecksName
<1>2. PICK todo, looked :
         /\ UNCHANGED <<environ, envEdits>>
         /\ \/ gating' = [gating EXCEPT !.todo = todo]
            \/ gating' = [[gating EXCEPT !.todo = todo] EXCEPT !.looked = looked]
            \/ gating' = [[[gating EXCEPT !.todo = todo] EXCEPT !.looked = looked]
                            EXCEPT !.pc = "done", !.result = "name"]
  <2> DEFINE host == Head(gating.todo).host
             passed == [gating EXCEPT !.todo = Tail(@)]
             asked == [passed EXCEPT !.looked = @ \cup {host}]
  <2>1. PICK todo : todo = Tail(gating.todo)
    OBVIOUS
  <2>2. PICK looked : looked = passed.looked \cup {host}
    OBVIOUS
  <2>3. passed = [gating EXCEPT !.todo = todo] /\ asked = [[gating EXCEPT !.todo = todo] EXCEPT !.looked = looked]
    BY <2>1, <2>2
  <2>4. \/ GateIs(passed) \/ GateIs(asked)
        \/ GateIs([asked EXCEPT !.pc = "done", !.result = "name"])
    <3>1. GateIs(passed) \/ (\E answer \in Answers(host) :
                     GateIs(IF AllowsAnswer(Rules, host, answer) THEN asked
                            ELSE [asked EXCEPT !.pc = "done", !.result = "name"]))
          \/ (\E failure \in Failures :
                     GateIs(IF Rules.failOpen THEN asked
                            ELSE [asked EXCEPT !.pc = "done", !.result = "name"]))
      BY Zenon DEF ChecksName
    <3> HIDE DEF passed, asked, host
    <3>2. QED
      BY <3>1
  <2> HIDE DEF passed, asked, host
  <2>5. QED
    BY <2>3, <2>4 DEF GateIs
<1>3. DOMAIN gating = {"pc", "manager", "server", "todo", "used", "recorded", "reached", "looked",
                          "sends", "connected", "result"}
  BY DEF TrustGateInv, GateFits
<1>4. CASE gating' = [gating EXCEPT !.todo = todo]
  <2>1. /\ DOMAIN gating' = DOMAIN gating /\ gating'.pc = "check"
        /\ gating'.result = gating.result /\ gating'.manager = gating.manager
        /\ gating'.server = gating.server /\ gating'.used = gating.used
        /\ gating'.recorded = gating.recorded /\ gating'.reached = gating.reached
    BY <1>1, <1>3, <1>4
  <2>2. QED
    BY <1>1, <1>2, <2>1, CheckGoesOnInv
<1>5. CASE gating' = [[gating EXCEPT !.todo = todo] EXCEPT !.looked = looked]
  <2>1. /\ DOMAIN gating' = DOMAIN gating /\ gating'.pc = "check"
        /\ gating'.result = gating.result /\ gating'.manager = gating.manager
        /\ gating'.server = gating.server /\ gating'.used = gating.used
        /\ gating'.recorded = gating.recorded /\ gating'.reached = gating.reached
    BY <1>1, <1>3, <1>5
  <2>2. QED
    BY <1>1, <1>2, <2>1, CheckGoesOnInv
<1>6. CASE gating' = [[[gating EXCEPT !.todo = todo] EXCEPT !.looked = looked]
                            EXCEPT !.pc = "done", !.result = "name"]
  <2>1. /\ DOMAIN gating' = DOMAIN gating /\ gating'.pc = "done"
        /\ gating'.result = "name" /\ gating'.manager = gating.manager
        /\ gating'.used = gating.used
        /\ gating'.recorded = gating.recorded /\ gating'.reached = gating.reached
    BY <1>3, <1>6
  <2>2. QED
    BY <1>2, <2>1, OverAsInv
<1>7. QED
  BY <1>2, <1>4, <1>5, <1>6

\* What is sent to a server that nobody vouched for holds nothing that was read.
LEMMA UntrustedHeaders ==
    ASSUME TrustGateInv, ~Trusted, gating.pc = "check"
    PROVE  /\ HeadersOf(gating.server) = {} => "reserved" \in gating.server.headers
           /\ \A headers \in HeadersOf(gating.server) : ReadsNothing(headers)
<1>1. PICK s \in Servers : s = gating.server
  BY DEF TrustGateInv, GateFits
<1>2. /\ s.transport = "http" /\ s.bearer = "none" /\ s.envHeader = "none" /\ ~NamesASecret(s) /\ GateFits
  BY <1>1 DEF TrustGateInv, UntrustedFits, Waits
<1>3. s.value \in {"text", "var"}
  BY <1>2, HttpServers
<1>4. ExpandedIfTrusted(s.value) = {s.value} /\ ReadVar(s.bearer) = {"none"} /\ ReadVar(s.envHeader) = {"none"}
  BY <1>2, <1>3, ExpandsIfTrusted, ReadsOne
<1>5. CASE "reserved" \in s.headers
  <2>1. HeadersOf(s) = {}
    BY <1>5 DEF HeadersOf, NamesReserved
  <2>2. QED
    BY <1>1, <1>5, <2>1
<1>6. CASE "reserved" \notin s.headers
  <2>1. HeadersOf(s) = {<<s.headers, value, bearer, header>> :
            value \in {s.value}, bearer \in {"none"}, header \in {"none"}}
    BY <1>2, <1>4, <1>6 DEF HeadersOf, NamesReserved
  <2>2. HeadersOf(s) = {<<s.headers, s.value, "none", "none">>}
    BY <2>1
  <2>3. ReadsNothing(<<s.headers, s.value, "none", "none">>)
    <3>1. /\ <<s.headers, s.value, "none", "none">>[1] = s.headers
          /\ <<s.headers, s.value, "none", "none">>[2] = s.value
          /\ <<s.headers, s.value, "none", "none">>[3] = "none"
          /\ <<s.headers, s.value, "none", "none">>[4] = "none"
      OBVIOUS
    <3>2. s.headers \cap {"sensitive", "reserved"} = {}
      BY <1>2, <1>6 DEF NamesASecret
    <3>3. \A i \in 2..4 : i = 2 \/ i = 3 \/ i = 4
      OBVIOUS
    <3>4. QED
      BY <1>3, <3>1, <3>2, <3>3 DEF ReadsNothing
  <2>4. QED
    BY <1>1, <2>2, <2>3
<1>7. QED
  BY <1>5, <1>6

LEMMA BuildsHeadersInv ==
    ASSUME TrustGateInv, BuildsHeaders
    PROVE  TrustGateInv'
<1>1. gating.pc = "check"
  BY DEF BuildsHeaders
<1>2. CASE HeadersOf(gating.server) = {} /\ Declines("config")
  <2>1. gating'.reached = {} /\ gating'.server = gating.server
    BY <1>1, <1>2 DEF Declines, GateIs, TrustGateInv, GateFits, StagesFit
  <2>2. gating'.manager = gating.manager
    BY <1>2 DEF Declines, GateIs, TrustGateInv, GateFits
  <2>3. ~Trusted => "reserved" \in gating.server.headers
    BY <1>1, <1>2, UntrustedHeaders
  <2>4. RefusalsFit'
    BY <2>1, <2>2, <2>3, SamePolicy DEF RefusalsFit
  <2>5. QED
    BY <1>2, <2>4, DeclinesInv
<1>3. CASE \E headers \in HeadersOf(gating.server) :
            GateIs([gating EXCEPT !.pc = "open", !.used = <<"http", gating.used[2], headers>>])
  <2>1. PICK headers \in HeadersOf(gating.server) :
            GateIs([gating EXCEPT !.pc = "open", !.used = <<"http", gating.used[2], headers>>])
    BY <1>3
  <2>2. PICK urls : urls = gating.used[2]
    OBVIOUS
  <2>3. /\ DOMAIN gating' = DOMAIN gating /\ gating'.pc = "open" /\ gating'.result = gating.result
        /\ gating'.manager = gating.manager /\ gating'.server = gating.server
        /\ gating'.used = <<"http", urls, headers>> /\ gating'.recorded = gating.recorded
        /\ gating'.reached = gating.reached /\ environ' = environ /\ envEdits' = envEdits
    BY <2>1, <2>2 DEF GateIs, TrustGateInv, GateFits
  <2>4. gating'.used[2] = urls /\ gating'.used[3] = headers
    BY <2>3
  <2>5. GateFits' /\ StagesFit' /\ RefusalsFit'
    BY <1>1, <2>3 DEF TrustGateInv, GateFits, StagesFit, RefusalsFit
  <2>6. UntrustedFits'
    <3>1. ~Trusted => ReadsNothing(headers)
      BY <1>1, <2>1, UntrustedHeaders
    <3>2. ~Trusted => /\ gating.server.transport = "http" /\ ~NamesASecret(gating.server)
                      /\ gating.server.bearer = "none" /\ gating.server.envHeader = "none"
                      /\ \A url \in {urls[1], urls[2]} : WithinPolicy(url)
      BY <1>1, <2>2 DEF TrustGateInv, UntrustedFits, Waits
    <3>3. ~Trusted => \A url \in {urls[1], urls[2]} : WithinPolicy(url)'
      BY <2>3, <3>2, SamePolicy
    <3>4. Trusted' <=> Trusted
      BY <2>3, SamePolicy
    <3>5. gating'.reached = {}
      BY <1>1, <2>3 DEF TrustGateInv, StagesFit
    <3>6. QED
      BY <2>3, <2>4, <3>1, <3>2, <3>3, <3>4, <3>5 DEF UntrustedFits
  <2>7. IdentityFits'
    <3>1. gating.server \in Servers /\ gating.server.transport = "http"
      BY <1>1 DEF TrustGateInv, GateFits
    <3>2. envEdits = 0 => <<"http", urls, headers>> \in IdentityOfServer(gating.server)
      BY <1>1, <2>1, <2>2, <3>1 DEF TrustGateInv, IdentityFits, IdentityOfServer
    <3>3. IdentityOfServer(gating.server) = IdentityOfServer(gating.server)
      OBVIOUS
    <3>4. PICK s \in Servers : s = gating.server
      BY <3>1
    <3>5. IdentityOfServer(s)' = IdentityOfServer(s)
      BY <2>3, SameValues
    <3>6. gating'.result # "reused" /\ gating'.recorded = <<>>
      BY <1>1, <2>3 DEF TrustGateInv, StagesFit
    <3>7. QED
      BY <2>3, <3>2, <3>4, <3>5, <3>6 DEF IdentityFits
  <2>8. QED
    BY <2>5, <2>6, <2>7 DEF TrustGateInv
<1>4. QED
  BY <1>2, <1>3 DEF BuildsHeaders

\* Where addresses have to be public, an address of a host is global.
LEMMA PublicSockets ==
    ASSUME NEW host \in Hosts, NEW a \in SocketsFor(Enforces, host), Enforces
    PROVE  a = "global"
<1>1. PICK answer \in Answers(host) : a \in Pinned(answer)
  BY DEF SocketsFor
<1>2. answer \subseteq Addresses
  <2>1. CASE IsLiteral(host)
    <3>1. LiteralOf[host] \in Addresses
      BY <2>1, OutboundAssumption DEF IsLiteral
    <3>2. answer = {LiteralOf[host]}
      BY <2>1 DEF Answers
    <3>3. QED
      BY <3>1, <3>2
  <2>2. CASE ~IsLiteral(host)
    BY <2>2 DEF Answers
  <2>3. QED
    BY <2>1, <2>2
<1>3. a \in answer /\ IsPublic(a)
  BY <1>1 DEF Pinned
<1>4. QED
  BY <1>2, <1>3 DEF IsPublic, IsNonGlobal, Addresses

\* A request that was sent to a URL of the connection.
LEMMA SentInv ==
    ASSUME TrustGateInv, gating.pc \in {"open", "live"},
           NEW url \in {gating.used[2][1], gating.used[2][2]},
           NEW a \in SocketsFor(Enforces, url.host),
           GateIs([gating EXCEPT
              !.reached = @ \cup {[url |-> url, address |-> a, headers |-> gating.used[3]]},
              !.pc = IF @ = "open" THEN "record" ELSE @, !.sends = @ + 1, !.connected = TRUE])
    PROVE  TrustGateInv'
<1>0. PICK yes \in BOOLEAN : yes
  OBVIOUS
<1>1. PICK goesTo, sends, reached :
         /\ goesTo = IF gating.pc = "open" THEN "record" ELSE gating.pc
         /\ reached = gating.reached \cup {[url |-> url, address |-> a, headers |-> gating.used[3]]}
         /\ gating' = [gating EXCEPT !.reached = reached, !.pc = goesTo, !.sends = sends, !.connected = yes]
  BY <1>0 DEF GateIs
<1>2. DOMAIN gating = {"pc", "manager", "server", "todo", "used", "recorded", "reached", "looked",
                       "sends", "connected", "result"}
  BY DEF TrustGateInv, GateFits
<1>3. /\ DOMAIN gating' = DOMAIN gating /\ gating'.pc = goesTo /\ gating'.result = gating.result
      /\ gating'.manager = gating.manager /\ gating'.server = gating.server
      /\ gating'.used = gating.used /\ gating'.recorded = gating.recorded
      /\ gating'.reached = reached
  BY <1>1, <1>2
<1>4. environ' = environ /\ envEdits' = envEdits
  BY DEF GateIs
<1>5. gating'.connected = yes
  BY <1>1, <1>2
<1>6. goesTo \in {"record", "live"} /\ (goesTo = "record" => gating.pc = "open")
  BY <1>1
<1>7. GateFits'
  BY <1>3, <1>4, <1>6 DEF TrustGateInv, GateFits
<1>8. StagesFit' /\ RefusalsFit'
  <2>1. gating'.connected
    BY <1>0, <1>5
  <2>2. QED
    BY <1>3, <1>6, <2>1 DEF TrustGateInv, StagesFit, RefusalsFit
<1>9. UntrustedFits'
  <2>1. CASE Trusted
    BY <1>3, <2>1, SamePolicy DEF UntrustedFits
  <2>2. CASE ~Trusted
    <3>1. /\ gating.server.transport = "http" /\ ~NamesASecret(gating.server)
          /\ gating.server.bearer = "none" /\ gating.server.envHeader = "none"
          /\ \A u \in {gating.used[2][1], gating.used[2][2]} : WithinPolicy(u)
          /\ ReadsNothing(gating.used[3])
          /\ \A r \in gating.reached : KeepsThePolicy(r)
      BY <2>2 DEF TrustGateInv, UntrustedFits, Waits
    <3>2. PICK r : r = [url |-> url, address |-> a, headers |-> gating.used[3]]
      OBVIOUS
    <3>3. r.url = url /\ r.address = a /\ r.headers = gating.used[3]
      BY <3>2
    <3>4. WithinPolicy(url) /\ url.host \in Hosts
      BY <3>1 DEF WithinPolicy
    <3>5. ~Rules.private => a = "global"
      BY <2>2, <3>4, PublicSockets DEF Enforces
    <3>6. KeepsThePolicy(r)
      BY <3>1, <3>3, <3>4, <3>5 DEF KeepsThePolicy
    <3>7. \A x \in gating'.reached : KeepsThePolicy(x)
      BY <1>1, <1>3, <3>1, <3>2, <3>6
    <3>8. \A x \in gating'.reached : KeepsThePolicy(x)'
      BY <1>3, <3>7, SamePolicy
    <3>9. \A u \in {gating.used[2][1], gating.used[2][2]} : WithinPolicy(u)'
      BY <1>3, <3>1, SamePolicy
    <3>10. QED
      BY <1>3, <1>6, <3>1, <3>8, <3>9 DEF UntrustedFits
  <2>3. QED
    BY <2>1, <2>2
<1>10. IdentityFits'
  <2>1. PICK s \in Servers : s = gating.server
    BY DEF TrustGateInv, GateFits
  <2>2. IdentityOfServer(s)' = IdentityOfServer(s)
    BY <1>3, <1>4, SameValues
  <2>3. envEdits = 0 => /\ gating.recorded # <<>> => gating.recorded = gating.used
                        /\ gating.used \in IdentityOfServer(s)
    BY <2>1 DEF TrustGateInv, IdentityFits
  <2>4. gating'.result # "reused"
    BY <1>3 DEF TrustGateInv, StagesFit
  <2>5. QED
    BY <1>3, <1>4, <1>6, <2>1, <2>2, <2>3, <2>4 DEF IdentityFits
<1>11. QED
  BY <1>7, <1>8, <1>9, <1>10 DEF TrustGateInv

LEMMA OpensStreamInv ==
    ASSUME TrustGateInv, OpensStream
    PROVE  TrustGateInv'
<1>1. gating.pc = "open" /\ gating.used[2][1] \in {gating.used[2][1], gating.used[2][2]}
  BY DEF OpensStream
<1>2. CASE GateIs([gating EXCEPT !.pc = "done", !.result = "connect"])
  <2>1. /\ DOMAIN gating' = DOMAIN gating /\ gating'.pc = "done"
        /\ gating'.result = "connect" /\ gating'.manager = gating.manager
        /\ gating'.used = gating.used /\ gating'.recorded = gating.recorded
        /\ gating'.reached = gating.reached /\ environ' = environ /\ envEdits' = envEdits
    BY <1>2 DEF GateIs, TrustGateInv, GateFits
  <2>2. QED
    BY <2>1, OverAsInv
<1>3. CASE \E a \in SocketsFor(Enforces, gating.used[2][1].host) :
             GateIs([gating EXCEPT
              !.reached = @ \cup {[url |-> gating.used[2][1], address |-> a, headers |-> gating.used[3]]},
              !.pc = IF @ = "open" THEN "record" ELSE @, !.sends = @ + 1, !.connected = TRUE])
  BY <1>1, <1>3, SentInv
<1>4. QED
  BY <1>2, <1>3 DEF OpensStream, SendsTo

LEMMA PostsInv ==
    ASSUME TrustGateInv, Posts
    PROVE  TrustGateInv'
<1>1. gating.pc = "live" /\ gating.used[2][2] \in {gating.used[2][1], gating.used[2][2]}
  BY DEF Posts
<1>2. CASE GateIs([gating EXCEPT !.sends = @ + 1])
  <2>1. PICK sends : GateIs([gating EXCEPT !.sends = sends])
    BY <1>2
  <2>2. /\ DOMAIN gating' = DOMAIN gating /\ gating'.pc = "live"
        /\ gating'.result = gating.result /\ gating'.manager = gating.manager
        /\ gating'.server = gating.server /\ gating'.used = gating.used
        /\ gating'.recorded = gating.recorded /\ gating'.reached = gating.reached
        /\ environ' = environ /\ envEdits' = envEdits
    BY <1>1, <2>1 DEF GateIs, TrustGateInv, GateFits
  <2>3. gating'.connected = gating.connected
    BY <2>1 DEF GateIs, TrustGateInv, GateFits
  <2>4. GateFits' /\ RefusalsFit'
    BY <1>1, <2>2 DEF TrustGateInv, GateFits, RefusalsFit
  <2>5. StagesFit'
    <3>1. gating.connected
      BY <1>1 DEF TrustGateInv, StagesFit
    <3>2. gating'.connected
      BY <2>3, <3>1
    <3>3. QED
      BY <1>1, <2>2, <3>2 DEF TrustGateInv, StagesFit
  <2>6. UntrustedFits'
    BY <1>1, <2>2, SamePolicy DEF TrustGateInv, UntrustedFits, Waits
  <2>7. IdentityFits'
    <3>1. PICK s \in Servers : s = gating.server
      BY <1>1 DEF TrustGateInv, GateFits
    <3>2. IdentityOfServer(s)' = IdentityOfServer(s)
      BY <2>2, SameValues
    <3>3. gating'.result # "reused"
      BY <1>1, <2>2 DEF TrustGateInv, StagesFit
    <3>4. QED
      BY <1>1, <2>2, <3>1, <3>2, <3>3 DEF TrustGateInv, IdentityFits
  <2>8. QED
    BY <2>4, <2>5, <2>6, <2>7 DEF TrustGateInv
<1>3. CASE \E a \in SocketsFor(Enforces, gating.used[2][2].host) :
             GateIs([gating EXCEPT
              !.reached = @ \cup {[url |-> gating.used[2][2], address |-> a, headers |-> gating.used[3]]},
              !.pc = IF @ = "open" THEN "record" ELSE @, !.sends = @ + 1, !.connected = TRUE])
  BY <1>1, <1>3, SentInv
<1>4. QED
  BY <1>2, <1>3 DEF Posts, SendsTo

LEMMA ReopensInv ==
    ASSUME TrustGateInv, Reopens
    PROVE  TrustGateInv'
<1>1. gating.pc = "live" /\ gating.used[2][1] \in {gating.used[2][1], gating.used[2][2]}
  BY DEF Reopens
<1>2. CASE GateIs([gating EXCEPT !.pc = "done", !.connected = FALSE, !.result = "closed"])
  <2>1. PICK no : GateIs([gating EXCEPT !.pc = "done", !.connected = no, !.result = "closed"])
    BY <1>2
  <2>2. /\ DOMAIN gating' = DOMAIN gating /\ gating'.pc = "done"
        /\ gating'.result = "closed" /\ gating'.manager = gating.manager
        /\ gating'.used = gating.used /\ gating'.recorded = gating.recorded
        /\ gating'.reached = gating.reached /\ environ' = environ /\ envEdits' = envEdits
    BY <2>1 DEF GateIs, TrustGateInv, GateFits
  <2>3. QED
    BY <2>2, OverAsInv
<1>3. CASE \E a \in SocketsFor(Enforces, gating.used[2][1].host) :
             GateIs([gating EXCEPT
              !.reached = @ \cup {[url |-> gating.used[2][1], address |-> a, headers |-> gating.used[3]]},
              !.pc = IF @ = "open" THEN "record" ELSE @, !.sends = @ + 1, !.connected = TRUE])
  BY <1>1, <1>3, SentInv
<1>4. QED
  BY <1>2, <1>3 DEF Reopens, SendsTo

LEMMA SpawnsInv ==
    ASSUME TrustGateInv, Spawns
    PROVE  TrustGateInv'
<1>1. gating.pc = "spawn"
  BY DEF Spawns
<1>2. CASE Declines("connect")
  <2>1. RefusalsFit'
    BY <1>2 DEF Declines, GateIs, TrustGateInv, GateFits, RefusalsFit
  <2>2. QED
    BY <1>2, <2>1, DeclinesInv
<1>3. CASE GateIs([gating EXCEPT !.pc = "record", !.connected = TRUE])
  <2>1. PICK yes \in BOOLEAN : yes /\ GateIs([gating EXCEPT !.pc = "record", !.connected = yes])
    BY <1>3
  <2>2. /\ DOMAIN gating' = DOMAIN gating /\ gating'.pc = "record"
        /\ gating'.result = gating.result /\ gating'.manager = gating.manager
        /\ gating'.server = gating.server /\ gating'.used = gating.used
        /\ gating'.recorded = gating.recorded /\ gating'.reached = gating.reached
        /\ environ' = environ /\ envEdits' = envEdits
    BY <2>1 DEF GateIs, TrustGateInv, GateFits
  <2>3. gating'.connected = yes
    BY <2>1 DEF GateIs, TrustGateInv, GateFits
  <2>4. GateFits' /\ RefusalsFit'
    BY <1>1, <2>2 DEF TrustGateInv, GateFits, RefusalsFit
  <2>5. StagesFit'
    <3>1. gating'.connected
      BY <2>1, <2>3
    <3>2. QED
      BY <1>1, <2>2, <3>1 DEF TrustGateInv, StagesFit
  <2>6. UntrustedFits'
    BY <1>1, <2>2, SamePolicy DEF TrustGateInv, UntrustedFits
  <2>7. IdentityFits'
    <3>1. PICK s \in Servers : s = gating.server
      BY <1>1 DEF TrustGateInv, GateFits
    <3>2. IdentityOfServer(s)' = IdentityOfServer(s)
      BY <2>2, SameValues
    <3>3. gating'.result # "reused"
      BY <1>1, <2>2 DEF TrustGateInv, StagesFit
    <3>4. QED
      BY <1>1, <2>2, <3>1, <3>2, <3>3 DEF TrustGateInv, IdentityFits
  <2>8. QED
    BY <2>4, <2>5, <2>6, <2>7 DEF TrustGateInv
<1>4. QED
  BY <1>2, <1>3 DEF Spawns

LEMMA RecordsInv ==
    ASSUME TrustGateInv, Records
    PROVE  TrustGateInv'
<1>1. gating.pc = "record"
  BY DEF Records
<1>2. PICK s \in Servers : s = gating.server
  BY <1>1 DEF TrustGateInv, GateFits
<1>3. PICK recorded :
         /\ recorded = gating.recorded \/ recorded \in IdentityOfServer(s)
         /\ \/ gating' = [gating EXCEPT !.pc = "live", !.result = "config"] /\ recorded = gating.recorded
            \/ gating' = [gating EXCEPT !.pc = "live", !.recorded = recorded, !.result = "connected"]
         /\ environ' = environ /\ envEdits' = envEdits
  BY <1>2 DEF Records, GateIs
<1>4. DOMAIN gating = {"pc", "manager", "server", "todo", "used", "recorded", "reached", "looked",
                       "sends", "connected", "result"}
  BY DEF TrustGateInv, GateFits
<1>5. /\ DOMAIN gating' = DOMAIN gating /\ gating'.pc = "live"
      /\ gating'.result \in {"config", "connected"} /\ gating'.manager = gating.manager
      /\ gating'.server = s /\ gating'.used = gating.used
      /\ gating'.recorded = recorded /\ gating'.reached = gating.reached
  BY <1>2, <1>3, <1>4
<1>6. gating'.connected = gating.connected
  BY <1>3, <1>4
<1>7. GateFits' /\ RefusalsFit'
  BY <1>3, <1>5 DEF TrustGateInv, GateFits, RefusalsFit
<1>8. StagesFit'
  <2>1. gating.connected
    BY <1>1 DEF TrustGateInv, StagesFit
  <2>2. gating'.connected
    BY <1>6, <2>1
  <2>3. QED
    BY <1>5, <2>2 DEF StagesFit
<1>9. UntrustedFits'
  BY <1>1, <1>2, <1>5, SamePolicy DEF TrustGateInv, UntrustedFits, Waits
<1>10. IdentityFits'
  <2>1. IdentityOfServer(s)' = IdentityOfServer(s)
    BY <1>3, <1>5, SameValues
  <2>2. envEdits = 0 => gating.used \in IdentityOfServer(s)
    BY <1>1, <1>2 DEF TrustGateInv, IdentityFits
  <2>3. gating.recorded = <<>>
    BY <1>1 DEF TrustGateInv, StagesFit
  <2>4. \A x, y \in IdentityOfServer(s) : x = y
    BY IdentitiesAreOne DEF TrustGateInv
  <2>5. envEdits = 0 => (recorded # <<>> => recorded = gating.used)
    BY <1>3, <2>2, <2>3, <2>4
  <2>6. QED
    BY <1>3, <1>5, <2>1, <2>2, <2>5 DEF IdentityFits
<1>11. QED
  BY <1>7, <1>8, <1>9, <1>10 DEF TrustGateInv

\* What a connection is recorded as is never empty.
LEMMA IdentitiesHold ==
    ASSUME NEW s \in Servers
    PROVE  <<>> \notin IdentityOfServer(s) /\ RawIdentityOf(s) # <<>>
<1>1. CASE s.transport = "stdio"
  BY <1>1 DEF IdentityOfServer, RawIdentityOf
<1>2. CASE s.transport = "unix"
  BY <1>2 DEF IdentityOfServer, RawIdentityOf
<1>3. CASE s.transport = "http"
  BY <1>3 DEF IdentityOfServer, RawIdentityOf
<1>4. QED
  BY <1>1, <1>2, <1>3, TrustGateAssumption

LEMMA ReusesInv ==
    ASSUME TrustGateInv, NEW s \in Servers, NEW withCwd \in BOOLEAN, Reuses(s, withCwd)
    PROVE  TrustGateInv'
<1>1. gating.pc = "live" /\ gating.connected
  BY DEF Reuses
<1>2. PICK verdict \in {"config", "reused", "different"} :
         /\ GateIs([gating EXCEPT !.pc = "done", !.server = s, !.result = verdict])
         /\ verdict = "reused" =>
              IdentityOfServer(s) = {gating.recorded} \/ RawIdentityOf(s) = gating.recorded
  <2>1. CASE withCwd
    BY <2>1 DEF Reuses
  <2>2. CASE ~withCwd
    BY <2>2 DEF Reuses
  <2>3. QED
    BY <2>1, <2>2
<1>3. /\ DOMAIN gating' = DOMAIN gating /\ gating'.pc = "done"
      /\ gating'.result = verdict /\ gating'.manager = gating.manager
      /\ gating'.server = s /\ gating'.used = gating.used
      /\ gating'.recorded = gating.recorded /\ gating'.reached = gating.reached
      /\ environ' = environ /\ envEdits' = envEdits
  BY <1>2 DEF GateIs, TrustGateInv, GateFits
<1>4. gating'.connected = gating.connected
  BY <1>2 DEF GateIs, TrustGateInv, GateFits
<1>5. GateFits' /\ StagesFit'
  BY <1>3 DEF TrustGateInv, GateFits, StagesFit
<1>6. RefusalsFit'
  <2>1. gating'.connected
    BY <1>1, <1>4
  <2>2. QED
    BY <2>1 DEF RefusalsFit
<1>7. UntrustedFits'
  BY <1>3, SamePolicy DEF TrustGateInv, UntrustedFits, Waits
<1>8. IdentityFits'
  <2>1. IdentityOfServer(s)' = IdentityOfServer(s)
    BY <1>3, SameValues
  <2>2. ASSUME envEdits = 0, verdict = "reused"
        PROVE  IdentityOfServer(s) = {gating.used}
    <3>1. PICK t \in Servers : t = gating.server
      BY <1>1 DEF TrustGateInv, GateFits
    <3>2. gating.used \in IdentityOfServer(t)
      BY <1>1, <2>2, <3>1 DEF TrustGateInv, IdentityFits
    <3>3. gating.recorded # <<>>
      BY <1>2, <2>2, IdentitiesHold
    <3>4. gating.recorded = gating.used
      BY <2>2, <3>3 DEF TrustGateInv, IdentityFits
    <3>5. CASE IdentityOfServer(s) = {gating.recorded}
      BY <3>4, <3>5
    <3>6. CASE RawIdentityOf(s) = gating.recorded
      <4>1. RawIdentityOf(s) \in IdentityOfServer(t)
        BY <3>2, <3>4, <3>6
      <4>2. GateFits
        BY DEF TrustGateInv
      <4>3. IdentityOfServer(s) = {RawIdentityOf(s)}
        BY <4>1, <4>2, SpelledAsMade
      <4>4. QED
        BY <3>4, <3>6, <4>3
    <3>7. QED
      BY <1>2, <2>2, <3>5, <3>6
  <2>3. envEdits = 0 => (gating.recorded # <<>> => gating.recorded = gating.used)
    BY DEF TrustGateInv, IdentityFits
  <2>4. QED
    BY <1>3, <2>1, <2>2, <2>3 DEF IdentityFits
<1>9. QED
  BY <1>5, <1>6, <1>7, <1>8 DEF TrustGateInv

LEMMA TrustGateStepInv ==
    ASSUME TrustGateInv, [TrustGateNext]_gateVars
    PROVE  TrustGateInv'
<1>1. CASE UNCHANGED gateVars
  <2>1. gating' = gating /\ environ' = environ /\ envEdits' = envEdits
    BY <1>1 DEF gateVars
  <2>2. GateFits' /\ StagesFit' /\ RefusalsFit'
    <3>1. GateFits'
      BY <2>1 DEF TrustGateInv, GateFits
    <3>2. StagesFit'
      BY <2>1 DEF TrustGateInv, StagesFit
    <3>3. Trusted' <=> Trusted
      BY <2>1, SamePolicy
    <3>4. RefusalsFit'
      BY <2>1, <3>3 DEF TrustGateInv, RefusalsFit
    <3>5. QED
      BY <3>1, <3>2, <3>4
  <2>3. UntrustedFits'
    BY <2>1, SamePolicy DEF TrustGateInv, UntrustedFits, Waits
  <2>4. IdentityFits'
    <3>1. gating.pc \in {"check", "spawn", "open", "record", "live"} \/ gating.result = "reused"
              => gating.server \in Servers
      BY DEF TrustGateInv, GateFits
    <3>2. QED
      BY <2>1, <3>1, SameValues DEF TrustGateInv, IdentityFits
  <2>5. QED
    BY <2>2, <2>3, <2>4 DEF TrustGateInv
<1>2. CASE \E s \in Servers : Connects(s)
  BY <1>2, ConnectsInv
<1>3. CASE \E s \in Servers, withCwd \in BOOLEAN : Reuses(s, withCwd)
  BY <1>3, ReusesInv
<1>4. QED
  BY <1>1, <1>2, <1>3, EnvironmentChangesInv, ChecksNameInv, BuildsHeadersInv, OpensStreamInv, SpawnsInv,
     RecordsInv, PostsInv, ReopensInv DEF TrustGateNext

\* What the run checks of the gate follows from the invariant.
LEMMA TrustGateInvKeeps == TrustGateInv => GateIsKept
<1>1. SUFFICES ASSUME TrustGateInv PROVE GateIsKept
  OBVIOUS
<1>2. UntrustedKeepsThePolicy
  <2>1. ASSUME ~Trusted, NEW r \in gating.reached
        PROVE  /\ ~r.url.credentials /\ (gating.manager.https => r.url.scheme = "https")
               /\ Rules.allowed # {} => Under[r.url.host] \cap Rules.allowed # {}
               /\ KindOfHost[r.url.host] # "local name"
               /\ ~Rules.private => r.address = "global"
               /\ r.headers[1] \cap {"sensitive", "reserved"} = {}
               /\ ({r.url.path} \cup {r.headers[i] : i \in 2..4}) \cap VarValues = {}
    <3>1. WithinPolicy(r.url) /\ ReadsNothing(r.headers) /\ (~Rules.private => r.address = "global")
      BY <1>1, <2>1 DEF TrustGateInv, UntrustedFits, KeepsThePolicy
    <3>2. /\ Rules.allowed # {} => Under[r.url.host] \cap Rules.allowed # {}
          /\ KindOfHost[r.url.host] # "local name"
      BY <3>1 DEF WithinPolicy, AllowsHost
    <3>3. ({r.url.path} \cup {r.headers[i] : i \in 2..4}) \cap VarValues = {}
      <4>1. r.url.path \notin VarValues
        BY <3>1 DEF WithinPolicy, VarValues
      <4>2. \A i \in 2..4 : r.headers[i] \notin VarValues
        BY <3>1 DEF ReadsNothing, VarValues
      <4>3. QED
        BY <4>1, <4>2
    <3>4. QED
      BY <3>1, <3>2, <3>3 DEF WithinPolicy, ReadsNothing
  <2>2. ~Trusted => gating.pc # "spawn"
    BY <1>1 DEF TrustGateInv, UntrustedFits
  <2>3. QED
    BY <2>1, <2>2 DEF UntrustedKeepsThePolicy
<1>3. RefusedBeforeAnythingHappens
  BY <1>1 DEF TrustGateInv, RefusalsFit, RefusedBeforeAnythingHappens
<1>4. RecordIsTheConnection
  BY <1>1 DEF TrustGateInv, IdentityFits, RecordIsTheConnection
<1>5. QED
  BY <1>2, <1>3, <1>4 DEF GateIsKept

(***************************************************************************)
(* The releases.                                                           *)
(***************************************************************************)

\* A sequence, whatever is in it
IsSequence(s) == s \in Seq({s[i] : i \in DOMAIN s})

\* A sequence that has grown by one
HasGrown(t, s, e) == t = Append(s, e)

\* The end of a sequence that grows by one.
LEMMA GrownByOne ==
    ASSUME NEW s, IsSequence(s), NEW e, NEW t, HasGrown(t, s, e)
    PROVE  /\ Len(s) \in Nat /\ DOMAIN s = 1..Len(s)
           /\ IsSequence(t) /\ t # <<>>
           /\ Len(t) = Len(s) + 1 /\ DOMAIN t = 1..(Len(s) + 1)
           /\ \A i \in DOMAIN s : t[i] = s[i]
           /\ t[Len(s) + 1] = e /\ t[Len(t)] = e
<1> DEFINE S == {s[i] : i \in DOMAIN s}
           R == S \cup {e}
<1>1. s \in Seq(S)
  BY DEF IsSequence
<1> HIDE DEF S
<1>2. s \in Seq(R) /\ e \in R
  BY <1>1
<1>3. Len(s) \in Nat /\ DOMAIN s = 1..Len(s)
  BY <1>2
<1>3a. t = Append(s, e)
  BY DEF HasGrown
<1>4. t \in Seq(R) /\ Len(t) = Len(s) + 1
  BY <1>2, <1>3a
<1>5. DOMAIN t = 1..(Len(s) + 1) /\ t[Len(s) + 1] = e /\ \A i \in 1..Len(s) : t[i] = s[i]
  BY <1>2, <1>3, <1>3a, <1>4
<1>6. IsSequence(t)
  <2> DEFINE T == {t[i] : i \in DOMAIN t}
  <2>1. \A i \in DOMAIN t : t[i] \in T
    OBVIOUS
  <2> HIDE DEF T
  <2>2. t \in [1..Len(t) -> R] /\ Len(t) \in Nat
    BY <1>3, <1>4, LenProperties
  <2>3. t \in [1..Len(t) -> T]
    BY <2>1, <2>2
  <2>4. t \in Seq(T)
    <3>1. PICK n \in Nat : n = Len(t)
      BY <2>2
    <3>2. t \in UNION {[1..m -> T] : m \in Nat}
      BY <2>3, <3>1, Zenon
    <3>3. QED
      BY <3>2, SeqDef, Zenon
  <2>5. QED
    BY <2>4 DEF T, IsSequence
<1>8. t # <<>>
  BY <1>3, <1>5
<1>9. QED
  BY <1>3, <1>4, <1>5, <1>6, <1>8

\* Another base that is not blank has failed.
LEMMA FailsInTurn ==
    ASSUME NEW errors \in Seq(Nat), NEW bases, NEW n \in Nat, n > 0,
           FailedInTurn(errors, bases, n - 1), bases[n].kind # "blank"
    PROVE  Append(errors, n) \in Seq(Nat) /\ FailedInTurn(Append(errors, n), bases, n)
<1>1. PICK more : more = Append(errors, n)
  OBVIOUS
<1>2. /\ more \in Seq(Nat) /\ Len(errors) \in Nat /\ DOMAIN errors = 1..Len(errors)
      /\ DOMAIN more = 1..(Len(errors) + 1) /\ more[Len(errors) + 1] = n
      /\ \A i \in 1..Len(errors) : more[i] = errors[i]
  BY <1>1
<1>3. \A i \in DOMAIN errors : errors[i] \in 1..(n - 1)
  BY DEF FailedInTurn
<1>4. \A i, j \in DOMAIN more : i < j => more[i] < more[j]
  <2>1. TAKE i, j \in DOMAIN more
  <2>2. HAVE i < j
  <2>3. i \in 1..Len(errors) /\ more[i] = errors[i] /\ errors[i] \in 1..(n - 1)
    BY <1>2, <1>3, <2>2
  <2>4. CASE j \in 1..Len(errors)
    BY <1>2, <2>2, <2>3, <2>4 DEF FailedInTurn
  <2>5. CASE j = Len(errors) + 1
    BY <1>2, <2>3, <2>5
  <2>6. QED
    BY <1>2, <2>4, <2>5
<1>5. {more[i] : i \in DOMAIN more} = {errors[i] : i \in DOMAIN errors} \cup {n}
  <2>1. DOMAIN more = DOMAIN errors \cup {Len(errors) + 1} /\ \A i \in DOMAIN errors : more[i] = errors[i]
    BY <1>2
  <2>2. \A x : x \in {more[i] : i \in DOMAIN more} <=> x \in {errors[i] : i \in DOMAIN errors} \/ x = n
    BY <1>2, <2>1
  <2>3. QED
    BY <2>2, Zenon
<1>6. {i \in 1..n : bases[i].kind # "blank"} = {i \in 1..(n - 1) : bases[i].kind # "blank"} \cup {n}
  <2>1. 1..n = 1..(n - 1) \cup {n}
    OBVIOUS
  <2>2. QED
    BY <2>1
<1>7. FailedInTurn(more, bases, n)
  BY <1>4, <1>5, <1>6 DEF FailedInTurn
<1>8. QED
  BY <1>1, <1>2, <1>7

\* A blank base is passed over.
LEMMA BlankInTurn ==
    ASSUME NEW errors, NEW bases, NEW n \in Nat,
           FailedInTurn(errors, bases, n), bases[n + 1].kind = "blank"
    PROVE  FailedInTurn(errors, bases, n + 1)
<1>1. {i \in 1..(n + 1) : bases[i].kind # "blank"} = {i \in 1..n : bases[i].kind # "blank"}
  <2>1. 1..(n + 1) = 1..n \cup {n + 1}
    OBVIOUS
  <2>2. QED
    BY <2>1
<1>2. QED
  BY <1>1 DEF FailedInTurn

\* Nothing has failed where there was nothing but blanks.
LEMMA NothingFailed ==
    ASSUME NEW errors \in Seq(Nat), NEW bases, NEW n \in Nat, FailedInTurn(errors, bases, n),
           \A i \in 1..n : bases[i].kind = "blank"
    PROVE  errors = <<>>
<1>1. {errors[i] : i \in DOMAIN errors} = {}
  BY DEF FailedInTurn
<1>2. DOMAIN errors = 1..Len(errors) /\ Len(errors) \in Nat
  OBVIOUS
<1>3. ~(1 \in DOMAIN errors)
  BY <1>1
<1>4. Len(errors) = 0
  BY <1>2, <1>3
<1>5. QED
  BY <1>4

\* One more request to a base.
LEMMA OneMoreAsked ==
    ASSUME NEW asked, IsSequence(asked), NEW r, NEW more, HasGrown(more, asked, r)
    PROVE  \A b : /\ b # r.base => AskedOf(more, b) = AskedOf(asked, b)
                  /\ b = r.base => AskedOf(more, b) = AskedOf(asked, b) \cup {Len(asked) + 1}
                  /\ IsFiniteSet(AskedOf(asked, b)) /\ Cardinality(AskedOf(asked, b)) \in Nat
                  /\ b = r.base => Cardinality(AskedOf(more, b)) = Cardinality(AskedOf(asked, b)) + 1
<1>1. /\ Len(asked) \in Nat /\ DOMAIN asked = 1..Len(asked)
      /\ DOMAIN more = 1..(Len(asked) + 1) /\ \A i \in DOMAIN asked : more[i] = asked[i]
      /\ more[Len(asked) + 1] = r
  BY GrownByOne
<1>2. DOMAIN more = DOMAIN asked \cup {Len(asked) + 1} /\ Len(asked) + 1 \notin DOMAIN asked
  BY <1>1
<1>3. TAKE b
<1>4. b # r.base => AskedOf(more, b) = AskedOf(asked, b)
  BY <1>1, <1>2 DEF AskedOf
<1>5. b = r.base => AskedOf(more, b) = AskedOf(asked, b) \cup {Len(asked) + 1}
  BY <1>1, <1>2 DEF AskedOf
<1>6. IsFiniteSet(AskedOf(asked, b))
  <2>1. IsFiniteSet(1..Len(asked))
    BY <1>1, FS_Interval
  <2>2. AskedOf(asked, b) \subseteq 1..Len(asked)
    BY <1>1 DEF AskedOf
  <2>3. QED
    BY <2>1, <2>2, FS_Subset
<1>7. Cardinality(AskedOf(asked, b)) \in Nat
  BY <1>6, FS_CardinalityType
<1>8. Len(asked) + 1 \notin AskedOf(asked, b)
  BY <1>2 DEF AskedOf
<1>9. Cardinality(AskedOf(asked, b) \cup {Len(asked) + 1}) = Cardinality(AskedOf(asked, b)) + 1
  BY <1>6, <1>8, FS_AddElement
<1>10. QED
  BY <1>4, <1>5, <1>6, <1>7, <1>9

\* What is known of the requests, whatever comes next.
AskedInTurn ==
    /\ fetch.asked \in Seq({fetch.asked[i] : i \in DOMAIN fetch.asked})
    /\ SentInTrust(fetch.asked, fetch.call.token)
    /\ \A i \in DOMAIN fetch.asked :
         /\ fetch.asked[i].base \in 1..fetch.at
         /\ fetch.call.bases[fetch.asked[i].base].kind # "blank"
    /\ \A i, j \in DOMAIN fetch.asked : i < j => fetch.asked[i].base <= fetch.asked[j].base
    /\ \A b \in DOMAIN fetch.call.bases : Cardinality(AskedOf(fetch.asked, b)) <= MaxRedirects + 1

LEMMA AskedAreInTurn == GithubFetchInv => AskedInTurn
BY DEF GithubFetchInv, FetchFits, TokenFits, AskedFit, AskedInTurn

LEMMA GithubFetchInitInv == GithubFetchInit => GithubFetchInv
<1>1. SUFFICES ASSUME GithubFetchInit PROVE GithubFetchInv
  OBVIOUS
<1>2. /\ DOMAIN fetch = {"pc", "call", "at", "errors", "pinned", "target", "port", "hops",
                       "asked", "result"}
      /\ fetch.port = "base" /\ fetch.pc = "idle" /\ fetch.call \in Fetches /\ fetch.at = 0 /\ fetch.errors = <<>>
      /\ fetch.pinned = {} /\ fetch.hops = 0 /\ fetch.asked = <<>> /\ fetch.result = "none"
  BY <1>1 DEF GithubFetchInit
<1>3. MaxRedirects \in Nat /\ Len(fetch.call.bases) \in Nat
  BY <1>2, GithubFetchAssumption
<1>4. FetchFits
  <2>1. fetch.at \in 0..Len(fetch.call.bases) /\ fetch.hops \in 0..MaxRedirects
    BY <1>2, <1>3
  <2>2. fetch.errors \in Seq(Nat)
    BY <1>2
  <2>3. fetch.asked \in Seq({fetch.asked[i] : i \in DOMAIN fetch.asked})
    BY <1>2
  <2>4. QED
    BY <1>2, <2>1, <2>2, <2>3 DEF FetchFits, AtABase
<1>5. TokenFits
  BY <1>2 DEF TokenFits, SentInTrust
<1>6. ErrorsFit
  <2>1. FailedInTurn(<<>>, fetch.call.bases, 0)
    BY DEF FailedInTurn
  <2>2. QED
    BY <1>2, <2>1 DEF ErrorsFit, AtABase
<1>7. AskedFit
  <2>1. \A b : AskedOf(<<>>, b) = {}
    BY DEF AskedOf
  <2>2. Cardinality({}) = 0
    BY FS_EmptySet
  <2>3. \A b \in DOMAIN fetch.call.bases : Cardinality(AskedOf(fetch.asked, b)) <= MaxRedirects + 1
    <3>1. 0 <= MaxRedirects + 1
      BY <1>3
    <3>2. QED
      BY <1>2, <2>1, <2>2, <3>1
  <2>4. DOMAIN fetch.asked = {}
    BY <1>2
  <2>5. QED
    BY <1>2, <2>3, <2>4 DEF AskedFit
<1>8. QED
  BY <1>4, <1>5, <1>6, <1>7 DEF GithubFetchInv

\* The numbers of a state.
LEMMA FetchFacts ==
    ASSUME GithubFetchInv
    PROVE  /\ MaxRedirects \in Nat /\ fetch.hops \in Nat /\ fetch.hops <= MaxRedirects
           /\ Len(fetch.call.bases) \in Nat /\ DOMAIN fetch.call.bases = 1..Len(fetch.call.bases)
           /\ fetch.at \in Nat /\ fetch.at <= Len(fetch.call.bases)
           /\ AtABase => fetch.at \in DOMAIN fetch.call.bases
<1>1. MaxRedirects \in Nat /\ Len(fetch.call.bases) \in Nat /\ DOMAIN fetch.call.bases = 1..Len(fetch.call.bases)
  BY GithubFetchAssumption DEF GithubFetchInv, FetchFits
<1>2. fetch.at \in 0..Len(fetch.call.bases) /\ fetch.hops \in 0..MaxRedirects /\ (AtABase => fetch.at > 0)
  BY DEF GithubFetchInv, FetchFits
<1>3. QED
  BY <1>1, <1>2

\* Nothing was asked in a step.
LEMMA SameAsked ==
    ASSUME GithubFetchInv, fetch'.asked = fetch.asked, fetch'.call = fetch.call,
           fetch'.at = fetch.at \/ fetch'.at = fetch.at + 1
    PROVE  AskedInTurn'
<1>1. AskedInTurn
  BY AskedAreInTurn
<1>2. fetch.at \in Nat
  BY FetchFacts
<1>3. \A b \in 1..fetch.at : b \in 1..fetch'.at
  BY <1>2
<1>4. QED
  BY <1>1, <1>3 DEF AskedInTurn

\* The call is over.
LEMMA FetchEndsInv ==
    ASSUME GithubFetchInv, NEW result, fetch' = FetchEnds(result), ErrorsFit',
           result = "release" => fetch.asked # <<>> /\ fetch.asked[Len(fetch.asked)].base = fetch.at
    PROVE  GithubFetchInv'
<1>1. /\ DOMAIN fetch' = DOMAIN fetch /\ fetch'.pc = "done" /\ fetch'.call = fetch.call
      /\ fetch'.at = fetch.at /\ fetch'.errors = fetch.errors /\ fetch'.pinned = fetch.pinned
      /\ fetch'.hops = fetch.hops /\ fetch'.asked = fetch.asked /\ fetch'.result = result
      /\ fetch'.port = fetch.port
  BY DEF FetchEnds, GithubFetchInv, FetchFits
<1>2. FetchFits'
  BY <1>1 DEF GithubFetchInv, FetchFits, AtABase
<1>3. TokenFits'
  BY <1>1 DEF GithubFetchInv, TokenFits
<1>4. AskedFit'
  <2>1. AskedInTurn'
    BY <1>1, SameAsked
  <2>2. QED
    BY <1>1, <2>1 DEF AskedInTurn, AskedFit
<1>5. QED
  BY <1>2, <1>3, <1>4 DEF GithubFetchInv

\* A base has failed.
LEMMA BaseFailedInv ==
    ASSUME GithubFetchInv, AtABase, DOMAIN fetch' = DOMAIN fetch, fetch'.pc = "next",
           fetch'.call = fetch.call, fetch'.at = fetch.at, fetch'.errors = Append(fetch.errors, fetch.at),
           fetch'.pinned = {}, fetch'.hops = fetch.hops, fetch'.port = fetch.port,
           fetch'.result = fetch.result, AskedInTurn'
    PROVE  GithubFetchInv'
<1>1. fetch.result = "none"
  BY DEF GithubFetchInv, FetchFits, AtABase
<1>2. /\ fetch.errors \in Seq(Nat) /\ fetch.at \in Nat /\ fetch.at > 0
      /\ FailedInTurn(fetch.errors, fetch.call.bases, fetch.at - 1) /\ fetch.call.bases[fetch.at].kind # "blank"
  BY FetchFacts DEF GithubFetchInv, FetchFits, ErrorsFit
<1>3. fetch'.errors \in Seq(Nat) /\ FailedInTurn(fetch'.errors, fetch'.call.bases, fetch'.at)
  BY <1>2, FailsInTurn
<1>4. FetchFits'
  BY <1>1, <1>3 DEF GithubFetchInv, FetchFits, AtABase, AskedInTurn
<1>5. TokenFits'
  BY DEF GithubFetchInv, TokenFits, AskedInTurn
<1>6. ErrorsFit'
  BY <1>1, <1>3 DEF ErrorsFit, AtABase
<1>7. AskedFit'
  BY <1>1 DEF AskedInTurn, AskedFit
<1>8. QED
  BY <1>4, <1>5, <1>6, <1>7 DEF GithubFetchInv

LEMMA BaseFailsInv ==
    ASSUME GithubFetchInv, AtABase, fetch' = BaseFails
    PROVE  GithubFetchInv'
<1>1. /\ DOMAIN fetch' = DOMAIN fetch /\ fetch'.pc = "next"
      /\ fetch'.call = fetch.call /\ fetch'.at = fetch.at /\ fetch'.errors = Append(fetch.errors, fetch.at)
      /\ fetch'.pinned = {} /\ fetch'.hops = fetch.hops /\ fetch'.result = fetch.result
      /\ fetch'.asked = fetch.asked /\ fetch'.port = fetch.port
  BY DEF BaseFails, GithubFetchInv, FetchFits
<1>2. AskedInTurn'
  BY <1>1, SameAsked
<1>3. QED
  BY <1>1, <1>2, BaseFailedInv

\* The next step for the same base, with nothing asked yet.
LEMMA GoesOnToInv ==
    ASSUME GithubFetchInv, DOMAIN fetch' = DOMAIN fetch, AtABase, fetch.pc \in {"validate", "select", "headers"},
           fetch'.pc \in {"select", "headers", "send"},
           fetch'.call = fetch.call, fetch'.at = fetch.at, fetch'.errors = fetch.errors,
           fetch'.hops = fetch.hops, fetch'.result = fetch.result, fetch'.asked = fetch.asked,
           fetch'.target = fetch.target, fetch'.port = fetch.port,
           fetch.call.token =>
             /\ fetch'.pinned \subseteq {"global"}
             /\ fetch'.pc = "headers" \/ (IsTrusted(fetch.target) /\ ~fetch.target.credentials)
    PROVE  GithubFetchInv'
<1>1. FetchFits'
  BY DEF GithubFetchInv, FetchFits, AtABase
<1>2. TokenFits'
  <2>1. fetch.call.token => fetch.target = Base.url
    BY DEF GithubFetchInv, TokenFits
  <2>2. QED
    BY <2>1 DEF GithubFetchInv, TokenFits, Base
<1>3. ErrorsFit'
  BY DEF GithubFetchInv, FetchFits, ErrorsFit, AtABase
<1>4. AskedFit'
  <2>1. AskedInTurn'
    BY SameAsked
  <2>2. AskedOf(fetch.asked, fetch.at) = {}
    BY DEF GithubFetchInv, AskedFit
  <2>3. Cardinality({}) = 0 /\ fetch.hops \in Nat
    BY FS_EmptySet, FetchFacts
  <2>4. fetch'.result = "none"
    BY DEF GithubFetchInv, FetchFits
  <2>5. QED
    BY <2>1, <2>2, <2>3, <2>4 DEF AskedInTurn, AskedFit
<1>5. QED
  BY <1>1, <1>2, <1>3, <1>4 DEF GithubFetchInv

LEMMA StartsFetchInv ==
    ASSUME GithubFetchInv, StartsFetch
    PROVE  GithubFetchInv'
<1>1. fetch.pc = "idle"
  BY DEF StartsFetch
<1>2. FailedInTurn(fetch.errors, fetch.call.bases, fetch.at)
  BY <1>1 DEF GithubFetchInv, ErrorsFit
<1>3. CASE \E result \in {"profile required", "repository"} : fetch' = FetchEnds(result)
  <2>1. PICK result \in {"profile required", "repository"} : fetch' = FetchEnds(result)
    BY <1>3
  <2>2. fetch'.result = result /\ fetch'.pc = "done"
    BY <2>1 DEF FetchEnds, GithubFetchInv, FetchFits
  <2>3. ErrorsFit'
    BY <2>2 DEF ErrorsFit, AtABase
  <2>4. QED
    BY <2>1, <2>3, FetchEndsInv
<1>4. CASE fetch' = [fetch EXCEPT !.pc = "next"]
  <2>1. /\ DOMAIN fetch' = DOMAIN fetch /\ fetch'.pc = "next" /\ fetch'.call = fetch.call
        /\ fetch'.at = fetch.at /\ fetch'.errors = fetch.errors /\ fetch'.pinned = fetch.pinned
        /\ fetch'.hops = fetch.hops /\ fetch'.asked = fetch.asked /\ fetch'.result = fetch.result
        /\ fetch'.port = fetch.port
    BY <1>4 DEF GithubFetchInv, FetchFits
  <2>2. fetch.result = "none"
    BY <1>1 DEF GithubFetchInv, FetchFits
  <2>3. FetchFits'
    BY <2>1, <2>2 DEF GithubFetchInv, FetchFits, AtABase
  <2>4. TokenFits'
    BY <2>1 DEF GithubFetchInv, TokenFits
  <2>5. ErrorsFit'
    BY <1>2, <2>1, <2>2 DEF ErrorsFit, AtABase
  <2>6. AskedFit'
    <3>1. AskedInTurn'
      BY <2>1, SameAsked
    <3>2. QED
      BY <2>1, <2>2, <3>1 DEF AskedInTurn, AskedFit
  <2>7. QED
    BY <2>3, <2>4, <2>5, <2>6 DEF GithubFetchInv
<1>5. QED
  BY <1>3, <1>4 DEF StartsFetch, FetchIs

\* A sequence without a first element.
LEMMA NothingIn ==
    ASSUME NEW s, s \in Seq({s[i] : i \in DOMAIN s}), ~(1 \in DOMAIN s)
    PROVE  s = <<>>
<1> DEFINE S == {s[i] : i \in DOMAIN s}
<1>1. s \in Seq(S)
  OBVIOUS
<1> HIDE DEF S
<1>2. Len(s) \in Nat /\ DOMAIN s = 1..Len(s)
  BY <1>1
<1>3. Len(s) = 0
  BY <1>2
<1>4. QED
  BY <1>1, <1>3

\* What becomes of the next base.
LEMMA NextBaseIs ==
    ASSUME NextBase, NEW next, next = fetch.at + 1, NEW bases, bases = fetch.call.bases
    PROVE  /\ next > Len(bases) /\ ~(next <= Len(bases)) => fetch' = FetchEnds(IF Attempted THEN "failed" ELSE "no base")
           /\ ~(next > Len(bases)) /\ next <= Len(bases) =>
                /\ bases[next].kind = "blank" => fetch' = [fetch EXCEPT !.at = next]
                /\ bases[next].kind = "unparsable" =>
                     fetch' = [fetch EXCEPT !.at = next, !.errors = Append(@, next)]
                /\ bases[next].kind \notin {"blank", "unparsable"} =>
                     fetch' = [fetch EXCEPT !.at = next, !.target = bases[next].url, !.port = "base",
                                   !.hops = 0, !.pc = IF fetch.call.profile THEN "validate" ELSE "headers"]
<1> DEFINE ends == FetchEnds(IF Attempted THEN "failed" ELSE "no base")
           passes == [fetch EXCEPT !.at = next]
           fails == [fetch EXCEPT !.at = next, !.errors = Append(@, next)]
           starts == [fetch EXCEPT !.at = next, !.target = bases[next].url, !.port = "base",
                                   !.hops = 0, !.pc = IF fetch.call.profile THEN "validate" ELSE "headers"]
<1>1. fetch' = CASE next > Len(bases) -> ends
                 [] next <= Len(bases) /\ bases[next].kind = "blank" -> passes
                 [] next <= Len(bases) /\ bases[next].kind = "unparsable" -> fails
                 [] OTHER -> starts
  BY DEF NextBase, FetchIs
<1> HIDE DEF ends, passes, fails, starts
<1>2. next > Len(bases) /\ ~(next <= Len(bases)) => fetch' = ends
  BY <1>1
<1>3. ~(next > Len(bases)) /\ next <= Len(bases) =>
         /\ bases[next].kind = "blank" => fetch' = passes
         /\ bases[next].kind = "unparsable" => fetch' = fails
         /\ bases[next].kind \notin {"blank", "unparsable"} => fetch' = starts
  BY <1>1
<1>4. QED
  BY <1>2, <1>3 DEF ends, passes, fails, starts

LEMMA NextBaseInv ==
    ASSUME GithubFetchInv, NextBase
    PROVE  GithubFetchInv'
<1>1. fetch.pc = "next"
  BY DEF NextBase
<1>2. FailedInTurn(fetch.errors, fetch.call.bases, fetch.at) /\ fetch.result = "none"
  BY <1>1 DEF GithubFetchInv, ErrorsFit, FetchFits
<1>3. PICK next \in Nat : next = fetch.at + 1
  BY FetchFacts
<1>4. /\ fetch.at \in Nat /\ Len(fetch.call.bases) \in Nat /\ fetch.at <= Len(fetch.call.bases)
      /\ DOMAIN fetch.call.bases = 1..Len(fetch.call.bases) /\ next > 0 /\ fetch.at = next - 1
  BY <1>3, FetchFacts
<1>5. fetch.errors \in Seq(Nat)
  BY DEF GithubFetchInv, FetchFits
<1>6. CASE next > Len(fetch.call.bases) /\ fetch' = FetchEnds(IF Attempted THEN "failed" ELSE "no base")
  <2>1. fetch.at = Len(fetch.call.bases)
    <3>1. next > Len(fetch.call.bases)
      BY <1>6
    <3>2. QED
      BY <1>3, <1>4, <3>1
  <2>2. PICK result \in {"failed", "no base"} : result = IF Attempted THEN "failed" ELSE "no base"
    OBVIOUS
  <2>3. /\ fetch' = FetchEnds(result) /\ fetch'.pc = "done" /\ fetch'.result = result
        /\ fetch'.errors = fetch.errors /\ fetch'.call = fetch.call /\ fetch'.at = fetch.at
        /\ fetch'.asked = fetch.asked
    BY <1>6, <2>2 DEF FetchEnds, GithubFetchInv, FetchFits
  <2>4. ASSUME result = "no base"
        PROVE  fetch.errors = <<>> /\ fetch.asked = <<>> /\ ~Attempted
    <3>1. ~Attempted
      BY <2>2, <2>4
    <3>2. \A i \in 1..fetch.at : fetch.call.bases[i].kind = "blank"
      BY <1>4, <2>1, <3>1 DEF Attempted
    <3>3. fetch.errors = <<>>
      BY <1>2, <1>4, <1>5, <3>2, NothingFailed
    <3>4. ~(1 \in DOMAIN fetch.asked)
      BY <3>2 DEF GithubFetchInv, AskedFit
    <3>5. fetch.asked \in Seq({fetch.asked[i] : i \in DOMAIN fetch.asked})
      BY DEF GithubFetchInv, FetchFits
    <3>6. fetch.asked = <<>>
      BY <3>4, <3>5, NothingIn
    <3>7. QED
      BY <3>1, <3>3, <3>6
  <2>5. Attempted' <=> Attempted
    BY <2>3 DEF Attempted
  <2>6. ErrorsFit'
    BY <1>2, <2>1, <2>3, <2>4, <2>5 DEF ErrorsFit, AtABase
  <2>7. QED
    BY <2>3, <2>6, FetchEndsInv
<1>7. CASE /\ next <= Len(fetch.call.bases)
           /\ \/ fetch.call.bases[next].kind = "blank" /\ fetch' = [fetch EXCEPT !.at = next]
              \/ /\ fetch.call.bases[next].kind # "blank"
                 /\ fetch' = [fetch EXCEPT !.at = next, !.errors = Append(@, next)]
  <2>1. /\ DOMAIN fetch' = DOMAIN fetch /\ fetch'.pc = "next" /\ fetch'.call = fetch.call
        /\ fetch'.at = next /\ fetch'.pinned = fetch.pinned
        /\ fetch'.hops = fetch.hops /\ fetch'.asked = fetch.asked /\ fetch'.result = "none"
        /\ fetch'.port = fetch.port
    BY <1>1, <1>2, <1>7 DEF GithubFetchInv, FetchFits
  <2>2. \/ fetch.call.bases[next].kind = "blank" /\ fetch'.errors = fetch.errors
        \/ fetch.call.bases[next].kind # "blank" /\ fetch'.errors = Append(fetch.errors, next)
    BY <1>7 DEF GithubFetchInv, FetchFits
  <2>3. fetch'.errors \in Seq(Nat) /\ FailedInTurn(fetch'.errors, fetch.call.bases, next)
    <3>1. CASE fetch.call.bases[next].kind = "blank"
      BY <1>2, <1>3, <1>4, <1>5, <2>2, <3>1, BlankInTurn
    <3>2. CASE fetch.call.bases[next].kind # "blank"
      BY <1>2, <1>4, <1>5, <2>2, <3>2, FailsInTurn
    <3>3. QED
      BY <3>1, <3>2
  <2>4. FetchFits'
    <3>1. next \in 0..Len(fetch.call.bases)
      BY <1>3, <1>4, <1>7
    <3>2. QED
      BY <2>1, <2>3, <3>1 DEF GithubFetchInv, FetchFits, AtABase
  <2>5. TokenFits'
    BY <2>1 DEF GithubFetchInv, TokenFits
  <2>6. ErrorsFit'
    BY <2>1, <2>3 DEF ErrorsFit, AtABase
  <2>7. AskedFit'
    <3>1. AskedInTurn'
      BY <1>3, <2>1, SameAsked
    <3>2. QED
      BY <2>1, <3>1 DEF AskedInTurn, AskedFit
  <2>8. QED
    BY <2>4, <2>5, <2>6, <2>7 DEF GithubFetchInv
<1>8. CASE /\ next <= Len(fetch.call.bases) /\ fetch.call.bases[next].kind # "blank"
           /\ \E goesTo \in {"validate", "headers"} :
                fetch' = [fetch EXCEPT !.at = next, !.target = fetch.call.bases[next].url, !.port = "base",
                                       !.hops = 0, !.pc = goesTo]
  <2>1. PICK goesTo \in {"validate", "headers"} :
           fetch' = [fetch EXCEPT !.at = next, !.target = fetch.call.bases[next].url, !.port = "base",
                                  !.hops = 0, !.pc = goesTo]
    BY <1>8
  <2>2. /\ DOMAIN fetch' = DOMAIN fetch /\ fetch'.pc = goesTo /\ fetch'.call = fetch.call
        /\ fetch'.at = next /\ fetch'.pinned = fetch.pinned /\ fetch'.errors = fetch.errors
        /\ fetch'.target = fetch.call.bases[next].url
        /\ fetch'.hops = 0 /\ fetch'.asked = fetch.asked /\ fetch'.result = "none"
        /\ fetch'.port = "base"
    BY <1>2, <2>1 DEF GithubFetchInv, FetchFits
  <2>3. FetchFits'
    <3>1. next \in 0..Len(fetch.call.bases) /\ 0 \in 0..MaxRedirects
      BY <1>3, <1>4, <1>8, FetchFacts
    <3>2. QED
      BY <1>4, <1>8, <2>2, <3>1 DEF GithubFetchInv, FetchFits
  <2>4. TokenFits'
    BY <2>2 DEF GithubFetchInv, TokenFits, Base
  <2>5. ErrorsFit'
    BY <1>2, <1>4, <2>2 DEF ErrorsFit, AtABase
  <2>6. AskedFit'
    <3>1. AskedInTurn'
      BY <1>3, <2>2, SameAsked
    <3>2. AskedOf(fetch.asked, next) = {}
      BY <1>4 DEF GithubFetchInv, AskedFit, AskedOf
    <3>3. QED
      BY <2>2, <3>1, <3>2 DEF AskedInTurn, AskedFit
  <2>7. QED
    BY <2>3, <2>4, <2>5, <2>6 DEF GithubFetchInv
<1>14. /\ next > Len(fetch.call.bases) => ~(next <= Len(fetch.call.bases))
       /\ next <= Len(fetch.call.bases) => ~(next > Len(fetch.call.bases))
  BY <1>4
<1>9. CASE next > Len(fetch.call.bases)
  BY <1>3, <1>6, <1>9, <1>14, NextBaseIs
<1>10. CASE next <= Len(fetch.call.bases) /\ fetch.call.bases[next].kind = "blank"
  <2>1. fetch' = [fetch EXCEPT !.at = next]
    BY <1>3, <1>14, <1>10, NextBaseIs
  <2>2. QED
    BY <1>7, <1>10, <2>1
<1>11. CASE next <= Len(fetch.call.bases) /\ fetch.call.bases[next].kind = "unparsable"
  <2>1. fetch' = [fetch EXCEPT !.at = next, !.errors = Append(@, next)]
    BY <1>3, <1>14, <1>11, NextBaseIs
  <2>2. QED
    BY <1>7, <1>11, <2>1
<1>12. CASE next <= Len(fetch.call.bases) /\ fetch.call.bases[next].kind \notin {"blank", "unparsable"}
  <2>1. fetch' = [fetch EXCEPT !.at = next, !.target = fetch.call.bases[next].url, !.port = "base",
                               !.hops = 0, !.pc = IF fetch.call.profile THEN "validate" ELSE "headers"]
    BY <1>3, <1>14, <1>12, NextBaseIs
  <2>2. PICK goesTo \in {"validate", "headers"} : goesTo = IF fetch.call.profile THEN "validate" ELSE "headers"
    OBVIOUS
  <2>3. QED
    BY <1>8, <1>12, <2>1, <2>2
<1>13. QED
  BY <1>4, <1>9, <1>10, <1>11, <1>12

\* A base that may be asked with a token is a trusted one.
LEMMA MayAskIsTrusted ==
    ASSUME GithubFetchInv, fetch.pc \in {"validate", "select", "headers"}, fetch.call.token, MayAsk(Base)
    PROVE  IsTrusted(fetch.target) /\ ~fetch.target.credentials
BY DEF GithubFetchInv, TokenFits, MayAsk, IsTrusted

LEMMA ValidatesBaseInv ==
    ASSUME GithubFetchInv, ValidatesBase
    PROVE  GithubFetchInv'
<1>1. fetch.pc = "validate" /\ AtABase
  BY DEF ValidatesBase, AtABase
<1>2. fetch' = BaseFails \/ (MayAsk(Base) /\ fetch' = [fetch EXCEPT !.pc = "select"])
  BY DEF ValidatesBase, FetchIs
<1>3. CASE MayAsk(Base) /\ fetch' = [fetch EXCEPT !.pc = "select"]
  <2>1. /\ DOMAIN fetch' = DOMAIN fetch /\ fetch'.pc = "select"
        /\ fetch'.call = fetch.call /\ fetch'.at = fetch.at /\ fetch'.errors = fetch.errors
        /\ fetch'.hops = fetch.hops /\ fetch'.result = fetch.result /\ fetch'.asked = fetch.asked
        /\ fetch'.target = fetch.target /\ fetch'.pinned = fetch.pinned
        /\ fetch'.port = fetch.port
    BY <1>3 DEF GithubFetchInv, FetchFits
  <2>2. fetch.call.token => IsTrusted(fetch.target) /\ ~fetch.target.credentials
    BY <1>1, <1>3, MayAskIsTrusted
  <2>3. fetch.call.token => fetch'.pinned \subseteq {"global"}
    BY <2>1 DEF GithubFetchInv, TokenFits
  <2>4. QED
    BY <1>1, <2>1, <2>2, <2>3, GoesOnToInv
<1>4. QED
  BY <1>1, <1>2, <1>3, BaseFailsInv

\* What a client is pinned to at a host is global.
LEMMA PinnedIsGlobal ==
    ASSUME NEW host \in Hosts, NEW answer \in Answers(host)
    PROVE  Pinned(answer) \subseteq {"global"}
<1>1. answer \subseteq Addresses
  <2>1. CASE IsLiteral(host)
    <3>1. LiteralOf[host] \in Addresses
      BY <2>1, OutboundAssumption DEF IsLiteral
    <3>2. answer = {LiteralOf[host]}
      BY <2>1 DEF Answers
    <3>3. QED
      BY <3>1, <3>2
  <2>2. CASE ~IsLiteral(host)
    BY <2>2 DEF Answers
  <2>3. QED
    BY <2>1, <2>2
<1>2. \A a \in Pinned(answer) : a \in answer /\ IsPublic(a)
  BY DEF Pinned
<1>3. \A a \in Addresses : IsPublic(a) => a = "global"
  BY DEF IsPublic, IsNonGlobal, Addresses
<1>4. QED
  BY <1>1, <1>2, <1>3

LEMMA SelectsClientInv ==
    ASSUME GithubFetchInv, SelectsClient
    PROVE  GithubFetchInv'
<1>1. fetch.pc = "select" /\ AtABase
  BY DEF SelectsClient, AtABase
<1>2. CASE fetch' = BaseFails
  BY <1>1, <1>2, BaseFailsInv
<1>3. CASE ~fetch.call.token /\ fetch' = [fetch EXCEPT !.pc = "headers"]
  <2>1. /\ DOMAIN fetch' = DOMAIN fetch /\ fetch'.pc = "headers"
        /\ fetch'.call = fetch.call /\ fetch'.at = fetch.at /\ fetch'.errors = fetch.errors
        /\ fetch'.hops = fetch.hops /\ fetch'.result = fetch.result /\ fetch'.asked = fetch.asked
        /\ fetch'.target = fetch.target /\ fetch'.port = fetch.port
    BY <1>3 DEF GithubFetchInv, FetchFits
  <2>2. QED
    BY <1>1, <1>3, <2>1, GoesOnToInv
<1>4. CASE \E answer \in Answers(Base.url.host) :
             fetch.call.token /\ fetch' = [[fetch EXCEPT !.pc = "headers"] EXCEPT !.pinned = Pinned(answer)]
  <2>1. PICK answer \in Answers(Base.url.host) :
             fetch.call.token /\ fetch' = [[fetch EXCEPT !.pc = "headers"] EXCEPT !.pinned = Pinned(answer)]
    BY <1>4
  <2>2. PICK pinned : pinned = Pinned(answer)
    OBVIOUS
  <2>3. /\ DOMAIN fetch' = DOMAIN fetch /\ fetch'.pc = "headers"
        /\ fetch'.call = fetch.call /\ fetch'.at = fetch.at /\ fetch'.errors = fetch.errors
        /\ fetch'.hops = fetch.hops /\ fetch'.result = fetch.result /\ fetch'.asked = fetch.asked
        /\ fetch'.target = fetch.target /\ fetch'.pinned = pinned
        /\ fetch'.port = fetch.port
    BY <2>1, <2>2 DEF GithubFetchInv, FetchFits
  <2>4. IsTrusted(fetch.target) /\ fetch.target = Base.url
    BY <1>1, <2>1 DEF GithubFetchInv, TokenFits
  <2>5. Base.url.host \in Hosts
    BY <2>4, GithubFetchAssumption DEF IsTrusted
  <2>6. pinned \subseteq {"global"}
    BY <2>1, <2>2, <2>5, PinnedIsGlobal
  <2>7. QED
    BY <1>1, <2>3, <2>6, GoesOnToInv
<1>5. QED
  BY <1>2, <1>3, <1>4 DEF SelectsClient, FetchIs

LEMMA BuildsRequestInv ==
    ASSUME GithubFetchInv, BuildsRequest
    PROVE  GithubFetchInv'
<1>1. fetch.pc = "headers" /\ AtABase
  BY DEF BuildsRequest, AtABase
<1>2. fetch' = BaseFails \/ (MayAsk(Base) /\ fetch' = [fetch EXCEPT !.pc = "send"])
  BY DEF BuildsRequest, FetchIs
<1>3. CASE MayAsk(Base) /\ fetch' = [fetch EXCEPT !.pc = "send"]
  <2>1. /\ DOMAIN fetch' = DOMAIN fetch /\ fetch'.pc = "send"
        /\ fetch'.call = fetch.call /\ fetch'.at = fetch.at /\ fetch'.errors = fetch.errors
        /\ fetch'.hops = fetch.hops /\ fetch'.result = fetch.result /\ fetch'.asked = fetch.asked
        /\ fetch'.target = fetch.target /\ fetch'.pinned = fetch.pinned
        /\ fetch'.port = fetch.port
    BY <1>3 DEF GithubFetchInv, FetchFits
  <2>2. fetch.call.token => IsTrusted(fetch.target) /\ ~fetch.target.credentials
    BY <1>1, <1>3, MayAskIsTrusted
  <2>3. fetch.call.token => fetch'.pinned \subseteq {"global"}
    BY <2>1 DEF GithubFetchInv, TokenFits
  <2>4. QED
    BY <1>1, <2>1, <2>2, <2>3, GoesOnToInv
<1>4. QED
  BY <1>1, <1>2, <1>3, BaseFailsInv

\* The requests went to the bases up to one, in their order, and to each as often as it may be.
AskedUpTo(asked, turn) ==
    /\ \A i \in DOMAIN asked : asked[i].base \in 1..turn
    /\ \A i, j \in DOMAIN asked : i < j => asked[i].base <= asked[j].base
AskedSoOften(asked, b, n) == Cardinality(AskedOf(asked, b)) <= n
AskedAtMost(asked, B, most) == \A b \in B : Cardinality(AskedOf(asked, b)) <= most

LEMMA OneMoreInTurn ==
    ASSUME NEW asked, IsSequence(asked), NEW r, NEW more, HasGrown(more, asked, r),
           NEW turn \in Nat, turn > 0, r.base = turn, AskedUpTo(asked, turn)
    PROVE  /\ IsSequence(more)
           /\ more # <<>> /\ more[Len(more)].base = turn
           /\ \A i \in DOMAIN more : (i \in DOMAIN asked /\ more[i] = asked[i]) \/ more[i] = r
           /\ AskedUpTo(more, turn)
<1>1. /\ Len(asked) \in Nat /\ DOMAIN asked = 1..Len(asked)
      /\ IsSequence(more) /\ more # <<>>
      /\ DOMAIN more = 1..(Len(asked) + 1)
      /\ \A i \in DOMAIN asked : more[i] = asked[i]
      /\ more[Len(asked) + 1] = r /\ more[Len(more)] = r
  BY GrownByOne
<1>2. \A i \in DOMAIN more : (i \in DOMAIN asked /\ more[i] = asked[i]) \/ (i = Len(asked) + 1 /\ more[i] = r)
  BY <1>1
<1>3. turn \in 1..turn
  OBVIOUS
<1>4. \A i \in DOMAIN more : more[i].base \in 1..turn
  BY <1>2, <1>3 DEF AskedUpTo
<1>5. \A i, j \in DOMAIN more : i < j => more[i].base <= more[j].base
  <2>1. TAKE i, j \in DOMAIN more
  <2>2. HAVE i < j
  <2>3. i \in DOMAIN asked /\ more[i] = asked[i]
    BY <1>1, <2>2
  <2>4. CASE j \in DOMAIN asked
    BY <1>1, <2>2, <2>3, <2>4 DEF AskedUpTo
  <2>5. CASE j = Len(asked) + 1
    <3>1. more[j].base = turn /\ more[i].base \in 1..turn
      BY <1>1, <1>4, <2>5
    <3>2. QED
      BY <3>1
  <2>6. QED
    BY <1>2, <2>4, <2>5
<1>6. more[Len(more)].base = turn
  BY <1>1
<1>7. QED
  BY <1>1, <1>2, <1>4, <1>5, <1>6 DEF AskedUpTo

LEMMA OneMoreAtMost ==
    ASSUME NEW asked, IsSequence(asked), NEW r, NEW more, HasGrown(more, asked, r),
           NEW turn, r.base = turn, NEW B, NEW top \in Nat, NEW n \in Nat, n < top,
           AskedAtMost(asked, B, top), AskedSoOften(asked, turn, n)
    PROVE  AskedAtMost(more, B, top) /\ AskedSoOften(more, turn, n + 1)
<1>1. /\ \A b : b # r.base => AskedOf(more, b) = AskedOf(asked, b)
      /\ Cardinality(AskedOf(asked, r.base)) \in Nat
      /\ Cardinality(AskedOf(more, r.base)) = Cardinality(AskedOf(asked, r.base)) + 1
  BY OneMoreAsked
<1>2. Cardinality(AskedOf(asked, r.base)) <= n
  BY DEF AskedSoOften
<1>3. Cardinality(AskedOf(more, r.base)) <= n + 1 /\ Cardinality(AskedOf(more, r.base)) <= top
  BY <1>1, <1>2
<1>4. AskedSoOften(more, turn, n + 1)
  BY <1>3 DEF AskedSoOften
<1>5. AskedAtMost(more, B, top)
  <2>1. ASSUME NEW b \in B PROVE Cardinality(AskedOf(more, b)) <= top
    <3>1. CASE b = r.base
      BY <1>3, <3>1
    <3>2. CASE b # r.base
      BY <1>1, <3>2 DEF AskedAtMost
    <3>3. QED
      BY <3>1, <3>2
  <2>2. QED
    BY <2>1 DEF AskedAtMost
<1>6. QED
  BY <1>4, <1>5

\* One request is sent to the base.
LEMMA OneSent ==
    ASSUME GithubFetchInv, fetch.pc = "send",
           NEW a, fetch.call.token => a \in fetch.pinned,
           fetch'.asked = Append(fetch.asked, AskedAt(a)), fetch'.call = fetch.call, fetch'.at = fetch.at
    PROVE  /\ AskedInTurn'
           /\ fetch'.asked # <<>> /\ fetch'.asked[Len(fetch'.asked)].base = fetch.at
           /\ Cardinality(AskedOf(fetch'.asked, fetch.at)) <= fetch.hops + 1
<1>1. PICK asked : asked = fetch.asked
  OBVIOUS
<1>2. PICK r : r = AskedAt(a)
  OBVIOUS
<1>3. r.base = fetch.at
  BY <1>2 DEF AskedAt
<1>4. (r.token <=> fetch.call.token)
      /\ (r.first <=> fetch.hops = 0)
      /\ (fetch.call.token => r.to = <<fetch.target, a, fetch.port>>)
  <2>1. /\ r.token = fetch.call.token /\ r.first = (fetch.hops = 0)
        /\ r.to = IF fetch.call.token THEN <<fetch.target, a, fetch.port>> ELSE <<>>
    BY <1>2, Zenon DEF AskedAt
  <2>2. QED
    BY <2>1
<1>5. PICK more : HasGrown(more, asked, r)
  BY DEF HasGrown
<1>6. fetch'.asked = more
  BY <1>1, <1>2, <1>5 DEF HasGrown
<1>7. IsSequence(asked)
  BY <1>1 DEF GithubFetchInv, FetchFits, IsSequence
<1>8. AskedInTurn /\ fetch.at \in Nat /\ fetch.at > 0 /\ fetch.call.bases[fetch.at].kind # "blank"
      /\ MaxRedirects \in Nat /\ fetch.hops \in Nat /\ fetch.hops <= MaxRedirects
  BY AskedAreInTurn, FetchFacts DEF GithubFetchInv, FetchFits, AtABase
<1>9. /\ AskedUpTo(asked, fetch.at) /\ AskedAtMost(asked, DOMAIN fetch.call.bases, MaxRedirects + 1)
      /\ AskedSoOften(asked, fetch.at, fetch.hops)
  <2>1. AskedUpTo(asked, fetch.at)
    BY <1>1, <1>8 DEF AskedInTurn, AskedUpTo
  <2>2. AskedAtMost(asked, DOMAIN fetch.call.bases, MaxRedirects + 1)
    BY <1>1, <1>8 DEF AskedInTurn, AskedAtMost
  <2>3. Cardinality(AskedOf(asked, fetch.at)) <= fetch.hops
    BY <1>1 DEF GithubFetchInv, AskedFit
  <2>4. QED
    BY <2>1, <2>2, <2>3 DEF AskedSoOften
<1>10. /\ IsSequence(more)
       /\ more # <<>> /\ more[Len(more)].base = fetch.at
       /\ \A i \in DOMAIN more : (i \in DOMAIN asked /\ more[i] = asked[i]) \/ more[i] = r
       /\ AskedUpTo(more, fetch.at)
  BY <1>3, <1>5, <1>7, <1>8, <1>9, OneMoreInTurn
<1>15. AskedAtMost(more, DOMAIN fetch.call.bases, MaxRedirects + 1) /\ AskedSoOften(more, fetch.at, fetch.hops + 1)
  <2>1. PICK top \in Nat : top = MaxRedirects + 1
    BY <1>8
  <2>2. fetch.hops < top /\ AskedAtMost(asked, DOMAIN fetch.call.bases, top)
    BY <1>8, <1>9, <2>1
  <2>3. AskedAtMost(more, DOMAIN fetch.call.bases, top) /\ AskedSoOften(more, fetch.at, fetch.hops + 1)
    BY <1>3, <1>5, <1>7, <1>8, <1>9, <2>2, OneMoreAtMost
  <2>4. QED
    BY <2>1, <2>3
<1>11. SentInTrust(more, fetch.call.token)
  <2>1. SentInTrust(asked, fetch.call.token)
    BY <1>1, <1>8 DEF AskedInTurn
  <2>2. r.token => /\ fetch.call.token /\ IsTrusted(r.to[1])
                   /\ r.to[2] = "global" /\ r.to[3] = "base"
                   /\ r.first => ~r.to[1].credentials
    <3>1. ASSUME fetch.call.token
          PROVE  /\ IsTrusted(r.to[1]) /\ r.to[2] = "global" /\ r.to[3] = "base"
                 /\ r.first => ~r.to[1].credentials
      <4>1. r.to[1] = fetch.target /\ r.to[2] = a /\ r.to[3] = fetch.port
        BY <1>4, <3>1
      <4>2. /\ IsTrusted(fetch.target) /\ fetch.pinned \subseteq {"global"} /\ fetch.port = "base"
            /\ fetch.hops = 0 => ~fetch.target.credentials
        BY <3>1 DEF GithubFetchInv, TokenFits
      <4>3. QED
        BY <1>4, <3>1, <4>1, <4>2
    <3>2. QED
      BY <1>4, <3>1
  <2>3. QED
    BY <1>10, <2>1, <2>2 DEF SentInTrust
<1>12. \A i \in DOMAIN more : fetch.call.bases[more[i].base].kind # "blank"
  BY <1>1, <1>3, <1>8, <1>10 DEF AskedInTurn
<1>13. AskedInTurn'
  BY <1>6, <1>10, <1>11, <1>12, <1>15 DEF AskedInTurn, AskedUpTo, AskedAtMost, IsSequence
<1>14. Cardinality(AskedOf(more, fetch.at)) <= fetch.hops + 1
  BY <1>15 DEF AskedSoOften
<1>16. QED
  BY <1>6, <1>10, <1>13, <1>14

\* A request is answered, with a body or with a way to go on.
LEMMA SendsRequestInv ==
    ASSUME GithubFetchInv, SendsRequest
    PROVE  GithubFetchInv'
<1>1. fetch.pc = "send" /\ AtABase
  BY DEF SendsRequest, AtABase
<1>2. CASE fetch' = BaseFails
  BY <1>1, <1>2, BaseFailsInv
<1>3. CASE \E a \in IF fetch.call.token THEN fetch.pinned ELSE {"any"} :
             LET sent == [fetch EXCEPT !.asked = Append(@, AskedAt(a))]
             IN \/ fetch' = [sent EXCEPT !.pc = "read"]
                \/ \E scheme \in {"http", "https"}, host \in Hosts, credentials \in BOOLEAN,
                      port \in {"base", "other"} :
                     LET to == [Url(scheme, host) EXCEPT !.credentials = credentials]
                     IN fetch' = CASE MayFollow(to, port) ->
                                        [sent EXCEPT !.target = to, !.port = port, !.hops = @ + 1]
                                   [] ~fetch.call.follows -> [sent EXCEPT !.pc = "read"]
                                   [] OTHER -> [BaseFails EXCEPT !.asked = sent.asked]
  <2>1. PICK a \in IF fetch.call.token THEN fetch.pinned ELSE {"any"} :
             LET sent == [fetch EXCEPT !.asked = Append(@, AskedAt(a))]
             IN \/ fetch' = [sent EXCEPT !.pc = "read"]
                \/ \E scheme \in {"http", "https"}, host \in Hosts, credentials \in BOOLEAN,
                      port \in {"base", "other"} :
                     LET to == [Url(scheme, host) EXCEPT !.credentials = credentials]
                     IN fetch' = CASE MayFollow(to, port) ->
                                        [sent EXCEPT !.target = to, !.port = port, !.hops = @ + 1]
                                   [] ~fetch.call.follows -> [sent EXCEPT !.pc = "read"]
                                   [] OTHER -> [BaseFails EXCEPT !.asked = sent.asked]
    BY <1>3
  <2> DEFINE sent == [fetch EXCEPT !.asked = Append(@, AskedAt(a))]
             Follows(to, port) == [sent EXCEPT !.target = to, !.port = port, !.hops = @ + 1]
             ReadsOn == [sent EXCEPT !.pc = "read"]
             FailsHere == [BaseFails EXCEPT !.asked = sent.asked]
  <2>2. fetch.call.token => a \in fetch.pinned
    BY <2>1
  <2>3. \/ fetch' = ReadsOn
        \/ \E to, port : MayFollow(to, port) /\ fetch' = Follows(to, port)
        \/ fetch' = FailsHere
    <3> DEFINE GoesWith(to, port) ==
                 CASE MayFollow(to, port) -> Follows(to, port) [] ~fetch.call.follows -> ReadsOn [] OTHER -> FailsHere
    <3>1. \A to, port : \/ MayFollow(to, port) /\ GoesWith(to, port) = Follows(to, port)
                        \/ GoesWith(to, port) = ReadsOn \/ GoesWith(to, port) = FailsHere
      <4> HIDE DEF Follows, ReadsOn, FailsHere
      <4>1. TAKE to, port
      <4>2. CASE MayFollow(to, port)
        <5>1. MayFollow(to, port) => fetch.call.follows
          BY DEF MayFollow
        <5>2. GoesWith(to, port) = Follows(to, port)
          BY <4>2, <5>1
        <5>3. QED
          BY <4>2, <5>2
      <4>3. CASE ~MayFollow(to, port)
        BY <4>3
      <4>4. QED
        BY <4>2, <4>3
    <3>2. \/ fetch' = ReadsOn
          \/ \E to, port : fetch' = GoesWith(to, port)
      BY <2>1
    <3> HIDE DEF GoesWith, Follows, ReadsOn, FailsHere
    <3>3. QED
      BY <3>1, <3>2
  <2>4. fetch'.asked = Append(fetch.asked, AskedAt(a)) /\ fetch'.call = fetch.call /\ fetch'.at = fetch.at
        /\ DOMAIN fetch' = DOMAIN fetch /\ fetch'.result = fetch.result
    BY <2>3 DEF GithubFetchInv, FetchFits, BaseFails
  <2>5. /\ AskedInTurn'
        /\ fetch'.asked # <<>> /\ fetch'.asked[Len(fetch'.asked)].base = fetch.at
        /\ Cardinality(AskedOf(fetch'.asked, fetch.at)) <= fetch.hops + 1
    BY <1>1, <2>2, <2>4, OneSent
  <2>6. fetch.result = "none"
    BY <1>1 DEF GithubFetchInv, FetchFits
  <2>7. CASE fetch' = ReadsOn
    <3>1. /\ fetch'.pc = "read" /\ fetch'.errors = fetch.errors /\ fetch'.hops = fetch.hops
          /\ fetch'.pinned = fetch.pinned /\ fetch'.target = fetch.target
          /\ fetch'.port = fetch.port
      BY <2>7 DEF GithubFetchInv, FetchFits
    <3>2. FetchFits'
      BY <1>1, <2>4, <2>5, <2>6, <3>1 DEF GithubFetchInv, FetchFits, AtABase, AskedInTurn
    <3>3. TokenFits'
      BY <2>4, <2>5, <3>1 DEF GithubFetchInv, TokenFits, AskedInTurn
    <3>4. ErrorsFit'
      BY <1>1, <2>4, <2>6, <3>1 DEF GithubFetchInv, ErrorsFit, AtABase
    <3>5. AskedFit'
      BY <2>4, <2>5, <2>6, <3>1 DEF AskedInTurn, AskedFit
    <3>6. QED
      BY <3>2, <3>3, <3>4, <3>5 DEF GithubFetchInv
  <2>8. CASE fetch' = FailsHere
    <3>1. /\ fetch'.pc = "next" /\ fetch'.errors = Append(fetch.errors, fetch.at)
          /\ fetch'.pinned = {} /\ fetch'.hops = fetch.hops /\ fetch'.port = fetch.port
      BY <2>8 DEF GithubFetchInv, FetchFits, BaseFails
    <3>2. QED
      BY <1>1, <2>4, <2>5, <3>1, BaseFailedInv
  <2>9. CASE \E to, port : MayFollow(to, port) /\ fetch' = Follows(to, port)
    <3>3. PICK to, port : MayFollow(to, port) /\ fetch' = Follows(to, port)
      BY <2>9
    <3>4. /\ fetch'.pc = "send" /\ fetch'.errors = fetch.errors /\ fetch'.hops = fetch.hops + 1
          /\ fetch'.pinned = fetch.pinned /\ fetch'.target = to /\ fetch'.port = port
      BY <1>1, <3>3 DEF GithubFetchInv, FetchFits
    <3>5. /\ fetch.hops \in Nat /\ MaxRedirects \in Nat /\ fetch.hops < MaxRedirects
          /\ fetch.call.token =>
               to.host = fetch.target.host /\ to.scheme = fetch.target.scheme /\ port = "base"
      BY <3>3, FetchFacts DEF MayFollow
    <3>7. fetch.call.token => IsTrusted(to)
      BY <1>1, <3>5 DEF GithubFetchInv, TokenFits, IsTrusted
    <3>8. fetch'.hops \in 0..MaxRedirects
      BY <3>4, <3>5
    <3>9. FetchFits'
      BY <1>1, <2>4, <2>5, <2>6, <3>4, <3>8 DEF GithubFetchInv, FetchFits, AtABase, AskedInTurn
    <3>10. TokenFits'
      BY <2>4, <2>5, <3>4, <3>5, <3>7 DEF GithubFetchInv, TokenFits, AskedInTurn
    <3>11. ErrorsFit'
      BY <1>1, <2>4, <2>6, <3>4 DEF GithubFetchInv, ErrorsFit, AtABase
    <3>12. AskedFit'
      BY <2>4, <2>5, <2>6, <3>4 DEF AskedInTurn, AskedFit
    <3>13. QED
      BY <3>9, <3>10, <3>11, <3>12 DEF GithubFetchInv
  <2>10. QED
    BY <2>3, <2>7, <2>8, <2>9
<1>4. QED
  BY <1>2, <1>3 DEF SendsRequest, FetchIs

LEMMA ReadsReleaseInv ==
    ASSUME GithubFetchInv, ReadsRelease
    PROVE  GithubFetchInv'
<1>1. fetch.pc = "read" /\ AtABase
  BY DEF ReadsRelease, AtABase
<1>2. CASE fetch' = BaseFails
  BY <1>1, <1>2, BaseFailsInv
<1>3. CASE fetch' = FetchEnds("release")
  <2>1. /\ fetch'.pc = "done" /\ fetch'.call = fetch.call /\ fetch'.at = fetch.at
        /\ fetch'.errors = fetch.errors /\ fetch'.result = "release"
    BY <1>3 DEF FetchEnds, GithubFetchInv, FetchFits
  <2>2. ErrorsFit'
    BY <1>1, <2>1 DEF GithubFetchInv, ErrorsFit, AtABase
  <2>3. fetch.asked # <<>> /\ fetch.asked[Len(fetch.asked)].base = fetch.at
    BY <1>1 DEF GithubFetchInv, AskedFit
  <2>4. QED
    BY <1>3, <2>2, <2>3, FetchEndsInv
<1>4. QED
  BY <1>2, <1>3 DEF ReadsRelease, FetchIs

LEMMA GithubFetchStepInv ==
    ASSUME GithubFetchInv, [GithubFetchNext]_fetch
    PROVE  GithubFetchInv'
<1>1. CASE UNCHANGED fetch
  <2>1. fetch' = fetch
    BY <1>1
  <2>2. FetchFits'
    BY <2>1 DEF GithubFetchInv, FetchFits, AtABase
  <2>3. TokenFits'
    BY <2>1 DEF GithubFetchInv, TokenFits, Base
  <2>4. ErrorsFit'
    BY <2>1 DEF GithubFetchInv, ErrorsFit, AtABase, Attempted
  <2>5. AskedFit'
    BY <2>1 DEF GithubFetchInv, AskedFit
  <2>6. QED
    BY <2>2, <2>3, <2>4, <2>5 DEF GithubFetchInv
<1>2. CASE GithubFetchNext
  BY <1>2, StartsFetchInv, NextBaseInv, ValidatesBaseInv, SelectsClientInv, BuildsRequestInv,
     SendsRequestInv, ReadsReleaseInv DEF GithubFetchNext
<1>3. QED
  BY <1>1, <1>2

LEMMA GithubFetchInvKeeps == GithubFetchInv => ReleasesAreFetched
<1>1. SUFFICES ASSUME GithubFetchInv PROVE ReleasesAreFetched
  OBVIOUS
<1>2. TokensStayWithTheTrusted
  BY <1>1 DEF GithubFetchInv, TokenFits, SentInTrust, IsTrusted, TokensStayWithTheTrusted
<1>3. BasesTakeTurns
  <2>1. \A i \in DOMAIN fetch.asked : fetch.asked[i].base \in DOMAIN fetch.call.bases
    <3>1. \A b \in 1..fetch.at : b \in DOMAIN fetch.call.bases
      BY <1>1, FetchFacts
    <3>2. QED
      BY <1>1, <3>1 DEF GithubFetchInv, AskedFit
  <2>2. \A i \in DOMAIN fetch.asked : Cardinality(AskedOf(fetch.asked, fetch.asked[i].base)) <= MaxRedirects + 1
    BY <1>1, <2>1 DEF GithubFetchInv, AskedFit
  <2>3. /\ \A i, j \in DOMAIN fetch.asked : i < j => fetch.asked[i].base <= fetch.asked[j].base
        /\ fetch.result = "release" => fetch.asked # <<>> /\ fetch.asked[Len(fetch.asked)].base = fetch.at
    BY <1>1 DEF GithubFetchInv, AskedFit
  <2>4. QED
    BY <1>1, <2>2, <2>3 DEF GithubFetchInv, ErrorsFit, BasesTakeTurns
<1>4. QED
  BY <1>2, <1>3 DEF ReleasesAreFetched

-----------------------------------------------------------------------------
(***************************************************************************)
(* The action of GitHub.                                                   *)
(***************************************************************************)

\* Induction over the natural numbers, for a set: the least number outside has a
\* predecessor inside.
LEMMA NumbersUpwards ==
    ASSUME NEW S, 0 \in S, \A n \in Nat : n \in S => n + 1 \in S
    PROVE  Nat \subseteq S
<1> DEFINE T == {n \in Nat : n \notin S}
           R == {ss \in Nat \X Nat : ss[1] < ss[2]}
<1> SUFFICES ASSUME T # {} PROVE FALSE
  OBVIOUS
<1>1. PICK x \in T : \A y \in T : ~ (<<y, x>> \in R)
  <2>1. T \subseteq Nat
    OBVIOUS
  <2>2. IsWellFoundedOn(R, Nat)
    BY NatLessThanWellFounded DEF OpToRel
  <2> HIDE DEF T, R
  <2>3. QED
    BY <2>1, <2>2, WFMin
<1>2. x \in Nat /\ x # 0 /\ x - 1 \in Nat
  OBVIOUS
<1>3. x - 1 \in S
  <2>1. <<x - 1, x>> \in R
    BY <1>2
  <2>2. QED
    BY <1>1, <1>2, <2>1
<1>4. QED
  BY <1>2, <1>3

\* A text that was cut is no longer than it may be.
LEMMA CutFits ==
    ASSUME NEW length \in Nat, NEW max \in Nat
    PROVE  CutForPrompt(length, max) \in Nat /\ CutForPrompt(length, max) <= max
BY ActionRunAssumption DEF CutForPrompt

\* The length of all parts is a number.
LEMMA TotalIsLength ==
    ASSUME NEW lengths \in Seq(Nat)
    PROVE  Total(lengths) \in Nat
<1> DEFINE N == Len(lengths)
           IsSum(f, k) == f = [i \in 0..k |-> IF i = 0 THEN 0
                                              ELSE f[i - 1] + CutForPrompt(lengths[i], PartLimit)]
           Summed == {k \in Nat : k <= N => \E f : IsSum(f, k) /\ f[k] \in Nat}
<1>1. N \in Nat /\ \A i \in 1..N : lengths[i] \in Nat
  OBVIOUS
<1>2. PartLimit \in Nat
  BY ActionRunAssumption
<1> HIDE DEF N
<1>3. 0 \in Summed
  <2> DEFINE g == [i \in 0..0 |-> 0]
  <2>1. IsSum(g, 0)
    OBVIOUS
  <2>2. g[0] \in Nat
    OBVIOUS
  <2> HIDE DEF g, IsSum
  <2>3. QED
    BY <2>1, <2>2
<1>4. \A k \in Nat : k \in Summed => k + 1 \in Summed
  <2> TAKE k \in Nat
  <2> HAVE k \in Summed
  <2> SUFFICES ASSUME k + 1 <= N PROVE \E f : IsSum(f, k + 1) /\ f[k + 1] \in Nat
    OBVIOUS
  <2>1. PICK f : IsSum(f, k) /\ f[k] \in Nat
    BY <1>1
  <2> DEFINE more == CutForPrompt(lengths[k + 1], PartLimit)
             g == [i \in 0..(k + 1) |-> IF i <= k THEN f[i] ELSE f[k] + more]
  <2>2. more \in Nat
    <3>1. lengths[k + 1] \in Nat
      BY <1>1
    <3>2. QED
      BY <1>2, <3>1, CutFits
  <2>3. \A i \in 0..(k + 1) : g[i] = IF i = 0 THEN 0 ELSE g[i - 1] + CutForPrompt(lengths[i], PartLimit)
    <3> HIDE DEF more
    <3>1. \A i \in 0..k : f[i] = IF i = 0 THEN 0 ELSE f[i - 1] + CutForPrompt(lengths[i], PartLimit)
      BY <2>1
    <3>2. \A i \in 0..k : g[i] = f[i]
      OBVIOUS
    <3>3. g[k + 1] = f[k] + CutForPrompt(lengths[k + 1], PartLimit)
      BY DEF more
    <3> HIDE DEF g
    <3>4. \A i \in 0..k : i # 0 => i - 1 \in 0..k
      OBVIOUS
    <3>5. QED
      BY <3>1, <3>2, <3>3, <3>4
  <2>4. g[k + 1] \in Nat
    BY <2>1, <2>2
  <2>5. IsSum(g, k + 1)
    BY <2>3
  <2> HIDE DEF g, IsSum
  <2>6. QED
    BY <2>4, <2>5
<1>5. N \in Summed
  <2> HIDE DEF Summed
  <2>1. QED
    BY <1>1, <1>3, <1>4, NumbersUpwards
<1>6. PICK f : IsSum(f, N) /\ f[N] \in Nat
  BY <1>1, <1>5
<1> DEFINE sum == CHOOSE s : IsSum(s, N)
<1>7. Total(lengths) = sum[N]
  BY DEF Total, N
<1>8. IsSum(sum, N)
  <2> HIDE DEF IsSum
  <2>1. QED
    BY <1>6
<1> DEFINE Sums == {k \in Nat : k <= N => sum[k] \in Nat}
<1> HIDE DEF sum
<1>9. 0 \in Sums
  BY <1>1, <1>8
<1>10. \A k \in Nat : k \in Sums => k + 1 \in Sums
  <2> TAKE k \in Nat
  <2> HAVE k \in Sums
  <2> SUFFICES ASSUME k + 1 <= N PROVE sum[k + 1] \in Nat
    OBVIOUS
  <2>1. CutForPrompt(lengths[k + 1], PartLimit) \in Nat
    <3>1. lengths[k + 1] \in Nat
      BY <1>1
    <3>2. QED
      BY <1>2, <3>1, CutFits
  <2>2. sum[k + 1] = sum[k] + CutForPrompt(lengths[k + 1], PartLimit)
    BY <1>1, <1>8
  <2>3. QED
    BY <1>1, <2>1, <2>2
<1>11. N \in Sums
  <2> HIDE DEF Sums
  <2>1. QED
    BY <1>1, <1>9, <1>10, NumbersUpwards
<1>12. QED
  BY <1>1, <1>7, <1>11

LEMMA ActionInitInv == ActionRunInit => ActionInv
<1> SUFFICES ASSUME ActionRunInit PROVE ActionInv
  OBVIOUS
<1> USE DEF ActionRunInit
<1>1. ActionRunTypeOK
  <2>1. link \in BOOLEAN
    BY Zenon
  <2>2. Len(comments) <= 1
    OBVIOUS
  <2>3. QED
    BY <2>1, <2>2 DEF ActionRunTypeOK
<1>2. context <= ContextLimit + IF job.event = "issue_comment" THEN 0 ELSE PartLimit
  BY ActionRunAssumption
<1>3. ActionAnswersOnce
  BY <1>2 DEF ActionAnswersOnce
<1>4. QED
  BY <1>1, <1>3 DEF ActionInv

\* What goes before the request keeps to its limits.
LEMMA ContextsFit ==
    ASSUME job \in Jobs
    PROVE  /\ IssueContext \in Nat /\ IssueContext <= ContextLimit
           /\ ReviewContext \in Nat /\ ReviewContext <= ContextLimit + PartLimit
<1>1. job.parts \in Seq(Nat) /\ job.hunk \in Nat /\ ContextLimit \in Nat /\ PartLimit \in Nat
  BY ActionRunAssumption
<1>2. Total(job.parts) \in Nat
  BY <1>1, TotalIsLength
<1>3. CutForPrompt(Total(job.parts), ContextLimit) \in Nat
      /\ CutForPrompt(Total(job.parts), ContextLimit) <= ContextLimit
  BY <1>1, <1>2, CutFits
<1>4. CutForPrompt(job.hunk, PartLimit) \in Nat /\ CutForPrompt(job.hunk, PartLimit) <= PartLimit
  BY <1>1, CutFits
<1>5. QED
  BY <1>1, <1>3, <1>4 DEF IssueContext, ReviewContext

\* The job is what it was, so who asked is.
LEMMA SameJob == ASSUME job' = job PROVE IssueIsAsked' = IssueIsAsked /\ ReviewIsAsked' = ReviewIsAsked
BY DEF IssueIsAsked, ReviewIsAsked

LEMMA PostInv ==
    ASSUME ActionInv, at = "post", at' = "done", UNCHANGED <<job, context, link>>,
           NEW place, place = IF job.event = "issue_comment" THEN "issue" ELSE "review",
           comments' = Append(comments, [on |-> place, length |-> Body])
    PROVE  ActionInv'
<1>1. comments = <<>> /\ (IssueIsAsked \/ ReviewIsAsked) /\ ActionRunTypeOK /\ ActionAnswersOnce
  BY DEF ActionInv
<1>2. comments' = <<[on |-> place, length |-> Body]>>
  BY <1>1
<1>3. Len(comments') = 1 /\ comments'[1].on = place /\ comments'[1].length = Body /\ DOMAIN comments' = {1}
  BY <1>2
<1>4. Body \in Nat /\ Body <= CommentLimit
  <2>1. job.reply \in Nat /\ (IF link THEN LengthOfLink ELSE 0) \in Nat
    BY <1>1, ActionRunAssumption DEF ActionRunTypeOK, LengthOfLink
  <2> DEFINE whole == job.reply + IF link THEN LengthOfLink ELSE 0
  <2>2. whole \in Nat
    BY <2>1
  <2> HIDE DEF whole
  <2>3. CutForGitHub(whole) \in Nat /\ CutForGitHub(whole) <= CommentLimit
    BY <2>2, ActionRunAssumption DEF CutForGitHub
  <2>4. QED
    BY <2>3 DEF Body, whole
<1>5. ActionAnswersOnce'
  BY <1>1, <1>3, <1>4, SameJob DEF ActionAnswersOnce
<1>6. ActionRunTypeOK'
  BY <1>1, <1>3 DEF ActionRunTypeOK
<1>7. QED
  BY <1>1, <1>5, <1>6, SameJob DEF ActionInv

LEMMA ActionStepInv == ActionInv /\ [ActionRunNext]_actionVars => ActionInv'
<1> SUFFICES ASSUME ActionInv, [ActionRunNext]_actionVars PROVE ActionInv'
  OBVIOUS
<1>1. ActionRunTypeOK /\ ActionAnswersOnce
  BY DEF ActionInv
<1>2. CASE UNCHANGED actionVars
  BY <1>2, SameJob DEF actionVars, ActionInv, ActionRunTypeOK, ActionAnswersOnce
<1>3. CASE Ignores
  BY <1>1, <1>3, SameJob DEF Ignores, ActionInv, ActionRunTypeOK, ActionAnswersOnce
<1>4. CASE JobFails
  BY <1>1, <1>4, SameJob DEF JobFails, ActionInv, ActionRunTypeOK, ActionAnswersOnce
<1>5. CASE ReadsIssue
  <2>1. job \in Jobs /\ comments = <<>> /\ job' = job /\ comments' = comments /\ link' = link
    BY <1>1, <1>5 DEF ReadsIssue, ActionInv, ActionRunTypeOK
  <2>2. context' \in Nat /\ context' <= ContextLimit + 0 /\ job.event = "issue_comment"
    BY <1>5, <2>1, ContextsFit, ActionRunAssumption DEF ReadsIssue, IssueIsAsked
  <2>3. QED
    BY <1>1, <1>5, <2>1, <2>2, SameJob DEF ReadsIssue, ActionInv, ActionRunTypeOK, ActionAnswersOnce
<1>6. CASE ReadsReview
  <2>1. job \in Jobs /\ comments = <<>> /\ job' = job /\ comments' = comments /\ link' = link
    BY <1>1, <1>6 DEF ReadsReview, ActionInv, ActionRunTypeOK
  <2>2. context' \in Nat /\ context' <= ContextLimit + PartLimit /\ job.event # "issue_comment"
    BY <1>6, <2>1, ContextsFit DEF ReadsReview, ReviewIsAsked
  <2>3. QED
    BY <1>1, <1>6, <2>1, <2>2, SameJob DEF ReadsReview, ActionInv, ActionRunTypeOK, ActionAnswersOnce
<1>7. CASE SessionReady
  BY <1>1, <1>7, SameJob DEF SessionReady, ActionInv, ActionRunTypeOK, ActionAnswersOnce
<1>8. CASE Shares
  BY <1>1, <1>8, SameJob DEF Shares, ActionInv, ActionRunTypeOK, ActionAnswersOnce
<1>9. CASE Answered
  BY <1>1, <1>9, SameJob DEF Answered, ActionInv, ActionRunTypeOK, ActionAnswersOnce
<1>10. CASE PostsOnIssue
  BY <1>10, PostInv DEF PostsOnIssue
<1>11. CASE PostsOnReview
  BY <1>11, PostInv DEF PostsOnReview
<1>12. QED
  BY <1>2, <1>3, <1>4, <1>5, <1>6, <1>7, <1>8, <1>9, <1>10, <1>11 DEF ActionRunNext

-----------------------------------------------------------------------------
(***************************************************************************)
(* The sinks.                                                              *)
(***************************************************************************)
LEMMA SinkInitInv == SinkSendInit => SinkInv
<1> SUFFICES ASSUME SinkSendInit PROVE SinkInv
  OBVIOUS
<1>1. /\ DOMAIN delivery = {"pc", "of", "reached", "images", "posts", "taken", "result"}
      /\ delivery.pc = "new" /\ delivery.of \in Deliveries /\ delivery.reached = {}
      /\ delivery.images = <<>> /\ delivery.posts = 0 /\ delivery.taken = "no" /\ delivery.result = "none"
  BY DEF SinkSendInit
<1>2. DOMAIN delivery.images = {}
  BY <1>1
<1>3. SinkSendTypeOK
  BY <1>1, <1>2 DEF SinkSendTypeOK
<1>4. DeliveryFits
  BY <1>1 DEF DeliveryFits
<1>5. ImagesMayBeLoaded
  BY <1>2 DEF ImagesMayBeLoaded
<1>6. DeliveriesAreTrue
  BY <1>1 DEF DeliveriesAreTrue, SentMeansTaken, DeliveriesStayInScope
<1>7. QED
  BY <1>3, <1>4, <1>5, <1>6 DEF SinkInv

\* What is asked of the sink does not change.
LEMMA SameSink ==
    ASSUME delivery'.of = delivery.of
    PROVE  /\ Sink' = Sink /\ Scope' = Scope /\ (Pins' <=> Pins)
           /\ \A i : MayLoad(i)' <=> MayLoad(i)
           /\ IsConfigured(delivery.of)' <=> IsConfigured(delivery.of)
<1>1. Sink' = Sink /\ Scope' = Scope
  BY DEF Sink, Scope
<1>2. Pins' <=> Pins
  BY <1>1 DEF Pins
<1>3. \A i : MayLoad(i)' <=> MayLoad(i)
  BY DEF MayLoad
<1>4. ScopeIsSound' <=> ScopeIsSound
  BY <1>1 DEF ScopeIsSound
<1>5. IsConfigured(delivery.of)' <=> IsConfigured(delivery.of)
  BY <1>4 DEF IsConfigured, SlackConfigured, DiscordConfigured, WeComConfigured, DingTalkConfigured,
              TelegramConfigured, PushPlusConfigured, BarkConfigured, ServerChanConfigured,
              FeishuConfigured, GithubConfigured, WebhookConfigured, OfProvider, FaultFree
<1>6. QED
  BY <1>1, <1>2, <1>3, <1>5

\* The socket of a client that pins is public.
LEMMA PinsArePublic ==
    ASSUME NEW host \in Hosts, NEW pinning, pinning, NEW a \in SocketsFor(pinning, host)
    PROVE  a = "global"
<1>1. PICK answer \in Answers(host) : a \in Pinned(answer)
  BY DEF SocketsFor
<1>2. Pinned(answer) \subseteq {"global"}
  BY <1>1, PinnedIsGlobal
<1>3. QED
  BY <1>1, <1>2

\* What a step leaves alone that neither reaches anybody nor posts.
LEMMA DeliveryGoesOn ==
    ASSUME SinkInv,
           DOMAIN delivery' = DOMAIN delivery, delivery'.of = delivery.of,
           delivery'.reached = delivery.reached, delivery'.images = delivery.images,
           delivery'.posts = delivery.posts, delivery'.taken = delivery.taken,
           \/ /\ delivery'.pc \in {"client", "message", "images"} /\ delivery'.result = "none"
              /\ delivery.pc \in {"new", "client", "message", "images"}
              /\ delivery'.pc # "client" => Sink # "sound"
              /\ IsConfigured(delivery.of)
           \/ /\ delivery'.pc = "done"
              /\ \/ delivery'.result \in {"timeout", "transport"}
                 \/ delivery'.result \in {"config", "client"} /\ delivery.posts = 0
                 \/ delivery'.result = "refused" /\ delivery.posts = 1
                 \/ delivery'.result = "sent" /\ delivery.posts = 1 /\ delivery.taken = "yes"
    PROVE  SinkInv'
<1>1. SinkSendTypeOK /\ DeliveryFits /\ ImagesMayBeLoaded /\ SentMeansTaken /\ DeliveriesStayInScope
  BY DEF SinkInv, DeliveriesAreTrue
<1>2. SinkSendTypeOK'
  BY <1>1 DEF SinkSendTypeOK
<1>3. DeliveryFits'
  BY <1>1, SameSink DEF DeliveryFits
<1>4. ImagesMayBeLoaded'
  BY <1>1, SameSink DEF ImagesMayBeLoaded
<1>5. SentMeansTaken'
  BY <1>1, SameSink DEF SentMeansTaken
<1>6. DeliveriesStayInScope'
  BY <1>1, SameSink DEF DeliveriesStayInScope
<1>7. QED
  BY <1>2, <1>3, <1>4, <1>5, <1>6 DEF SinkInv, DeliveriesAreTrue

LEMMA BuildsInv == ASSUME SinkInv, Builds PROVE SinkInv'
<1>1. delivery.pc = "new" /\ DeliveryFits
  BY DEF Builds, SinkInv
<1>2. delivery.posts = 0
  BY <1>1 DEF DeliveryFits
<1>3. CASE Delivers(Fails("config"))
  BY <1>1, <1>2, <1>3, DeliveryGoesOn DEF Delivers, Fails, DeliveryFits
<1>4. CASE IsConfigured(delivery.of) /\ Delivers([delivery EXCEPT !.pc = "client"])
  BY <1>1, <1>2, <1>4, DeliveryGoesOn DEF Delivers, DeliveryFits
<1>5. QED
  BY <1>3, <1>4 DEF Builds

LEMMA SelectsSinkClientInv == ASSUME SinkInv, SelectsSinkClient PROVE SinkInv'
<1>1. delivery.pc = "client" /\ Sink # "sound" /\ DeliveryFits
  BY DEF SelectsSinkClient, SinkInv
<1>2. delivery.posts = 0 /\ IsConfigured(delivery.of) /\ delivery.result = "none"
  BY <1>1 DEF DeliveryFits
<1>3. CASE Delivers(Fails("client"))
  BY <1>1, <1>2, <1>3, DeliveryGoesOn DEF Delivers, Fails, DeliveryFits
<1>4. CASE Delivers([delivery EXCEPT !.pc = "message"])
  BY <1>1, <1>2, <1>4, DeliveryGoesOn DEF Delivers, DeliveryFits
<1>5. QED
  BY <1>3, <1>4 DEF SelectsSinkClient

\* What a sound changes: it reaches nobody, and rings once if at all.
LEMMA SoundGoesOn ==
    ASSUME SinkInv, Sink = "sound", delivery.pc \in {"client", "ringing"},
           DOMAIN delivery' = DOMAIN delivery, delivery'.of = delivery.of,
           delivery'.reached = delivery.reached, delivery'.images = delivery.images,
           delivery'.posts \in 0..1, delivery'.taken \in {"yes", "no"},
           \/ /\ delivery'.pc = "ringing" /\ delivery'.result = "none" /\ delivery'.posts = 1
           \/ /\ delivery'.pc = "done"
              /\ delivery'.result = "io" \/ (delivery'.result = "sent" /\ delivery'.posts = 1)
    PROVE  SinkInv'
<1>1. /\ DeliveryFits /\ SinkSendTypeOK /\ ImagesMayBeLoaded /\ SentMeansTaken
      /\ DeliveriesStayInScope /\ IsConfigured(delivery.of)
  BY DEF SinkInv, DeliveriesAreTrue, DeliveryFits
<1>2. SinkSendTypeOK'
  BY <1>1 DEF SinkSendTypeOK
<1>3. DeliveryFits'
  BY <1>1, SameSink DEF DeliveryFits
<1>4. ImagesMayBeLoaded'
  BY <1>1, SameSink DEF ImagesMayBeLoaded
<1>5. SentMeansTaken'
  BY <1>1, SameSink DEF SentMeansTaken
<1>6. DOMAIN delivery.images = {}
  BY <1>1 DEF ImagesMayBeLoaded
<1>7. DeliveriesStayInScope'
  BY <1>1, <1>6, SameSink DEF DeliveriesStayInScope
<1>8. QED
  BY <1>2, <1>3, <1>4, <1>5, <1>7 DEF SinkInv, DeliveriesAreTrue

LEMMA RingsInv == ASSUME SinkInv, Rings PROVE SinkInv'
<1>1. delivery.pc = "client" /\ Sink = "sound" /\ DeliveryFits
  BY DEF Rings, SinkInv
<1>2. delivery.posts = 0 /\ delivery.taken \in {"yes", "no"} /\ delivery.result = "none"
  BY <1>1 DEF DeliveryFits
<1> DEFINE rung == [delivery EXCEPT !.posts = 1, !.taken = "yes", !.pc = "done"]
<1>3. CASE Delivers(Fails("io"))
  BY <1>1, <1>2, <1>3, SoundGoesOn DEF Delivers, Fails, DeliveryFits
<1>4. ASSUME NEW result \in {"sent", "io"}, Delivers([rung EXCEPT !.result = result]) PROVE SinkInv'
  BY <1>1, <1>2, <1>4, SoundGoesOn DEF Delivers, DeliveryFits
<1>5. CASE Delivers([delivery EXCEPT !.posts = 1, !.pc = "ringing"])
  BY <1>1, <1>2, <1>5, SoundGoesOn DEF Delivers, DeliveryFits
<1>6. QED
  BY <1>3, <1>4, <1>5 DEF Rings

LEMMA CommandEndsInv == ASSUME SinkInv, CommandEnds PROVE SinkInv'
<1>1. delivery.pc = "ringing" /\ Sink = "sound" /\ DeliveryFits
  BY DEF CommandEnds, SinkInv, DeliveryFits
<1>2. delivery.posts = 1 /\ delivery.taken \in {"yes", "no"}
  BY <1>1 DEF DeliveryFits
<1>3. CASE Delivers(Fails("io"))
  BY <1>1, <1>2, <1>3, SoundGoesOn DEF Delivers, Fails, DeliveryFits
<1>4. ASSUME NEW taken \in {"yes", "no"},
             Delivers([delivery EXCEPT !.pc = "done", !.taken = taken, !.result = "sent"])
      PROVE  SinkInv'
  BY <1>1, <1>2, <1>4, SoundGoesOn DEF Delivers, DeliveryFits
<1>5. QED
  BY <1>3, <1>4 DEF CommandEnds

\* Whom a delivery may reach, and how far an image may come.
MayBeReached(r) ==
    /\ r.for \in {"post", "upload"} =>
         /\ r.host = delivery.of.url.host
         /\ Pins => r.address = "global"
         /\ Sink = "webhook" /\ ~Pins => Under[r.host] \cap Scope.hosts # {}
    /\ r.for = "image" => delivery.of.remote /\ delivery.of.credentials /\ r.address = "global"
MayHaveState(i, state) ==
    /\ state \in {"load", "upload", "none", "key"} /\ Sink = "feishu" /\ i \in Range(delivery.of.images)
    /\ state \in {"upload", "key"} => delivery.of.credentials /\ MayLoad(i)

\* The images go on, and somebody is reached for one perhaps.
LEMMA ImageGoesOn ==
    ASSUME SinkInv, delivery.pc \in {"message", "images"},
           DOMAIN delivery' = DOMAIN delivery, delivery'.of = delivery.of, delivery'.pc = "images",
           delivery'.posts = delivery.posts, delivery'.taken = delivery.taken,
           delivery'.result = delivery.result,
           \A i \in DOMAIN delivery'.images : MayHaveState(i, delivery'.images[i]),
           \A r \in delivery'.reached : r \in delivery.reached \/ MayBeReached(r)
    PROVE  SinkInv'
<1>1. DeliveryFits /\ SinkSendTypeOK /\ ImagesMayBeLoaded /\ SentMeansTaken /\ DeliveriesStayInScope
  BY DEF SinkInv, DeliveriesAreTrue
<1>2. delivery.posts = 0 /\ IsConfigured(delivery.of) /\ Sink # "sound" /\ delivery.result = "none"
  BY <1>1 DEF DeliveryFits
<1>3. SinkSendTypeOK'
  BY <1>1 DEF SinkSendTypeOK, MayHaveState
<1>4. DeliveryFits'
  BY <1>1, <1>2, SameSink DEF DeliveryFits
<1>5. ImagesMayBeLoaded'
  BY SameSink DEF ImagesMayBeLoaded, MayHaveState
<1>6. SentMeansTaken'
  BY <1>2 DEF SentMeansTaken
<1>7. DeliveriesStayInScope'
  BY <1>1, <1>2, SameSink DEF DeliveriesStayInScope, MayBeReached
<1>8. QED
  BY <1>3, <1>4, <1>5, <1>6, <1>7 DEF SinkInv, DeliveriesAreTrue

LEMMA StartsMessageInv == ASSUME SinkInv, StartsMessage PROVE SinkInv'
<1>1. delivery.pc = "message" /\ DeliveryFits
  BY DEF StartsMessage, SinkInv
<1> DEFINE all == [i \in SourcesIn(delivery.of) |-> "load"]
<1>2. delivery' = [delivery EXCEPT !.pc = "images", !.images = all]
  BY DEF StartsMessage, Delivers
<1>3. \A i \in DOMAIN all : MayHaveState(i, all[i])
  BY DEF SourcesIn, MayHaveState
<1> HIDE DEF all
<1>4. QED
  BY <1>1, <1>2, <1>3, ImageGoesOn DEF DeliveryFits

\* One image gets a state.
LEMMA ImageSettles ==
    ASSUME SinkInv, delivery.pc = "images", NEW i \in DOMAIN delivery.images, NEW state,
           MayHaveState(i, state),
           DOMAIN delivery' = DOMAIN delivery, delivery'.of = delivery.of, delivery'.pc = delivery.pc,
           delivery'.posts = delivery.posts, delivery'.taken = delivery.taken,
           delivery'.result = delivery.result,
           delivery'.images = [delivery.images EXCEPT ![i] = state],
           \A r \in delivery'.reached : r \in delivery.reached \/ MayBeReached(r)
    PROVE  SinkInv'
<1>1. \A j \in DOMAIN delivery.images : MayHaveState(j, delivery.images[j])
  BY DEF SinkInv, ImagesMayBeLoaded, SinkSendTypeOK, MayHaveState
<1>2. \A j \in DOMAIN delivery'.images : MayHaveState(j, delivery'.images[j])
  BY <1>1
<1>3. QED
  BY <1>2, ImageGoesOn

LEMMA LoadsImageInv ==
    ASSUME SinkInv, NEW i \in DOMAIN delivery.images, LoadsImage(i) PROVE SinkInv'
<1>1. delivery.pc = "images" /\ DeliveryFits /\ Sink = "feishu" /\ i \in Range(delivery.of.images)
  BY DEF LoadsImage, SinkInv, ImagesMayBeLoaded
<1>2. ASSUME NEW state \in {"none", "upload"}, Settles(i, state),
             state = "upload" => delivery.of.credentials /\ MayLoad(i)
      PROVE  SinkInv'
  <2>1. MayHaveState(i, state)
    BY <1>1, <1>2 DEF MayHaveState
  <2>2. QED
    BY <1>1, <1>2, <2>1, ImageSettles DEF Settles, Delivers, DeliveryFits
<1>3. ASSUME delivery.of.credentials, MayLoad(i), i.remote,
             NEW a \in ImageSockets(i.host), NEW loaded \in {"none", "upload"},
             Delivers([delivery EXCEPT !.images[i] = loaded,
                        !.reached = @ \cup {[for |-> "image", host |-> i.host, address |-> a]}])
      PROVE  SinkInv'
  <2>1. i.host \in Hosts
    BY <1>1, <1>3, SinkSendAssumption DEF DeliveryFits
  <2>2. a = "global"
    BY <1>3, <2>1, PinsArePublic DEF ImageSockets
  <2>3. delivery.of.remote
    BY <1>3 DEF MayLoad
  <2>4. MayHaveState(i, loaded)
    BY <1>1, <1>3 DEF MayHaveState
  <2>5. MayBeReached([for |-> "image", host |-> i.host, address |-> a])
    BY <1>3, <2>2, <2>3 DEF MayBeReached
  <2>6. QED
    BY <1>1, <1>3, <2>4, <2>5, ImageSettles DEF Delivers, DeliveryFits
<1>4. QED
  BY <1>2, <1>3 DEF LoadsImage

\* What the configuration lets a message be sent to.
LEMMA ScopeHasHost ==
    ASSUME SinkInv, IsConfigured(delivery.of), Sink = "webhook", ~Pins
    PROVE  Under[delivery.of.url.host] \cap Scope.hosts # {}
<1>1. WebhookConfigured(delivery.of)
  BY DEF IsConfigured, Sink
<1>2. Scope.hosts \ {""} # {}
  BY <1>1 DEF WebhookConfigured, ScopeIsSound, Pins
<1>3. AllowsHost(Policy(FALSE, FALSE, TRUE, FALSE, Scope.hosts \ {""}), delivery.of.url.host)
  BY <1>1 DEF WebhookConfigured, Scope
<1>4. QED
  BY <1>2, <1>3 DEF AllowsHost, Policy

LEMMA UploadsImageInv ==
    ASSUME SinkInv, NEW i \in DOMAIN delivery.images, UploadsImage(i) PROVE SinkInv'
<1>1. /\ delivery.pc = "images" /\ DeliveryFits /\ Sink = "feishu" /\ i \in Range(delivery.of.images)
      /\ delivery.of \in Deliveries /\ delivery.of.credentials /\ MayLoad(i)
  BY DEF UploadsImage, SinkInv, ImagesMayBeLoaded, DeliveryFits
<1>2. \A state \in {"none", "key"} : MayHaveState(i, state)
  BY <1>1 DEF MayHaveState
<1>3. CASE Settles(i, "none")
  BY <1>1, <1>2, <1>3, ImageSettles DEF Settles, Delivers, DeliveryFits
<1>4. ASSUME NEW a \in SocketsFor(delivery.of.enforce, delivery.of.url.host), NEW key \in {"none", "key"},
             Delivers([delivery EXCEPT !.images[i] = key,
                        !.reached = @ \cup {[for |-> "upload", host |-> delivery.of.url.host, address |-> a]}])
      PROVE  SinkInv'
  <2>1. delivery.of.url.host \in Hosts
    BY <1>1, SinkSendAssumption
  <2>2. Pins => a = "global"
    BY <1>1, <1>4, <2>1, PinsArePublic DEF Pins
  <2>3. MayBeReached([for |-> "upload", host |-> delivery.of.url.host, address |-> a])
    BY <1>1, <2>2 DEF MayBeReached
  <2>4. QED
    BY <1>1, <1>2, <1>4, <2>3, ImageSettles DEF Delivers, DeliveryFits
<1>5. QED
  BY <1>3, <1>4 DEF UploadsImage

LEMMA PostsMessageInv == ASSUME SinkInv, PostsMessage PROVE SinkInv'
<1>1. /\ delivery.pc = "images" /\ DeliveryFits /\ ImagesMayBeLoaded /\ SinkSendTypeOK
      /\ SentMeansTaken /\ DeliveriesStayInScope
  BY DEF PostsMessage, SinkInv, DeliveriesAreTrue
<1>2. /\ delivery.posts = 0 /\ IsConfigured(delivery.of) /\ Sink # "sound" /\ delivery.result = "none"
      /\ delivery.of \in Deliveries
  BY <1>1 DEF DeliveryFits
<1>3. CASE Delivers(Fails("transport"))
  BY <1>1, <1>3, DeliveryGoesOn DEF Delivers, Fails, DeliveryFits
<1>4. ASSUME NEW a \in SocketsFor(Pins, delivery.of.url.host), NEW taken \in {"yes", "no"},
             NEW r, r = [for |-> "post", host |-> delivery.of.url.host, address |-> a],
             NEW sent, sent = [delivery EXCEPT !.posts = @ + 1, !.taken = taken, !.reached = @ \cup {r}],
             \/ Delivers([sent EXCEPT !.pc = "answer"])
             \/ Delivers([sent EXCEPT !.pc = "done", !.result = "transport"])
      PROVE  SinkInv'
  <2>1. /\ DOMAIN delivery' = DOMAIN delivery /\ delivery'.of = delivery.of
        /\ delivery'.reached = delivery.reached \cup {r} /\ delivery'.images = delivery.images
        /\ delivery'.posts = 1 /\ delivery'.taken = taken
        /\ \/ delivery'.pc = "answer" /\ delivery'.result = "none"
           \/ delivery'.pc = "done" /\ delivery'.result = "transport"
    <3>1. DOMAIN sent = DOMAIN delivery /\ sent.of = delivery.of /\ sent.images = delivery.images
          /\ sent.reached = delivery.reached \cup {r} /\ sent.taken = taken
          /\ sent.posts = 1 /\ sent.result = "none"
      BY <1>1, <1>2, <1>4 DEF DeliveryFits
    <3>2. CASE Delivers([sent EXCEPT !.pc = "answer"])
      BY <1>1, <3>1, <3>2 DEF Delivers, DeliveryFits
    <3>3. CASE Delivers([sent EXCEPT !.pc = "done", !.result = "transport"])
      BY <1>1, <3>1, <3>3 DEF Delivers, DeliveryFits
    <3>4. QED
      BY <1>4, <3>2, <3>3
  <2>2. SinkSendTypeOK'
    BY <1>1, <2>1 DEF SinkSendTypeOK
  <2>3. DeliveryFits'
    BY <1>1, <1>2, <2>1, SameSink DEF DeliveryFits
  <2>4. ImagesMayBeLoaded'
    BY <1>1, <2>1, SameSink DEF ImagesMayBeLoaded
  <2>5. SentMeansTaken'
    BY <2>1 DEF SentMeansTaken
  <2>6. r.for = "post" /\ r.host = delivery.of.url.host /\ r.address = a
    BY <1>4
  <2>7. Pins => a = "global"
    BY <1>2, <1>4, PinsArePublic, SinkSendAssumption
  <2>8. Sink = "webhook" /\ ~Pins => Under[r.host] \cap Scope.hosts # {}
    BY <1>2, <2>6, ScopeHasHost
  <2>9. \A i \in DOMAIN delivery.images :
           delivery.images[i] = "key" => delivery.of.credentials /\ MayLoad(i)
    BY <1>1 DEF ImagesMayBeLoaded
  <2>10. \A x \in delivery'.reached : x \in delivery.reached \/ x = r
    BY <2>1
  <2>11. DeliveriesStayInScope'
    BY <1>1, <2>1, <2>6, <2>7, <2>8, <2>9, <2>10, SameSink DEF DeliveriesStayInScope
  <2>12. QED
    BY <2>2, <2>3, <2>4, <2>5, <2>11 DEF SinkInv, DeliveriesAreTrue
<1>5. QED
  BY <1>3, <1>4 DEF PostsMessage

\* A message that is not taken is not said to be.
LEMMA NotTakenIsTold ==
    ASSUME Sink \in SinkKinds \ {"sound"}, NEW status, NEW body,
           Honest("no", status, body), SaysTaken(status, body)
    PROVE  FALSE
<1>1. status = "success"
  BY DEF SaysTaken, SinkKinds, SlackTakes, BarkTakes, DiscordTakes, WebhookTakes, GithubTakes,
         TelegramTakes, WeComTakes, DingTalkTakes, PushPlusTakes, ServerChanTakes, FeishuTakes
<1>2. Sink \notin {"discord", "webhook", "github"}
  BY <1>1 DEF Honest
<1>3. Sink # "slack"
  BY <1>1 DEF Honest, SaysTaken, SlackTakes
<1>4. Sink # "bark"
  BY <1>1 DEF Honest, SaysTaken, BarkTakes
<1>5. body \in {"refused", "json"}
  BY <1>1, <1>2, <1>3, <1>4 DEF Honest
<1>6. body = "accepted"
  BY <1>2, <1>3, <1>4 DEF SaysTaken, SinkKinds, TelegramTakes, WeComTakes, DingTalkTakes,
                          PushPlusTakes, ServerChanTakes, FeishuTakes
<1>7. QED
  BY <1>5, <1>6

LEMMA ReadsAnswerInv == ASSUME SinkInv, ReadsAnswer PROVE SinkInv'
<1>1. delivery.pc = "answer" /\ DeliveryFits
  BY DEF ReadsAnswer, SinkInv
<1>2. delivery.posts = 1 /\ Sink \in SinkKinds \ {"sound"} /\ delivery.taken \in {"yes", "no"}
  BY <1>1, SinkSendAssumption DEF DeliveryFits, Sink
<1>3. PICK status \in {"success", "error"}, body \in Bodies :
         /\ Honest(delivery.taken, status, body)
         /\ Delivers([delivery EXCEPT !.pc = "done",
                        !.result = IF SaysTaken(status, body) THEN "sent" ELSE "refused"])
  BY DEF ReadsAnswer
<1>4. SaysTaken(status, body) => delivery.taken = "yes"
  BY <1>2, <1>3, NotTakenIsTold
<1>5. /\ DOMAIN delivery' = DOMAIN delivery /\ delivery'.of = delivery.of
      /\ delivery'.reached = delivery.reached /\ delivery'.images = delivery.images
      /\ delivery'.posts = delivery.posts /\ delivery'.taken = delivery.taken /\ delivery'.pc = "done"
      /\ delivery'.result = IF SaysTaken(status, body) THEN "sent" ELSE "refused"
  BY <1>1, <1>3 DEF Delivers, DeliveryFits
<1>6. QED
  BY <1>2, <1>4, <1>5, DeliveryGoesOn

LEMMA TimesOutInv == ASSUME SinkInv, TimesOut PROVE SinkInv'
<1>1. DeliveryFits
  BY DEF SinkInv
<1>2. QED
  BY <1>1, DeliveryGoesOn DEF TimesOut, Delivers, Fails, DeliveryFits

LEMMA SinkStepInv == SinkInv /\ [SinkSendNext]_delivery => SinkInv'
<1> SUFFICES ASSUME SinkInv, [SinkSendNext]_delivery PROVE SinkInv'
  OBVIOUS
<1>1. CASE UNCHANGED delivery
  <2>1. SinkSendTypeOK' /\ SentMeansTaken'
    BY <1>1, SameSink DEF SinkInv, SinkSendTypeOK, DeliveriesAreTrue, SentMeansTaken
  <2>2. DeliveryFits'
    BY <1>1, SameSink DEF SinkInv, DeliveryFits
  <2>3. ImagesMayBeLoaded'
    BY <1>1, SameSink DEF SinkInv, ImagesMayBeLoaded
  <2>4. DeliveriesStayInScope'
    BY <1>1, SameSink DEF SinkInv, DeliveriesAreTrue, DeliveriesStayInScope
  <2>5. QED
    BY <2>1, <2>2, <2>3, <2>4 DEF SinkInv, DeliveriesAreTrue
<1>2. CASE SinkSendNext
  BY <1>2, BuildsInv, SelectsSinkClientInv, RingsInv, CommandEndsInv, StartsMessageInv, 
     LoadsImageInv, UploadsImageInv, PostsMessageInv, ReadsAnswerInv, TimesOutInv DEF SinkSendNext
<1>3. QED
  BY <1>1, <1>2

-----------------------------------------------------------------------------
(***************************************************************************)
(* The webhook of WeCom.                                                   *)
(***************************************************************************)

CachedKeys == [key : Nat \X Nonces, until : Nat]

LEMMA ElementsFit ==
    ASSUME NEW S, NEW s \in Seq(S)
    PROVE  \A i \in DOMAIN s : s[i] \in S
OBVIOUS

\* The loop drops nothing that has not expired, and adds nothing.
LEMMA UnexpiredKeeps ==
    ASSUME NEW cache \in Seq(CachedKeys), now \in Nat
    PROVE  /\ Unexpired(cache) \in Seq(CachedKeys) /\ Len(Unexpired(cache)) <= Len(cache)
           /\ \A j \in DOMAIN Unexpired(cache) : \E i \in DOMAIN cache : Unexpired(cache)[j] = cache[i]
           /\ \A i \in DOMAIN cache : cache[i].until > now =>
                 \E j \in DOMAIN Unexpired(cache) : Unexpired(cache)[j] = cache[i]
<1>1. CASE ~ \E i \in DOMAIN cache : cache[i].until > now
  <2>1. Unexpired(cache) = <<>>
    BY <1>1 DEF Unexpired
  <2>2. QED
    BY <1>1, <2>1
<1>2. CASE \E i \in DOMAIN cache : cache[i].until > now
  <2> DEFINE Starts(i) == cache[i].until > now /\ \A j \in 1..(i - 1) : cache[j].until <= now
             first == CHOOSE i \in DOMAIN cache : Starts(i)
             ExpiredUpTo == {k \in Nat : \A j \in 1..k : j <= Len(cache) => cache[j].until <= now}
  <2>1. \A j \in 1..Len(cache) : cache[j].until \in Nat
    <3>1. \A j \in 1..Len(cache) : cache[j] \in CachedKeys
      OBVIOUS
    <3>2. QED
      BY <3>1 DEF CachedKeys
  <2>2. \E i \in DOMAIN cache : Starts(i)
    <3>1. SUFFICES ASSUME \A i \in 1..Len(cache) : ~Starts(i) PROVE FALSE
      OBVIOUS
    <3>2. 0 \in ExpiredUpTo
      OBVIOUS
    <3>3. \A n \in Nat : n \in ExpiredUpTo => n + 1 \in ExpiredUpTo
      <4> TAKE n \in Nat
      <4> HAVE n \in ExpiredUpTo
      <4>1. n + 1 <= Len(cache) => cache[n + 1].until <= now
        <5>1. SUFFICES ASSUME n + 1 <= Len(cache) PROVE cache[n + 1].until <= now
          OBVIOUS
        <5>2. n + 1 \in 1..Len(cache) /\ ~Starts(n + 1)
          BY <3>1, <5>1
        <5>3. \A j \in 1..((n + 1) - 1) : cache[j].until <= now
          BY <5>1
        <5>4. ~(cache[n + 1].until > now)
          BY <5>2, <5>3
        <5>5. QED
          BY <5>2, <5>4, <2>1
      <4>2. \A j \in 1..(n + 1) : j \in 1..n \/ j = n + 1
        OBVIOUS
      <4>3. QED
        BY <4>1, <4>2
    <3>4. Nat \subseteq ExpiredUpTo
      <4> HIDE DEF ExpiredUpTo
      <4>1. QED
        BY <3>2, <3>3, NumbersUpwards
    <3>5. \A i \in 1..Len(cache) : cache[i].until <= now
      BY <3>4
    <3>6. QED
      BY <1>2, <2>1, <3>5
  <2>3. first \in 1..Len(cache) /\ Starts(first)
    BY <2>2
  <2>4. Unexpired(cache) = SubSeq(cache, first, Len(cache))
    BY <1>2 DEF Unexpired
  <2> HIDE DEF first
  <2>5. /\ SubSeq(cache, first, Len(cache)) \in Seq(CachedKeys)
        /\ Len(SubSeq(cache, first, Len(cache))) = Len(cache) - first + 1
        /\ \A j \in 1..(Len(cache) - first + 1) : SubSeq(cache, first, Len(cache))[j] = cache[first + j - 1]
    BY <2>3
  <2>6. \A i \in 1..Len(cache) : cache[i].until > now => i >= first
    BY <2>1, <2>3
  <2>7. \A j \in 1..(Len(cache) - first + 1) : first + j - 1 \in 1..Len(cache)
    BY <2>3
  <2>8. \A i \in 1..Len(cache) : i >= first =>
           i - first + 1 \in 1..(Len(cache) - first + 1) /\ first + (i - first + 1) - 1 = i
    BY <2>3
  <2> DEFINE rest == SubSeq(cache, first, Len(cache))
  <2>9. rest \in Seq(CachedKeys) /\ Len(rest) <= Len(cache) /\ DOMAIN rest = 1..(Len(cache) - first + 1)
    BY <2>3, <2>5
  <2>10. \A j \in DOMAIN rest : \E i \in 1..Len(cache) : rest[j] = cache[i]
    BY <2>5, <2>7, <2>9
  <2>11. \A i \in 1..Len(cache) : cache[i].until > now => \E j \in DOMAIN rest : rest[j] = cache[i]
    BY <2>5, <2>6, <2>8, <2>9
  <2>12. Unexpired(cache) = rest /\ DOMAIN cache = 1..Len(cache)
    BY <2>4
  <2> HIDE DEF rest
  <2>13. QED
    BY <2>9, <2>10, <2>11, <2>12
<1>3. QED
  BY <1>1, <1>2

\* The same of the cache as a delivery finds it.
LEMMA CleanedKeeps ==
    ASSUME WecomInboxTypeOK
    PROVE  /\ Cleaned \in Seq(CachedKeys) /\ Len(Cleaned) <= Len(remembered)
           /\ \A j \in DOMAIN Cleaned : \E i \in DOMAIN remembered : Cleaned[j] = remembered[i]
           /\ \A i \in DOMAIN remembered : remembered[i].until > now =>
                 \E j \in DOMAIN Cleaned : Cleaned[j] = remembered[i]
<1>1. remembered \in Seq(CachedKeys) /\ now \in Nat
  BY WecomInboxAssumption DEF WecomInboxTypeOK, CachedKeys
<1>2. CASE CleanupIsDue
  <2>1. Cleaned = Unexpired(remembered)
    BY <1>2 DEF Cleaned
  <2>2. QED
    BY <1>1, <2>1, UnexpiredKeeps
<1>3. CASE ~CleanupIsDue
  <2>1. Cleaned = remembered
    BY <1>3 DEF Cleaned
  <2>2. QED
    BY <1>1, <2>1
<1>4. QED
  BY <1>2, <1>3

\* Whatever is dropped for room, what is left was there.
LEMMA NewestIsPart ==
    ASSUME NEW cache \in Seq(CachedKeys)
    PROVE  /\ Newest(cache) \in Seq(CachedKeys) /\ Len(Newest(cache)) <= MaxRemembered
           /\ \A j \in DOMAIN Newest(cache) : \E i \in DOMAIN cache : Newest(cache)[j] = cache[i]
           /\ Len(cache) <= MaxRemembered => Newest(cache) = cache
<1>1. MaxRemembered \in Nat \ {0}
  BY WecomInboxAssumption
<1>2. CASE Len(cache) <= MaxRemembered
  <2>1. Newest(cache) = cache
    BY <1>1, <1>2 DEF Newest
  <2>2. QED
    BY <1>2, <2>1
<1>3. CASE Len(cache) > MaxRemembered
  <2> DEFINE from == Len(cache) - MaxRemembered + 1
             rest == SubSeq(cache, from, Len(cache))
  <2>1. Newest(cache) = rest
    BY <1>3 DEF Newest
  <2>2. from \in 1..Len(cache)
    BY <1>1, <1>3
  <2>3. /\ rest \in Seq(CachedKeys) /\ Len(rest) = MaxRemembered
        /\ \A j \in 1..MaxRemembered : rest[j] = cache[from + j - 1] /\ from + j - 1 \in 1..Len(cache)
    BY <1>1, <1>3, <2>2
  <2> HIDE DEF rest, from
  <2>4. QED
    BY <1>1, <1>3, <2>1, <2>3
<1>4. QED
  BY <1>1, <1>2, <1>3

LEMMA InboxInitInv == WecomInboxInit => InboxInv
<1>1. SUFFICES ASSUME WecomInboxInit PROVE InboxInv
  OBVIOUS
<1>2. /\ now = 1 /\ mail = <<>> /\ remembered = <<>> /\ cleanedAt = 0
      /\ letIn = <<>> /\ early = {} /\ tried = {} /\ crowded = FALSE
  BY <1>1 DEF WecomInboxInit
<1>3. WecomInboxTypeOK
  <2>1. now \in 1..MaxClock /\ cleanedAt \in 0..now /\ Len(remembered) <= MaxRemembered
    BY <1>2, WecomInboxAssumption
  <2>2. <<>> \in Seq([stamp : Nat, nonce : Nonces, fault : EnvelopeFaults]) /\ <<>> \in Seq(0..3)
        /\ <<>> \in Seq([key : Nat \X Nonces, until : Nat])
    OBVIOUS
  <2>3. QED
    BY <1>2, <2>1, <2>2 DEF WecomInboxTypeOK
<1>4. DOMAIN mail = {} /\ DOMAIN remembered = {}
  BY <1>2
<1>5. QED
  BY <1>3, <1>4 DEF InboxInv, EnvelopesAreTakenOnce, KeysAreOfTheTried, FreshOnesAreKept

\* What waiting does: stamps only get older.
LEMMA TimePassesInv == ASSUME InboxInv, TimePasses PROVE InboxInv'
<1>1. /\ now' = now + 1 /\ now < MaxClock
      /\ mail' = mail /\ remembered' = remembered /\ cleanedAt' = cleanedAt /\ letIn' = letIn
      /\ early' = early /\ tried' = tried /\ crowded' = crowded
  BY DEF TimePasses
<1>2. now \in 1..MaxClock /\ MaxClock \in Nat /\ Window \in Nat
  BY WecomInboxAssumption DEF InboxInv, WecomInboxTypeOK
<1>3. \A m \in DOMAIN mail : mail[m].stamp \in Nat
  <2>1. mail \in Seq([stamp : Nat, nonce : Nonces, fault : EnvelopeFaults])
    BY DEF InboxInv, WecomInboxTypeOK
  <2>2. \A m \in DOMAIN mail : mail[m] \in [stamp : Nat, nonce : Nonces, fault : EnvelopeFaults]
    BY <2>1, ElementsFit
  <2>3. QED
    BY <2>2
<1>4. WecomInboxTypeOK'
  <2>1. now' \in 1..MaxClock /\ cleanedAt' \in 0..now'
    BY <1>1, <1>2 DEF InboxInv, WecomInboxTypeOK
  <2>2. QED
    BY <1>1, <2>1 DEF InboxInv, WecomInboxTypeOK
<1>5. EnvelopesAreTakenOnce'
  BY <1>1 DEF InboxInv, EnvelopesAreTakenOnce, EnvelopeKey
<1>6. KeysAreOfTheTried'
  BY <1>1 DEF InboxInv, KeysAreOfTheTried, EnvelopeKey
<1>7. FreshOnesAreKept'
  <2>1. SUFFICES ASSUME NEW m \in DOMAIN mail, letIn[m] > 0, ~crowded
                 PROVE  \/ now + 1 > mail[m].stamp + Window \/ IsKeptFor(remembered, mail[m])
                        \/ /\ m \in early /\ letIn[m] = 1
                           /\ now + 1 >= mail[m].stamp + Window \/ IsKeptUntil(remembered, mail[m])
    BY <1>1 DEF FreshOnesAreKept, IsKeptFor, IsKeptUntil, EnvelopeKey
  <2>2. \/ now > mail[m].stamp + Window \/ IsKeptFor(remembered, mail[m])
        \/ /\ m \in early /\ letIn[m] = 1
           /\ now >= mail[m].stamp + Window \/ IsKeptUntil(remembered, mail[m])
    BY <2>1 DEF InboxInv, FreshOnesAreKept
  <2>3. /\ now > mail[m].stamp + Window => now + 1 > mail[m].stamp + Window
        /\ now >= mail[m].stamp + Window => now + 1 >= mail[m].stamp + Window
    BY <1>2, <1>3, <2>1
  <2>4. QED
    BY <2>2, <2>3
<1>8. QED
  BY <1>4, <1>5, <1>6, <1>7 DEF InboxInv

\* A new envelope has not come yet.
LEMMA MailsInv ==
    ASSUME InboxInv, NEW nonce \in Nonces, NEW fault \in EnvelopeFaults, NEW ahead \in 0..Ahead,
           Mails(nonce, fault, ahead)
    PROVE  InboxInv'
<1> DEFINE e == [stamp |-> now + ahead, nonce |-> nonce, fault |-> fault]
           last == Len(mail) + 1
<1>1. /\ mail' = Append(mail, e) /\ letIn' = Append(letIn, 0)
      /\ now' = now /\ remembered' = remembered /\ cleanedAt' = cleanedAt
      /\ early' = early /\ tried' = tried /\ crowded' = crowded
  BY DEF Mails
<1>2. now \in Nat /\ Ahead \in Nat
  BY WecomInboxAssumption DEF InboxInv, WecomInboxTypeOK
<1>3. e \in [stamp : Nat, nonce : Nonces, fault : EnvelopeFaults]
  BY <1>2
<1> HIDE DEF e
<1>4. /\ mail \in Seq([stamp : Nat, nonce : Nonces, fault : EnvelopeFaults])
      /\ letIn \in Seq(0..3) /\ Len(letIn) = Len(mail)
      /\ early \subseteq DOMAIN mail /\ tried \subseteq DOMAIN mail
  BY DEF InboxInv, WecomInboxTypeOK
<1>5. /\ mail' \in Seq([stamp : Nat, nonce : Nonces, fault : EnvelopeFaults])
      /\ letIn' \in Seq(0..3) /\ Len(letIn') = Len(mail')
  BY <1>1, <1>3, <1>4
<1>6. /\ DOMAIN mail = 1..Len(mail) /\ DOMAIN mail' = 1..last /\ Len(mail) \in Nat
      /\ \A m \in DOMAIN mail : m \in DOMAIN mail' /\ mail'[m] = mail[m] /\ letIn'[m] = letIn[m]
      /\ mail'[last] = e /\ letIn'[last] = 0
  BY <1>1, <1>4
<1>7. \A m \in DOMAIN mail' : m = last \/ m \in DOMAIN mail
  BY <1>6
<1>8. last \notin tried
  BY <1>4, <1>6
<1> HIDE DEF last
<1>9. WecomInboxTypeOK'
  <2>1. early' \subseteq DOMAIN mail' /\ tried' \subseteq DOMAIN mail'
    BY <1>1, <1>4, <1>6
  <2>2. QED
    BY <1>1, <1>5, <2>1 DEF InboxInv, WecomInboxTypeOK
<1>10. \A m \in tried : mail'[m] = mail[m]
  BY <1>4, <1>6
<1>11. EnvelopesAreTakenOnce'
  <2>1. SUFFICES ASSUME NEW m \in DOMAIN mail'
                 PROVE  /\ letIn'[m] > 0 => mail'[m].fault = "none"
                        /\ ~crowded => letIn'[m] <= IF m \in early THEN 2 ELSE 1
                        /\ m \in tried /\ mail'[m].fault = "none" /\ letIn'[m] = 0
                             => \E n \in tried \ {m} : EnvelopeKey(mail'[n]) = EnvelopeKey(mail'[m])
    BY <1>1 DEF EnvelopesAreTakenOnce, EnvelopeKey
  <2>2. CASE m = last
    BY <1>6, <1>8, <2>2
  <2>3. CASE m \in DOMAIN mail
    BY <1>6, <1>10, <2>3 DEF InboxInv, EnvelopesAreTakenOnce, EnvelopeKey
  <2>4. QED
    BY <1>7, <2>2, <2>3
<1>12. KeysAreOfTheTried'
  BY <1>1, <1>10 DEF InboxInv, KeysAreOfTheTried, EnvelopeKey
<1>13. FreshOnesAreKept'
  <2>1. SUFFICES ASSUME NEW m \in DOMAIN mail', letIn'[m] > 0, ~crowded
                 PROVE  \/ now > mail'[m].stamp + Window \/ IsKeptFor(remembered, mail'[m])
                        \/ /\ m \in early /\ letIn'[m] = 1
                           /\ now >= mail'[m].stamp + Window \/ IsKeptUntil(remembered, mail'[m])
    BY <1>1 DEF FreshOnesAreKept, IsKeptFor, IsKeptUntil, EnvelopeKey
  <2>2. m \in DOMAIN mail
    BY <1>6, <1>7, <2>1
  <2>3. QED
    BY <1>6, <2>1, <2>2 DEF InboxInv, FreshOnesAreKept
<1>14. QED
  BY <1>9, <1>11, <1>12, <1>13 DEF InboxInv

\* A delivery: the envelope is let in only when its key is not there, and then the key is there
\* for twice the window, which is to the end of the last moment of a stamp a whole window ahead.
LEMMA DeliveredInv ==
    ASSUME InboxInv, NEW m \in DOMAIN mail, Delivered(m)
    PROVE  InboxInv'
<1> DEFINE Envelopes == [stamp : Nat, nonce : Nonces, fault : EnvelopeFaults]
           e == mail[m]
           entry == [key |-> EnvelopeKey(e), until |-> now + KeepFor]
           after == Added(Cleaned, EnvelopeKey(e))
           held == HoldsKey(Cleaned, EnvelopeKey(e))
<1>1. /\ mail \in Seq(Envelopes) /\ letIn \in Seq(0..3) /\ Len(letIn) = Len(mail)
      /\ early \subseteq DOMAIN mail /\ tried \subseteq DOMAIN mail /\ crowded \in BOOLEAN
      /\ now \in Nat /\ now \in 1..MaxClock /\ cleanedAt \in 0..now
      /\ Len(remembered) <= MaxRemembered /\ Len(remembered) \in Nat
  BY WecomInboxAssumption DEF InboxInv, WecomInboxTypeOK
<1>2. /\ Window \in Nat /\ Window > 0 /\ KeepFor = 2 * Window
      /\ MaxRemembered \in Nat
  BY WecomInboxAssumption
<1>3. /\ Cleaned \in Seq(CachedKeys) /\ Len(Cleaned) <= Len(remembered)
      /\ \A j \in DOMAIN Cleaned : \E i \in DOMAIN remembered : Cleaned[j] = remembered[i]
      /\ \A i \in DOMAIN remembered : remembered[i].until > now =>
             \E j \in DOMAIN Cleaned : Cleaned[j] = remembered[i]
  BY CleanedKeeps DEF InboxInv
<1>4. \A n \in DOMAIN mail : mail[n] \in Envelopes
  BY <1>1, ElementsFit
<1>5. /\ e.stamp \in Nat /\ e.nonce \in Nonces
      /\ \A n \in DOMAIN mail : mail[n].stamp \in Nat
  BY <1>4
<1>6. e.stamp <= now + Window /\ now - e.stamp <= Window
  <2>1. e.stamp - now <= Window /\ now - e.stamp <= Window
    BY DEF Delivered, IsFresh
  <2> HIDE DEF e
  <2>2. QED
    BY <1>1, <1>2, <1>5, <2>1
<1>7. /\ mail' = mail /\ now' = now /\ tried' = tried \cup {m}
      /\ cleanedAt' \in {now, cleanedAt}
      /\ held => remembered' = Cleaned /\ letIn' = letIn /\ early' = early /\ crowded' = crowded
      /\ ~held => /\ remembered' = Newest(after)
                  /\ crowded' = (crowded \/ Len(after) > MaxRemembered)
                  /\ letIn' = IF IsReadable(e) THEN [letIn EXCEPT ![m] = LetInAgain(@)] ELSE letIn
                  /\ early' = IF IsReadable(e) /\ e.stamp = now + Window THEN early \cup {m} ELSE early
      /\ e.fault \in {"none", "cipher", "receiver"}
  BY DEF Delivered
<1>8. /\ entry \in CachedKeys /\ entry.until >= e.stamp + Window
      /\ e.stamp # now + Window => entry.until > e.stamp + Window
  <2>1. EnvelopeKey(e) \in Nat \X Nonces
    BY <1>5 DEF EnvelopeKey
  <2>2. now + KeepFor \in Nat
    BY <1>1, <1>2
  <2>3. /\ now + KeepFor >= e.stamp + Window
        /\ e.stamp # now + Window => now + KeepFor > e.stamp + Window
    <3> DEFINE stamp == e.stamp
    <3>1. now \in Nat /\ Window \in Nat /\ KeepFor = 2 * Window /\ stamp \in Nat /\ stamp <= now + Window
      BY <1>1, <1>2, <1>5, <1>6
    <3> HIDE DEF e, stamp
    <3>2. now + KeepFor >= stamp + Window
      BY <3>1
    <3>3. stamp # now + Window => now + KeepFor > stamp + Window
      BY <3>1
    <3>4. QED
      BY <3>2, <3>3 DEF stamp
  <2>4. QED
    BY <2>1, <2>2, <2>3 DEF CachedKeys
<1>9. after = Append(Cleaned, entry)
  BY DEF Added
<1>10. /\ after \in Seq(CachedKeys) /\ DOMAIN after = 1..(Len(Cleaned) + 1)
       /\ \A i \in DOMAIN Cleaned : i \in DOMAIN after /\ after[i] = Cleaned[i]
       /\ after[Len(Cleaned) + 1] = entry /\ Len(Cleaned) + 1 \in DOMAIN after
       /\ \A i \in DOMAIN after : i \in DOMAIN Cleaned \/ after[i] = entry
  <2>1. /\ DOMAIN Cleaned = 1..Len(Cleaned) /\ Len(Cleaned) \in Nat
    BY <1>3
  <2> HIDE DEF entry
  <2>2. QED
    BY <1>3, <1>8, <1>9, <2>1
<1>11. /\ Newest(after) \in Seq(CachedKeys) /\ Len(Newest(after)) <= MaxRemembered
       /\ \A j \in DOMAIN Newest(after) : \E i \in DOMAIN after : Newest(after)[j] = after[i]
       /\ Len(after) <= MaxRemembered => Newest(after) = after
  BY <1>10, NewestIsPart
<1>12. /\ remembered' \in Seq(CachedKeys) /\ Len(remembered') <= MaxRemembered
       /\ \A j \in DOMAIN remembered' :
             \/ \E i \in DOMAIN remembered : remembered'[j] = remembered[i]
             \/ remembered'[j].key = EnvelopeKey(e)
  <2>1. CASE held
    <3>1. remembered' = Cleaned
      BY <1>7, <2>1
    <3>2. Len(Cleaned) <= MaxRemembered
      BY <1>1, <1>2, <1>3
    <3>3. QED
      BY <1>3, <3>1, <3>2
  <2>2. CASE ~held
    <3>1. remembered' = Newest(after)
      BY <1>7, <2>2
    <3>2. entry.key = EnvelopeKey(e)
      OBVIOUS
    <3> HIDE DEF entry, after
    <3>3. \A j \in DOMAIN Newest(after) :
             \/ \E i \in DOMAIN remembered : Newest(after)[j] = remembered[i]
             \/ Newest(after)[j].key = EnvelopeKey(e)
      <4> TAKE j \in DOMAIN Newest(after)
      <4>1. PICK k \in DOMAIN after : Newest(after)[j] = after[k]
        BY <1>11
      <4>2. CASE k \in DOMAIN Cleaned
        <5>1. after[k] = Cleaned[k]
          BY <1>10, <4>2
        <5>2. QED
          BY <1>3, <4>1, <4>2, <5>1
      <4>3. CASE after[k] = entry
        BY <3>2, <4>1, <4>3
      <4>4. QED
        BY <1>10, <4>2, <4>3
    <3>4. remembered' \in Seq(CachedKeys) /\ Len(remembered') <= MaxRemembered
      BY <1>11, <3>1
    <3>5. \A j \in DOMAIN remembered' :
             \/ \E i \in DOMAIN remembered : remembered'[j] = remembered[i]
             \/ remembered'[j].key = EnvelopeKey(e)
      BY <3>1, <3>3, Zenon
    <3>6. QED
      BY <3>4, <3>5, Zenon
  <2>3. QED
    BY <2>1, <2>2
<1>13. /\ letIn' \in Seq(0..3) /\ Len(letIn') = Len(mail)
       /\ \A n \in DOMAIN mail : n # m => letIn'[n] = letIn[n]
       /\ \/ letIn'[m] = letIn[m]
          \/ ~held /\ IsReadable(e) /\ letIn[m] = 0 /\ letIn'[m] = 1
          \/ ~held /\ IsReadable(e) /\ letIn[m] = 1 /\ letIn'[m] = 2
          \/ ~held /\ IsReadable(e) /\ letIn[m] > 1
       /\ ~held /\ IsReadable(e) => letIn'[m] > 0
  <2>1. letIn[m] \in 0..3 /\ DOMAIN letIn = DOMAIN mail
    BY <1>1
  <2>2. CASE ~held /\ IsReadable(e)
    <3>1. letIn' = [letIn EXCEPT ![m] = IF @ = 3 THEN 3 ELSE @ + 1]
      BY <1>7, <2>2 DEF LetInAgain
    <3>2. letIn' \in Seq(0..3) /\ Len(letIn') = Len(mail)
      BY <1>1, <2>1, <3>1
    <3>3. /\ \A n \in DOMAIN mail : n # m => letIn'[n] = letIn[n]
          /\ letIn'[m] = IF letIn[m] = 3 THEN 3 ELSE letIn[m] + 1
      BY <2>1, <3>1
    <3> HIDE DEF held, e
    <3>4. /\ letIn[m] = 0 => letIn'[m] = 1
          /\ letIn[m] = 1 => letIn'[m] = 2
          /\ letIn[m] = 0 \/ letIn[m] = 1 \/ letIn[m] > 1
      BY <2>1, <3>3
    <3>5. letIn'[m] > 0
      <4>1. letIn[m] = 0 \/ letIn[m] = 1 \/ letIn[m] = 2 \/ letIn[m] = 3
        BY <2>1
      <4>2. QED
        BY <3>3, <4>1
    <3>6. QED
      BY <2>2, <3>2, <3>3, <3>4, <3>5, Zenon
  <2>3. CASE ~(~held /\ IsReadable(e))
    <3>1. letIn' = letIn
      BY <1>7, <2>3
    <3>2. QED
      BY <1>1, <2>3, <3>1, Zenon
  <2>4. QED
    BY <2>2, <2>3
<1>14. ~crowded' => ~crowded /\ (~held => remembered' = after)
  <2>1. CASE held
    BY <1>7, <2>1
  <2>2. CASE ~held
    <3>1. Len(after) \in Nat /\ MaxRemembered \in Nat
      BY <1>2, <1>10
    <3>2. crowded' = (crowded \/ Len(after) > MaxRemembered) /\ remembered' = Newest(after)
      BY <1>7, <2>2
    <3> HIDE DEF after, held
    <3>3. ~crowded' => ~crowded /\ Len(after) <= MaxRemembered
      <4>1. ~crowded' => ~crowded /\ ~(Len(after) > MaxRemembered)
        BY <3>2, Zenon
      <4>2. ~(Len(after) > MaxRemembered) => Len(after) <= MaxRemembered
        BY <3>1
      <4>3. QED
        BY <4>1, <4>2
    <3>4. QED
      BY <1>11, <3>2, <3>3
  <2>3. QED
    BY <2>1, <2>2
<1>15. \A i \in DOMAIN remembered : remembered[i].until \in Nat
  <2>1. remembered \in Seq([key : Nat \X Nonces, until : Nat])
    BY DEF InboxInv, WecomInboxTypeOK
  <2>2. \A i \in DOMAIN remembered : remembered[i] \in [key : Nat \X Nonces, until : Nat]
    BY <2>1, ElementsFit
  <2>3. QED
    BY <2>2
<1>16. \A n \in DOMAIN mail : IsKeptFor(remembered, mail[n]) /\ ~crowded' =>
          now > mail[n].stamp + Window \/ IsKeptFor(remembered', mail[n])
  <2>1. SUFFICES ASSUME NEW n \in DOMAIN mail, IsKeptFor(remembered, mail[n]), ~crowded',
                        ~(now > mail[n].stamp + Window)
                 PROVE  IsKeptFor(remembered', mail[n])
    OBVIOUS
  <2>2. PICK i \in DOMAIN remembered : /\ remembered[i].key = EnvelopeKey(mail[n])
                                       /\ remembered[i].until > mail[n].stamp + Window
    BY <2>1 DEF IsKeptFor
  <2>3. remembered[i].until \in Nat
    BY <1>15
  <2>4. remembered[i].until > now
    <3>1. mail[n].stamp \in Nat
      BY <1>5
    <3> DEFINE stamp == mail[n].stamp
               until == remembered[i].until
    <3>2. stamp \in Nat /\ until \in Nat /\ until > stamp + Window /\ ~(now > stamp + Window)
      BY <2>1, <2>2, <2>3, <3>1
    <3> HIDE DEF stamp, until
    <3>3. until > now
      BY <1>1, <1>2, <3>2
    <3>4. QED
      BY <3>3 DEF until
  <2>5. PICK j \in DOMAIN Cleaned : Cleaned[j] = remembered[i]
    BY <1>3, <2>4
  <2> HIDE DEF after, entry, held
  <2>6. j \in DOMAIN remembered' /\ remembered'[j] = remembered[i]
    BY <1>7, <1>10, <1>14, <2>1, <2>5
  <2>7. QED
    BY <2>2, <2>6 DEF IsKeptFor
<1>17. \A n \in DOMAIN mail : IsKeptUntil(remembered, mail[n]) /\ ~crowded' =>
          now >= mail[n].stamp + Window \/ IsKeptUntil(remembered', mail[n])
  <2>1. SUFFICES ASSUME NEW n \in DOMAIN mail, IsKeptUntil(remembered, mail[n]), ~crowded',
                        ~(now >= mail[n].stamp + Window)
                 PROVE  IsKeptUntil(remembered', mail[n])
    OBVIOUS
  <2>2. PICK i \in DOMAIN remembered : /\ remembered[i].key = EnvelopeKey(mail[n])
                                       /\ remembered[i].until >= mail[n].stamp + Window
    BY <2>1 DEF IsKeptUntil
  <2>3. remembered[i].until > now
    <3>1. mail[n].stamp \in Nat
      BY <1>5
    <3> DEFINE stamp == mail[n].stamp
               until == remembered[i].until
    <3>2. stamp \in Nat /\ until \in Nat /\ until >= stamp + Window /\ ~(now >= stamp + Window)
      BY <1>15, <2>1, <2>2, <3>1
    <3> HIDE DEF stamp, until
    <3>3. until > now
      BY <1>1, <1>2, <3>2
    <3>4. QED
      BY <3>3 DEF until
  <2>4. PICK j \in DOMAIN Cleaned : Cleaned[j] = remembered[i]
    BY <1>3, <2>3
  <2> HIDE DEF after, entry, held
  <2>5. j \in DOMAIN remembered' /\ remembered'[j] = remembered[i]
    BY <1>7, <1>10, <1>14, <2>1, <2>4
  <2>6. QED
    BY <2>2, <2>5 DEF IsKeptUntil
<1>18. \A i \in DOMAIN remembered :
           remembered[i].key = EnvelopeKey(e) /\ remembered[i].until > now => held
  <2> TAKE i \in DOMAIN remembered
  <2> HAVE remembered[i].key = EnvelopeKey(e) /\ remembered[i].until > now
  <2>1. PICK j \in DOMAIN Cleaned : Cleaned[j] = remembered[i]
    BY <1>3
  <2>2. QED
    BY <2>1 DEF HoldsKey
<1>19. letIn[m] > 0 /\ ~crowded /\ ~held => m \in early /\ letIn[m] = 1 /\ e.stamp # now + Window
  <2>1. SUFFICES ASSUME letIn[m] > 0, ~crowded, ~held
                 PROVE  m \in early /\ letIn[m] = 1 /\ e.stamp # now + Window
    OBVIOUS
  <2> DEFINE stamp == e.stamp
  <2>2. stamp \in Nat /\ ~(now > stamp + Window)
    <3>1. stamp \in Nat /\ now - stamp <= Window
      BY <1>5, <1>6
    <3> HIDE DEF stamp
    <3>2. QED
      BY <1>1, <1>2, <3>1
  <2>3. ~IsKeptFor(remembered, e)
    <3>1. SUFFICES ASSUME IsKeptFor(remembered, e) PROVE FALSE
      OBVIOUS
    <3>2. PICK i \in DOMAIN remembered : remembered[i].key = EnvelopeKey(e) /\ remembered[i].until > stamp + Window
      BY <3>1 DEF IsKeptFor
    <3> DEFINE until == remembered[i].until
    <3>3. until \in Nat /\ until > stamp + Window
      BY <1>15, <3>2
    <3> HIDE DEF stamp, until
    <3>4. until > now
      BY <1>1, <1>2, <2>2, <3>3
    <3>5. QED
      BY <1>18, <2>1, <3>2, <3>4 DEF until
  <2>4. m \in early /\ letIn[m] = 1 /\ (now >= stamp + Window \/ IsKeptUntil(remembered, e))
    BY <2>1, <2>2, <2>3 DEF InboxInv, FreshOnesAreKept
  <2>5. stamp # now + Window
    <3>1. SUFFICES ASSUME stamp = now + Window PROVE FALSE
      OBVIOUS
    <3>2. ~(now >= stamp + Window)
      <4> HIDE DEF stamp
      <4>1. QED
        BY <1>1, <1>2, <2>2, <3>1
    <3>3. PICK i \in DOMAIN remembered : remembered[i].key = EnvelopeKey(e) /\ remembered[i].until >= stamp + Window
      BY <2>4, <3>2 DEF IsKeptUntil
    <3> DEFINE until == remembered[i].until
    <3>4. until \in Nat /\ until >= stamp + Window
      BY <1>15, <3>3
    <3> HIDE DEF stamp, until
    <3>5. until > now
      BY <1>1, <1>2, <2>2, <3>1, <3>4
    <3>6. QED
      BY <1>18, <2>1, <3>3, <3>5 DEF until
  <2>6. QED
    BY <2>4, <2>5
<1>20. held => \E n \in tried : EnvelopeKey(mail[n]) = EnvelopeKey(e)
  <2>1. SUFFICES ASSUME held PROVE \E n \in tried : EnvelopeKey(mail[n]) = EnvelopeKey(e)
    OBVIOUS
  <2>2. PICK j \in DOMAIN Cleaned : Cleaned[j].key = EnvelopeKey(e)
    BY <2>1 DEF HoldsKey
  <2>3. PICK i \in DOMAIN remembered : Cleaned[j] = remembered[i]
    BY <1>3
  <2>4. QED
    BY <2>2, <2>3 DEF InboxInv, KeysAreOfTheTried
<1>21. ~held /\ ~crowded' =>
         IsKeptUntil(remembered', e) /\ (e.stamp # now + Window => IsKeptFor(remembered', e))
  <2>1. SUFFICES ASSUME ~held, ~crowded'
                 PROVE  IsKeptUntil(remembered', e) /\ (e.stamp # now + Window => IsKeptFor(remembered', e))
    OBVIOUS
  <2>2. remembered' = after
    BY <1>14, <2>1
  <2>3. entry.key = EnvelopeKey(e)
    OBVIOUS
  <2> HIDE DEF after, entry, held, e
  <2>4. QED
    BY <1>8, <1>10, <2>2, <2>3 DEF IsKeptFor, IsKeptUntil
<1>22. IsReadable(e) <=> e.fault = "none"
  BY <1>7 DEF IsReadable
<1> HIDE DEF held, entry, after
<1>23. early \subseteq early' /\ early' \subseteq early \cup {m}
  BY <1>7
<1>24. WecomInboxTypeOK'
  <2>1. /\ cleanedAt' \in 0..now' /\ crowded' \in BOOLEAN
        /\ early' \subseteq DOMAIN mail' /\ tried' \subseteq DOMAIN mail'
    <3>1. cleanedAt' \in 0..now'
      BY <1>1, <1>7
    <3>2. tried' \subseteq DOMAIN mail'
      BY <1>1, <1>7
    <3>5. early' \subseteq DOMAIN mail'
      <4>1. early' \subseteq early \cup {m}
        BY <1>7
      <4>2. QED
        BY <1>1, <1>7, <4>1
    <3>3. crowded' \in BOOLEAN
      <4>1. CASE held
        BY <1>1, <1>7, <4>1
      <4>2. CASE ~held
        <5>1. crowded' = (crowded \/ Len(after) > MaxRemembered)
          BY <1>7, <4>2
        <5>2. QED
          BY <5>1, Zenon
      <4>3. QED
        BY <4>1, <4>2
    <3>4. QED
      BY <3>1, <3>2, <3>3, <3>5
  <2>2. QED
    BY <1>1, <1>7, <1>12, <1>13, <2>1 DEF WecomInboxTypeOK, CachedKeys
<1>25. EnvelopesAreTakenOnce'
  <2>1. SUFFICES ASSUME NEW n \in DOMAIN mail
                 PROVE  /\ letIn'[n] > 0 => mail[n].fault = "none"
                        /\ ~crowded' => letIn'[n] <= IF n \in early' THEN 2 ELSE 1
                        /\ n \in tried' /\ mail[n].fault = "none" /\ letIn'[n] = 0
                             => \E k \in tried' \ {n} : EnvelopeKey(mail[k]) = EnvelopeKey(mail[n])
    BY <1>7 DEF EnvelopesAreTakenOnce, EnvelopeKey
  <2>2. /\ letIn[n] > 0 => mail[n].fault = "none"
        /\ ~crowded => letIn[n] <= IF n \in early THEN 2 ELSE 1
        /\ n \in tried /\ mail[n].fault = "none" /\ letIn[n] = 0
             => \E k \in tried \ {n} : EnvelopeKey(mail[k]) = EnvelopeKey(mail[n])
    BY <2>1 DEF InboxInv, EnvelopesAreTakenOnce
  <2>3. CASE n # m
    <3>1. n \in early' <=> n \in early
      BY <1>23, <2>3
    <3>2. QED
      BY <1>7, <1>13, <1>14, <2>1, <2>2, <2>3, <3>1
  <2>4. CASE n = m
    <3>1. letIn'[m] > 0 => e.fault = "none"
      BY <1>13, <1>22, <2>2, <2>4
    <3>2. ~crowded' => letIn'[m] <= IF m \in early' THEN 2 ELSE 1
      <4>1. SUFFICES ASSUME ~crowded' PROVE letIn'[m] <= IF m \in early' THEN 2 ELSE 1
        OBVIOUS
      <4>2. ~crowded /\ (m \in early => m \in early') /\ letIn[m] \in 0..3
        BY <1>1, <1>14, <1>23, <4>1
      <4>3. CASE letIn'[m] = letIn[m]
        BY <2>2, <2>4, <4>2, <4>3
      <4>4. CASE letIn[m] = 0 /\ letIn'[m] = 1
        BY <4>4
      <4>5. CASE ~held /\ letIn[m] = 1 /\ letIn'[m] = 2
        BY <1>19, <4>2, <4>5
      <4>6. CASE ~held /\ letIn[m] > 1
        BY <1>19, <4>2, <4>6
      <4>7. QED
        BY <1>13, <4>3, <4>4, <4>5, <4>6
    <3>3. ASSUME e.fault = "none", letIn'[m] = 0
          PROVE  \E k \in tried' \ {m} : EnvelopeKey(mail[k]) = EnvelopeKey(e)
      <4>1. held /\ letIn[m] = 0
        BY <1>7, <1>13, <1>22, <3>3
      <4>2. PICK k \in tried : EnvelopeKey(mail[k]) = EnvelopeKey(e)
        BY <1>20, <4>1
      <4>3. CASE k # m
        BY <1>7, <4>2, <4>3
      <4>4. CASE k = m
        BY <1>7, <2>2, <2>4, <3>3, <4>1, <4>2, <4>4
      <4>5. QED
        BY <4>3, <4>4
    <3>4. QED
      BY <2>4, <3>1, <3>2, <3>3
  <2>5. QED
    BY <2>3, <2>4
<1>26. KeysAreOfTheTried'
  <2>1. SUFFICES ASSUME NEW j \in DOMAIN remembered'
                 PROVE  \E n \in tried' : EnvelopeKey(mail[n]) = remembered'[j].key
    BY <1>7 DEF KeysAreOfTheTried, EnvelopeKey
  <2>2. CASE remembered'[j].key = EnvelopeKey(e)
    BY <1>7, <2>2
  <2>3. CASE \E i \in DOMAIN remembered : remembered'[j] = remembered[i]
    <3>1. PICK i \in DOMAIN remembered : remembered'[j] = remembered[i]
      BY <2>3
    <3>2. PICK n \in tried : EnvelopeKey(mail[n]) = remembered[i].key
      BY DEF InboxInv, KeysAreOfTheTried
    <3>3. QED
      BY <1>7, <3>1, <3>2
  <2>4. QED
    BY <1>12, <2>1, <2>2, <2>3
<1>27. FreshOnesAreKept'
  <2> DEFINE Remains(n) == \/ now > mail[n].stamp + Window \/ IsKeptFor(remembered', mail[n])
                           \/ /\ n \in early' /\ letIn'[n] = 1
                              /\ now >= mail[n].stamp + Window \/ IsKeptUntil(remembered', mail[n])
  <2>1. SUFFICES ASSUME NEW n \in DOMAIN mail, letIn'[n] > 0, ~crowded' PROVE Remains(n)
    BY <1>7 DEF FreshOnesAreKept, IsKeptFor, IsKeptUntil, EnvelopeKey
  <2>2. CASE letIn'[n] = letIn[n] /\ (n \in early' <=> n \in early)
    <3>1. letIn[n] > 0 /\ ~crowded
      BY <1>14, <2>1, <2>2
    <3>2. \/ now > mail[n].stamp + Window \/ IsKeptFor(remembered, mail[n])
          \/ /\ n \in early /\ letIn[n] = 1
             /\ now >= mail[n].stamp + Window \/ IsKeptUntil(remembered, mail[n])
      BY <3>1 DEF InboxInv, FreshOnesAreKept
    <3>3. QED
      BY <1>16, <1>17, <2>1, <2>2, <3>2
  <2>3. CASE n = m /\ ~held
    <3>1. CASE e.stamp # now + Window
      BY <1>21, <2>1, <2>3, <3>1
    <3>2. CASE e.stamp = now + Window
      <4>1. ~(letIn[m] > 0) /\ letIn[m] \in 0..3
        BY <1>1, <1>14, <1>19, <2>1, <2>3, <3>2
      <4>2. letIn[m] = 0 /\ letIn'[m] # letIn[m]
        BY <2>1, <2>3, <4>1
      <4>3. IsReadable(e) /\ letIn'[m] = 1
        BY <1>13, <4>2
      <4>4. m \in early'
        BY <1>7, <2>3, <3>2, <4>3
      <4>5. QED
        BY <1>21, <2>1, <2>3, <4>3, <4>4
    <3>3. QED
      BY <3>1, <3>2
  <2>4. CASE n # m
    BY <1>13, <1>23, <2>2, <2>4
  <2>5. CASE n = m /\ held
    BY <1>7, <2>2, <2>5
  <2>6. QED
    BY <2>3, <2>4, <2>5
<1>28. QED
  BY <1>24, <1>25, <1>26, <1>27 DEF InboxInv

LEMMA InboxStepInv == InboxInv /\ [WecomInboxNext]_inboxVars => InboxInv'
<1>1. SUFFICES ASSUME InboxInv, [WecomInboxNext]_inboxVars PROVE InboxInv'
  OBVIOUS
<1>2. CASE UNCHANGED inboxVars
  <2>1. /\ now' = now /\ mail' = mail /\ remembered' = remembered /\ cleanedAt' = cleanedAt
        /\ letIn' = letIn /\ early' = early /\ tried' = tried /\ crowded' = crowded
    BY <1>2 DEF inboxVars
  <2>2. WecomInboxTypeOK'
    BY <1>1, <2>1 DEF InboxInv, WecomInboxTypeOK
  <2>3. EnvelopesAreTakenOnce' /\ KeysAreOfTheTried' /\ FreshOnesAreKept'
    BY <1>1, <2>1 DEF InboxInv, EnvelopesAreTakenOnce, KeysAreOfTheTried, FreshOnesAreKept, IsKeptFor, IsKeptUntil,
       EnvelopeKey
  <2>4. QED
    BY <2>2, <2>3 DEF InboxInv
<1>3. CASE TimePasses
  BY <1>1, <1>3, TimePassesInv
<1>4. ASSUME NEW nonce \in Nonces, NEW fault \in EnvelopeFaults, NEW ahead \in 0..Ahead,
             Mails(nonce, fault, ahead)
      PROVE  InboxInv'
  BY <1>1, <1>4, MailsInv
<1>5. ASSUME NEW m \in DOMAIN mail, Delivered(m) PROVE InboxInv'
  BY <1>1, <1>5, DeliveredInv
<1>6. ASSUME NEW m \in DOMAIN mail, TurnedAway(m) \/ VerifiesAddress(m) PROVE InboxInv'
  BY <1>2, <1>6 DEF TurnedAway, VerifiesAddress
<1>7. QED
  BY <1>1, <1>2, <1>3, <1>4, <1>5, <1>6 DEF WecomInboxNext

-----------------------------------------------------------------------------
(***************************************************************************)
(* The log of what a server prints.                                        *)
(***************************************************************************)

LEMMA NoFileApart == \A s \in Seq(Nat) : s # NoFile
<1> SUFFICES ASSUME NEW s \in Seq(Nat), s = NoFile PROVE FALSE
  OBVIOUS
<1>1. NoFile[1] = -1 /\ Len(NoFile) = 1
  BY DEF NoFile
<1>2. 1 \in 1..Len(s)
  BY <1>1
<1>3. s[1] \in Nat
  BY <1>2
<1>4. QED
  BY <1>1, <1>3

LEMMA NoFileOfBytes == \A s \in Seq(1..MaxWritten) : s # NoFile
<1> SUFFICES ASSUME NEW s \in Seq(1..MaxWritten) PROVE s # NoFile
  OBVIOUS
<1>1. s \in [1..Len(s) -> 1..MaxWritten] /\ Len(s) \in Nat
  BY LenProperties
<1>2. 1..MaxWritten \subseteq Nat
  BY LogAssumption
<1>3. s \in [1..Len(s) -> Nat]
  BY <1>1, <1>2
<1>4. s \in Seq(Nat)
  BY <1>1, <1>3
<1>5. QED
  BY <1>4, NoFileApart

LEMMA BytesInTurn ==
    ASSUME NEW start \in Nat, NEW n \in Nat
    PROVE  /\ BytesAfter(start, n) \in Seq(Nat) /\ Len(BytesAfter(start, n)) = n
           /\ \A i \in 1..n : BytesAfter(start, n)[i] = start + i
           /\ BytesAfter(start, n) # NoFile
           /\ n = 0 => BytesAfter(start, n) = <<>>
           /\ \A end \in Nat : start + n <= end => BytesAfter(start, n) \in Seq(1..end)
<1> DEFINE b == BytesAfter(start, n)
<1>1. /\ DOMAIN b = 1..n
      /\ \A i \in 1..n : b[i] = start + i
  BY DEF BytesAfter
<1>2. \A i \in 1..n : start + i \in Nat /\ start + i >= 1
  OBVIOUS
<1>3. b \in Seq(Nat) /\ Len(b) = n
  BY DEF BytesAfter
<1>4. b # NoFile
  BY <1>3, NoFileApart
<1>5. n = 0 => b = <<>>
  BY <1>3
<1>6. ASSUME NEW end \in Nat, start + n <= end PROVE b \in Seq(1..end)
  <2>1. \A i \in 1..n : start + i \in 1..end
    BY <1>6
  <2>2. b = [i \in 1..n |-> start + i]
    BY DEF BytesAfter
  <2>3. b \in [1..n -> 1..end]
    BY <2>1, <2>2
  <2>4. QED
    BY <2>3
<1>7. QED
  BY <1>1, <1>3, <1>4, <1>5, <1>6

LEMMA BytesGoOn ==
    ASSUME NEW start \in Nat, NEW n \in Nat, NEW k \in Nat
    PROVE  /\ BytesAfter(start, n) \o BytesAfter(start + n, k) = BytesAfter(start, n + k)
           /\ BytesAfter(start, n) \o <<>> = BytesAfter(start, n)
           /\ <<>> \o BytesAfter(start, n) = BytesAfter(start, n)
<1> DEFINE a == BytesAfter(start, n)
           b == BytesAfter(start + n, k)
           c == BytesAfter(start, n + k)
<1>1. /\ a \in Seq(Nat) /\ Len(a) = n /\ \A i \in 1..n : a[i] = start + i
      /\ b \in Seq(Nat) /\ Len(b) = k /\ \A i \in 1..k : b[i] = start + n + i
      /\ c \in Seq(Nat) /\ Len(c) = n + k /\ \A i \in 1..(n + k) : c[i] = start + i
  <2>1. start + n \in Nat /\ n + k \in Nat
    OBVIOUS
  <2>2. a \in Seq(Nat) /\ Len(a) = n /\ \A i \in 1..n : a[i] = start + i
    BY BytesInTurn
  <2>3. b \in Seq(Nat) /\ Len(b) = k /\ \A i \in 1..k : b[i] = (start + n) + i
    BY <2>1, BytesInTurn
  <2>4. c \in Seq(Nat) /\ Len(c) = n + k /\ \A i \in 1..(n + k) : c[i] = start + i
    BY <2>1, BytesInTurn
  <2> HIDE DEF a, b, c
  <2>5. QED
    BY <2>2, <2>3, <2>4
<1> HIDE DEF a, b, c
<1>2. /\ a \o b \in Seq(Nat) /\ Len(a \o b) = n + k
      /\ \A i \in 1..(n + k) : (a \o b)[i] = IF i <= n THEN a[i] ELSE b[i - n]
  BY <1>1, ConcatProperties
<1>3. \A i \in 1..(n + k) : (a \o b)[i] = start + i
  <2> TAKE i \in 1..(n + k)
  <2>1. CASE i <= n
    <3>1. i \in 1..n /\ (a \o b)[i] = a[i]
      BY <1>2, <2>1
    <3>2. QED
      BY <1>1, <3>1
  <2>2. CASE i > n
    <3>1. i - n \in 1..k
      BY <2>2
    <3>2. (a \o b)[i] = b[i - n]
      BY <1>2, <2>2
    <3>3. b[i - n] = start + n + (i - n)
      BY <1>1, <3>1
    <3>4. QED
      BY <3>2, <3>3
  <2>3. i <= n \/ i > n
    OBVIOUS
  <2>4. QED
    BY <2>1, <2>2, <2>3, Zenon
<1>4. a \o b = c
  <2>1. \A i \in 1..(n + k) : (a \o b)[i] = c[i]
    BY <1>1, <1>3
  <2>2. QED
    BY <1>1, <1>2, <2>1, SeqEqual
<1>5. a \o <<>> = a /\ <<>> \o a = a
  BY <1>1
<1>6. QED
  BY <1>4, <1>5 DEF a, b, c

\* Parts that are there have a last one.
LEMMA LastPartIsThere ==
    ASSUME Parts # {}
    PROVE  Max(Parts) \in Parts /\ \A q \in Parts : q <= Max(Parts)
<1> DEFINE T == {m \in Nat : MaxWritten - m \in Parts}
           R == {ss \in Nat \X Nat : ss[1] < ss[2]}
<1>1. Parts \subseteq 1..MaxWritten /\ MaxWritten \in Nat
  BY LogAssumption DEF Parts, PartNumbers
<1>2. T # {} /\ T \subseteq Nat
  <2>1. PICK p \in Parts : TRUE
    OBVIOUS
  <2>2. MaxWritten - p \in Nat /\ MaxWritten - (MaxWritten - p) = p
    BY <1>1
  <2>3. MaxWritten - p \in T
    BY <2>2
  <2>4. QED
    BY <2>3
<1>3. PICK x \in T : \A y \in T : ~ (<<y, x>> \in R)
  <2>1. IsWellFoundedOn(R, Nat)
    BY NatLessThanWellFounded DEF OpToRel
  <2> HIDE DEF T, R
  <2>2. QED
    BY <1>2, <2>1, WFMin
<1> DEFINE p == MaxWritten - x
<1>4. p \in Parts
  BY <1>3
<1>5. \A q \in Parts : q <= p
  <2> TAKE q \in Parts
  <2>1. MaxWritten - q \in Nat /\ MaxWritten - (MaxWritten - q) = q /\ x \in Nat /\ q \in Int
    BY <1>1
  <2>2. MaxWritten - q \in T
    BY <2>1
  <2>3. ~(MaxWritten - q < x)
    BY <1>3, <2>1, <2>2
  <2>4. QED
    BY <1>1, <2>1, <2>3
<1> HIDE DEF p, T
<1>6. \E z \in Parts : \A q \in Parts : q <= z
  BY <1>4, <1>5
<1>7. QED
  BY <1>6 DEF Max

(***************************************************************************)
(* What holds whatever the numbers are: the types, and that the base is    *)
(* there when it is written to.                                            *)
(***************************************************************************)
LogFits == LogTypeOK /\ LengthsFit

LEMMA LogFacts ==
    ASSUME LogFits
    PROVE  /\ PartBytes \in Nat /\ PartBytes > 0 /\ MaxParts \in Nat /\ MaxWritten \in Nat /\ MaxLine \in Nat
           /\ bytes \in Nat /\ bytes <= MaxWritten /\ toLog \in Nat /\ toLog <= MaxLine
           /\ bytes + toLog <= MaxWritten
           /\ currentLen \in Nat /\ currentLen <= bytes /\ nextPart \in Nat /\ candidate \in Nat
<1>1. PartBytes \in Nat /\ PartBytes > 0 /\ MaxParts \in Nat /\ MaxWritten \in Nat /\ MaxLine \in Nat
  BY LogAssumption
<1>2. /\ bytes \in 0..MaxWritten /\ toLog \in 0..MaxLine /\ currentLen \in 0..MaxWritten
      /\ nextPart \in Nat /\ candidate \in Nat
  BY DEF LogFits, LogTypeOK
<1>3. bytes + toLog <= MaxWritten /\ currentLen <= bytes
  BY DEF LogFits, LengthsFit
<1>4. QED
  BY <1>1, <1>2, <1>3

LEMMA LogInitFits == LogInit => LogFits
<1>1. SUFFICES ASSUME LogInit PROVE LogFits
  OBVIOUS
<1>2. /\ logPc = "off" /\ base = NoFile /\ segments = [p \in PartNumbers |-> NoFile]
      /\ currentLen = 0 /\ nextPart = 1 /\ candidate = 1 /\ toLog = 0 /\ bytes = 0
      /\ misnumbered = FALSE
  BY <1>1 DEF LogInit
<1>3. Parts = {}
  BY <1>2 DEF Parts
<1>4. 0 \in 0..MaxWritten /\ 0 \in 0..MaxLine /\ 0 <= MaxWritten
  BY LogAssumption
<1>5. misnumbered \in BOOLEAN
  BY <1>2
<1>6. LogTypeOK
  BY <1>2, <1>3, <1>4, <1>5 DEF LogTypeOK
<1>7. Len(BaseBytes) = 0
  BY <1>2 DEF BaseBytes
<1>8. DOMAIN segments = PartNumbers /\ bytes + toLog <= MaxWritten
  BY <1>2, <1>4
<1>9. QED
  BY <1>2, <1>6, <1>7, <1>8 DEF LogFits, LengthsFit

\* What is at the base path, as bytes.
LEMMA BaseIsBytes ==
    ASSUME LogFits
    PROVE  /\ BaseBytes \in Seq(1..MaxWritten) /\ BaseBytes # NoFile
           /\ Len(BaseBytes) \in Nat /\ Len(BaseBytes) <= bytes
           /\ base # NoFile => BaseBytes = base
<1>1. base = NoFile \/ base \in Seq(1..MaxWritten)
  BY DEF LogFits, LogTypeOK
<1>2. BaseBytes \in Seq(1..MaxWritten)
  <2>1. <<>> \in Seq(1..MaxWritten)
    OBVIOUS
  <2>2. QED
    BY <1>1, <2>1 DEF BaseBytes
<1>5. BaseBytes # NoFile
  BY <1>2, NoFileOfBytes
<1>6. Len(BaseBytes) <= bytes
  BY DEF LogFits, LengthsFit
<1>7. QED
  BY <1>2, <1>5, <1>6 DEF BaseBytes

LEMMA WithinBound ==
    ASSUME NEW b \in Nat, NEW t \in 0..MaxLine, b + t <= MaxWritten, NEW c \in Nat, c <= b
    PROVE  b \in 0..MaxWritten /\ c \in 0..MaxWritten
BY LogAssumption

\* The files and the types of the rest, where the segments stay.
LEMMA FitsWhereSegmentsStay ==
    ASSUME LogFits, segments' = segments, misnumbered' = misnumbered,
           BaseBytes' \in Seq(1..MaxWritten), Len(BaseBytes') <= bytes',
           logPc' \in {"off", "list", "prune old", "ready", "look", "rename", "prune", "reopen"},
           logPc' \in {"list", "prune old", "ready", "look", "rename"} => base' # NoFile,
           logPc' \in {"prune", "reopen"} => base' = NoFile,
           bytes' \in Nat, bytes' + toLog' <= MaxWritten,
           currentLen' \in Nat, currentLen' <= bytes',
           nextPart' \in Nat, candidate' \in Nat, toLog' \in 0..MaxLine
    PROVE  LogFits'
<1>1. Parts' = Parts
  BY DEF Parts
<1>2. (\A p \in Parts : segments[p] \in Seq(1..MaxWritten))'
  BY <1>1 DEF LogFits, LogTypeOK
<1>3. (base = NoFile \/ base \in Seq(1..MaxWritten))'
  BY DEF BaseBytes
<1>4. bytes' \in 0..MaxWritten /\ currentLen' \in 0..MaxWritten
  BY WithinBound, Zenon
<1>5. misnumbered' \in BOOLEAN
  BY DEF LogFits, LogTypeOK
<1>6. LogTypeOK'
  BY <1>2, <1>3, <1>4, <1>5 DEF LogTypeOK
<1>7. LengthsFit'
  BY DEF LogFits, LengthsFit
<1>8. QED
  BY <1>6, <1>7 DEF LogFits

\* More bytes at the end of the base.
LEMMA WriteOutFits ==
    ASSUME LogFits, base # NoFile, NEW n \in Nat, bytes + n <= MaxWritten, WriteOut(n)
    PROVE  /\ base' = BaseBytes \o BytesAfter(bytes, n) /\ base' # NoFile
           /\ BaseBytes' = base' /\ BaseBytes' \in Seq(1..MaxWritten)
           /\ bytes' = bytes + n /\ bytes' \in Nat /\ Len(BaseBytes') <= bytes'
<1> DEFINE b == BytesAfter(bytes, n)
<1>1. bytes \in Nat /\ MaxWritten \in Nat
  BY LogFacts
<1>2. b \in Seq(1..MaxWritten) /\ Len(b) = n
  BY <1>1, BytesInTurn
<1>3. base' = BaseBytes \o b
  BY BaseIsBytes DEF WriteOut, BytesAfter
<1>4. bytes' = bytes + n
  BY DEF WriteOut
<1> HIDE DEF b
<1>5. base' \in Seq(1..MaxWritten) /\ Len(base') = Len(BaseBytes) + Len(b)
  <2>1. BaseBytes \in Seq(1..MaxWritten)
    BY BaseIsBytes
  <2>2. QED
    BY <1>2, <1>3, <2>1, ConcatProperties
<1>6. base' # NoFile
  BY <1>5, NoFileOfBytes
<1>7. BaseBytes' = base'
  BY <1>6 DEF BaseBytes
<1>8. Len(base') <= bytes'
  BY <1>1, <1>2, <1>4, <1>5, BaseIsBytes
<1>9. bytes' \in Nat
  BY <1>1, <1>4
<1>10. QED
  BY <1>3, <1>4, <1>5, <1>6, <1>7, <1>8, <1>9 DEF b

LEMMA OpenAppendFits ==
    ASSUME LogFits, OpenAppend
    PROVE  /\ base' = BaseBytes /\ base' # NoFile /\ BaseBytes' = BaseBytes
           /\ Len(base') \in Nat /\ Len(base') <= bytes
<1>1. base' = BaseBytes
  BY DEF OpenAppend, BaseBytes
<1>2. base' # NoFile
  BY <1>1, BaseIsBytes
<1>3. QED
  BY <1>1, <1>2, BaseIsBytes DEF BaseBytes

LEMMA OpenLogFits == ASSUME LogFits, OpenLog PROVE LogFits'
<1>1. /\ logPc' = "list" /\ segments' = segments /\ bytes' = bytes /\ misnumbered' = misnumbered
      /\ nextPart' = nextPart /\ candidate' = candidate /\ toLog' = toLog
  BY DEF OpenLog
<1>2. currentLen' \in {Len(base'), 0} /\ OpenAppend
  BY DEF OpenLog
<1>3. base' # NoFile /\ BaseBytes' = BaseBytes /\ Len(base') \in Nat /\ Len(base') <= bytes
  BY <1>2, OpenAppendFits
<1>4. bytes \in Nat /\ bytes + toLog <= MaxWritten /\ nextPart \in Nat /\ candidate \in Nat
  BY LogFacts
<1>5. currentLen' \in Nat /\ currentLen' <= bytes
  BY <1>2, <1>3, <1>4
<1>6. toLog \in 0..MaxLine
  BY DEF LogFits, LogTypeOK
<1>7. QED
  BY <1>1, <1>3, <1>4, <1>5, <1>6, BaseIsBytes, FitsWhereSegmentsStay

\* The steps that leave the files as they are.
LEMMA QuietLogFits ==
    ASSUME LogFits,
           ListParts \/ Pruned \/ (\E n \in 1..MaxLine : LogLine(n)) \/ StartRotation \/ LookForPart
    PROVE  LogFits'
<1>1. /\ segments' = segments /\ base' = base /\ bytes' = bytes /\ misnumbered' = misnumbered
      /\ currentLen' = currentLen
  BY DEF ListParts, Pruned, LogLine, StartRotation, LookForPart, logFiles
<1>2. BaseBytes' = BaseBytes
  BY <1>1 DEF BaseBytes
<1>3. /\ bytes \in Nat /\ bytes + toLog <= MaxWritten /\ nextPart \in Nat /\ candidate \in Nat
      /\ currentLen \in Nat /\ currentLen <= bytes /\ MaxLine \in Nat /\ MaxWritten \in Nat
  BY LogFacts
<1>4. toLog \in 0..MaxLine
  BY DEF LogFits, LogTypeOK
<1>5. /\ logPc \in {"list", "prune old", "ready", "look", "rename"} => base # NoFile
      /\ logPc \in {"prune", "reopen"} => base = NoFile
  BY DEF LogFits, LengthsFit
<1> USE <1>1, <1>2, <1>3, <1>4, BaseIsBytes
<1>6. CASE ListParts
  <2>1. /\ logPc = "list" /\ logPc' = "prune old" /\ nextPart' \in {FirstFreePart, 1}
        /\ candidate' = candidate /\ toLog' = toLog
    BY <1>6 DEF ListParts
  <2>2. base' # NoFile
    BY <1>5, <2>1
  <2>3. FirstFreePart \in Nat
    <3>1. CASE Parts = {}
      BY <3>1 DEF FirstFreePart
    <3>2. CASE Parts # {}
      <4>1. Parts \subseteq PartNumbers
        BY DEF Parts
      <4>2. Parts \subseteq Nat
        BY <4>1 DEF PartNumbers
      <4>3. Max(Parts) \in Nat
        BY <3>2, <4>2, LastPartIsThere
      <4>4. QED
        BY <3>2, <4>3 DEF FirstFreePart
    <3>3. QED
      BY <3>1, <3>2
  <2>4. nextPart' \in Nat
    <3>1. nextPart' = FirstFreePart \/ nextPart' = 1
      BY <2>1
    <3>2. QED
      BY <2>3, <3>1
  <2>5. QED
    BY <2>1, <2>2, <2>4, FitsWhereSegmentsStay
<1>7. CASE Pruned
  <2>1. /\ \/ logPc = "prune" /\ logPc' = "reopen"
           \/ logPc = "prune old" /\ logPc' = "ready"
        /\ candidate' = candidate /\ toLog' = toLog /\ nextPart' = nextPart
    BY <1>7 DEF Pruned
  <2>2. /\ logPc' \in {"list", "prune old", "ready", "look", "rename"} => base' # NoFile
        /\ logPc' \in {"prune", "reopen"} => base' = NoFile
        /\ logPc' \in {"ready", "reopen"}
    BY <1>5, <2>1
  <2>3. QED
    BY <2>1, <2>2, FitsWhereSegmentsStay
<1>8. ASSUME NEW n \in 1..MaxLine, LogLine(n) PROVE LogFits'
  <2>1. /\ logPc = "ready" /\ logPc' = "ready" /\ toLog' = n /\ bytes + n <= MaxWritten
        /\ candidate' = candidate /\ nextPart' = nextPart
    BY <1>8 DEF LogLine
  <2>2. base' # NoFile
    BY <1>5, <2>1
  <2>3. toLog' \in 0..MaxLine
    BY <2>1
  <2>4. QED
    BY <2>1, <2>2, <2>3, FitsWhereSegmentsStay
<1>9. CASE StartRotation
  <2>1. /\ logPc = "ready" /\ logPc' = "look" /\ toLog' = toLog /\ candidate' = nextPart /\ nextPart' = nextPart
    BY <1>9 DEF StartRotation
  <2>2. base' # NoFile
    BY <1>5, <2>1
  <2>3. QED
    BY <2>1, <2>2, FitsWhereSegmentsStay
<1>10. CASE LookForPart
  <2>1. /\ logPc = "look" /\ logPc' \in {"look", "rename"} /\ toLog' = toLog /\ nextPart' = nextPart
        /\ candidate' \in {candidate, candidate + 1}
    BY <1>10 DEF LookForPart
  <2>2. base' # NoFile
    BY <1>5, <2>1
  <2>3. candidate' \in Nat
    BY <2>1
  <2>4. QED
    BY <2>1, <2>2, <2>3, FitsWhereSegmentsStay
<1>11. QED
  BY <1>6, <1>7, <1>8, <1>9, <1>10

LEMMA PruneFits == ASSUME LogFits, Prune PROVE LogFits'
<1>1. PICK p \in Parts : segments' = [segments EXCEPT ![p] = NoFile]
  BY DEF Prune
<1>2. /\ logPc' = logPc /\ base' = base /\ bytes' = bytes /\ misnumbered' = misnumbered /\ nextPart' = nextPart
      /\ currentLen' = currentLen /\ candidate' = candidate /\ toLog' = toLog
  BY DEF Prune
<1>3. DOMAIN segments' = PartNumbers /\ \A q \in Parts' : q \in Parts /\ segments'[q] = segments[q]
  BY <1>1 DEF LogFits, LengthsFit, Parts
<1>4. (\A q \in Parts : segments[q] \in Seq(1..MaxWritten))'
  BY <1>3 DEF LogFits, LogTypeOK
<1>5. LogTypeOK'
  BY <1>2, <1>4 DEF LogFits, LogTypeOK
<1>6. LengthsFit'
  BY <1>2, <1>3 DEF LogFits, LengthsFit, BaseBytes
<1>7. QED
  BY <1>5, <1>6 DEF LogFits

\* How much of a line goes to the base at once.
LEMMA UptoFits ==
    ASSUME LogFits, NEW n \in Nat, n <= Upto(toLog, Remaining)
    PROVE  n <= toLog /\ bytes + n <= MaxWritten /\ (Remaining > 0 => currentLen + n <= PartBytes)
<1>1. /\ PartBytes \in Nat /\ MaxWritten \in Nat /\ bytes \in Nat /\ toLog \in Nat
      /\ bytes + toLog <= MaxWritten /\ currentLen \in Nat
  BY LogFacts
<1>2. Remaining \in Nat /\ (Remaining > 0 => currentLen + Remaining = PartBytes)
  BY <1>1 DEF Remaining
<1>3. n <= toLog /\ n <= Remaining
  BY <1>1, <1>2 DEF Upto
<1>4. QED
  BY <1>1, <1>2, <1>3

LEMMA WriteBytesFits == ASSUME LogFits, WriteBytes PROVE LogFits'
<1> DEFINE n == Upto(toLog, Remaining)
<1>1. /\ logPc = "ready" /\ logPc' = "ready" /\ WriteOut(n)
      /\ currentLen' = currentLen + n /\ toLog' = toLog - n
      /\ segments' = segments /\ misnumbered' = misnumbered /\ nextPart' = nextPart /\ candidate' = candidate
  BY DEF WriteBytes
<1>2. /\ toLog \in Nat /\ toLog <= MaxLine /\ PartBytes \in Nat /\ bytes + toLog <= MaxWritten /\ MaxWritten \in Nat
      /\ currentLen \in Nat /\ currentLen <= bytes /\ bytes \in Nat /\ nextPart \in Nat /\ candidate \in Nat
      /\ MaxLine \in Nat
  BY LogFacts
<1>3. n \in Nat
  BY <1>2 DEF Upto, Remaining
<1>4. n <= toLog /\ bytes + n <= MaxWritten
  <2>1. n <= n
    BY <1>3
  <2> HIDE DEF n
  <2>2. n <= Upto(toLog, Remaining)
    BY <2>1 DEF n
  <2>3. QED
    BY <1>3, <2>2, UptoFits
<1> HIDE DEF n
<1>5. base # NoFile
  BY <1>1 DEF LogFits, LengthsFit
<1>6. /\ base' # NoFile /\ BaseBytes' \in Seq(1..MaxWritten)
      /\ bytes' = bytes + n /\ bytes' \in Nat /\ Len(BaseBytes') <= bytes'
  BY <1>1, <1>3, <1>4, <1>5, WriteOutFits
<1>7. /\ currentLen' \in Nat /\ currentLen' <= bytes' /\ bytes' + toLog' <= MaxWritten
      /\ toLog' \in 0..MaxLine
  BY <1>1, <1>2, <1>3, <1>4, <1>6
<1>8. QED
  BY <1>1, <1>2, <1>6, <1>7, FitsWhereSegmentsStay

LEMMA RenameBaseFits == ASSUME LogFits, RenameBase PROVE LogFits'
<1>1. /\ logPc = "rename" /\ logPc' = "prune" /\ bytes' = bytes /\ currentLen' = currentLen
      /\ candidate' = candidate /\ toLog' = toLog
  BY DEF RenameBase
<1>2. base # NoFile
  BY <1>1 DEF LogFits, LengthsFit
<1>3. /\ segments' = [segments EXCEPT ![candidate] = base] /\ base' = NoFile
      /\ nextPart' = candidate + 1 /\ misnumbered' \in BOOLEAN
  BY <1>2 DEF RenameBase, LogFits, LogTypeOK, IsAhead
<1>4. base \in Seq(1..MaxWritten)
  BY <1>2 DEF LogFits, LogTypeOK
<1>5. /\ DOMAIN segments' = PartNumbers
      /\ \A q \in PartNumbers : segments'[q] = IF q = candidate THEN base ELSE segments[q]
  BY <1>3 DEF LogFits, LengthsFit
<1>6. (\A q \in Parts : segments[q] \in Seq(1..MaxWritten))'
  <2> SUFFICES ASSUME NEW q \in Parts' PROVE segments'[q] \in Seq(1..MaxWritten)
    OBVIOUS
  <2>1. q \in PartNumbers /\ segments'[q] # NoFile
    BY DEF Parts
  <2>2. q # candidate => q \in Parts
    BY <1>5, <2>1 DEF Parts
  <2>3. QED
    BY <1>4, <1>5, <2>1, <2>2 DEF LogFits, LogTypeOK
<1>7. nextPart' \in Nat
  BY <1>3, LogFacts
<1>8. LogTypeOK'
  BY <1>1, <1>3, <1>6, <1>7 DEF LogFits, LogTypeOK
<1>9. Len(BaseBytes') <= bytes'
  <2>1. Len(BaseBytes') = 0
    BY <1>3 DEF BaseBytes
  <2>2. QED
    BY <1>1, <2>1, LogFacts
<1>10. LengthsFit'
  BY <1>1, <1>3, <1>5, <1>9 DEF LogFits, LengthsFit
<1>11. QED
  BY <1>8, <1>10 DEF LogFits

LEMMA ReopenBaseFits == ASSUME LogFits, ReopenBase PROVE LogFits'
<1>1. /\ logPc' = "ready" /\ currentLen' = 0 /\ segments' = segments /\ bytes' = bytes
      /\ misnumbered' = misnumbered /\ nextPart' = nextPart /\ candidate' = candidate /\ toLog' = toLog
      /\ OpenAppend
  BY DEF ReopenBase
<1>2. base' # NoFile /\ BaseBytes' = BaseBytes
  BY <1>1, OpenAppendFits
<1>3. bytes \in Nat /\ bytes + toLog <= MaxWritten /\ nextPart \in Nat /\ candidate \in Nat
  BY LogFacts
<1>4. currentLen' \in Nat /\ currentLen' <= bytes'
  BY <1>1, <1>3
<1>5. toLog \in 0..MaxLine
  BY DEF LogFits, LogTypeOK
<1>6. QED
  BY <1>1, <1>2, <1>3, <1>4, <1>5, BaseIsBytes, FitsWhereSegmentsStay

\* What a log that stops has on the disk, and how much of a write in progress.
LEMMA StoppedWith ==
    ASSUME LogFits, LogStops
    PROVE  \/ base' = base /\ bytes' = bytes
           \/ /\ logPc = "ready" /\ base # NoFile /\ Remaining > 0
              /\ \E n \in Nat : bytes + n <= MaxWritten /\ currentLen + n <= PartBytes /\ WriteOut(n)
<1>1. CASE UNCHANGED <<base, bytes>>
  BY <1>1
<1>2. ASSUME logPc = "ready", toLog > 0, NEW n \in 1..Upto(toLog, Remaining), WriteOut(n)
      PROVE  /\ base # NoFile /\ Remaining > 0
             /\ n \in Nat /\ bytes + n <= MaxWritten /\ currentLen + n <= PartBytes
  <2>1. base # NoFile
    BY <1>2 DEF LogFits, LengthsFit
  <2>2. /\ PartBytes \in Nat /\ toLog \in Nat /\ currentLen \in Nat
    BY LogFacts
  <2>3. Upto(toLog, Remaining) \in Nat /\ Remaining \in Nat /\ Upto(toLog, Remaining) <= Remaining
    BY <2>2 DEF Upto, Remaining
  <2>4. n \in Nat /\ n <= Upto(toLog, Remaining) /\ Remaining > 0
    BY <1>2, <2>3
  <2>5. QED
    BY <2>1, <2>4, UptoFits
<1>3. QED
  BY <1>1, <1>2 DEF LogStops

LEMMA LogStopsFits == ASSUME LogFits, LogStops PROVE LogFits'
<1>1. /\ logPc' = "off" /\ toLog' = 0 /\ currentLen' = 0 /\ nextPart' = 1 /\ candidate' = 1
      /\ segments' = segments /\ misnumbered' = misnumbered
  BY DEF LogStops
<1>2. bytes \in Nat /\ bytes <= MaxWritten /\ MaxLine \in Nat
  BY LogFacts
<1>3. /\ BaseBytes' \in Seq(1..MaxWritten) /\ Len(BaseBytes') <= bytes'
      /\ bytes' \in Nat /\ bytes' <= MaxWritten
  <2>1. CASE base' = base /\ bytes' = bytes
    BY <1>2, <2>1, BaseIsBytes DEF BaseBytes
  <2>2. CASE base # NoFile /\ \E n \in Nat : bytes + n <= MaxWritten /\ WriteOut(n)
    <3>1. PICK n \in Nat : bytes + n <= MaxWritten /\ WriteOut(n)
      BY <2>2
    <3>2. QED
      BY <2>2, <3>1, WriteOutFits
  <2>3. QED
    BY <2>1, <2>2, StoppedWith
<1>4. toLog' \in 0..MaxLine /\ bytes' + toLog' <= MaxWritten /\ currentLen' \in Nat /\ currentLen' <= bytes'
  BY <1>1, <1>2, <1>3
<1>5. QED
  BY <1>1, <1>3, <1>4, FitsWhereSegmentsStay

LEMMA LogStepFits == ASSUME LogFits, LogNext PROVE LogFits'
BY OpenLogFits, QuietLogFits, PruneFits, WriteBytesFits, RenameBaseFits, ReopenBaseFits, LogStopsFits DEF LogNext

(***************************************************************************)
(* The line of the files: as long as no segment got a number below one     *)
(* that was there, each step has a first part, a last part and ends for    *)
(* the next state.                                                         *)
(***************************************************************************)
IsLine(first, last, ends) ==
    /\ first \in Nat /\ last \in Nat /\ ends \in [Nat -> Nat]
    /\ FilesAreInLine(first, last, ends) /\ CallsFollowFiles(last, ends[last])

LEMMA LineOfInv == LogInv <=> LogFits /\ (misnumbered \/ \E first, last, ends : IsLine(first, last, ends))
BY DEF LogInv, LogFits, IsLine

\* What the line says of the bytes.
LEMMA LineFacts ==
    ASSUME LogFits, NEW first \in Nat, NEW last \in Nat, NEW ends \in [Nat -> Nat],
           FilesAreInLine(first, last, ends)
    PROVE  /\ first <= last /\ last \in Nat /\ last + 1 \in Nat
           /\ ends[last] \in Nat /\ ends[first] \in Nat /\ last <= ends[last] /\ ends[last] <= bytes
           /\ ends[first] <= ends[last] /\ bytes - ends[last] \in Nat
           /\ BaseBytes = BytesAfter(ends[last], bytes - ends[last])
           /\ Len(BaseBytes) = bytes - ends[last]
           /\ Parts = (first + 1)..last
           /\ first = 0 \/ (MaxParts > 0 /\ last - first >= MaxParts)
<1>1. /\ first <= last /\ last <= ends[last] /\ ends[last] <= bytes
      /\ BaseBytes = BytesAfter(ends[last], bytes - ends[last])
      /\ Parts = (first + 1)..last
      /\ first = 0 \/ (MaxParts > 0 /\ last - first >= MaxParts)
  BY DEF FilesAreInLine
<1>2. ends[last] \in Nat /\ ends[first] \in Nat /\ bytes \in Nat /\ PartBytes \in Nat
  BY LogFacts
<1>3. bytes - ends[last] \in Nat
  <2>1. ends[last] <= bytes
    BY <1>1
  <2>2. QED
    BY <1>2, <2>1
<1>4. Len(BaseBytes) = bytes - ends[last]
  BY <1>1, <1>2, <1>3, BytesInTurn
<1>5. ends[first] <= ends[last]
  <2>1. ends[first] + (last - first) * PartBytes <= ends[last]
    BY <1>1 DEF FilesAreInLine
  <2>2. (last - first) * PartBytes >= 0 /\ (last - first) * PartBytes \in Int
    BY <1>1, <1>2
  <2>3. QED
    BY <1>2, <2>1, <2>2
<1>6. QED
  BY <1>1, <1>2, <1>3, <1>4, <1>5

\* Where the files do not change, their line does not.
LEMMA LineStays ==
    ASSUME NEW first, NEW last, NEW ends, FilesAreInLine(first, last, ends),
           segments' = segments, bytes' = bytes, BaseBytes' = BaseBytes
    PROVE  FilesAreInLine(first, last, ends)'
<1>1. Parts' = Parts
  BY DEF Parts
<1>2. QED
  BY <1>1 DEF FilesAreInLine, BytesAfter

LEMMA OpenLogLine ==
    ASSUME LogFits, OpenLog, NEW first, NEW last, NEW ends, IsLine(first, last, ends)
    PROVE  IsLine(first, last, ends)'
<1>1. /\ first \in Nat /\ last \in Nat /\ ends \in [Nat -> Nat]
      /\ FilesAreInLine(first, last, ends)
  BY DEF IsLine
<1>2. /\ logPc' = "list" /\ segments' = segments /\ bytes' = bytes /\ OpenAppend
  BY DEF OpenLog
<1>3. base' = BaseBytes /\ BaseBytes' = BaseBytes
  BY <1>2, OpenAppendFits
<1>4. bytes - ends[last] \in Nat /\ Len(BaseBytes) = bytes - ends[last]
  BY <1>1, LineFacts
<1>5. currentLen' = Len(BaseBytes) \/ currentLen' = 0
  BY <1>3 DEF OpenLog
<1>6. currentLen' <= bytes' - ends[last]
  BY <1>2, <1>4, <1>5
<1>7. CallsFollowFiles(last, ends[last])'
  BY <1>2, <1>6 DEF CallsFollowFiles
<1>8. FilesAreInLine(first, last, ends)'
  BY <1>1, <1>2, <1>3, LineStays
<1>9. QED
  BY <1>1, <1>7, <1>8 DEF IsLine

\* The number after those that are there.
LEMMA FreeAfterLast ==
    ASSUME LogFits, NEW first \in Nat, NEW last \in Nat, NEW ends \in [Nat -> Nat],
           FilesAreInLine(first, last, ends)
    PROVE  FirstFreePart = last + 1
<1>1. first <= last /\ (first = 0 \/ (MaxParts > 0 /\ last - first >= MaxParts)) /\ Parts = (first + 1)..last
  BY LineFacts
<1>2. CASE Parts = {}
  <2>1. ~(first < last)
    <3>1. SUFFICES ASSUME first < last PROVE FALSE
      OBVIOUS
    <3>2. last \in (first + 1)..last
      BY <3>1
    <3>3. QED
      BY <1>1, <1>2, <3>2
  <2>2. first = last
    BY <1>1, <2>1
  <2>3. MaxParts \in Nat
    BY LogFacts
  <2>4. last = 0
    BY <1>1, <2>2, <2>3
  <2>5. QED
    BY <1>2, <2>4 DEF FirstFreePart
<1>3. CASE Parts # {}
  <2>1. Max(Parts) \in Parts /\ \A q \in Parts : q <= Max(Parts)
    BY <1>3, LastPartIsThere
  <2>2. PICK m \in (first + 1)..last : m = Max(Parts)
    BY <1>1, <2>1
  <2>3. last \in Parts
    BY <1>1, <2>2
  <2>4. last <= m
    BY <2>1, <2>2, <2>3
  <2>5. m = last
    BY <2>2, <2>4
  <2>6. QED
    BY <1>3, <2>2, <2>5 DEF FirstFreePart
<1>4. QED
  BY <1>2, <1>3

\* The oldest goes, and as many as are to be kept stay.
LEMMA PruneLine ==
    ASSUME LogFits, Prune, NEW first, NEW last, NEW ends, IsLine(first, last, ends)
    PROVE  IsLine(first + 1, last, ends)'
<1>1. /\ first \in Nat /\ last \in Nat /\ ends \in [Nat -> Nat]
      /\ FilesAreInLine(first, last, ends) /\ CallsFollowFiles(last, ends[last])
  BY DEF IsLine
<1>2. PICK p \in Parts : p = Min(Parts) /\ segments' = [segments EXCEPT ![p] = NoFile]
  BY DEF Prune, Prunes
<1>3. /\ MaxParts > 0 /\ Cardinality(Parts) > MaxParts /\ logPc \in {"prune old", "prune"} /\ logPc' = logPc
      /\ base' = base /\ bytes' = bytes /\ nextPart' = nextPart
      /\ currentLen' = currentLen /\ candidate' = candidate
  BY DEF Prune, TooMany
<1>4. first <= last /\ Parts = (first + 1)..last /\ MaxParts \in Nat
  BY <1>1, LineFacts, LogFacts
<1>5. Cardinality(Parts) = last - first
  <2>1. first + 1 \in Int /\ last \in Int
    BY <1>1
  <2>2. Cardinality((first + 1)..last) = IF first + 1 > last THEN 0 ELSE last - (first + 1) + 1
    BY <2>1, FS_Interval
  <2>3. QED
    BY <1>1, <1>4, <2>2
<1>6. first + 1 <= last /\ last - (first + 1) >= MaxParts /\ first + 1 \in Nat /\ first + 1 # 0
  <2>1. first \in Nat /\ last \in Nat /\ MaxParts \in Nat
    BY <1>1, <1>4
  <2>2. last - first > MaxParts
    BY <1>3, <1>5
  <2>3. QED
    BY <2>1, <2>2
<1>7. p = first + 1
  <2>1. first + 1 \in Parts /\ \A q \in Parts : first + 1 <= q
    BY <1>1, <1>4, <1>6
  <2>2. \A x \in Parts : (\A q \in Parts : x <= q) => x = first + 1
    <3> TAKE x \in Parts
    <3> HAVE \A q \in Parts : x <= q
    <3>1. x <= first + 1
      BY <2>1
    <3>2. first + 1 <= x
      BY <2>1
    <3>3. x \in Int
      <4>1. x \in (first + 1)..last
        BY <1>4
      <4>2. QED
        BY <1>1, <4>1
    <3>4. QED
      BY <1>1, <3>1, <3>2, <3>3
  <2>3. Min(Parts) = first + 1
    BY <2>1, <2>2 DEF Min
  <2>4. QED
    BY <1>2, <2>3
<1>8. \A q \in PartNumbers : segments'[q] = IF q = first + 1 THEN NoFile ELSE segments[q]
  BY <1>2, <1>7 DEF LogFits, LengthsFit
<1>9. Parts' = ((first + 1) + 1)..last
  <2>1. \A q \in PartNumbers : q \in Parts' <=> q \in Parts /\ q # first + 1
    BY <1>8 DEF Parts
  <2>2. Parts' \subseteq PartNumbers /\ Parts \subseteq PartNumbers
    BY DEF Parts
  <2>3. \A q \in Int : q \in ((first + 1) + 1)..last <=> q \in (first + 1)..last /\ q # first + 1
    BY <1>1
  <2>4. PartNumbers \subseteq Int /\ ((first + 1) + 1)..last \subseteq (first + 1)..last
    BY <1>1 DEF PartNumbers
  <2>5. QED
    BY <1>4, <2>1, <2>2, <2>3, <2>4
<1>10. \A q \in ((first + 1) + 1)..last : segments'[q] = BytesAfter(ends[q - 1], ends[q] - ends[q - 1])
  <2> TAKE q \in ((first + 1) + 1)..last
  <2>1. q \in (first + 1)..last /\ q # first + 1
    BY <1>1
  <2>2. q \in PartNumbers
    BY <1>4, <2>1 DEF Parts
  <2>3. segments[q] = BytesAfter(ends[q - 1], ends[q] - ends[q - 1])
    BY <1>1, <2>1 DEF FilesAreInLine
  <2>4. QED
    BY <1>8, <2>1, <2>2, <2>3
<1>11. BaseBytes' = BaseBytes
  BY <1>3 DEF BaseBytes
<1>12. \A q, r \in (first + 1)..last : q <= r => ends[q] + (r - q) * PartBytes <= ends[r]
  <2>1. (first + 1)..last \subseteq first..last
    BY <1>1
  <2>2. QED
    BY <1>1, <2>1 DEF FilesAreInLine
<1>13. /\ last <= ends[last] /\ ends[last] <= bytes
       /\ BaseBytes = BytesAfter(ends[last], bytes - ends[last])
  BY <1>1 DEF FilesAreInLine
<1>14. FilesAreInLine(first + 1, last, ends)'
  BY <1>3, <1>6, <1>9, <1>10, <1>11, <1>12, <1>13 DEF FilesAreInLine, BytesAfter
<1>15. CallsFollowFiles(last, ends[last])'
  <2>1. logPc = "prune old" => currentLen <= bytes - ends[last]
    BY <1>1 DEF CallsFollowFiles
  <2>2. nextPart \in 1..(last + 1)
    BY <1>1, <1>3 DEF CallsFollowFiles
  <2>3. QED
    BY <1>3, <2>1, <2>2 DEF CallsFollowFiles
<1>16. QED
  BY <1>1, <1>6, <1>14, <1>15 DEF IsLine

\* The steps that only change what the client knows.
LEMMA QuietLogLine ==
    ASSUME LogFits, NEW first, NEW last, NEW ends, IsLine(first, last, ends),
           ListParts \/ Pruned \/ (\E n \in 1..MaxLine : LogLine(n)) \/ StartRotation \/ LookForPart
    PROVE  IsLine(first, last, ends)'
<1>1. /\ first \in Nat /\ last \in Nat /\ ends \in [Nat -> Nat]
      /\ FilesAreInLine(first, last, ends) /\ CallsFollowFiles(last, ends[last])
  BY DEF IsLine
<1>2. /\ segments' = segments /\ base' = base /\ bytes' = bytes /\ currentLen' = currentLen
  BY DEF ListParts, Pruned, LogLine, StartRotation, LookForPart, logFiles
<1>3. BaseBytes' = BaseBytes
  BY <1>2 DEF BaseBytes
<1>4. FilesAreInLine(first, last, ends)'
  BY <1>1, <1>2, <1>3, LineStays
<1>5. SUFFICES CallsFollowFiles(last, ends[last])'
  BY <1>1, <1>4 DEF IsLine
<1>6. /\ logPc \in {"list", "prune old", "ready", "look", "rename"} => currentLen <= bytes - ends[last]
      /\ logPc \notin {"off", "list"} => nextPart \in 1..(last + 1)
      /\ logPc = "look" => candidate \in 1..(last + 1) /\ PartBytes <= currentLen
  BY <1>1 DEF CallsFollowFiles
<1>7. CASE ListParts
  <2>1. logPc = "list" /\ logPc' = "prune old" /\ nextPart' \in {last + 1, 1}
    BY <1>1, <1>7, FreeAfterLast DEF ListParts
  <2>2. nextPart' \in 1..(last + 1)
    <3>1. last \in Nat
      BY <1>1
    <3>2. nextPart' = last + 1 \/ nextPart' = 1
      BY <2>1
    <3>3. QED
      BY <3>1, <3>2
  <2>3. QED
    BY <1>2, <1>6, <2>1, <2>2 DEF CallsFollowFiles
<1>8. CASE Pruned
  <2>1. /\ \/ logPc = "prune" /\ logPc' = "reopen"
           \/ logPc = "prune old" /\ logPc' = "ready"
        /\ nextPart' = nextPart
    BY <1>8 DEF Pruned
  <2>2. QED
    BY <1>2, <1>6, <2>1 DEF CallsFollowFiles
<1>9. CASE \E n \in 1..MaxLine : LogLine(n)
  <2>1. logPc = "ready" /\ logPc' = "ready" /\ nextPart' = nextPart
    BY <1>9 DEF LogLine
  <2>2. QED
    BY <1>2, <1>6, <2>1 DEF CallsFollowFiles
<1>10. CASE StartRotation
  <2>1. logPc = "ready" /\ logPc' = "look" /\ nextPart' = nextPart /\ candidate' = nextPart /\ Remaining = 0
    BY <1>10 DEF StartRotation
  <2>2. PartBytes <= currentLen
    BY <2>1, LogFacts DEF Remaining
  <2>3. QED
    BY <1>2, <1>6, <2>1, <2>2 DEF CallsFollowFiles
<1>11. CASE LookForPart
  <2>1. logPc = "look" /\ nextPart' = nextPart
    BY <1>11 DEF LookForPart
  <2>2. CASE segments[candidate] # NoFile
    <3>1. candidate' = candidate + 1 /\ logPc' = "look"
      BY <1>11, <2>1, <2>2 DEF LookForPart
    <3>2. candidate # last + 1
      <4>1. SUFFICES ASSUME candidate = last + 1 PROVE FALSE
        OBVIOUS
      <4>2. /\ PartBytes \in Nat /\ PartBytes > 0 /\ currentLen <= bytes - ends[last]
            /\ PartBytes <= currentLen /\ bytes \in Nat /\ bytes <= MaxWritten /\ MaxWritten \in Nat
            /\ currentLen \in Nat
        BY <1>6, <2>1, LogFacts
      <4>3. last <= ends[last] /\ ends[last] \in Nat
        BY <1>1, LineFacts
      <4>4. candidate \in PartNumbers
        BY <1>1, <4>1, <4>2, <4>3 DEF PartNumbers
      <4>5. candidate \in Parts
        BY <2>2, <4>4 DEF Parts
      <4>6. Parts = (first + 1)..last /\ last \in Nat
        BY <1>1, LineFacts
      <4>7. QED
        BY <4>1, <4>5, <4>6
    <3>3. candidate' \in 1..(last + 1)
      BY <1>1, <1>6, <2>1, <3>1, <3>2
    <3>4. QED
      BY <1>2, <1>6, <2>1, <3>1, <3>3 DEF CallsFollowFiles
  <2>3. CASE segments[candidate] = NoFile
    <3>1. candidate' = candidate /\ logPc' = "rename"
      BY <1>11, <2>3 DEF LookForPart
    <3>2. QED
      BY <1>2, <1>6, <2>1, <2>3, <3>1 DEF CallsFollowFiles
  <2>4. QED
    BY <2>2, <2>3
<1>12. QED
  BY <1>7, <1>8, <1>9, <1>10, <1>11

\* More bytes at the end of the base.
LEMMA WriteOutLine ==
    ASSUME LogFits, base # NoFile, NEW n \in Nat, bytes + n <= MaxWritten, WriteOut(n),
           segments' = segments,
           NEW first \in Nat, NEW last \in Nat, NEW ends \in [Nat -> Nat], FilesAreInLine(first, last, ends)
    PROVE  FilesAreInLine(first, last, ends)'
<1> DEFINE end == ends[last]
           k == bytes - end
<1>1. end \in Nat /\ k \in Nat /\ BaseBytes = BytesAfter(end, k)
  BY LineFacts
<1>9. bytes \in Nat
  BY LogFacts
<1>10. bytes = end + k
  BY <1>1, <1>9
<1>2. /\ base' = BaseBytes \o BytesAfter(bytes, n) /\ BaseBytes' = base' /\ bytes' = bytes + n
  BY WriteOutFits
<1> HIDE DEF end, k
<1>3. BytesAfter(end, k) \o BytesAfter(end + k, n) = BytesAfter(end, k + n)
  BY <1>1, BytesGoOn, Zenon
<1>4. BaseBytes' = BytesAfter(end, k + n)
  BY <1>1, <1>2, <1>3, <1>10
<1>5. bytes' - end = k + n /\ end <= bytes'
  BY <1>1, <1>2, <1>10
<1>6. BaseBytes' = BytesAfter(end, bytes' - end)
  BY <1>4, <1>5
<1>7. Parts' = Parts
  BY DEF Parts
<1>8. QED
  BY <1>5, <1>6, <1>7 DEF FilesAreInLine, BytesAfter, end

LEMMA WriteBytesLine ==
    ASSUME LogFits, WriteBytes, NEW first, NEW last, NEW ends, IsLine(first, last, ends)
    PROVE  IsLine(first, last, ends)'
<1> DEFINE n == Upto(toLog, Remaining)
<1>1. /\ logPc = "ready" /\ logPc' = "ready" /\ WriteOut(n) /\ currentLen' = currentLen + n
      /\ segments' = segments /\ nextPart' = nextPart
  BY DEF WriteBytes
<1>2. /\ first \in Nat /\ last \in Nat /\ ends \in [Nat -> Nat]
      /\ FilesAreInLine(first, last, ends) /\ CallsFollowFiles(last, ends[last])
  BY DEF IsLine
<1>3. toLog \in Nat /\ PartBytes \in Nat /\ currentLen \in Nat /\ bytes \in Nat
  BY LogFacts
<1>4. n \in Nat /\ n <= n
  BY <1>3 DEF Upto, Remaining
<1>5. bytes + n <= MaxWritten
  <2> HIDE DEF n
  <2>1. n <= Upto(toLog, Remaining)
    BY <1>4 DEF n
  <2>2. QED
    BY <1>4, <2>1, UptoFits
<1> HIDE DEF n
<1>6. base # NoFile
  BY <1>1 DEF LogFits, LengthsFit
<1>7. bytes' = bytes + n
  BY <1>1 DEF WriteOut
<1>8. FilesAreInLine(first, last, ends)'
  BY <1>1, <1>2, <1>4, <1>5, <1>6, WriteOutLine
<1>9. currentLen <= bytes - ends[last] /\ nextPart \in 1..(last + 1)
  BY <1>1, <1>2 DEF CallsFollowFiles
<1>10. currentLen' <= bytes' - ends[last]
  <2>1. ends[last] \in Nat
    BY <1>2
  <2>2. QED
    BY <1>1, <1>3, <1>4, <1>7, <1>9, <2>1
<1>11. CallsFollowFiles(last, ends[last])'
  BY <1>1, <1>9, <1>10 DEF CallsFollowFiles
<1>12. QED
  BY <1>2, <1>8, <1>11 DEF IsLine

LEMMA ReopenBaseLine ==
    ASSUME LogFits, ReopenBase, NEW first, NEW last, NEW ends, IsLine(first, last, ends)
    PROVE  IsLine(first, last, ends)'
<1>1. /\ first \in Nat /\ last \in Nat /\ ends \in [Nat -> Nat]
      /\ FilesAreInLine(first, last, ends) /\ CallsFollowFiles(last, ends[last])
  BY DEF IsLine
<1>2. /\ logPc = "reopen" /\ logPc' = "ready" /\ segments' = segments /\ bytes' = bytes /\ OpenAppend
      /\ currentLen' = 0 /\ nextPart' = nextPart
  BY DEF ReopenBase
<1>3. BaseBytes' = BaseBytes
  BY <1>2, OpenAppendFits
<1>4. FilesAreInLine(first, last, ends)'
  BY <1>1, <1>2, <1>3, LineStays
<1>5. bytes - ends[last] \in Nat
  BY <1>1, LineFacts
<1>6. currentLen' <= bytes' - ends[last]
  BY <1>2, <1>5
<1>7. nextPart \in 1..(last + 1)
  BY <1>1, <1>2 DEF CallsFollowFiles
<1>8. CallsFollowFiles(last, ends[last])'
  BY <1>2, <1>6, <1>7 DEF CallsFollowFiles
<1>9. QED
  BY <1>1, <1>4, <1>8 DEF IsLine

LEMMA LogStopsLine ==
    ASSUME LogFits, LogStops, NEW first, NEW last, NEW ends, IsLine(first, last, ends)
    PROVE  IsLine(first, last, ends)'
<1>1. /\ first \in Nat /\ last \in Nat /\ ends \in [Nat -> Nat]
      /\ FilesAreInLine(first, last, ends)
  BY DEF IsLine
<1>2. logPc' = "off" /\ segments' = segments
  BY DEF LogStops
<1>3. CallsFollowFiles(last, ends[last])'
  BY <1>2 DEF CallsFollowFiles
<1>4. CASE base' = base /\ bytes' = bytes
  <2>1. BaseBytes' = BaseBytes
    BY <1>4 DEF BaseBytes
  <2>2. FilesAreInLine(first, last, ends)'
    BY <1>1, <1>2, <1>4, <2>1, LineStays
  <2>3. QED
    BY <1>1, <1>3, <2>2 DEF IsLine
<1>5. CASE base # NoFile /\ \E n \in Nat : bytes + n <= MaxWritten /\ WriteOut(n)
  <2>1. PICK n \in Nat : bytes + n <= MaxWritten /\ WriteOut(n)
    BY <1>5
  <2>2. FilesAreInLine(first, last, ends)'
    BY <1>1, <1>2, <1>5, <2>1, WriteOutLine
  <2>3. QED
    BY <1>1, <1>3, <2>2 DEF IsLine
<1>6. QED
  BY <1>4, <1>5, StoppedWith

\* The base becomes the part after the last, and ends where all bytes do.
LEMMA RenamedLine ==
    ASSUME LogFits, RenameBase, NEW first, NEW last, NEW ends, IsLine(first, last, ends),
           candidate = last + 1,
           NEW e, e = [ends EXCEPT ![last + 1] = bytes]
    PROVE  IsLine(first, last + 1, e)'
<1>1. /\ first \in Nat /\ last \in Nat /\ ends \in [Nat -> Nat]
      /\ FilesAreInLine(first, last, ends) /\ CallsFollowFiles(last, ends[last])
  BY DEF IsLine
<1>2. logPc = "rename" /\ logPc' = "prune" /\ bytes' = bytes
  BY DEF RenameBase
<1>3. base # NoFile
  BY <1>2 DEF LogFits, LengthsFit
<1>4. /\ segments' = [segments EXCEPT ![last + 1] = base] /\ base' = NoFile /\ nextPart' = last + 2
  <2>1. segments' = [segments EXCEPT ![last + 1] = base] /\ base' = NoFile /\ nextPart' = (last + 1) + 1
    BY <1>3 DEF RenameBase
  <2>2. QED
    BY <1>1, <2>1
<1>5. /\ currentLen <= bytes - ends[last] /\ PartBytes <= currentLen
      /\ PartBytes \in Nat /\ PartBytes > 0 /\ currentLen \in Nat /\ bytes \in Nat
      /\ bytes <= MaxWritten /\ MaxWritten \in Nat
  BY <1>1, <1>2, LogFacts DEF CallsFollowFiles
<1>6. /\ first <= last /\ last <= ends[last] /\ ends[last] \in Nat
      /\ BaseBytes = BytesAfter(ends[last], bytes - ends[last])
      /\ Parts = (first + 1)..last
  BY <1>1, LineFacts
<1>7. /\ ends[last] + PartBytes <= bytes /\ last + 1 <= bytes /\ last + 1 \in Nat
      /\ last + 1 \in PartNumbers
  <2>1. last \in Nat /\ last <= ends[last] /\ ends[last] \in Nat
    BY <1>1, <1>6
  <2>2. ends[last] + PartBytes <= bytes
    BY <1>5, <2>1
  <2>3. last + 1 <= bytes /\ last + 1 \in Nat
    BY <1>5, <2>1, <2>2
  <2>4. last + 1 \in PartNumbers
    <3>1. last + 1 >= 1 /\ last + 1 <= MaxWritten
      BY <1>5, <2>1, <2>3
    <3>2. QED
      BY <2>3, <3>1 DEF PartNumbers
  <2>5. QED
    BY <2>2, <2>3, <2>4
<1>8. /\ e \in [Nat -> Nat] /\ e[last + 1] = bytes /\ \A p \in Nat : p # last + 1 => e[p] = ends[p]
  BY <1>1, <1>5, <1>7
<1>9. \A q \in PartNumbers : segments'[q] = IF q = last + 1 THEN base ELSE segments[q]
  BY <1>4 DEF LogFits, LengthsFit
<1>10. Parts' = (first + 1)..(last + 1)
  <2>1. \A q \in PartNumbers : q \in Parts' <=> q \in Parts \/ q = last + 1
    BY <1>3, <1>9 DEF Parts
  <2>2. Parts' \subseteq PartNumbers /\ Parts \subseteq PartNumbers
    BY DEF Parts
  <2>3. \A q \in Int : q \in (first + 1)..(last + 1) <=> q \in (first + 1)..last \/ q = last + 1
    <3>1. first \in Nat /\ last \in Nat /\ first <= last
      BY <1>1, <1>6
    <3>2. QED
      BY <3>1
  <2>4. PartNumbers \subseteq Int /\ (first + 1)..(last + 1) \subseteq Int
    BY <1>1 DEF PartNumbers
  <2>5. (first + 1)..(last + 1) \subseteq PartNumbers
    BY <1>6, <1>7, <2>2, <2>3, <2>4
  <2>6. QED
    BY <1>6, <1>7, <2>1, <2>2, <2>3, <2>4, <2>5
<1>11. \A q \in (first + 1)..(last + 1) : segments'[q] = BytesAfter(e[q - 1], e[q] - e[q - 1])
  <2> TAKE q \in (first + 1)..(last + 1)
  <2>1. q \in PartNumbers
    BY <1>10 DEF Parts
  <2>2. CASE q = last + 1
    <3>1. segments'[q] = base /\ q - 1 = last /\ e[q] = bytes /\ e[q - 1] = ends[last]
      BY <1>1, <1>8, <1>9, <2>1, <2>2
    <3>2. base = BytesAfter(ends[last], bytes - ends[last])
      BY <1>3, <1>6 DEF BaseBytes
    <3>3. QED
      BY <3>1, <3>2
  <2>3. CASE q # last + 1
    <3>1. q \in (first + 1)..last /\ q \in Nat /\ q - 1 \in Nat /\ q - 1 # last + 1
      BY <1>1, <2>3
    <3>2. segments[q] = BytesAfter(ends[q - 1], ends[q] - ends[q - 1])
      BY <1>1, <3>1 DEF FilesAreInLine
    <3>3. e[q] = ends[q] /\ e[q - 1] = ends[q - 1]
      BY <1>8, <2>3, <3>1
    <3>4. QED
      BY <1>9, <2>1, <2>3, <3>2, <3>3
  <2>4. QED
    BY <2>2, <2>3
<1>12. \A p, q \in first..(last + 1) : p <= q => e[p] + (q - p) * PartBytes <= e[q]
  <2> TAKE p, q \in first..(last + 1)
  <2> HAVE p <= q
  <2>1. p \in Nat /\ q \in Nat
    BY <1>1
  <2>2. CASE q # last + 1
    <3>1. p \in first..last /\ q \in first..last /\ p # last + 1
      BY <1>1, <2>1, <2>2
    <3>2. ends[p] + (q - p) * PartBytes <= ends[q]
      BY <1>1, <3>1 DEF FilesAreInLine
    <3>3. QED
      BY <1>8, <2>1, <2>2, <3>1, <3>2
  <2>3. CASE q = last + 1 /\ p = last + 1
    <3>1. (q - p) * PartBytes = 0
      BY <1>5, <2>1, <2>3
    <3>2. QED
      BY <1>5, <1>8, <2>3, <3>1
  <2>4. CASE q = last + 1 /\ p # last + 1
    <3>1. p \in first..last /\ last \in first..last /\ p <= last
      BY <1>1, <1>6, <2>1, <2>4
    <3>2. ends[p] + (last - p) * PartBytes <= ends[last]
      BY <1>1, <3>1 DEF FilesAreInLine
    <3>3. (q - p) * PartBytes = (last - p) * PartBytes + PartBytes
      <4> DEFINE d == last - p
      <4>1. d \in Nat /\ q - p = d + 1
        BY <1>1, <2>1, <2>4, <3>1
      <4> HIDE DEF d
      <4>2. (d + 1) * PartBytes = d * PartBytes + PartBytes
        BY <1>5, <4>1
      <4>3. QED
        BY <4>1, <4>2 DEF d
    <3>4. e[p] = ends[p] /\ e[q] = bytes /\ ends[p] \in Nat
      BY <1>1, <1>8, <2>1, <2>4
    <3> DEFINE m == (last - p) * PartBytes
    <3>5. m \in Int
      BY <1>1, <1>5, <2>1
    <3> HIDE DEF m
    <3>6. ends[p] + m <= ends[last] /\ (q - p) * PartBytes = m + PartBytes
      BY <3>2, <3>3 DEF m
    <3>7. ends[p] + (m + PartBytes) <= bytes
      BY <1>5, <1>6, <1>7, <3>4, <3>5, <3>6
    <3>8. QED
      BY <3>4, <3>6, <3>7
  <2>5. QED
    BY <2>2, <2>3, <2>4
<1>13. first = 0 => e[0] = 0
  <2>1. first = 0 => ends[0] = 0
    BY <1>1 DEF FilesAreInLine
  <2>2. 0 # last + 1
    BY <1>1
  <2>3. QED
    BY <1>8, <2>1, <2>2
<1>14. BaseBytes' = BytesAfter(e[last + 1], bytes - e[last + 1])
  <2>1. BytesAfter(bytes, 0) = <<>>
    BY <1>5, BytesInTurn
  <2>2. bytes - e[last + 1] = 0
    BY <1>5, <1>8
  <2>3. BaseBytes' = <<>>
    BY <1>4 DEF BaseBytes
  <2>4. QED
    BY <1>8, <2>1, <2>2, <2>3
<1>15. /\ first <= last + 1 /\ last + 1 <= e[last + 1] /\ e[last + 1] <= bytes
       /\ first = 0 \/ (MaxParts > 0 /\ (last + 1) - first >= MaxParts)
  <2>1. first = 0 \/ (MaxParts > 0 /\ last - first >= MaxParts)
    BY <1>1, LineFacts
  <2>2. MaxParts \in Nat
    BY LogFacts
  <2>3. QED
    BY <1>1, <1>5, <1>6, <1>7, <1>8, <2>1, <2>2
<1>16. FilesAreInLine(first, last + 1, e)'
  BY <1>2, <1>10, <1>11, <1>12, <1>13, <1>14, <1>15 DEF FilesAreInLine, BytesAfter
<1>17. nextPart' \in 1..((last + 1) + 1)
  BY <1>1, <1>4
<1>18. CallsFollowFiles(last + 1, e[last + 1])'
  BY <1>2, <1>17 DEF CallsFollowFiles
<1>19. QED
  BY <1>1, <1>7, <1>8, <1>16, <1>18 DEF IsLine

\* The base becomes a part that is free below the others: its number says so.
LEMMA RenamedBelow ==
    ASSUME LogFits, RenameBase, NEW first, NEW last, NEW ends, IsLine(first, last, ends),
           candidate # last + 1
    PROVE  misnumbered'
<1>1. /\ first \in Nat /\ last \in Nat /\ ends \in [Nat -> Nat]
      /\ FilesAreInLine(first, last, ends) /\ CallsFollowFiles(last, ends[last])
  BY DEF IsLine
<1>2. logPc = "rename"
  BY DEF RenameBase
<1>3. base # NoFile
  BY <1>2 DEF LogFits, LengthsFit
<1>4. candidate \in 1..(last + 1) /\ segments[candidate] = NoFile
  BY <1>1, <1>2 DEF CallsFollowFiles
<1>5. candidate \notin Parts
  BY <1>4 DEF Parts
<1>6. /\ first <= last /\ Parts = (first + 1)..last
      /\ first = 0 \/ (MaxParts > 0 /\ last - first >= MaxParts)
  BY <1>1, LineFacts
<1>7. candidate <= first /\ candidate > 0 /\ candidate \in Nat
  BY <1>1, <1>4, <1>5, <1>6
<1>8. last - first > 0
  BY <1>1, <1>6, <1>7, LogFacts
<1>9. last \in Parts /\ candidate < last
  BY <1>1, <1>6, <1>7, <1>8
<1>10. IsAhead(candidate)
  BY <1>9 DEF IsAhead
<1>11. QED
  BY <1>3, <1>10 DEF RenameBase

LEMMA LogInitInv == LogInit => LogInv
<1>1. SUFFICES ASSUME LogInit PROVE LogInv
  OBVIOUS
<1>2. logPc = "off" /\ base = NoFile /\ segments = [p \in PartNumbers |-> NoFile] /\ bytes = 0
  BY <1>1 DEF LogInit
<1> DEFINE e == [p \in Nat |-> 0]
<1>3. e \in [Nat -> Nat] /\ e[0] = 0
  OBVIOUS
<1> HIDE DEF e
<1>4. Parts = {} /\ (0 + 1)..0 = {} /\ 0..0 = {0}
  BY <1>2 DEF Parts
<1>5. BaseBytes = <<>> /\ BytesAfter(0, 0) = <<>> /\ bytes - 0 = 0
  BY <1>2, BytesInTurn DEF BaseBytes
<1>6. \A p, q \in 0..0 : p <= q => e[p] + (q - p) * PartBytes <= e[q]
  <2> TAKE p, q \in 0..0
  <2>1. p = 0 /\ q = 0 /\ q - p = 0
    OBVIOUS
  <2>2. 0 * PartBytes = 0
    BY LogAssumption
  <2>3. QED
    BY <1>3, <2>1, <2>2
<1>7. BaseBytes = BytesAfter(e[0], bytes - e[0]) /\ e[0] <= bytes
  BY <1>2, <1>3, <1>5
<1>8. FilesAreInLine(0, 0, e)
  BY <1>3, <1>4, <1>6, <1>7 DEF FilesAreInLine
<1>9. CallsFollowFiles(0, e[0])
  BY <1>2 DEF CallsFollowFiles
<1>10. IsLine(0, 0, e)
  BY <1>3, <1>8, <1>9 DEF IsLine
<1>11. QED
  BY <1>1, <1>10, LogInitFits, LineOfInv

LEMMA MisnumberedStays == ASSUME LogNext, misnumbered PROVE misnumbered'
BY DEF LogNext, OpenLog, ListParts, Prune, Pruned, LogLine, WriteBytes, StartRotation,
   LookForPart, RenameBase, ReopenBase, LogStops, logFiles

LEMMA LogStepInv == LogInv /\ [LogNext]_logVars => LogInv'
<1>1. SUFFICES ASSUME LogInv, [LogNext]_logVars PROVE LogInv'
  OBVIOUS
<1>2. CASE UNCHANGED logVars
  <2>1. /\ logPc' = logPc /\ base' = base /\ segments' = segments /\ currentLen' = currentLen
        /\ nextPart' = nextPart /\ candidate' = candidate /\ toLog' = toLog /\ bytes' = bytes
        /\ misnumbered' = misnumbered
    BY <1>2 DEF logVars
  <2>2. LogTypeOK' /\ LengthsFit'
    BY <1>1, <2>1 DEF LogInv, LogTypeOK, LengthsFit, Parts, BaseBytes
  <2>3. BaseBytes' = BaseBytes
    BY <2>1 DEF BaseBytes
  <2>4. ASSUME NEW first, NEW last, NEW ends, IsLine(first, last, ends)
        PROVE  IsLine(first, last, ends)'
    <3>1. FilesAreInLine(first, last, ends)'
      BY <2>1, <2>3, <2>4, LineStays DEF IsLine
    <3>2. CallsFollowFiles(last, ends[last])'
      BY <2>1, <2>4 DEF IsLine, CallsFollowFiles
    <3>3. QED
      BY <2>4, <3>1, <3>2 DEF IsLine
  <2>5. misnumbered' \/ \E f, l, e : IsLine(f, l, e)'
    BY <1>1, <2>1, <2>4, LineOfInv
  <2>6. QED
    BY <2>2, <2>5 DEF LogInv, IsLine
<1>3. CASE LogNext
  <2>1. LogFits /\ (misnumbered \/ \E first, last, ends : IsLine(first, last, ends))
    BY <1>1, LineOfInv
  <2>2. LogFits'
    BY <1>3, <2>1, LogStepFits
  <2>4. ASSUME NEW first, NEW last, NEW ends, IsLine(first, last, ends)
        PROVE  misnumbered' \/ \E f, l, e : IsLine(f, l, e)'
    <3>1. CASE RenameBase
      <4>1. PICK e : e = [ends EXCEPT ![last + 1] = bytes]
        OBVIOUS
      <4>2. QED
        BY <2>1, <2>4, <3>1, <4>1, RenamedLine, RenamedBelow
    <3>2. CASE ~RenameBase
      BY <1>3, <2>1, <2>4, <3>2, OpenLogLine, QuietLogLine, PruneLine, WriteBytesLine, ReopenBaseLine,
         LogStopsLine DEF LogNext
    <3>3. QED
      BY <3>1, <3>2
  <2>5. misnumbered' \/ \E f, l, e : IsLine(f, l, e)'
    <3>1. CASE misnumbered
      BY <1>3, <3>1, MisnumberedStays
    <3>2. CASE ~misnumbered
      <4>1. PICK first, last, ends : IsLine(first, last, ends)
        BY <2>1, <3>2
      <4>2. QED
        BY <2>4, <4>1
    <3>3. QED
      BY <3>1, <3>2
  <2>6. QED
    BY <2>2, <2>5 DEF LogInv, LogFits, IsLine
<1>4. QED
  BY <1>1, <1>2, <1>3

\* What is read part by part: nothing before the first, then the bytes in turn, then no more.
ReadUpTo(first, last, ends, p) ==
    IF p <= first THEN <<>>
    ELSE BytesAfter(ends[first], ends[IF p <= last THEN p ELSE last] - ends[first])

IsRead(f) == f = [p \in 0..MaxWritten |->
                    IF p = 0 THEN <<>>
                    ELSE f[p - 1] \o (IF segments[p] = NoFile THEN <<>> ELSE segments[p])]

\* Parts that follow one another end one after the other.
LEMMA EndsInTurn ==
    ASSUME LogFits, NEW first \in Nat, NEW last \in Nat, NEW ends \in [Nat -> Nat],
           FilesAreInLine(first, last, ends), NEW p \in Nat, NEW q \in Nat, first <= p, p <= q, q <= last
    PROVE  ends[p] <= ends[q]
<1>1. ends[p] + (q - p) * PartBytes <= ends[q]
  <2>1. p \in first..last /\ q \in first..last
    OBVIOUS
  <2>2. QED
    BY <2>1 DEF FilesAreInLine
<1>2. ends[p] \in Nat /\ ends[q] \in Nat
  OBVIOUS
<1>3. (q - p) * PartBytes \in Nat
  <2>1. PartBytes \in Nat /\ q - p \in Nat
    BY LogFacts
  <2>2. QED
    BY <2>1
<1>4. QED
  BY <1>1, <1>2, <1>3

LEMMA ReadOneMore ==
    ASSUME LogFits, NEW first \in Nat, NEW last \in Nat, NEW ends \in [Nat -> Nat],
           FilesAreInLine(first, last, ends), NEW p \in 1..MaxWritten
    PROVE  ReadUpTo(first, last, ends, p) =
             ReadUpTo(first, last, ends, p - 1) \o (IF segments[p] = NoFile THEN <<>> ELSE segments[p])
<1>1. first <= last /\ Parts = (first + 1)..last
  BY LineFacts
<1>4. first <= last
  BY <1>1
<1>2. p \in Nat /\ p - 1 \in Nat /\ p >= 1 /\ (p - 1) + 1 = p
  BY LogAssumption
<1>3. ends[p - 1] \in Nat /\ ends[p] \in Nat /\ ends[first] \in Nat /\ ends[last] \in Nat
  BY <1>2
<1>5. p \in Parts <=> segments[p] # NoFile
  BY DEF Parts, PartNumbers
<1>6. CASE p <= first
  <2>1. p \notin Parts /\ p - 1 <= first
    BY <1>1, <1>2, <1>6
  <2>2. ReadUpTo(first, last, ends, p) = <<>> /\ ReadUpTo(first, last, ends, p - 1) = <<>>
    BY <1>6, <2>1 DEF ReadUpTo
  <2>3. <<>> \o <<>> = <<>>
    OBVIOUS
  <2>4. QED
    BY <1>5, <2>1, <2>2, <2>3
<1>7. CASE first < p /\ p <= last
  <2>1. p \in (first + 1)..last /\ first <= p - 1 /\ p - 1 <= last
    BY <1>2, <1>7
  <2>2. segments[p] # NoFile
    BY <1>1, <1>5, <2>1
  <2>9. segments[p] = BytesAfter(ends[p - 1], ends[p] - ends[p - 1])
    BY <2>1 DEF FilesAreInLine
  <2>3. ReadUpTo(first, last, ends, p) = BytesAfter(ends[first], ends[p] - ends[first])
    BY <1>2, <1>7 DEF ReadUpTo
  <2>4. ends[first] <= ends[p - 1] /\ ends[p - 1] <= ends[p]
    <3>1. first <= first /\ p - 1 <= p
      BY <1>2
    <3>2. QED
      BY <1>2, <1>7, <2>1, <3>1, EndsInTurn
  <2>5. ReadUpTo(first, last, ends, p - 1) = BytesAfter(ends[first], ends[p - 1] - ends[first])
    <3>1. CASE p - 1 = first
      <4>1. ends[p - 1] - ends[first] = 0
        BY <1>3, <3>1
      <4>2. BytesAfter(ends[first], 0) = <<>>
        BY <1>3, BytesInTurn
      <4>3. p - 1 <= first
        BY <3>1
      <4>4. QED
        BY <4>1, <4>2, <4>3 DEF ReadUpTo
    <3>2. CASE p - 1 # first
      <4>1. ~(p - 1 <= first)
        BY <1>2, <2>1, <3>2
      <4>2. QED
        BY <2>1, <4>1 DEF ReadUpTo
    <3>3. QED
      BY <3>1, <3>2
  <2> DEFINE start == ends[first]
             n == ends[p - 1] - ends[first]
             k == ends[p] - ends[p - 1]
  <2>6. start \in Nat /\ n \in Nat /\ k \in Nat /\ ends[p - 1] = start + n /\ ends[p] - ends[first] = n + k
    BY <1>3, <2>4
  <2>7. BytesAfter(start, n) \o BytesAfter(start + n, k) = BytesAfter(start, n + k)
    <3> HIDE DEF start, n, k
    <3>1. QED
      BY <2>6, BytesGoOn, Zenon
  <2>8. segments[p] = BytesAfter(start + n, k)
    BY <2>6, <2>9
  <2> HIDE DEF n, k
  <2>10. ReadUpTo(first, last, ends, p) = BytesAfter(start, n + k)
    BY <2>3, <2>6
  <2>11. ReadUpTo(first, last, ends, p - 1) = BytesAfter(start, n)
    BY <2>5 DEF n
  <2>12. QED
    BY <2>2, <2>7, <2>8, <2>10, <2>11
<1>8. CASE p > last
  <2>5. ~(p <= last) /\ ~(p <= first)
    BY <1>2, <1>4, <1>8
  <2>1. p \notin Parts /\ segments[p] = NoFile
    <3>1. p \notin (first + 1)..last
      BY <1>2, <2>5
    <3>2. p \notin Parts
      BY <1>1, <3>1
    <3>3. QED
      BY <1>5, <3>2
  <2>2. ReadUpTo(first, last, ends, p) = ReadUpTo(first, last, ends, p - 1)
    <3>1. CASE p - 1 <= last /\ ~(p - 1 <= first)
      <4>1. p - 1 = last /\ ~(p <= first) /\ ~(p <= last)
        BY <1>1, <1>2, <1>8, <3>1
      <4>2. QED
        BY <3>1, <4>1 DEF ReadUpTo
    <3>2. CASE p - 1 <= first
      <4>1. p - 1 = first /\ first = last
        BY <1>2, <1>4, <1>8, <3>2
      <4>2. ~(p <= first) /\ ~(p <= last) /\ ends[last] - ends[first] = 0
        BY <1>2, <1>3, <4>1
      <4>3. BytesAfter(ends[first], 0) = <<>>
        BY <1>3, BytesInTurn
      <4>4. QED
        BY <3>2, <4>2, <4>3 DEF ReadUpTo
    <3>3. CASE ~(p - 1 <= last)
      <4>1. ~(p - 1 <= first) /\ ~(p <= first) /\ ~(p <= last)
        BY <1>2, <1>4, <1>8, <2>5, <3>3
      <4>2. QED
        BY <3>3, <4>1 DEF ReadUpTo
    <3>4. QED
      BY <3>1, <3>2, <3>3
  <2>3. ReadUpTo(first, last, ends, p) \o <<>> = ReadUpTo(first, last, ends, p)
    <3>1. ~(p <= first) /\ ~(p <= last)
      BY <1>1, <1>2, <1>8
    <3>2. ReadUpTo(first, last, ends, p) = BytesAfter(ends[first], ends[last] - ends[first])
      BY <3>1 DEF ReadUpTo
    <3>3. ends[first] <= ends[last]
      BY LineFacts
    <3>4. ends[last] - ends[first] \in Nat
      BY <1>3, <3>3
    <3>5. BytesAfter(ends[first], ends[last] - ends[first]) \o <<>> = BytesAfter(ends[first], ends[last] - ends[first])
      BY <1>3, <3>4, BytesGoOn, Zenon
    <3>6. QED
      BY <3>2, <3>5
  <2>4. QED
    BY <2>1, <2>2, <2>3
<1>9. p <= first \/ (first < p /\ p <= last) \/ p > last
  BY <1>2
<1>10. QED
  BY <1>6, <1>7, <1>8, <1>9, Zenon

\* The log is read as the bytes after those of the parts that are gone.
LEMMA ReadAsBytes ==
    ASSUME LogFits, NEW first \in Nat, NEW last \in Nat, NEW ends \in [Nat -> Nat],
           FilesAreInLine(first, last, ends)
    PROVE  Readable = BytesAfter(ends[first], bytes - ends[first])
<1>1. /\ first <= last /\ bytes - ends[last] \in Nat /\ ends[last] \in Nat
      /\ BaseBytes = BytesAfter(ends[last], bytes - ends[last])
      /\ ends[first] \in Nat /\ ends[first] <= ends[last]
  BY LineFacts
<1>15. MaxWritten \in Nat /\ bytes \in Nat /\ bytes <= MaxWritten
  BY LogFacts
<1>16. last <= MaxWritten
  <2>1. last <= ends[last] /\ ends[last] <= bytes /\ ends[last] \in Nat
    BY LineFacts
  <2>2. QED
    BY <1>15, <2>1
<1> DEFINE g == [p \in 0..MaxWritten |-> ReadUpTo(first, last, ends, p)]
           f == CHOOSE h : IsRead(h)
<1>2. IsRead(g)
  <2>1. \A p \in 0..MaxWritten : g[p] = ReadUpTo(first, last, ends, p)
    OBVIOUS
  <2>2. ReadUpTo(first, last, ends, 0) = <<>>
    BY DEF ReadUpTo
  <2>3. \A p \in 1..MaxWritten : p \in 0..MaxWritten /\ p - 1 \in 0..MaxWritten
    BY <1>15
  <2>4. \A p \in 1..MaxWritten :
           g[p] = g[p - 1] \o (IF segments[p] = NoFile THEN <<>> ELSE segments[p])
    <3> HIDE DEF g
    <3>1. QED
      BY <2>1, <2>3, ReadOneMore
  <2>5. \A p \in 0..MaxWritten :
           g[p] = IF p = 0 THEN <<>>
                  ELSE g[p - 1] \o (IF segments[p] = NoFile THEN <<>> ELSE segments[p])
    <3> HIDE DEF g
    <3> TAKE p \in 0..MaxWritten
    <3>1. CASE p = 0
      BY <2>1, <2>2, <3>1
    <3>2. CASE p # 0
      <4>1. p \in 1..MaxWritten
        BY <1>15, <3>2
      <4>2. QED
        BY <2>4, <3>2, <4>1
    <3>3. QED
      BY <3>1, <3>2
  <2>6. g = [p \in 0..MaxWritten |-> g[p]]
    OBVIOUS
  <2> HIDE DEF g
  <2>7. QED
    BY <2>5, <2>6 DEF IsRead
<1>3. Readable = f[MaxWritten] \o BaseBytes
  BY DEF Readable, IsRead
<1>4. IsRead(f)
  BY <1>2
<1> HIDE DEF f, g
<1> DEFINE Same == {p \in Nat : p <= MaxWritten => f[p] = g[p]}
<1>5. \A p \in 0..MaxWritten :
         /\ f[p] = IF p = 0 THEN <<>> ELSE f[p - 1] \o (IF segments[p] = NoFile THEN <<>> ELSE segments[p])
         /\ g[p] = IF p = 0 THEN <<>> ELSE g[p - 1] \o (IF segments[p] = NoFile THEN <<>> ELSE segments[p])
  BY <1>2, <1>4 DEF IsRead
<1>6. 0 \in Same
  BY <1>5, <1>15
<1>7. \A p \in Nat : p \in Same => p + 1 \in Same
  <2> TAKE p \in Nat
  <2> HAVE p \in Same
  <2>1. SUFFICES ASSUME p + 1 <= MaxWritten PROVE f[p + 1] = g[p + 1]
    OBVIOUS
  <2>2. p + 1 \in 0..MaxWritten /\ p + 1 # 0 /\ (p + 1) - 1 = p /\ p <= MaxWritten
    BY <1>15, <2>1
  <2>3. f[p] = g[p]
    BY <2>2
  <2>4. QED
    BY <1>5, <2>2, <2>3
<1>8. MaxWritten \in Same
  <2> HIDE DEF Same
  <2>1. QED
    BY <1>6, <1>7, <1>15, NumbersUpwards
<1>9. f[MaxWritten] = ReadUpTo(first, last, ends, MaxWritten)
  <2>1. MaxWritten \in 0..MaxWritten /\ MaxWritten <= MaxWritten
    BY <1>15
  <2>2. g[MaxWritten] = ReadUpTo(first, last, ends, MaxWritten)
    BY <2>1 DEF g
  <2>3. QED
    BY <1>8, <2>1, <2>2
<1>10. ReadUpTo(first, last, ends, MaxWritten) = BytesAfter(ends[first], ends[last] - ends[first])
  <2>1. CASE MaxWritten <= first
    <3>1. first = last
      BY <1>1, <1>15, <1>16, <2>1
    <3>2. ends[last] - ends[first] = 0
      BY <1>1, <3>1
    <3>3. BytesAfter(ends[first], 0) = <<>>
      BY <1>1, BytesInTurn
    <3>4. QED
      BY <2>1, <3>2, <3>3 DEF ReadUpTo
  <2>2. CASE ~(MaxWritten <= first)
    <3>1. MaxWritten <= last => MaxWritten = last
      BY <1>15, <1>16
    <3>2. QED
      BY <2>2, <3>1 DEF ReadUpTo
  <2>3. QED
    BY <2>1, <2>2
<1> DEFINE start == ends[first]
           n == ends[last] - ends[first]
           k == bytes - ends[last]
<1>11. start \in Nat /\ n \in Nat /\ k \in Nat /\ ends[last] = start + n /\ bytes - ends[first] = n + k
  BY <1>1, <1>15
<1>12. BytesAfter(start, n) \o BytesAfter(start + n, k) = BytesAfter(start, n + k)
  <2> HIDE DEF start, n, k
  <2>1. QED
    BY <1>11, BytesGoOn, Zenon
<1>13. Readable = BytesAfter(start, n) \o BytesAfter(ends[last], k)
  BY <1>1, <1>3, <1>9, <1>10
<1> HIDE DEF n, k
<1>14. QED
  BY <1>11, <1>12, <1>13

LEMMA IsKept ==
    ASSUME NEW n \in Nat, NEW m \in Nat, m = bytes, MaxParts \in Nat, PartBytes \in Nat,
           n = m \/ (MaxParts > 0 /\ n >= MaxParts * PartBytes)
    PROVE  n >= Kept
<1>1. MaxParts * PartBytes \in Nat
  OBVIOUS
<1>2. QED
  BY <1>1 DEF Kept, Upto

LEMMA LogInvKeeps == LogInv => NewestBytesKept
<1>1. SUFFICES ASSUME LogInv, ~misnumbered PROVE NewestSegmentsKept
  BY DEF NewestBytesKept
<1>2. LogFits
  BY <1>1, LineOfInv
<1>3. PICK first, last, ends : IsLine(first, last, ends)
  BY <1>1, LineOfInv
<1>4. /\ first \in Nat /\ last \in Nat /\ ends \in [Nat -> Nat]
      /\ FilesAreInLine(first, last, ends)
  BY <1>3 DEF IsLine
<1>5. /\ first <= last /\ ends[last] \in Nat /\ ends[first] \in Nat /\ ends[last] <= bytes
      /\ ends[first] <= ends[last]
      /\ first = 0 \/ (MaxParts > 0 /\ last - first >= MaxParts)
  BY <1>2, <1>4, LineFacts
<1>6. bytes \in Nat /\ MaxParts \in Nat /\ PartBytes \in Nat
  BY <1>2, LogFacts
<1> DEFINE n == bytes - ends[first]
<1>7. n \in Nat /\ bytes - n = ends[first]
  BY <1>5, <1>6
<1>8. n = bytes \/ (MaxParts > 0 /\ n >= MaxParts * PartBytes)
  <2>1. CASE first = 0
    <3>1. ends[first] = 0
      BY <1>4, <2>1 DEF FilesAreInLine
    <3>2. QED
      BY <1>6, <3>1
  <2>2. CASE MaxParts > 0 /\ last - first >= MaxParts
    <3>1. first \in first..last /\ last \in first..last
      BY <1>4, <1>5
    <3>2. ends[first] + (last - first) * PartBytes <= ends[last]
      BY <1>4, <1>5, <3>1 DEF FilesAreInLine
    <3> DEFINE d == last - first
    <3>3. d \in Nat /\ d >= MaxParts
      BY <1>4, <1>5, <2>2
    <3> HIDE DEF d
    <3>4. d * PartBytes >= MaxParts * PartBytes /\ d * PartBytes \in Nat /\ MaxParts * PartBytes \in Nat
      BY <1>6, <3>3
    <3>5. ends[first] + d * PartBytes <= ends[last]
      BY <3>2 DEF d
    <3>6. n >= MaxParts * PartBytes
      BY <1>5, <1>6, <3>4, <3>5
    <3>7. QED
      BY <2>2, <3>6
  <2>3. QED
    BY <1>5, <2>1, <2>2
<1>9. n >= Kept
  <2> HIDE DEF n
  <2>1. QED
    BY <1>6, <1>7, <1>8, IsKept
<1>10. Readable = BytesAfter(ends[first], n)
  BY <1>2, <1>4, ReadAsBytes
<1> HIDE DEF n
<1>11. Len(Readable) = n
  BY <1>5, <1>7, <1>10, BytesInTurn
<1>12. Readable = [i \in 1..n |-> bytes - n + i]
  BY <1>7, <1>10 DEF BytesAfter
<1>13. QED
  BY <1>9, <1>11, <1>12 DEF NewestSegmentsKept

==============================================================================
