----------------------------- MODULE PeersProofs -----------------------------
(*****************************************************************************)
(* The parts of MCPeers together, from the invariants of PeerPartsProofs.    *)
(*****************************************************************************)
EXTENDS MCPeers, PeerPartsProofs

(***************************************************************************)
(* The parts together: only the one that was chosen moves, so each keeps   *)
(* its own invariant.                                                      *)
(***************************************************************************)
PartsInv ==
    /\ On("gate") => TrustGateInv
    /\ On("github") => GithubFetchInv
    /\ On("body") => HttpBodyInv
    /\ On("pushed") => PushedInv
    /\ On("action") => ActionInv
    /\ On("sinks") => SinkInv
    /\ On("inbox") => InboxInv
    /\ On("log") => LogInv

LEMMA PeersInitInv == PeersInit => PartsInv
<1>1. SUFFICES ASSUME PeersInit PROVE PartsInv
  OBVIOUS
<1>2. /\ On("gate") => TrustGateInit
      /\ On("github") => GithubFetchInit
      /\ On("body") => HttpBodyInit
      /\ On("pushed") => PushedBotsInit
      /\ On("action") => ActionRunInit
      /\ On("sinks") => SinkSendInit
      /\ On("inbox") => WecomInboxInit
      /\ On("log") => LogInit
  BY <1>1 DEF PeersInit
<1>3. QED
  BY <1>2, TrustGateInitInv, GithubFetchInitInv, HttpBodyInitInv, PushedInitInv,
     ActionInitInv, SinkInitInv, InboxInitInv, LogInitInv DEF PartsInv

\* A part is moved by its own steps only.
LEMMA PartMoves ==
    ASSUME [PeersNext]_peersVars
    PROVE  /\ part' = part
           /\ On("gate") => [TrustGateNext]_gateVars
           /\ On("github") => [GithubFetchNext]_fetch
           /\ On("body") => [HttpBodyNext]_bodyVars
           /\ On("pushed") => [PushedBotsNext]_pushedVars
           /\ On("action") => [ActionRunNext]_actionVars
           /\ On("sinks") => [SinkSendNext]_delivery
           /\ On("inbox") => [WecomInboxNext]_inboxVars
           /\ On("log") => [LogNext]_logVars
<1>1. CASE UNCHANGED peersVars
  BY <1>1 DEF peersVars
<1>2. CASE PeersNext
  BY <1>2 DEF PeersNext, On
<1>3. QED
  BY <1>1, <1>2

LEMMA PeersStepInv == PartsInv /\ [PeersNext]_peersVars => PartsInv'
<1>1. SUFFICES ASSUME PartsInv, [PeersNext]_peersVars PROVE PartsInv'
  OBVIOUS
<1>2. /\ part' = part
      /\ On("gate") => [TrustGateNext]_gateVars
      /\ On("github") => [GithubFetchNext]_fetch
      /\ On("body") => [HttpBodyNext]_bodyVars
      /\ On("pushed") => [PushedBotsNext]_pushedVars
      /\ On("action") => [ActionRunNext]_actionVars
      /\ On("sinks") => [SinkSendNext]_delivery
      /\ On("inbox") => [WecomInboxNext]_inboxVars
      /\ On("log") => [LogNext]_logVars
  BY <1>1, PartMoves
<1>3. \A name : On(name)' <=> On(name)
  BY <1>2 DEF On
<1>4. On("gate") => TrustGateInv'
  BY <1>1, <1>2, TrustGateStepInv DEF PartsInv
<1>5. On("github") => GithubFetchInv'
  BY <1>1, <1>2, GithubFetchStepInv DEF PartsInv
<1>6. On("body") => HttpBodyInv'
  BY <1>1, <1>2, HttpBodyStepInv DEF PartsInv
<1>7. On("pushed") => PushedInv'
  BY <1>1, <1>2, PushedStepInv DEF PartsInv
<1>8. On("action") => ActionInv'
  BY <1>1, <1>2, ActionStepInv DEF PartsInv
<1>9. On("sinks") => SinkInv'
  BY <1>1, <1>2, SinkStepInv DEF PartsInv
<1>10. On("inbox") => InboxInv'
  BY <1>1, <1>2, InboxStepInv DEF PartsInv
<1>11. On("log") => LogInv'
  BY <1>1, <1>2, LogStepInv DEF PartsInv
<1>12. QED
  BY <1>3, <1>4, <1>5, <1>6, <1>7, <1>8, <1>9, <1>10, <1>11 DEF PartsInv

(***************************************************************************)
(* Nothing is sent to a host that the policy of the manager, or the scope  *)
(* of the sink, does not allow, a release's token goes to trusted hosts    *)
(* only and its bases are asked in turn, no more of a body is kept than    *)
(* was asked for, and a message is called sent when it was taken.          *)
(***************************************************************************)
THEOREM OutboundStaysKept == PeersSpec => []OutboundIsKept
<1>1. PartsInv => OutboundIsKept
  BY TrustGateInvKeeps, GithubFetchInvKeeps, HttpBodyInvBounds DEF PartsInv, OutboundIsKept, SinkInv
<1>2. QED
  BY <1>1, PeersInitInv, PeersStepInv, PTL DEF PeersSpec

(***************************************************************************)
(* The log is the newest bytes, in order and without a gap; an envelope is *)
(* let in once, while its key has room; and a comment is answered once.    *)
(***************************************************************************)
THEOREM InputStaysTakenOnce == PeersSpec => []InputIsTakenOnce
<1>1. PartsInv => InputIsTakenOnce
  BY LogInvKeeps DEF PartsInv, InputIsTakenOnce, InboxInv, ActionInv
<1>2. QED
  BY <1>1, PeersInitInv, PeersStepInv, PTL DEF PeersSpec

(***************************************************************************)
(* Each bot that is pushed its messages answers them where they were       *)
(* asked, in their order, and over a restart.                              *)
(***************************************************************************)
THEOREM PushedChatsStayAnswered == PeersSpec => []PushedChatsAnswered
<1>1. PartsInv => PushedChatsAnswered
  BY PushedInvServes DEF PartsInv, PushedChatsAnswered
<1>2. QED
  BY <1>1, PeersInitInv, PeersStepInv, PTL DEF PeersSpec

==============================================================================
