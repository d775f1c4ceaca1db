------------------------------- MODULE WecomInbox -------------------------------
(*****************************************************************************)
(* The webhook of notify-kit/bots/opencode-wecom/src/index.mjs: which        *)
(* envelopes are let through to the chats.  The server stamps an envelope    *)
(* with its own clock and delivers it as often as it likes, late or not at   *)
(* all; the bot takes it while the stamp is fresh and not remembered.        *)
(*                                                                           *)
(* A fault says what an envelope would fail by.  Keys are remembered as a    *)
(* sequence, oldest first.  The server's clock is at most Ahead in front of  *)
(* the bot's; a stamp further ahead than the window is not fresh yet.        *)
(*****************************************************************************)
EXTENDS Integers, Sequences, FiniteSets, SequencesExt

CONSTANTS Nonces,
          EnvelopeFaults,        \* "none" and those of POST, in the order of the checks
          Window,        \* REPLAY_WINDOW_SECONDS
          KeepFor,       \* REPLAY_CACHE_TTL_MS
          CleanEvery,    \* REPLAY_CLEANUP_INTERVAL_MS
          MaxRemembered, \* REPLAY_CACHE_MAX_ENTRIES
          Ahead,         \* how far the server's clock is in front
          MaxMail,       \* bound on the envelopes
          MaxClock       \* bound on the time

ASSUME WecomInboxAssumption ==
    /\ Window \in Nat \ {0} /\ KeepFor = 2 * Window /\ Ahead \in Nat
    /\ {CleanEvery, MaxRemembered} \subseteq Nat \ {0} /\ MaxMail \in Nat /\ MaxClock \in Nat \ {0}
    /\ "none" \in EnvelopeFaults

VARIABLES
    now,
    mail,       \* the envelopes, [stamp, nonce, fault]
    remembered, \* replayCache: [key, until], in order of insertion
    cleanedAt,  \* replayLastCleanupMs
    letIn,      \* history: how often each envelope was let through, 3 for more than twice
    early,      \* history: those let through when their stamp was a whole window ahead
    tried,      \* history: the envelopes that were delivered while fresh
    crowded     \* history: a key was dropped for room

inboxVars == <<now, mail, remembered, cleanedAt, letIn, early, tried, crowded>>

WecomInboxInit ==
    /\ now = 1 /\ mail = <<>> /\ remembered = <<>> /\ cleanedAt = 0
    /\ letIn = <<>> /\ early = {} /\ tried = {} /\ crowded = FALSE

TimePasses ==
    /\ now < MaxClock /\ now' = now + 1
    /\ UNCHANGED <<mail, remembered, cleanedAt, letIn, early, tried, crowded>>

\* the server makes an envelope
Mails(nonce, fault, ahead) ==
    /\ Len(mail) < MaxMail
    /\ mail' = Append(mail, [stamp |-> now + ahead, nonce |-> nonce, fault |-> fault])
    /\ letIn' = Append(letIn, 0)
    /\ UNCHANGED <<now, remembered, cleanedAt, early, tried, crowded>>

EnvelopeKey(e) == <<e.stamp, e.nonce>>

IsFresh(e) == e.stamp - now <= Window /\ now - e.stamp <= Window

\* the signature is over the token, the stamp, the nonce and the cipher text
IsSigned(e) == e.fault # "signature"

\* the loop ends at the first entry that has not expired
Unexpired(cache) ==
    IF \E i \in DOMAIN cache : cache[i].until > now
      THEN SubSeq(cache, CHOOSE i \in DOMAIN cache :
                           cache[i].until > now /\ \A j \in 1..(i - 1) : cache[j].until <= now,
                  Len(cache))
      ELSE <<>>

CleanupIsDue == now - cleanedAt >= CleanEvery
Cleaned == IF CleanupIsDue THEN Unexpired(remembered) ELSE remembered

HoldsKey(cache, key) == \E i \in DOMAIN cache : cache[i].key = key

\* What a bug would do: keys are kept for the window, not for twice the window.
AddedBriefly(cache, key) == Append(cache, [key |-> key, until |-> now + Window])
Added(cache, key) == Append(cache, [key |-> key, until |-> now + KeepFor])

Newest(cache) == IF Len(cache) > MaxRemembered
                   THEN SubSeq(cache, Len(cache) - MaxRemembered + 1, Len(cache))
                   ELSE cache

\* One more, of as many as are told apart.
LetInAgain(n) == IF n = 3 THEN 3 ELSE n + 1

\* decryptWeCom, the receiver and the inner XML; by then the key is remembered
IsReadable(e) == e.fault \notin {"cipher", "receiver"}

(***************************************************************************)
(* POST: parameters, body, payload, stamp, nonce and signature are checked *)
(* first; then the key is looked up and remembered in the same turn.       *)
(***************************************************************************)
TurnedAway(m) ==
    /\ ~(mail[m].fault \in {"none", "cipher", "receiver"} /\ IsFresh(mail[m]) /\ IsSigned(mail[m]))
    /\ UNCHANGED inboxVars

Delivered(m) ==
    LET e == mail[m]
        after == Added(Cleaned, EnvelopeKey(e))
    IN /\ e.fault \in {"none", "cipher", "receiver"} /\ IsFresh(e) /\ IsSigned(e)
       /\ cleanedAt' = IF CleanupIsDue THEN now ELSE cleanedAt
       /\ tried' = tried \cup {m}
       /\ IF HoldsKey(Cleaned, EnvelopeKey(e))
            THEN remembered' = Cleaned /\ UNCHANGED <<letIn, early, crowded>>
            ELSE /\ remembered' = Newest(after)
                 /\ crowded' = (crowded \/ Len(after) > MaxRemembered)
                 /\ letIn' = IF IsReadable(e) THEN [letIn EXCEPT ![m] = LetInAgain(@)] ELSE letIn
                 /\ early' = IF IsReadable(e) /\ e.stamp = now + Window THEN early \cup {m} ELSE early
       /\ UNCHANGED <<now, mail>>

\* GET: the address is verified, and nothing is remembered
VerifiesAddress(m) ==
    /\ mail[m].fault # "params" /\ IsSigned(mail[m]) /\ IsReadable(mail[m])
    /\ UNCHANGED inboxVars

WecomInboxNext ==
    \/ TimePasses
    \/ \E nonce \in Nonces, fault \in EnvelopeFaults, ahead \in 0..Ahead : Mails(nonce, fault, ahead)
    \/ \E m \in DOMAIN mail : Delivered(m) \/ TurnedAway(m) \/ VerifiesAddress(m)

WecomInboxSpec == WecomInboxInit /\ [][WecomInboxNext]_inboxVars

-----------------------------------------------------------------------------
\* Types, and the bound of the cache.
WecomInboxTypeOK ==
    /\ now \in 1..MaxClock /\ cleanedAt \in 0..now /\ crowded \in BOOLEAN
    /\ mail \in Seq([stamp : Nat, nonce : Nonces, fault : EnvelopeFaults])
    /\ letIn \in Seq(0..3) /\ Len(letIn) = Len(mail)
    /\ early \subseteq DOMAIN mail /\ tried \subseteq DOMAIN mail
    /\ remembered \in Seq([key : Nat \X Nonces, until : Nat])
    /\ Len(remembered) <= MaxRemembered

\* An envelope is let through at most once, however often and late it comes, while the cache has
\* room; twice at most if its stamp was a whole window ahead of the bot's clock, since the key is
\* then forgotten at the end of the last moment in which the stamp is fresh.  Only sound ones are,
\* and one whose key is its own is let through the first time it is fresh.  (Two envelopes with
\* the same stamp and nonce are one to the bot.)
EnvelopesAreTakenOnce ==
    \A m \in DOMAIN mail :
      /\ letIn[m] > 0 => mail[m].fault = "none"
      /\ ~crowded => letIn[m] <= IF m \in early THEN 2 ELSE 1
      /\ m \in tried /\ mail[m].fault = "none" /\ letIn[m] = 0
           => \E n \in tried \ {m} : EnvelopeKey(mail[n]) = EnvelopeKey(mail[m])

-----------------------------------------------------------------------------
\* Why: a key that is remembered is that of an envelope that came; and the key of an envelope
\* that was let through is remembered for as long as its stamp is fresh, up to the last moment
\* if the stamp was a whole window ahead.
KeysAreOfTheTried ==
    \A i \in DOMAIN remembered : \E m \in tried : EnvelopeKey(mail[m]) = remembered[i].key
IsKeptFor(cache, e) ==
    \E i \in DOMAIN cache : cache[i].key = EnvelopeKey(e) /\ cache[i].until > e.stamp + Window
IsKeptUntil(cache, e) ==
    \E i \in DOMAIN cache : cache[i].key = EnvelopeKey(e) /\ cache[i].until >= e.stamp + Window
FreshOnesAreKept ==
    \A m \in DOMAIN mail :
        letIn[m] > 0 /\ ~crowded =>
          \/ now > mail[m].stamp + Window \/ IsKeptFor(remembered, mail[m])
          \/ /\ m \in early /\ letIn[m] = 1
             /\ now >= mail[m].stamp + Window \/ IsKeptUntil(remembered, mail[m])

InboxInv ==
    /\ WecomInboxTypeOK /\ EnvelopesAreTakenOnce
    /\ KeysAreOfTheTried /\ FreshOnesAreKept

=============================================================================
