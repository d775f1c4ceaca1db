---------------------------- MODULE TenantToken ----------------------------
(****************************************************************************)
(* The tenant access token of FeishuWebhookSink                             *)
(* (notify-kit/src/sinks/feishu/media.rs): image uploads share one cached   *)
(* token, one of them fetches it while the others wait on a Notify, and a   *)
(* guard resets the state when the fetching future is dropped.  The guard's *)
(* drop cannot await the lock, so the reset is a task, or a thread, that    *)
(* runs some time later.  The state is read under the lock, the lock is     *)
(* released, and the state is read again before the fetch is announced.     *)
(****************************************************************************)
EXTENDS FiniteSets

CONSTANTS Uploads,      \* uploads of an image; each may fetch one token
          NoUpload,
          RuntimeStops  \* whether the runtime of a dropped fetch may stop with it

ASSUME TenantTokenAssumption == NoUpload \notin Uploads /\ RuntimeStops \in BOOLEAN

VARIABLES
    tokenState,  \* TenantAccessTokenState: the kind, and who fetches or fetched
    expired,     \* tokens whose expires_at is over
    uploadPc,    \* where each upload is
    waitsOn,     \* whose Notify it has registered with
    resets,      \* guards dropped whose reset has still to run
    token,       \* the token each upload was given, by who fetched it
    rejected     \* tokens an upload was refused with, and has discarded

tokenVars == <<tokenState, expired, uploadPc, waitsOn, resets, token, rejected>>

Empty == [kind |-> "empty", by |-> NoUpload]
Ready(u) == [kind |-> "ready", by |-> u]
Refreshing(u) == [kind |-> "refreshing", by |-> u]

TenantTokenTypeOK ==
    /\ tokenState \in {Empty} \cup {Ready(u) : u \in Uploads} \cup {Refreshing(u) : u \in Uploads}
    /\ expired \subseteq Uploads /\ rejected \subseteq Uploads /\ resets \subseteq Uploads
    /\ uploadPc \in [Uploads -> {"idle", "looking", "claiming", "waiting", "fetching",
                                 "uploading", "discarding", "done"}]
    /\ waitsOn \in [Uploads -> Uploads \cup {NoUpload}]
    /\ token \in [Uploads -> Uploads \cup {NoUpload}]

TenantTokenInit ==
    /\ tokenState = Empty
    /\ expired = {} /\ rejected = {} /\ resets = {}
    /\ uploadPc = [u \in Uploads |-> "idle"]
    /\ waitsOn = [u \in Uploads |-> NoUpload]
    /\ token = [u \in Uploads |-> NoUpload]

Usable == tokenState.kind = "ready" /\ tokenState.by \notin expired

\* what a locked look at the state leads to: the cached token, a wait, or the
\* next step
TakesCached(u) ==
    /\ Usable
    /\ uploadPc' = [uploadPc EXCEPT ![u] = "uploading"]
    /\ token' = [token EXCEPT ![u] = tokenState.by]
    /\ UNCHANGED <<waitsOn, tokenState>>

\* the waiter is enabled before the lock is released
Registers(u) ==
    /\ tokenState.kind = "refreshing"
    /\ uploadPc' = [uploadPc EXCEPT ![u] = "waiting"]
    /\ waitsOn' = [waitsOn EXCEPT ![u] = tokenState.by]
    /\ UNCHANGED <<token, tokenState>>

Starts(u) ==
    /\ uploadPc[u] = "idle"
    /\ uploadPc' = [uploadPc EXCEPT ![u] = "looking"]
    /\ UNCHANGED <<tokenState, expired, waitsOn, resets, token, rejected>>

Looks(u) ==
    /\ uploadPc[u] = "looking"
    /\ \/ TakesCached(u)
       \/ Registers(u)
       \/ /\ ~Usable /\ tokenState.kind # "refreshing"
          /\ uploadPc' = [uploadPc EXCEPT ![u] = "claiming"]
          /\ UNCHANGED <<token, waitsOn, tokenState>>
    /\ UNCHANGED <<expired, resets, rejected>>

Claims(u) ==
    /\ uploadPc[u] = "claiming"
    /\ \/ TakesCached(u)
       \/ Registers(u)
       \/ /\ ~Usable /\ tokenState.kind # "refreshing"
          /\ tokenState' = Refreshing(u)
          /\ uploadPc' = [uploadPc EXCEPT ![u] = "fetching"]
          /\ UNCHANGED <<token, waitsOn>>
    /\ UNCHANGED <<expired, resets, rejected>>

\* notify_waiters: those who registered look again
Woken(u) == [v \in Uploads |-> IF uploadPc[v] = "waiting" /\ waitsOn[v] = u
                               THEN "looking" ELSE uploadPc[v]]
StillWaiting(u) == [v \in Uploads |-> IF waitsOn[v] = u THEN NoUpload ELSE waitsOn[v]]

\* the fetch is over: the result is stored if the state is still this
\* refresh's, and the waiters are woken
Stores(u) ==
    /\ uploadPc[u] = "fetching"
    /\ \/ /\ tokenState' = IF tokenState = Refreshing(u) THEN Ready(u) ELSE tokenState
          /\ token' = [token EXCEPT ![u] = u]
          /\ uploadPc' = [Woken(u) EXCEPT ![u] = "uploading"]
       \/ /\ tokenState' = IF tokenState = Refreshing(u) THEN Empty ELSE tokenState
          /\ uploadPc' = [Woken(u) EXCEPT ![u] = "done"]
          /\ UNCHANGED token
    /\ waitsOn' = StillWaiting(u)
    /\ UNCHANGED <<expired, resets, rejected>>

\* the future is dropped at an await; a fetching one leaves a reset behind,
\* which a stopped runtime never runs
UploadDropped(u) ==
    /\ uploadPc[u] \notin {"idle", "done"}
    /\ uploadPc' = [uploadPc EXCEPT ![u] = "done"]
    /\ waitsOn' = [waitsOn EXCEPT ![u] = NoUpload]
    /\ IF uploadPc[u] = "fetching"
         THEN \/ resets' = resets \cup {u}
              \/ RuntimeStops /\ UNCHANGED resets
         ELSE UNCHANGED resets
    /\ UNCHANGED <<tokenState, expired, token, rejected>>

\* clear_tenant_access_token_refresh_state
ResetRuns(u) ==
    /\ u \in resets
    /\ resets' = resets \ {u}
    /\ tokenState' = IF tokenState = Refreshing(u) THEN Empty ELSE tokenState
    /\ uploadPc' = Woken(u)
    /\ waitsOn' = StillWaiting(u)
    /\ UNCHANGED <<expired, token, rejected>>

UploadAnswered(u) ==
    /\ uploadPc[u] = "uploading"
    /\ uploadPc' \in {[uploadPc EXCEPT ![u] = "done"], [uploadPc EXCEPT ![u] = "discarding"]}
    /\ UNCHANGED <<tokenState, expired, waitsOn, resets, token, rejected>>

\* What a bug would do: discard whatever is in the cache.
DiscardsWhatever(u) ==
    /\ uploadPc[u] = "discarding"
    /\ tokenState' = Empty
    /\ rejected' = rejected \cup {token[u]}
    /\ uploadPc' = [uploadPc EXCEPT ![u] = "done"]
    /\ UNCHANGED <<expired, waitsOn, resets, token>>

\* invalidate_tenant_access_token: only the token that was refused
Discards(u) ==
    /\ uploadPc[u] = "discarding"
    /\ tokenState' = IF tokenState = Ready(token[u]) THEN Empty ELSE tokenState
    /\ rejected' = rejected \cup {token[u]}
    /\ uploadPc' = [uploadPc EXCEPT ![u] = "done"]
    /\ UNCHANGED <<expired, waitsOn, resets, token>>

TokenExpires ==
    /\ tokenState.kind = "ready"
    /\ expired' = expired \cup {tokenState.by}
    /\ UNCHANGED <<tokenState, uploadPc, waitsOn, resets, token, rejected>>

TenantTokenNext ==
    \/ TokenExpires
    \/ \E u \in Uploads : \/ Starts(u) \/ Looks(u) \/ Claims(u) \/ Stores(u)
                          \/ UploadDropped(u) \/ ResetRuns(u)
                          \/ UploadAnswered(u) \/ Discards(u)

UploadGoesOn(u) ==
    Looks(u) \/ Claims(u) \/ Stores(u) \/ ResetRuns(u) \/ UploadAnswered(u) \/ Discards(u)

\* an upload that is polled goes on, requests end by their timeout, and what is
\* spawned runs
TenantTokenSteps == \E u \in Uploads : UploadGoesOn(u)

TenantTokenSpec == TenantTokenInit /\ [][TenantTokenNext]_tokenVars

FairTenantTokenSpec == TenantTokenSpec /\ WF_tokenVars(TenantTokenSteps)

-----------------------------------------------------------------------------

(****************************************************************************)
(* One fetch at a time, and its Refreshing state is its own; the state      *)
(* stays Refreshing only while its fetch or its reset is still to come, and *)
(* whoever waits is registered with that one: no wake-up is lost.  A token  *)
(* that was refused and discarded is not in the cache.                      *)
(****************************************************************************)
RefreshHasItsFetch ==
    /\ \A u \in Uploads : uploadPc[u] = "fetching" => tokenState = Refreshing(u)
    /\ tokenState.kind = "refreshing" =>
           uploadPc[tokenState.by] = "fetching" \/ tokenState.by \in resets
    /\ \A u \in Uploads : uploadPc[u] = "waiting" => tokenState = Refreshing(waitsOn[u])
    /\ tokenState.kind = "ready" => tokenState.by \notin rejected

(***************************************************************************)
(* An upload that waits for the token goes on, whether the fetch succeeds, *)
(* fails or is cancelled.                                                  *)
(***************************************************************************)
WaitsForToken(u) == uploadPc[u] = "waiting"

UploadsEnd == \A u \in Uploads : WaitsForToken(u) ~> uploadPc[u] = "done"

-----------------------------------------------------------------------------
(***************************************************************************)
(* The inductive invariant of the token.                                   *)
(***************************************************************************)

\* One fetch, and nobody waits for another.
FetchIsAnnounced ==
    /\ \A u \in Uploads : uploadPc[u] = "fetching" => tokenState = Refreshing(u)
    /\ \A u \in Uploads : uploadPc[u] = "waiting" => tokenState = Refreshing(waitsOn[u])

\* The state is not Refreshing for good, unless the runtime stopped with a reset.
RefreshEnds ==
    \/ RuntimeStops
    \/ tokenState.kind = "refreshing" =>
           uploadPc[tokenState.by] = "fetching" \/ tokenState.by \in resets

\* A token that is cached, given or refused comes from a fetch that is over, and
\* nobody who fetched fetches again: a refused one is never stored.
HasFetched(u) == uploadPc[u] \in {"uploading", "discarding", "done"}

TokensAreFetched ==
    /\ \A u \in Uploads : uploadPc[u] \in {"uploading", "discarding"} => token[u] \in Uploads
    /\ \A u \in Uploads : token[u] # NoUpload => HasFetched(token[u])
    /\ \A u \in rejected : HasFetched(u)
    /\ tokenState.kind = "ready" => HasFetched(tokenState.by) /\ tokenState.by \notin rejected

\* A reset is left by a future that is gone.
ResetsAreLate == \A u \in resets : uploadPc[u] = "done"

TenantTokenInv ==
    /\ TenantTokenTypeOK
    /\ FetchIsAnnounced /\ RefreshEnds /\ TokensAreFetched /\ ResetsAreLate
=============================================================================
