----------------------------- MODULE GithubFetch -----------------------------
(***************************************************************************)
(* How github-kit fetches the latest release (release.rs, client.rs): it   *)
(* asks the bases of its caller in their order, through a plain client or  *)
(* through a profile that pins addresses (http-kit client.rs), and returns *)
(* the first release that it can read.                                     *)
(***************************************************************************)
EXTENDS Outbound, Integers

CONSTANTS Fetches,          \* calls: bases, options and client
          TrustedHosts,     \* CANONICAL_GITHUB_API_HOST, and what the caller trusts
          MaxRedirects      \* how often a client follows, 10 in the code

ASSUME GithubFetchAssumption ==
    /\ MaxRedirects \in Nat /\ TrustedHosts \subseteq Hosts
    /\ \A call \in Fetches :
         Len(call.bases) \in Nat /\ DOMAIN call.bases = 1..Len(call.bases)

VARIABLE fetch

\* A base: blank, one that is no URL, or a URL with its parts
BaseKinds == {"blank", "unparsable", "url"}

GithubFetchInit ==
    fetch \in [pc : {"idle"}, call : Fetches, at : {0}, errors : {<<>>}, pinned : {{}},
               target : {Url("https", "none")}, port : {"base"}, hops : {0},
               asked : {<<>>}, result : {"none"}]

FetchIs(f) == fetch' = f
Base == fetch.call.bases[fetch.at]
FetchEnds(result) == [fetch EXCEPT !.pc = "done", !.result = result]

\* push to errors, and the next base
BaseFails == [fetch EXCEPT !.errors = Append(@, fetch.at), !.pc = "next", !.pinned = {}]

\* normalize_repository
NamesARepository(call) == call.repository

\* fetch_latest_release and fetch_latest_release_with_profile, up to the loop
StartsFetch ==
    /\ fetch.pc = "idle"
    /\ FetchIs(IF fetch.call.token /\ ~fetch.call.profile THEN FetchEnds("profile required")
               ELSE IF ~NamesARepository(fetch.call) THEN FetchEnds("repository")
               ELSE [fetch EXCEPT !.pc = "next"])

Attempted == \E i \in DOMAIN fetch.call.bases : fetch.call.bases[i].kind # "blank"

NextBase ==
    /\ fetch.pc = "next"
    /\ LET next == fetch.at + 1
           bases == fetch.call.bases
       IN FetchIs(CASE next > Len(bases) -> FetchEnds(IF Attempted THEN "failed" ELSE "no base")
                    [] next <= Len(bases) /\ bases[next].kind = "blank" -> [fetch EXCEPT !.at = next]
                    [] next <= Len(bases) /\ bases[next].kind = "unparsable" ->
                         [fetch EXCEPT !.at = next, !.errors = Append(@, next)]
                    [] OTHER -> [fetch EXCEPT !.at = next, !.target = bases[next].url, !.port = "base",
                                   !.hops = 0, !.pc = IF fetch.call.profile THEN "validate" ELSE "headers"])

\* validate_github_api_request_url
MayAsk(base) ==
    fetch.call.token =>
        /\ base.url.scheme = "https" /\ ~base.url.credentials /\ ~base.query
        /\ base.url.host \in TrustedHosts
        /\ AllowsHost(DefaultPolicy, base.url.host)

\* validate_github_api_request_url_dns
ValidatesBase ==
    /\ fetch.pc = "validate"
    /\ LET passed == [fetch EXCEPT !.pc = "select"]
       IN \/ ~MayAsk(Base) /\ FetchIs(BaseFails)
          \/ MayAsk(Base) /\ (~fetch.call.token \/ ~AsksName(DefaultPolicy, Base.url.host)) /\ FetchIs(passed)
          \/ /\ MayAsk(Base) /\ fetch.call.token /\ AsksName(DefaultPolicy, Base.url.host)
             /\ \/ FetchIs(BaseFails)
                \/ \E answer \in Answers(Base.url.host) :
                     AllowsAnswer(DefaultPolicy, Base.url.host, answer) /\ FetchIs(passed)

\* HttpClientProfile::select_for_url: the name is looked up again
SelectsClient ==
    /\ fetch.pc = "select"
    /\ LET chosen == [fetch EXCEPT !.pc = "headers"]
       IN \/ ~fetch.call.token /\ FetchIs(chosen)
          \/ fetch.call.token /\ FetchIs(BaseFails)
          \/ /\ fetch.call.token
             /\ \E answer \in Answers(Base.url.host) :
                  Pinned(answer) # {} /\ FetchIs([chosen EXCEPT !.pinned = Pinned(answer)])

\* apply_github_api_headers
BuildsRequest ==
    /\ fetch.pc = "headers"
    /\ FetchIs(IF MayAsk(Base) /\ fetch.call.headers THEN [fetch EXCEPT !.pc = "send"] ELSE BaseFails)

\* What a bug would do: follow to wherever the answer says.
MayFollowAnywhere(to, port) == fetch.call.follows /\ fetch.hops + 1 < MaxRedirects

\* redirect_policy and pinned_redirect_policy, which counts the request itself and
\* compares host, scheme and port; the credentials of a target are looked at by neither
MayFollow(to, port) ==
    /\ fetch.call.follows
    /\ IF fetch.call.token
       THEN /\ fetch.hops + 1 < MaxRedirects
            /\ to.host = fetch.target.host /\ to.scheme = fetch.target.scheme /\ port = "base"
       ELSE fetch.hops < MaxRedirects

\* What is recorded of a request: where it went, if it had a token
AskedAt(a) ==
    [base |-> fetch.at, token |-> fetch.call.token, first |-> fetch.hops = 0,
     to |-> IF fetch.call.token THEN <<fetch.target, a, fetch.port>> ELSE <<>>]

\* send_reqwest: to a pinned address where there are any, and through each redirect
SendsRequest ==
    /\ fetch.pc = "send"
    /\ \/ FetchIs(BaseFails)
       \/ \E a \in IF fetch.call.token THEN fetch.pinned ELSE {"any"} :
            LET sent == [fetch EXCEPT !.asked = Append(@, AskedAt(a))]
            IN \/ FetchIs([sent EXCEPT !.pc = "read"])
               \/ \E scheme \in {"http", "https"}, host \in Hosts, credentials \in BOOLEAN,
                     port \in {"base", "other"} :
                    LET to == [Url(scheme, host) EXCEPT !.credentials = credentials]
                    IN FetchIs(CASE MayFollow(to, port) ->
                                      [sent EXCEPT !.target = to, !.port = port, !.hops = @ + 1]
                                 [] ~fetch.call.follows -> [sent EXCEPT !.pc = "read"]
                                 [] OTHER -> [BaseFails EXCEPT !.asked = sent.asked])

\* read_json_body_after_http_success_limited, and the release in it
ReadsRelease ==
    /\ fetch.pc = "read"
    /\ \/ FetchIs(FetchEnds("release"))
       \/ FetchIs(BaseFails)

GithubFetchNext ==
    StartsFetch \/ NextBase \/ ValidatesBase \/ SelectsClient \/ BuildsRequest \/ SendsRequest \/ ReadsRelease

-----------------------------------------------------------------------------

GithubFetchTypeOK ==
    /\ fetch.at \in 0..Len(fetch.call.bases) + 1 /\ fetch.hops \in 0..MaxRedirects
    /\ fetch.pc \in {"idle", "next", "validate", "select", "headers", "send", "read", "done"}

(***************************************************************************)
(* A token reaches trusted hosts only, over https, at the port of its base *)
(* and at global addresses, whatever the name service answers to the check *)
(* and to the connection and wherever a host redirects to.  It is asked    *)
(* for with no credentials in the URL; a redirect may add them.            *)
(***************************************************************************)
TokensStayWithTheTrusted ==
    \A i \in DOMAIN fetch.asked :
        fetch.asked[i].token =>
            LET url == fetch.asked[i].to[1]
            IN /\ url.scheme = "https" /\ url.host \in TrustedHosts
               /\ fetch.asked[i].to[2] = "global" /\ fetch.asked[i].to[3] = "base"
               /\ fetch.asked[i].first => ~url.credentials

\* The errors are of the bases up to n that are not blank, each once and in their order.
FailedInTurn(errors, bases, n) ==
    /\ \A i, j \in DOMAIN errors : i < j => errors[i] < errors[j]
    /\ {errors[i] : i \in DOMAIN errors} = {i \in 1..n : bases[i].kind # "blank"}

\* The requests that went to a base.
AskedOf(asked, base) == {i \in DOMAIN asked : asked[i].base = base}

(***************************************************************************)
(* The bases are asked in their order, none again after it failed; a       *)
(* failure of the call means that each of them failed, and a release is    *)
(* the one of the first that did not.  Without a base nothing is asked and *)
(* nothing is an error.                                                    *)
(***************************************************************************)
BasesTakeTurns ==
    LET asked == fetch.asked
        bases == fetch.call.bases
    IN /\ \A i, j \in DOMAIN asked : i < j => asked[i].base <= asked[j].base
       /\ fetch.result = "release" =>
            /\ asked # <<>> /\ asked[Len(asked)].base = fetch.at
            /\ FailedInTurn(fetch.errors, bases, fetch.at - 1)
       /\ fetch.result = "failed" => FailedInTurn(fetch.errors, bases, Len(bases))
       /\ fetch.result = "no base" => fetch.errors = <<>> /\ asked = <<>> /\ ~Attempted
       /\ \A i \in DOMAIN asked : Cardinality(AskedOf(asked, asked[i].base)) <= MaxRedirects + 1

ReleasesAreFetched == TokensStayWithTheTrusted /\ BasesTakeTurns

(***************************************************************************)
(* The inductive invariant: how far the bases have been asked, what was    *)
(* sent to each, and what a token may be sent with.                        *)
(***************************************************************************)
AtABase == fetch.pc \in {"validate", "select", "headers", "send", "read"}

FetchFits ==
    /\ DOMAIN fetch = {"pc", "call", "at", "errors", "pinned", "target", "port", "hops",
                       "asked", "result"}
    /\ fetch.pc \in {"idle", "next", "validate", "select", "headers", "send", "read", "done"}
    /\ fetch.call \in Fetches /\ fetch.at \in 0..Len(fetch.call.bases) /\ fetch.hops \in 0..MaxRedirects
    /\ AtABase => fetch.at > 0 /\ fetch.call.bases[fetch.at].kind # "blank"
    /\ fetch.errors \in Seq(Nat)
    /\ fetch.asked \in Seq({fetch.asked[i] : i \in DOMAIN fetch.asked})
    /\ fetch.pc # "done" => fetch.result = "none"

\* Where a token may be sent.
IsTrusted(url) == url.scheme = "https" /\ url.host \in TrustedHosts

\* What was sent with a token, if the call has one.
SentInTrust(asked, token) ==
    \A i \in DOMAIN asked :
        asked[i].token => /\ token /\ IsTrusted(asked[i].to[1])
                          /\ asked[i].to[2] = "global" /\ asked[i].to[3] = "base"
                          /\ asked[i].first => ~asked[i].to[1].credentials

TokenFits ==
    /\ SentInTrust(fetch.asked, fetch.call.token)
    /\ fetch.call.token =>
         /\ fetch.pinned \subseteq {"global"}
         /\ fetch.pc \in {"validate", "select", "headers"} => fetch.target = Base.url
         /\ fetch.port = "base"
         /\ fetch.pc \in {"select", "send"} => IsTrusted(fetch.target)
         /\ fetch.pc = "send" /\ fetch.hops = 0 => ~fetch.target.credentials

ErrorsFit ==
    /\ fetch.pc \in {"idle", "next"} => FailedInTurn(fetch.errors, fetch.call.bases, fetch.at)
    /\ AtABase \/ fetch.result = "release" => FailedInTurn(fetch.errors, fetch.call.bases, fetch.at - 1)
    /\ fetch.result = "failed" => FailedInTurn(fetch.errors, fetch.call.bases, Len(fetch.call.bases))
    /\ fetch.result = "no base" => fetch.errors = <<>> /\ fetch.asked = <<>> /\ ~Attempted

AskedFit ==
    /\ \A i \in DOMAIN fetch.asked :
         /\ fetch.asked[i].base \in 1..fetch.at
         /\ fetch.call.bases[fetch.asked[i].base].kind # "blank"
    /\ \A i, j \in DOMAIN fetch.asked : i < j => fetch.asked[i].base <= fetch.asked[j].base
    /\ \A b \in DOMAIN fetch.call.bases : Cardinality(AskedOf(fetch.asked, b)) <= MaxRedirects + 1
    /\ fetch.pc \in {"validate", "select", "headers"} => AskedOf(fetch.asked, fetch.at) = {}
    /\ fetch.pc = "send" => Cardinality(AskedOf(fetch.asked, fetch.at)) <= fetch.hops
    /\ fetch.pc = "read" \/ fetch.result = "release" =>
         fetch.asked # <<>> /\ fetch.asked[Len(fetch.asked)].base = fetch.at

GithubFetchInv == FetchFits /\ TokenFits /\ ErrorsFit /\ AskedFit

=============================================================================
