------------------------------ MODULE TrustGate ------------------------------
(***************************************************************************)
(* How the manager of mcp-kit connects a server from its configuration     *)
(* (manager/connect.rs, streamable_http_validation.rs, placeholders.rs):   *)
(* the checks, the lookups of names, the reads of the environment and the  *)
(* connections made, with the environment and the answers of the name      *)
(* service changing in between; then the posts and new streams of the      *)
(* connection, and whether a later request may share it.                   *)
(*                                                                         *)
(* A value of a configuration is a "text" or has a placeholder, "var".     *)
(* How names are looked up through a proxy is left out.                    *)
(***************************************************************************)
EXTENDS Outbound, Naturals

CONSTANTS Managers,       \* trust and policy of the managers
          Servers,        \* configurations of servers
          MaxEnvEdits,    \* bound on the changes of the environment
          MaxSends        \* bound on posts and new streams

\* A configuration has one of three transports; where a placeholder may stand, it is
\* seen, and a header is read from one variable at most.
ASSUME TrustGateAssumption ==
    /\ MaxEnvEdits \in Nat
    /\ \A s \in Servers :
         \/ s.transport = "stdio" /\ s.argv \in {"text", "var"} /\ s.env \in {"text", "var"}
         \/ s.transport = "unix"
         \/ /\ s.transport = "http" /\ s.value \in {"text", "var"}
            /\ s.bearer \in {"none", "var"} /\ s.envHeader \in {"none", "var", "reserved"}
            /\ {s.sse, s.post} \subseteq
                 [scheme : STRING, host : Hosts, credentials : BOOLEAN, path : {"text", "var"}]

Unset == "unset"
VarValues == {"one", "two"}

VARIABLES
    environ,    \* the variable that placeholders and headers name
    envEdits,
    gating      \* the manager, and the connection it makes

gateVars == <<environ, envEdits, gating>>

NoServer == [transport |-> "none"]

TrustGateInit ==
    /\ environ \in VarValues \cup {Unset}
    /\ envEdits = 0
    /\ gating \in [pc : {"idle"}, manager : Managers, server : {NoServer}, todo : {<<>>},
                 used : {<<>>}, recorded : {<<>>}, reached : {{}}, looked : {{}},
                 sends : {0}, connected : {FALSE}, result : {"none"}]

EnvironmentChanges ==
    /\ envEdits < MaxEnvEdits /\ gating.pc \notin {"idle", "done"}
    /\ environ' \in (VarValues \cup {Unset}) \ {environ}
    /\ envEdits' = envEdits + 1
    /\ UNCHANGED gating

GateIs(g) == gating' = g /\ UNCHANGED <<environ, envEdits>>
Declines(why) == GateIs([gating EXCEPT !.pc = "done", !.result = why])
Trusted == gating.manager.trusted
Rules == gating.manager.policy

\* expand_placeholders_trusted: nothing, if a variable is not set
Expanded(value) ==
    CASE value # "var" -> {value}
      [] value = "var" /\ environ = Unset -> {}
      [] OTHER -> {environ}

\* what is not expanded in untrusted mode
ExpandedIfTrusted(value) == IF Trusted THEN Expanded(value) ELSE {value}

\* std::env::var of a header; "none" names no variable
ReadVar(name) == IF name = "none" THEN {"none"} ELSE Expanded("var")

-----------------------------------------------------------------------------
(* What a connection is made with, and what it is recorded as. *)

\* resolve_streamable_http_urls
UrlsOf(s) ==
    {<<sse, post>> : sse \in {[s.sse EXCEPT !.path = v] : v \in ExpandedIfTrusted(s.sse.path)},
                     post \in {[s.post EXCEPT !.path = v] : v \in ExpandedIfTrusted(s.post.path)}}

\* headers that the connection itself sets
NamesReserved(s) == "reserved" \in s.headers \/ s.envHeader = "reserved"

\* build_streamable_http_headers; the protocol version is added and is the same for all
HeadersOf(s) ==
    IF (~Trusted /\ (s.bearer # "none" \/ s.envHeader # "none"))
       \/ NamesReserved(s)
    THEN {}
    ELSE {<<s.headers, value, bearer, header>> :
            value \in ExpandedIfTrusted(s.value), bearer \in ReadVar(s.bearer),
            header \in ReadVar(s.envHeader)}

\* effective_server_config_identity: stdio values are expanded whatever the trust
IdentityOfServer(s) ==
    CASE s.transport = "stdio" ->
           {<<"stdio", argv, env, s.log>> : argv \in Expanded(s.argv), env \in Expanded(s.env)}
      [] s.transport = "unix" -> {<<"unix">>}
      [] s.transport = "http" ->
           {<<"http", urls, headers>> : urls \in UrlsOf(s), headers \in HeadersOf(s)}

\* raw_server_config_identity: placeholders stay, and variables are named
RawIdentityOf(s) ==
    CASE s.transport = "stdio" -> <<"stdio", s.argv, s.env, s.log>>
      [] s.transport = "unix" -> <<"unix">>
      [] s.transport = "http" -> <<"http", <<s.sse, s.post>>, <<s.headers, s.value, s.bearer, s.envHeader>>>>

-----------------------------------------------------------------------------
(* Connecting. *)

\* stdout_log_path_within_root
LogStaysInside(s) == s.log # "outside" \/ gating.manager.logOutside

\* connect_stdio_transport
ConnectsStdio(s) ==
    IF ~Trusted THEN Declines("config")
    ELSE IF IdentityOfServer(s) = {} \/ ~LogStaysInside(s)
    THEN Declines("config")
    ELSE \E identity \in IdentityOfServer(s) :
            GateIs([gating EXCEPT !.pc = "spawn", !.server = s, !.used = identity])

\* connect_unix_transport
ConnectsUnix(s) ==
    IF ~Trusted THEN Declines("config")
    ELSE GateIs([gating EXCEPT !.pc = "spawn", !.server = s, !.used = <<"unix">>])

\* is_untrusted_sensitive_http_header
NamesASecret(s) == "sensitive" \in s.headers

\* validate_streamable_http_url_untrusted, and the headers
AllowsUrl(s, url) ==
    \/ Trusted
    \/ /\ ~url.credentials
       /\ url.scheme = "https" \/ (url.scheme = "http" /\ ~gating.manager.https)
       /\ AllowsHost(Rules, url.host)
       /\ ~NamesASecret(s)

\* What a bug would do: look at the first URL only.
UrlsToCheckFirst(urls) == <<urls[1]>>

\* A post URL that is the same is not checked again.
UrlsToCheck(urls) == IF urls[1] = urls[2] THEN <<urls[1]>> ELSE urls

\* connect_streamable_http_transport, up to the lookups
ConnectsHttp(s) ==
    \/ UrlsOf(s) = {} /\ Declines("config")
    \/ \E urls \in UrlsOf(s) :
         IF \/ \E i \in DOMAIN UrlsToCheck(urls) : ~AllowsUrl(s, UrlsToCheck(urls)[i])
            \/ ~Trusted /\ (s.bearer # "none" \/ s.envHeader # "none")
         THEN Declines("config")
         ELSE GateIs([gating EXCEPT !.pc = "check", !.server = s, !.used = <<"http", urls, <<>>>>,
                                  !.todo = IF Trusted THEN <<>> ELSE UrlsToCheck(urls)])

Connects(s) ==
    /\ gating.pc = "idle"
    /\ CASE s.transport = "stdio" -> ConnectsStdio(s)
         [] s.transport = "unix" -> ConnectsUnix(s)
         [] s.transport = "http" -> ConnectsHttp(s)

\* validate_streamable_http_url_untrusted_dns, one URL after the other
ChecksName ==
    /\ gating.pc = "check" /\ gating.todo # <<>>
    /\ LET host == Head(gating.todo).host
           passed == [gating EXCEPT !.todo = Tail(@)]
           asked == [passed EXCEPT !.looked = @ \cup {host}]
       IN \/ ~AsksName(Rules, host) /\ GateIs(passed)
          \/ /\ AsksName(Rules, host)
             /\ \/ \E answer \in Answers(host) :
                     GateIs(IF AllowsAnswer(Rules, host, answer) THEN asked
                            ELSE [asked EXCEPT !.pc = "done", !.result = "name"])
                \/ \E failure \in Failures :
                     GateIs(IF Rules.failOpen THEN asked
                            ELSE [asked EXCEPT !.pc = "done", !.result = "name"])

BuildsHeaders ==
    /\ gating.pc = "check" /\ gating.todo = <<>>
    /\ \/ HeadersOf(gating.server) = {} /\ Declines("config")
       \/ \E headers \in HeadersOf(gating.server) :
            GateIs([gating EXCEPT !.pc = "open", !.used = <<"http", gating.used[2], headers>>])

\* should_enforce_public_ip
Enforces == ~Trusted /\ ~Rules.private

\* select_for_url and the connection made with it, to one of the addresses found; or
\* the lookup, the check of what it answers or the connection fails
SendsTo(url, failed) ==
    \/ GateIs(failed)
    \/ \E a \in SocketsFor(Enforces, url.host) :
          GateIs([gating EXCEPT
              !.reached = @ \cup {[url |-> url, address |-> a, headers |-> gating.used[3]]},
              !.pc = IF @ = "open" THEN "record" ELSE @, !.sends = @ + 1, !.connected = TRUE])

\* connect_streamable_http_split_with_options opens the stream first
OpensStream ==
    /\ gating.pc = "open"
    /\ SendsTo(gating.used[2][1], [gating EXCEPT !.pc = "done", !.result = "connect"])

Spawns ==
    /\ gating.pc = "spawn"
    /\ \/ Declines("connect")
       \/ GateIs([gating EXCEPT !.pc = "record", !.connected = TRUE])

\* commit_transport_install: the connection is there, and then what it is recorded as
\* is worked out from the environment of now
Records ==
    /\ gating.pc = "record"
    /\ \/ IdentityOfServer(gating.server) = {} /\ GateIs([gating EXCEPT !.pc = "live", !.result = "config"])
       \/ \E identity \in IdentityOfServer(gating.server) :
            GateIs([gating EXCEPT !.pc = "live", !.recorded = identity, !.result = "connected"])

\* a post looks the name up anew; its failure is that request's
Posts ==
    /\ gating.pc = "live" /\ gating.server.transport = "http" /\ gating.sends < MaxSends
    /\ SendsTo(gating.used[2][2], [gating EXCEPT !.sends = @ + 1])

\* a stream that ended is opened anew; its failure ends the connection
Reopens ==
    /\ gating.pc = "live" /\ gating.server.transport = "http" /\ gating.sends < MaxSends
    /\ SendsTo(gating.used[2][1], [gating EXCEPT !.pc = "done", !.connected = FALSE, !.result = "closed"])

\* ensure_connection_server_config_matches, for a request with a directory and one without
Reuses(s, withCwd) ==
    /\ gating.pc = "live" /\ gating.connected
    /\ LET requested == IF withCwd THEN IdentityOfServer(s) ELSE {RawIdentityOf(s)}
           verdict == CASE requested = {} -> "config"
                        [] requested # {} /\ requested = {gating.recorded} -> "reused"
                        [] OTHER -> "different"
       IN GateIs([gating EXCEPT !.pc = "done", !.server = s, !.result = verdict])

TrustGateNext ==
    \/ EnvironmentChanges
    \/ gating.pc = "idle" /\ \E s \in Servers : Connects(s)
    \/ ChecksName \/ BuildsHeaders \/ OpensStream \/ Spawns \/ Records \/ Posts \/ Reopens
    \/ gating.pc = "live" /\ \E s \in Servers, withCwd \in BOOLEAN : Reuses(s, withCwd)

-----------------------------------------------------------------------------

TrustGateTypeOK ==
    /\ environ \in VarValues \cup {Unset} /\ envEdits \in 0..MaxEnvEdits
    /\ gating.pc \in {"idle", "spawn", "check", "open", "record", "live", "done"}
    /\ gating.sends \in 0..MaxSends /\ gating.connected \in BOOLEAN

(***************************************************************************)
(* A server that nobody vouched for is reached over HTTP only, at hosts    *)
(* and by schemes of the policy, with no header that is a secret and       *)
(* nothing read from the environment; and, unless private addresses are    *)
(* allowed, at global addresses only, whatever the name service answered   *)
(* to the check, to the stream, and to each post.                          *)
(***************************************************************************)
UntrustedKeepsThePolicy ==
    ~Trusted =>
        /\ gating.pc # "spawn"
        /\ \A r \in gating.reached :
             /\ ~r.url.credentials /\ (gating.manager.https => r.url.scheme = "https")
             /\ Rules.allowed # {} => Under[r.url.host] \cap Rules.allowed # {}
             /\ KindOfHost[r.url.host] # "local name"
             /\ ~Rules.private => r.address = "global"
             /\ r.headers[1] \cap {"sensitive", "reserved"} = {}
             /\ ({r.url.path} \cup {r.headers[i] : i \in 2..4}) \cap VarValues = {}

(***************************************************************************)
(* What is refused for its configuration is refused before a name is       *)
(* looked up or a connection made, as far as a look at the configuration   *)
(* can tell: only a variable that was unset meanwhile is found later.      *)
(***************************************************************************)
RefusedBeforeAnythingHappens ==
    gating.pc = "done" /\ gating.result = "config" /\ ~gating.connected /\ envEdits = 0 /\ ~Trusted =>
        gating.reached = {} /\ (gating.looked # {} => "reserved" \in gating.server.headers)

(***************************************************************************)
(* While the environment rests, a connection is recorded as what it was    *)
(* made with, and it is shared with no request that would have connected   *)
(* with other values, however its configuration is spelled.                *)
(***************************************************************************)
RecordIsTheConnection ==
    envEdits = 0 =>
        /\ gating.recorded # <<>> => gating.recorded = gating.used
        /\ gating.result = "reused" => IdentityOfServer(gating.server) = {gating.used}

GateIsKept ==
    UntrustedKeepsThePolicy /\ RefusedBeforeAnythingHappens /\ RecordIsTheConnection

(***************************************************************************)
(* The inductive invariant: how far a connection is, what a manager that   *)
(* does not trust the server lets it be made with, and that what it is     *)
(* made with is what the configuration says.                               *)
(***************************************************************************)
Waits == gating.pc \in {"check", "open", "record", "live"}

GateFits ==
    /\ DOMAIN gating = {"pc", "manager", "server", "todo", "used", "recorded", "reached", "looked",
                        "sends", "connected", "result"}
    /\ environ \in VarValues \cup {Unset} /\ envEdits \in Nat
    /\ gating.pc \in {"idle", "spawn", "check", "open", "record", "live", "done"}
    /\ gating.pc \in {"spawn", "check", "open", "record", "live"} => gating.server \in Servers
    /\ gating.result = "reused" => gating.server \in Servers
    /\ gating.pc \in {"check", "open"} => gating.server.transport = "http"

StagesFit ==
    /\ gating.pc = "idle" => gating.looked = {}
    /\ gating.pc \in {"idle", "spawn", "check", "open"} => gating.reached = {}
    /\ gating.pc \in {"idle", "spawn", "check", "open", "record"} => gating.recorded = <<>>
    /\ gating.pc # "done" => gating.result \in {"none", "config", "connected"}
    /\ gating.pc \in {"record", "live"} => gating.connected

\* A URL that a policy lets a server be reached at.
WithinPolicy(url) ==
    /\ ~url.credentials /\ (gating.manager.https => url.scheme = "https")
    /\ AllowsHost(Rules, url.host) /\ url.host \in Hosts /\ url.path \in {"text", "var"}

\* Headers that hold no secret and nothing that was read.
ReadsNothing(headers) ==
    /\ headers[1] \cap {"sensitive", "reserved"} = {}
    /\ \A i \in 2..4 : headers[i] \in {"none", "text", "var"}

\* What has been sent to a server that nobody vouched for.
KeepsThePolicy(r) ==
    WithinPolicy(r.url) /\ ReadsNothing(r.headers) /\ (~Rules.private => r.address = "global")

UntrustedFits ==
    ~Trusted =>
        /\ gating.pc # "spawn"
        /\ Waits =>
             /\ gating.server.transport = "http" /\ ~NamesASecret(gating.server)
             /\ gating.server.bearer = "none" /\ gating.server.envHeader = "none"
             /\ \A url \in {gating.used[2][1], gating.used[2][2]} : WithinPolicy(url)
        /\ gating.pc \in {"open", "record", "live"} => ReadsNothing(gating.used[3])
        /\ \A r \in gating.reached : KeepsThePolicy(r)

RefusalsFit ==
    gating.pc = "done" /\ gating.result = "config" /\ ~gating.connected /\ envEdits = 0 /\ ~Trusted =>
        gating.reached = {} /\ (gating.looked # {} => "reserved" \in gating.server.headers)

IdentityFits ==
    envEdits = 0 =>
        /\ gating.recorded # <<>> => gating.recorded = gating.used
        /\ \A s \in {gating.server} :
             /\ gating.pc = "check" => gating.used[2] \in UrlsOf(s)
             /\ gating.pc \in {"spawn", "open", "record", "live"} => gating.used \in IdentityOfServer(s)
             /\ gating.result = "reused" => IdentityOfServer(s) = {gating.used}

TrustGateInv == GateFits /\ StagesFit /\ UntrustedFits /\ RefusalsFit /\ IdentityFits

=============================================================================
