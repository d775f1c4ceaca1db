------------------------------- MODULE SinkSend -------------------------------
(***************************************************************************)
(* How a sink of notify-kit delivers one event (sinks): it is built from   *)
(* its configuration, looks its host up, prepares the message, which for   *)
(* Feishu may mean to load and upload the images of the text at the same   *)
(* time, posts it once and reads from the answer whether the provider      *)
(* took it.  The hub may drop the delivery while it waits.                 *)
(*                                                                         *)
(* The tenant token of an upload is one that TenantToken tells about; here *)
(* it is there or it is not.                                               *)
(***************************************************************************)
EXTENDS Outbound

CONSTANTS Deliveries   \* sinks, their configuration, and what they are to deliver

SinkKinds == {"webhook", "github", "sound", "feishu", "slack", "discord", "telegram", "wecom",
              "dingtalk", "pushplus", "bark", "serverchan"}

ASSUME SinkSendAssumption ==
    \A d \in Deliveries : /\ d.sink \in SinkKinds /\ d.url.host \in Hosts
                          /\ \A i \in Range(d.images) : i.remote => i.host \in Hosts

VARIABLE delivery

\* The hosts a provider has; a generic webhook names its own
ProviderHosts == {"api.example"}

SinkSendInit ==
    delivery \in [pc : {"new"}, of : Deliveries, reached : {{}}, images : {<<>>},
                  posts : {0}, taken : {"no"}, result : {"none"}]

Sink == delivery.of.sink
Scope == delivery.of.scope
Delivers(d) == delivery' = d
Fails(why) == [delivery EXCEPT !.pc = "done", !.result = why]

-----------------------------------------------------------------------------
(* Building. *)

\* parse_and_validate_https_url_basic
IsPlainHttps(url) ==
    url.scheme = "https" /\ ~url.credentials /\ ~IsLiteral(url.host)
    /\ KindOfHost[url.host] \notin {"local name", "loopback name"}

\* normalize_config: what is not named is taken from the URL, but not in strict mode
\* nor where addresses are not checked
ScopeIsSound ==
    /\ Scope.strict => delivery.of.enforce /\ Scope.hosts # {} /\ "" \notin Scope.hosts /\ Scope.prefix
    /\ ~delivery.of.enforce => Scope.hosts \ {""} # {}

\* What the constructors find wrong with a configuration: "path" (of another
\* provider), "key" (none, or not one of the provider), "name" (of a chat, an
\* owner, a field or a folder)
FaultFree(d, faults) == d.fault \notin faults

OfProvider(d) == IsPlainHttps(d.url) /\ d.url.host \in ProviderHosts /\ FaultFree(d, {"path"})

SlackConfigured(d) == OfProvider(d)
DiscordConfigured(d) == OfProvider(d)
WeComConfigured(d) == OfProvider(d)
DingTalkConfigured(d) == OfProvider(d) /\ FaultFree(d, {"key"})
TelegramConfigured(d) == FaultFree(d, {"key", "name"})
PushPlusConfigured(d) == OfProvider(d) /\ FaultFree(d, {"key"})
BarkConfigured(d) == OfProvider(d) /\ FaultFree(d, {"key"})
ServerChanConfigured(d) == OfProvider(d) /\ FaultFree(d, {"key"})
FeishuConfigured(d) ==
    OfProvider(d) /\ FaultFree(d, {"key", "name"}) /\ (d.scope.strict => d.enforce)

\* validate_github_api_request_url
GithubConfigured(d) ==
    /\ d.url.scheme = "https" /\ ~d.url.credentials /\ d.url.host \in ProviderHosts
    /\ AllowsHost(DefaultPolicy, d.url.host) /\ FaultFree(d, {"key", "name"})

\* validate_target_url
WebhookConfigured(d) ==
    /\ IsPlainHttps(d.url) /\ ScopeIsSound /\ FaultFree(d, {"path", "name"})
    /\ AllowsHost(Policy(FALSE, FALSE, TRUE, FALSE, d.scope.hosts \ {""}), d.url.host)

IsConfigured(d) ==
    CASE d.sink = "slack" -> SlackConfigured(d)
      [] d.sink = "discord" -> DiscordConfigured(d)
      [] d.sink = "wecom" -> WeComConfigured(d)
      [] d.sink = "dingtalk" -> DingTalkConfigured(d)
      [] d.sink = "telegram" -> TelegramConfigured(d)
      [] d.sink = "pushplus" -> PushPlusConfigured(d)
      [] d.sink = "bark" -> BarkConfigured(d)
      [] d.sink = "serverchan" -> ServerChanConfigured(d)
      [] d.sink = "feishu" -> FeishuConfigured(d)
      [] d.sink = "github" -> GithubConfigured(d)
      [] d.sink = "webhook" -> WebhookConfigured(d)
      [] d.sink = "sound" -> TRUE

\* new_strict_async of Feishu looks its host up.
Builds ==
    /\ delivery.pc = "new"
    /\ IF ~IsConfigured(delivery.of) THEN Delivers(Fails("config"))
       ELSE \/ Delivers([delivery EXCEPT !.pc = "client"])
            \/ Sink = "feishu" /\ Scope.strict /\ Delivers(Fails("config"))

-----------------------------------------------------------------------------
(* Sending. *)

\* A bearer token always pins
Pins == delivery.of.enforce \/ Sink = "github"

\* client_for; validate_github_api_request_url_dns asks first
SelectsSinkClient ==
    /\ delivery.pc = "client" /\ Sink # "sound"
    /\ \/ Delivers(Fails("client"))
       \/ SocketsFor(Pins, delivery.of.url.host) # {} /\ Delivers([delivery EXCEPT !.pc = "message"])

\* SoundSink: the bell is rung, twice for an error, or a command is spawned.  The spawn
\* or the bell may fail, and the bell also when it has been heard once
Rings ==
    LET rung == [delivery EXCEPT !.posts = 1, !.taken = "yes", !.pc = "done"]
    IN /\ delivery.pc = "client" /\ Sink = "sound"
       /\ \/ Delivers(Fails("io"))
          \/ \E result \in {"sent", "io"} : Delivers([rung EXCEPT !.result = result])
          \/ Delivers([delivery EXCEPT !.posts = 1, !.pc = "ringing"])

\* A command that ends badly is a warning; the wait for it may fail
CommandEnds ==
    /\ delivery.pc = "ringing"
    /\ \/ Delivers(Fails("io"))
       \/ \E taken \in {"yes", "no"} :
            Delivers([delivery EXCEPT !.pc = "done", !.taken = taken, !.result = "sent"])

\* collect_image_sources: every source once
SourcesIn(d) == IF Sink = "feishu" /\ d.rich THEN Range(d.images) ELSE {}

\* build_payload begins to resolve all of them
StartsMessage ==
    /\ delivery.pc = "message"
    /\ Delivers([delivery EXCEPT !.pc = "images", !.images = [i \in SourcesIn(delivery.of) |-> "load"]])

Settles(i, state) == Delivers([delivery EXCEPT !.images[i] = state])
MayLoad(i) == IF i.remote THEN delivery.of.remote ELSE delivery.of.local /\ i.inside

\* What a bug would do: fetch an image from wherever its name leads.
ImageSocketsAny(host) == SocketsFor(FALSE, host)

\* load_remote_image pins whatever the sink does
ImageSockets(host) == SocketsFor(TRUE, host)

\* resolve_single_image_key up to the upload; load_image
LoadsImage(i) ==
    /\ delivery.pc = "images" /\ delivery.images[i] = "load"
    /\ \/ Settles(i, "none")
       \/ /\ delivery.of.credentials /\ MayLoad(i) /\ ~i.remote /\ Settles(i, "upload")
       \/ /\ delivery.of.credentials /\ MayLoad(i) /\ i.remote /\ IsPlainHttps(Url("https", i.host))
          /\ \E a \in ImageSockets(i.host), loaded \in {"none", "upload"} :
               Delivers([delivery EXCEPT !.images[i] = loaded,
                           !.reached = @ \cup {[for |-> "image", host |-> i.host, address |-> a]}])

\* upload_image, to the host of the webhook: refused, or taken with a key or without
UploadsImage(i) ==
    /\ delivery.pc = "images" /\ delivery.images[i] = "upload"
    /\ \/ Settles(i, "none")
       \/ \E a \in SocketsFor(delivery.of.enforce, delivery.of.url.host), key \in {"none", "key"} :
            Delivers([delivery EXCEPT !.images[i] = key,
                        !.reached = @ \cup {[for |-> "upload", host |-> delivery.of.url.host, address |-> a]}])

\* The post, once every image has its key or has none; the answer comes later, and a
\* connection that breaks leaves open whether it was taken
PostsMessage ==
    /\ delivery.pc = "images"
    /\ \A i \in DOMAIN delivery.images : delivery.images[i] \in {"none", "key"}
    /\ \/ Delivers(Fails("transport"))
       \/ \E a \in SocketsFor(Pins, delivery.of.url.host), taken \in {"yes", "no"} :
            LET sent == [delivery EXCEPT !.posts = @ + 1, !.taken = taken,
                           !.reached = @ \cup {[for |-> "post", host |-> delivery.of.url.host, address |-> a]}]
            IN \/ Delivers([sent EXCEPT !.pc = "answer"])
               \/ Delivers([sent EXCEPT !.pc = "done", !.result = "transport"])

-----------------------------------------------------------------------------
(* The answer. *)

Bodies == {"empty", "ok", "text", "broken", "json",   \* no JSON, or JSON without a code
           "accepted", "refused"}                       \* JSON with a code

\* What is read of the answer, provider by provider.  ensure_http_success reads the
\* status; Slack and Bark take what is no refusal; the others want a code.
SlackTakes(status, body) == status = "success" /\ body \in {"empty", "ok"}
BarkTakes(status, body) == status = "success" /\ body \in {"empty", "ok", "text", "json", "accepted"}
DiscordTakes(status, body) == status = "success"
WebhookTakes(status, body) == status = "success"
GithubTakes(status, body) == status = "success"
TelegramTakes(status, body) == status = "success" /\ body = "accepted"
WeComTakes(status, body) == status = "success" /\ body = "accepted"
DingTalkTakes(status, body) == status = "success" /\ body = "accepted"
PushPlusTakes(status, body) == status = "success" /\ body = "accepted"

\* What a bug would do: take a code that is not there for the good one.
ServerChanTakesIfMissing(status, body) == status = "success" /\ body \in {"json", "accepted"}
ServerChanTakes(status, body) == status = "success" /\ body = "accepted"
FeishuTakes(status, body) == status = "success" /\ body = "accepted"

SaysTaken(status, body) ==
    CASE Sink = "slack" -> SlackTakes(status, body)
      [] Sink = "bark" -> BarkTakes(status, body)
      [] Sink = "discord" -> DiscordTakes(status, body)
      [] Sink = "webhook" -> WebhookTakes(status, body)
      [] Sink = "github" -> GithubTakes(status, body)
      [] Sink = "telegram" -> TelegramTakes(status, body)
      [] Sink = "wecom" -> WeComTakes(status, body)
      [] Sink = "dingtalk" -> DingTalkTakes(status, body)
      [] Sink = "pushplus" -> PushPlusTakes(status, body)
      [] Sink = "serverchan" -> ServerChanTakes(status, body)
      [] Sink = "feishu" -> FeishuTakes(status, body)

\* A provider that took the message answers as its protocol has it, and one that did
\* not tells so in a status or a body
Honest(taken, status, body) ==
    CASE taken = "yes" /\ Sink \in {"discord", "webhook", "github"} -> status = "success"
      [] taken = "yes" /\ Sink = "slack" -> status = "success" /\ body \in {"ok", "broken"}
      [] taken = "yes" -> status = "success" /\ body \in {"accepted", "broken"}
      [] taken = "no" /\ Sink \in {"discord", "webhook", "github"} -> status = "error"
      [] taken = "no" /\ Sink = "slack" -> status = "error" \/ body = "text"
      [] taken = "no" /\ Sink = "bark" -> status = "error" \/ body = "refused"
      [] OTHER -> status = "error" \/ body \in {"refused", "json"}

ReadsAnswer ==
    /\ delivery.pc = "answer"
    /\ \E status \in {"success", "error"}, body \in Bodies :
         /\ Honest(delivery.taken, status, body)
         /\ Delivers([delivery EXCEPT !.pc = "done",
                        !.result = IF SaysTaken(status, body) THEN "sent" ELSE "refused"])

\* The time that the hub or the client gives a delivery is up
TimesOut ==
    /\ delivery.pc \in {"client", "ringing", "message", "images", "answer"}
    /\ delivery.pc = "client" => Sink # "sound"
    /\ Delivers(Fails("timeout"))

SinkSendNext ==
    \/ Builds \/ SelectsSinkClient \/ Rings \/ CommandEnds \/ StartsMessage
    \/ \E i \in DOMAIN delivery.images : LoadsImage(i) \/ UploadsImage(i)
    \/ PostsMessage \/ ReadsAnswer \/ TimesOut

-----------------------------------------------------------------------------

SinkSendTypeOK ==
    /\ delivery.pc \in {"new", "client", "ringing", "message", "images", "answer", "done"}
    /\ delivery.posts \in 0..1
    /\ \A i \in DOMAIN delivery.images : delivery.images[i] \in {"load", "upload", "none", "key"}

(***************************************************************************)
(* A delivery that is reported as sent was taken by the provider, and it   *)
(* was posted once; one that was refused was posted too, and one that      *)
(* failed over its configuration or its client left nothing behind.  A     *)
(* transport that broke and a time-out say neither, and only a sound may   *)
(* fail as one that was heard and as one that was not.                     *)
(***************************************************************************)
SentMeansTaken ==
    /\ delivery.result = "sent" => delivery.posts = 1 /\ (Sink # "sound" => delivery.taken = "yes")
    /\ delivery.result = "refused" => delivery.posts = 1
    /\ delivery.result \in {"config", "client"} => delivery.posts = 0
    /\ delivery.result = "io" => Sink = "sound"

(***************************************************************************)
(* A post and the images for it reach the host that the sink was made for, *)
(* at public addresses if it enforces them; an image that a text names is  *)
(* fetched from public addresses in any case, and only where the sink      *)
(* allows it.  No image keeps the text from being posted.                  *)
(***************************************************************************)
DeliveriesStayInScope ==
    /\ \A r \in delivery.reached :
         /\ r.for \in {"post", "upload"} =>
              /\ r.host = delivery.of.url.host
              /\ Pins => r.address = "global"
              /\ Sink = "webhook" /\ ~Pins => Under[r.host] \cap Scope.hosts # {}
         /\ r.for = "image" => delivery.of.remote /\ delivery.of.credentials /\ r.address = "global"
    /\ delivery.posts = 1 =>
         \A i \in DOMAIN delivery.images :
             delivery.images[i] = "key" => delivery.of.credentials /\ MayLoad(i)

DeliveriesAreTrue == SentMeansTaken /\ DeliveriesStayInScope

(***************************************************************************)
(* The inductive invariant: what has happened by each stage, and which     *)
(* images were allowed to be loaded.                                       *)
(***************************************************************************)
DeliveryFits ==
    /\ DOMAIN delivery = {"pc", "of", "reached", "images", "posts", "taken", "result"}
    /\ delivery.of \in Deliveries /\ delivery.taken \in {"yes", "no"}
    /\ delivery.pc # "done" => delivery.result = "none"
    /\ delivery.pc \in {"new", "client", "message", "images"} => delivery.posts = 0
    /\ delivery.pc \in {"answer", "ringing"} => delivery.posts = 1
    /\ delivery.pc = "ringing" => Sink = "sound"
    /\ delivery.pc \in {"message", "images", "answer"} => Sink # "sound"
    /\ delivery.pc \in {"client", "ringing", "message", "images", "answer"} \/ delivery.reached # {} =>
         IsConfigured(delivery.of)

ImagesMayBeLoaded ==
    \A i \in DOMAIN delivery.images :
        /\ Sink = "feishu" /\ i \in Range(delivery.of.images)
        /\ delivery.images[i] \in {"upload", "key"} => delivery.of.credentials /\ MayLoad(i)

SinkInv == SinkSendTypeOK /\ DeliveryFits /\ ImagesMayBeLoaded /\ DeliveriesAreTrue

=============================================================================
