------------------------------ MODULE Outbound ------------------------------
(***************************************************************************)
(* What http-kit lets a request be sent to: the policy for hosts that      *)
(* nobody vouched for (outbound_policy.rs, ip.rs) and the addresses a      *)
(* client is pinned to (client.rs, public_ip.rs).                          *)
(*                                                                         *)
(* An address is its class; one that is an IPv4 address inside an IPv6     *)
(* one has the class of the former.  A name is looked up anew each time    *)
(* and may lead somewhere else each time.                                  *)
(***************************************************************************)
EXTENDS FiniteSets, Sequences, SequencesExt

CONSTANTS Hosts,        \* names and address literals
          KindOfHost,   \* "name", "loopback name", "local name" or "literal"
          LiteralOf,    \* the address of a literal
          Under         \* the entries of an allow list that a host matches

Addresses == {"global", "private", "loopback", "host local", "never"}

ASSUME OutboundAssumption ==
    /\ KindOfHost \in [Hosts -> {"name", "loopback name", "local name", "literal"}]
    /\ \A h \in Hosts : KindOfHost[h] = "literal" => LiteralOf[h] \in Addresses
    /\ \A h \in Hosts : Under[h] \subseteq Hosts

Url(scheme, host) == [scheme |-> scheme, host |-> host, credentials |-> FALSE, path |-> "text"]

IsLiteral(host) == KindOfHost[host] = "literal"

\* is_public_ip: multicast, broadcast and the unspecified address are global and
\* still never reached
IsNonGlobal(a) == a \in {"private", "loopback", "host local"}
IsPublic(a) == a # "never" /\ ~IsNonGlobal(a)

Policy(localhost, private, dnsCheck, failOpen, allowed) ==
    [localhost |-> localhost, private |-> private, dnsCheck |-> dnsCheck,
     failOpen |-> failOpen, allowed |-> allowed]
DefaultPolicy == Policy(FALSE, FALSE, TRUE, FALSE, {})

\* is_ip_disallowed_for_host
Disallowed(policy, host, a) ==
    LET localName == KindOfHost[host] = "loopback name"
    IN CASE a = "never" -> TRUE
         [] a = "host local" -> ~(localName /\ policy.localhost)
         [] a = "loopback" /\ IsLiteral(host) -> ~policy.private
         [] a = "loopback" /\ ~IsLiteral(host) -> ~(localName /\ policy.localhost)
         [] a \in {"global", "private"} -> ~policy.private /\ IsNonGlobal(a)

\* validate_untrusted_outbound_url
AllowsHost(policy, host) ==
    /\ KindOfHost[host] = "local name" => FALSE
    /\ KindOfHost[host] = "loopback name" => policy.localhost
    /\ policy.allowed # {} => Under[host] \cap policy.allowed # {}
    /\ IsLiteral(host) => ~Disallowed(policy, host, LiteralOf[host])

\* What a lookup may answer.  A literal is its own answer.
Answers(host) ==
    IF IsLiteral(host) THEN {{LiteralOf[host]}} ELSE SUBSET Addresses
Failures == {"timeout", "failed"}

\* validate_untrusted_outbound_url_dns asks for names only, and validate_resolved_addrs
\* looks at every address of the answer
AsksName(policy, host) == policy.dnsCheck /\ ~IsLiteral(host)
AllowsAnswer(policy, host, answer) == \A a \in answer : ~Disallowed(policy, host, a)

\* What a bug would do: pin what is public and forget the rest.
PinnedIfAny(answer) == {a \in answer : IsPublic(a)}

\* resolve_url_to_public_addrs_async: the addresses a client is pinned to, if all of
\* them are public
Pinned(answer) == IF \A a \in answer : IsPublic(a) THEN answer ELSE {}

\* Where a request may end up: at a pinned address, or at any that the name leads to.
SocketsFor(enforce, host) ==
    UNION {IF enforce THEN Pinned(answer) ELSE answer : answer \in Answers(host)}

=============================================================================
