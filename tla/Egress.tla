------------------------------- MODULE Egress -------------------------------
(* The guard on outgoing addresses (egress.rs) and the three places that use   *)
(* it: HTTP upstreams (prepare_http, egress_block), MCP transports             *)
(* (ensure_mcp_url_allowed) and upstream OAuth (GuardedOAuthHttpClient).       *)
(*                                                                             *)
(* An address is the sequence of its 4 octets or of its 8 segments, a host     *)
(* name the sequence of its labels.  The DNS may answer differently each time. *)
EXTENDS Integers, Sequences, FiniteSets, SequencesExt

CONSTANTS
    Addresses,        \* what a name may resolve to
    EgUrls,           \* [scheme, kind, host], kind "ip", "name" or "none"
    LowerOf,          \* label -> its lower-case form
    MAX_REDIRECTS

Octet == {n \in Nat : n < 256}
Segment == {n \in Nat : n < 65536}
Ip == [1 .. 4 -> Octet] \cup [1 .. 8 -> Segment]
ASSUME EgressAssumption ==
    /\ Addresses \subseteq Ip
    /\ \A u \in EgUrls : u.kind = "ip" => u.host \in Ip
    /\ MAX_REDIRECTS \in Nat

VARIABLES
    egSwitch,         \* [block, built]: the option, and whether the guarded client was built
    egClient,         \* "http", "mcp", "oauth" or "token"
    egTrail,          \* the URLs requested so far, reqwest's previous
    egState,          \* "idle", "sending", "answered" or "over"
    egAt              \* the address the last connection went to, <<>> if none
egVars == <<egSwitch, egClient, egTrail, egState, egAt>>
-----------------------------------------------------------------------------
(* Classification: TRUE for an address that is refused.                        *)
classify_v4(ip) ==
    LET a == ip[1]
        b == ip[2]
    IN  \/ ip = <<168, 63, 129, 16>>
        \/ a \in {0, 10, 127} \cup 224 .. 239 \cup 240 .. 255
        \/ a = 100 /\ b \in 64 .. 127
        \/ a = 169 /\ b = 254
        \/ a = 172 /\ b \in 16 .. 31
        \/ a = 192 /\ b = 168

octets(hi, lo) == <<hi \div 256, hi % 256, lo \div 256, lo % 256>>
last_ipv4(seg) == octets(seg[7], seg[8])
to_ipv4_mapped(seg) == SubSeq(seg, 1, 6) = <<0, 0, 0, 0, 0, 65535>>
is_ipv4_compatible(seg) == SubSeq(seg, 1, 6) = <<0, 0, 0, 0, 0, 0>>
is_nat64(seg) == SubSeq(seg, 1, 6) = <<100, 65435, 0, 0, 0, 0>>

(* Mutant: an IPv4 address inside an IPv6 one is not looked at.                *)
embedded_unseen(seg) == FALSE
embedded_block(seg) ==
    \/ (is_nat64(seg) \/ is_ipv4_compatible(seg)) /\ classify_v4(last_ipv4(seg))
    \/ seg[1] = 8194 /\ classify_v4(octets(seg[2], seg[3]))

Unspecified == <<0, 0, 0, 0, 0, 0, 0, 0>>
Loopback == <<0, 0, 0, 0, 0, 0, 0, 1>>
(* & with 0xff00, 0xffc0 or 0xfe00 keeps the leading 8, 10 or 7 bits.          *)
classify_v6(seg) ==
    IF to_ipv4_mapped(seg) THEN classify_v4(last_ipv4(seg))
    ELSE \/ seg \in {Unspecified, Loopback}
         \/ seg[1] \div 256 = 255
         \/ seg[1] \div 64 \in {65152 \div 64, 65216 \div 64}
         \/ seg[1] \div 512 = 64512 \div 512
         \/ embedded_block(seg)
classify_ip(ip) == IF Len(ip) = 4 THEN classify_v4(ip) ELSE classify_v6(ip)

(* Names that are refused whatever they resolve to.                            *)
Trimmed(host) == LET n == SelectLastInSeq(host, LAMBDA l : l # "") IN SubSeq(host, 1, n)
blocked_hostname(host) ==
    LET h == [i \in DOMAIN Trimmed(host) |-> LowerOf[host[i]]]
    IN  \/ h # <<>> /\ h[Len(h)] = "localhost"
        \/ h \in {<<"metadata">>, <<"metadata", "google", "internal">>, <<"metadata", "azure", "internal">>}

(* TRUE if a URL may be requested.                                             *)
check_parsed(url, dns_pinned) ==
    /\ url.scheme \in {"http", "https"}
    /\ dns_pinned
    /\ \/ url.kind = "ip" /\ ~classify_ip(url.host)
       \/ url.kind = "name" /\ ~blocked_hostname(url.host)

retain_allowed(answers) == {a \in answers : ~classify_ip(a)}
resolve_host(host, answers) == IF blocked_hostname(host) THEN {} ELSE retain_allowed(answers)

decide_redirect(next, previous) ==
    /\ Len(previous) <= MAX_REDIRECTS /\ next \notin Range(previous)
    /\ check_parsed(next, TRUE)
-----------------------------------------------------------------------------
(* The clients.  Without the guarded client HTTP requests are all refused; MCP *)
(* and OAuth are not there at all, since the gateway does not start.           *)
Follows(client) == client \in {"http", "oauth"}
prepare_http == [block_private |-> egSwitch.block, dns_pinned |-> egSwitch.block /\ egSwitch.built]
egress_block(url) == prepare_http.block_private /\ ~check_parsed(url, prepare_http.dns_pinned)
oauth_clients == ~egSwitch.block \/ egSwitch.built
ensure_mcp_url_allowed(url) == ~egSwitch.block \/ check_parsed(url, TRUE)
ensure_outbound_allowed(url) == ~egSwitch.block \/ check_parsed(url, TRUE)

Allowed(client, url) ==
    CASE client = "http" -> ~egress_block(url)
      [] client = "mcp" -> oauth_clients /\ ensure_mcp_url_allowed(url)
      [] OTHER -> oauth_clients /\ ensure_outbound_allowed(url)
Send(client, url) ==
    /\ egState = "idle" /\ url.kind # "none" /\ url.scheme \in {"http", "https"}
    /\ egClient' = client
    /\ egTrail' = <<url>>
    /\ egState' = IF Allowed(client, url) THEN "sending" ELSE "over"
    /\ UNCHANGED <<egSwitch, egAt>>
dispatch_http(url) == Send("http", url)
connect(url) == Send("mcp", url)
execute(url, policy) == Send(IF policy = "follow" THEN "oauth" ELSE "token", url)

(* A literal address is not resolved; a name goes through the resolver when    *)
(* the client is the guarded one.                                              *)
Targets(url, answers) ==
    IF url.kind = "ip" THEN {url.host}
    ELSE IF egSwitch.block THEN resolve_host(url.host, answers) ELSE answers
Connect ==
    /\ egState = "sending"
    /\ \E answers \in {{}} \cup {{a, b} : a, b \in Addresses} :
         LET to == Targets(Last(egTrail), answers)
         IN  \/ to = {} /\ egState' = "over" /\ UNCHANGED egAt
             \/ \E a \in to : egAt' = a /\ egState' = "answered"
    /\ UNCHANGED <<egSwitch, egClient, egTrail>>

(* The answer is final, or a redirect that on_redirect decides about.          *)
Answer == egState = "answered" /\ egState' = "over" /\ UNCHANGED <<egSwitch, egClient, egTrail, egAt>>
on_redirect(next) ==
    /\ egState = "answered" /\ egSwitch.block /\ Follows(egClient)
    /\ IF decide_redirect(next, egTrail)
       THEN egState' = "sending" /\ egTrail' = Append(egTrail, next)
       ELSE egState' = "over" /\ UNCHANGED egTrail
    /\ UNCHANGED <<egSwitch, egClient, egAt>>

EgInit ==
    /\ egSwitch \in [block : BOOLEAN, built : BOOLEAN]
    /\ egClient = "http" /\ egTrail = <<>> /\ egState = "idle" /\ egAt = <<>>
EgNext ==
    \/ \E u \in EgUrls : \/ dispatch_http(u) \/ connect(u) \/ on_redirect(u)
                         \/ \E p \in {"follow", "stop"} : execute(u, p)
    \/ Connect \/ Answer
EgSpec == EgInit /\ [][EgNext]_egVars
-----------------------------------------------------------------------------
(* The address ranges by number: the first two octets of IPv4 as one number,   *)
(* the first segment of IPv6.                                                  *)
Between(n, lo, hi) == lo <= n /\ n <= hi
InRanges4(n) ==
    \/ n <= 255 \/ Between(n, 2560, 2815) \/ Between(n, 25664, 25727) \/ Between(n, 32512, 32767)
    \/ n = 43518 \/ Between(n, 44048, 44063) \/ n = 49320 \/ n >= 57344
InRanges6(n) == Between(n, 64512, 65023) \/ n >= 65152
Private4(ip) == InRanges4(ip[1] * 256 + ip[2]) \/ ip = <<168, 63, 129, 16>>
(* Where the packets of an IPv6 address that holds an IPv4 one end up.         *)
Inner(seg) ==
    CASE seg[1] = 8194 -> {octets(seg[2], seg[3])}
      [] SubSeq(seg, 1, 6) \in {<<0, 0, 0, 0, 0, 65535>>, <<0, 0, 0, 0, 0, 0>>, <<100, 65435, 0, 0, 0, 0>>} ->
           {octets(seg[7], seg[8])}
      [] OTHER -> {}
Forbidden(ip) ==
    IF Len(ip) = 4 THEN Private4(ip)
    ELSE InRanges6(ip[1]) \/ \E v4 \in Inner(ip) : Private4(v4)

(* With the guard on, no connection goes to a loopback, private, link-local,   *)
(* carrier, multicast, reserved or metadata address, whether it was written in *)
(* a URL, came out of a DNS answer that changed between hops, or hides in an   *)
(* IPv6 address; and none at all when the guarded client could not be built.   *)
NeverForbidden ==
    egSwitch.block /\ egAt # <<>> => ~Forbidden(egAt) /\ egSwitch.built

(* Guarded requests end: no URL twice, at most MAX_REDIRECTS redirects, and    *)
(* none for an MCP transport or a token request (decide_redirect).             *)
HopsBounded ==
    egSwitch.block =>
        /\ IsInjective(egTrail) /\ Len(egTrail) <= MAX_REDIRECTS + 1
        /\ ~Follows(egClient) => Len(egTrail) <= 1

(* No hop of a request goes where the guard forbids, and there are not too     *)
(* many of them (egress.rs): the two above.                                    *)
EgressGuarded == NeverForbidden /\ HopsBounded
=============================================================================
