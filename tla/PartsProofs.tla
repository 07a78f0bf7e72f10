---------------------------- MODULE PartsProofs ----------------------------
(* Theorems about the parts of the gateway that share no state with others:    *)
(* the egress guard, for every address and every redirect; the checks at       *)
(* start, for every configuration file and every sequence of admin writes; the *)
(* error answers of the HTTP boundary and of the command line client; the      *)
(* prompts, resources and notifications of the MCP surface; the rows that are  *)
(* kept of calls and of arguments; and the cache of large results.             *)
EXTENDS Egress, Startup, ClientBoundary, McpSurface, Records, ResultCache,
        FiniteSetTheorems, SequenceTheorems, WellFoundedInduction, TLAPS

(* Egress: the classification                                                  *)

\* A function on 1..n is a sequence of length n.
LEMMA Tuple ==
    ASSUME NEW T, NEW n \in Nat, NEW s \in [1 .. n -> T]
    PROVE  s \in Seq(T) /\ Len(s) = n /\ DOMAIN s = 1 .. n /\ \A i \in 1 .. n : s[i] \in T
    OBVIOUS

LEMMA AddressShape ==
    ASSUME NEW ip \in Ip
    PROVE  \/ Len(ip) = 4 /\ ip[1] \in Octet /\ ip[2] \in Octet
           \/ Len(ip) = 8 /\ ip \in Seq(Segment) /\ \A i \in 1 .. 8 : ip[i] \in Segment
  <1>1. CASE ip \in [1 .. 4 -> Octet]
    BY <1>1, Tuple
  <1>2. CASE ip \in [1 .. 8 -> Segment]
    <2> DEFINE n == 8
    <2>1. n \in Nat /\ ip \in [1 .. n -> Segment]
      BY <1>2
    <2> HIDE DEF n
    <2>2. ip \in Seq(Segment) /\ Len(ip) = n /\ \A i \in 1 .. n : ip[i] \in Segment
      BY <2>1, Tuple
    <2> QED BY <2>2 DEF n
  <1> QED BY <1>1, <1>2 DEF Ip

\* The comparisons of classify_v4, octet by octet, cover the ranges as numbers.
LEMMA ClassifyV4 ==
    ASSUME NEW ip, ip[1] \in Octet, ip[2] \in Octet, ~classify_v4(ip)
    PROVE  ~Private4(ip)
  <1> DEFINE a == ip[1]
             b == ip[2]
             n == a * 256 + b
  <1>1. a \in Nat /\ b \in Nat /\ a < 256 /\ b < 256
    BY DEF Octet
  <1>2. /\ ip # <<168, 63, 129, 16>>
        /\ a # 0 /\ a # 10 /\ a # 127 /\ a < 224
        /\ ~(a = 100 /\ b >= 64 /\ b <= 127) /\ ~(a = 169 /\ b = 254)
        /\ ~(a = 172 /\ b >= 16 /\ b <= 31) /\ ~(a = 192 /\ b = 168)
    BY <1>1 DEF classify_v4
  <1> HIDE DEF a, b
  <1>3. n > 255 /\ ~Between(n, 2560, 2815) /\ ~Between(n, 32512, 32767) /\ n < 57344
    BY <1>1, <1>2 DEF Between
  <1>4. ~Between(n, 25664, 25727) /\ n # 43518
    BY <1>1, <1>2 DEF Between
  <1>5. ~Between(n, 44048, 44063) /\ n # 49320
    BY <1>1, <1>2 DEF Between
  <1>6. n \in Nat /\ n = ip[1] * 256 + ip[2]
    BY <1>1 DEF a, b
  <1> HIDE DEF n
  <1> QED BY <1>2, <1>3, <1>4, <1>5, <1>6 DEF Private4, InRanges4

\* The octets inside two segments.
LEMMA OctetsTyped ==
    ASSUME NEW hi \in Segment, NEW lo \in Segment
    PROVE  octets(hi, lo)[1] \in Octet /\ octets(hi, lo)[2] \in Octet
  <1>1. hi \in Int /\ hi >= 0 /\ hi < 65536
    BY DEF Segment
  <1>2. hi \div 256 \in Nat /\ hi \div 256 < 256 /\ hi % 256 \in Nat /\ hi % 256 < 256
    BY <1>1
  <1> QED BY <1>2 DEF octets, Octet

\* The masks of classify_v6 cover the ranges of the first segment.
LEMMA MaskedRanges ==
    ASSUME NEW h \in Segment, h \div 256 # 255,
           h \div 64 # 65152 \div 64, h \div 64 # 65216 \div 64, h \div 512 # 64512 \div 512
    PROVE  ~InRanges6(h)
  <1>1. h \in Int /\ h >= 0 /\ h < 65536
    BY DEF Segment
  <1>2. ~(h >= 65280)
    BY <1>1
  <1>3. ~(h >= 65152 /\ h < 65216)
    BY <1>1
  <1>4. ~(h >= 65216 /\ h < 65280)
    BY <1>1
  <1>5. ~(h >= 64512 /\ h <= 65023)
    BY <1>1
  <1> QED BY <1>1, <1>2, <1>3, <1>4, <1>5 DEF InRanges6, Between

LEMMA ClassifyV6 ==
    ASSUME NEW seg \in Seq(Segment), Len(seg) = 8, \A i \in 1 .. 8 : seg[i] \in Segment,
           ~classify_v6(seg)
    PROVE  ~Forbidden(seg)
  <1> DEFINE P == SubSeq(seg, 1, 6)
             x == octets(seg[7], seg[8])
             y == octets(seg[2], seg[3])
             mapped == <<0, 0, 0, 0, 0, 65535>>
             compatible == <<0, 0, 0, 0, 0, 0>>
             nat64 == <<100, 65435, 0, 0, 0, 0>>
  <1>1. Len(seg) # 4 /\ P[1] = seg[1] /\ seg[1] \in Segment
    BY SubSeqProperties
  <1>2. x[1] \in Octet /\ x[2] \in Octet /\ y[1] \in Octet /\ y[2] \in Octet
    BY OctetsTyped
  <1>3. mapped[1] = 0 /\ compatible[1] = 0 /\ nat64[1] = 100
    OBVIOUS
  <1>4. /\ to_ipv4_mapped(seg) <=> P = mapped
        /\ is_ipv4_compatible(seg) <=> P = compatible
        /\ is_nat64(seg) <=> P = nat64
        /\ last_ipv4(seg) = x
    BY DEF to_ipv4_mapped, is_ipv4_compatible, is_nat64, last_ipv4
  <1>5. Inner(seg) = CASE seg[1] = 8194 -> {y}
                       [] P \in {mapped, compatible, nat64} -> {x}
                       [] OTHER -> {}
    BY DEF Inner
  <1>6. embedded_block(seg) <=> \/ (P = nat64 \/ P = compatible) /\ classify_v4(x)
                                \/ seg[1] = 8194 /\ classify_v4(y)
    BY <1>4 DEF embedded_block
  <1> HIDE DEF P, x, y, mapped, compatible, nat64
  <1>7. (~classify_v4(x) => ~Private4(x)) /\ (~classify_v4(y) => ~Private4(y))
    BY <1>2, ClassifyV4
  <1>8. CASE P = mapped
    <2>1. ~classify_v4(x) /\ seg[1] = 0
      BY <1>1, <1>3, <1>4, <1>8 DEF classify_v6
    <2>2. Inner(seg) = {x} /\ ~InRanges6(seg[1])
      BY <1>5, <1>8, <2>1 DEF InRanges6, Between
    <2> QED BY <1>1, <1>7, <2>1, <2>2 DEF Forbidden
  <1>9. CASE P # mapped
    <2>1. /\ seg[1] \div 256 # 255
          /\ seg[1] \div 64 # 65152 \div 64 /\ seg[1] \div 64 # 65216 \div 64
          /\ seg[1] \div 512 # 64512 \div 512
          /\ ~embedded_block(seg)
      BY <1>4, <1>9 DEF classify_v6
    <2>2. ~InRanges6(seg[1])
      BY <1>1, <2>1, MaskedRanges
    <2>3. \A v \in Inner(seg) : ~Private4(v)
      <3>1. CASE seg[1] = 8194
        <4>1. Inner(seg) = {y}
          BY <1>1, <1>3, <1>5, <3>1
        <4> QED BY <1>6, <1>7, <2>1, <3>1, <4>1
      <3>2. CASE seg[1] # 8194 /\ P \in {compatible, nat64}
        <4>1. Inner(seg) = {x}
          BY <1>5, <3>2
        <4> QED BY <1>6, <1>7, <2>1, <3>2, <4>1
      <3>3. CASE seg[1] # 8194 /\ P \notin {compatible, nat64}
        BY <1>5, <1>9, <3>3
      <3> QED BY <3>1, <3>2, <3>3
    <2> QED BY <1>1, <2>2, <2>3 DEF Forbidden
  <1> QED BY <1>8, <1>9

\* What the guard lets through is not forbidden, for every one of the addresses there
\* are.
THEOREM AllowedNotForbidden == \A ip \in Ip : ~classify_ip(ip) => ~Forbidden(ip)
  <1> SUFFICES ASSUME NEW ip \in Ip, ~classify_ip(ip) PROVE ~Forbidden(ip)
    OBVIOUS
  <1>1. CASE Len(ip) = 4 /\ ip[1] \in Octet /\ ip[2] \in Octet
    BY <1>1, ClassifyV4 DEF classify_ip, Forbidden
  <1>2. CASE Len(ip) = 8 /\ ip \in Seq(Segment) /\ \A i \in 1 .. 8 : ip[i] \in Segment
    BY <1>2, ClassifyV6 DEF classify_ip
  <1> QED BY <1>1, <1>2, AddressShape

(* Egress: the requests                                                        *)

\* A guarded request that is under way was checked, by a client that pins the DNS.
EgressInv ==
    /\ egTrail \in Seq(EgUrls)
    /\ egState \in {"sending", "answered"} =>
          /\ egTrail # <<>>
          /\ egSwitch.block => egSwitch.built /\ check_parsed(Last(egTrail), TRUE)
    /\ EgressGuarded

\* A request starts only if it was checked.
LEMMA SendKeeps ==
    ASSUME EgressInv, NEW client, NEW url \in EgUrls, Send(client, url)
    PROVE  EgressInv'
  <1> DEFINE t == <<url>>
  <1>1. t \in Seq(EgUrls) /\ t # <<>> /\ Len(t) = 1 /\ DOMAIN t = {1} /\ Last(t) = url
    BY DEF Last
  <1>2. egTrail' = t /\ egSwitch' = egSwitch /\ egAt' = egAt
    BY DEF Send
  <1>3. egState' \in {"sending", "answered"} => Allowed(client, url)
    BY DEF Send
  <1>4. Allowed(client, url) /\ egSwitch.block => egSwitch.built /\ check_parsed(url, TRUE)
    BY DEF Allowed, egress_block, prepare_http, oauth_clients, ensure_mcp_url_allowed,
           ensure_outbound_allowed, check_parsed
  <1>5. IsInjective(t) /\ Len(t) <= MAX_REDIRECTS + 1
    BY <1>1, EgressAssumption DEF IsInjective
  <1> HIDE DEF t
  <1>6. NeverForbidden'
    BY <1>2 DEF EgressInv, EgressGuarded, NeverForbidden
  <1>7. HopsBounded'
    <2>1. IsInjective(egTrail')
      BY <1>2, <1>5
    <2>2. Len(egTrail') = 1
      BY <1>1, <1>2
    <2>3. Len(egTrail') <= MAX_REDIRECTS + 1
      BY <1>2, <1>5
    <2> QED BY <2>1, <2>2, <2>3 DEF HopsBounded
  <1> QED BY <1>1, <1>2, <1>3, <1>4, <1>6, <1>7 DEF EgressInv, EgressGuarded

\* A connection goes to an address written in a checked URL or kept by the resolver.
LEMMA ConnectKeeps == EgressInv /\ Connect => EgressInv'
  <1> SUFFICES ASSUME EgressInv, Connect PROVE EgressInv'
    OBVIOUS
  <1> DEFINE u == Last(egTrail)
  <1>1. egTrail' = egTrail /\ egSwitch' = egSwitch /\ egClient' = egClient /\ egState = "sending"
    BY DEF Connect
  <1>2. u \in EgUrls
    BY <1>1 DEF EgressInv, Last
  <1>3. egSwitch.block => egSwitch.built /\ check_parsed(u, TRUE)
    BY <1>1 DEF EgressInv
  <1>4. HopsBounded'
    BY <1>1 DEF EgressInv, EgressGuarded, HopsBounded
  <1>5. NeverForbidden'
    <2>1. PICK found \in {{}} \cup {{a, b} : a, b \in Addresses} :
             egAt' = egAt \/ egAt' \in Targets(u, found)
      BY DEF Connect
    <2> HIDE DEF u
    <2>2. found \subseteq Addresses
      OBVIOUS
    <2>3. CASE egAt' = egAt
      <3>1. NeverForbidden
        BY DEF EgressInv, EgressGuarded
      <3> QED BY <1>1, <2>3, <3>1 DEF NeverForbidden
    <2>4. CASE egAt' \in Targets(u, found)
      <3> SUFFICES ASSUME egSwitch.block PROVE ~Forbidden(egAt') /\ egSwitch.built
        BY <1>1 DEF NeverForbidden
      <3>1. CASE u.kind = "ip"
        <4>1. egAt' = u.host /\ u.host \in Ip
          BY <1>2, <2>4, <3>1, EgressAssumption DEF Targets
        <4>2. ~classify_ip(u.host)
          BY <1>3, <3>1 DEF check_parsed
        <4> QED BY <1>3, <4>1, <4>2, AllowedNotForbidden
      <3>2. CASE u.kind # "ip"
        <4>1. egAt' \in found /\ ~classify_ip(egAt')
          BY <2>4, <3>2 DEF Targets, resolve_host, retain_allowed
        <4>2. egAt' \in Ip
          BY <2>2, <4>1, EgressAssumption
        <4> QED BY <1>3, <4>1, <4>2, AllowedNotForbidden
      <3> QED BY <3>1, <3>2
    <2> QED BY <2>1, <2>3, <2>4
  <1> QED BY <1>1, <1>3, <1>4, <1>5 DEF EgressInv, EgressGuarded

\* A redirect is followed to a checked URL that is new, and not too often.
LEMMA RedirectKeeps ==
    ASSUME EgressInv, NEW next \in EgUrls, on_redirect(next)
    PROVE  EgressInv'
  <1>1. egState = "answered" /\ egSwitch.block /\ Follows(egClient)
        /\ egSwitch' = egSwitch /\ egClient' = egClient /\ egAt' = egAt
    BY DEF on_redirect
  <1>2. egTrail \in Seq(EgUrls) /\ egSwitch.built /\ HopsBounded /\ NeverForbidden
    BY <1>1 DEF EgressInv, EgressGuarded
  <1>3. NeverForbidden'
    BY <1>1, <1>2 DEF NeverForbidden
  <1>4. CASE ~decide_redirect(next, egTrail)
    <2>1. egState' = "over" /\ egTrail' = egTrail
      BY <1>4 DEF on_redirect
    <2> QED BY <1>1, <1>2, <1>3, <2>1 DEF EgressInv, EgressGuarded, HopsBounded
  <1>5. CASE decide_redirect(next, egTrail)
    <2> DEFINE t == Append(egTrail, next)
               n == Len(egTrail)
    <2>1. egState' = "sending" /\ egTrail' = t
      BY <1>5 DEF on_redirect
    <2>2. n \in Nat /\ DOMAIN egTrail = 1 .. n
      BY <1>2
    <2>3. /\ t \in Seq(EgUrls) /\ Len(t) = n + 1 /\ DOMAIN t = 1 .. n + 1
          /\ t[n + 1] = next /\ \A i \in 1 .. n : t[i] = egTrail[i]
      BY <1>2, AppendProperties
    <2>4. n <= MAX_REDIRECTS /\ check_parsed(next, TRUE) /\ \A i \in 1 .. n : egTrail[i] # next
      BY <1>5, <2>2 DEF decide_redirect, Range
    <2> HIDE DEF n, t
    <2>5. \A i, j \in 1 .. n : egTrail[i] = egTrail[j] => i = j
      BY <1>1, <1>2, <2>2 DEF HopsBounded, IsInjective
    <2>6. IsInjective(t)
      <3> SUFFICES ASSUME NEW i \in 1 .. n + 1, NEW j \in 1 .. n + 1, t[i] = t[j] PROVE i = j
        BY <2>3 DEF IsInjective
      <3>1. (i \in 1 .. n \/ i = n + 1) /\ (j \in 1 .. n \/ j = n + 1)
        BY <2>2
      <3> QED BY <2>3, <2>4, <2>5, <3>1
    <2>7. t # <<>> /\ Last(t) = next
      BY <2>2, <2>3 DEF Last
    <2>8. HopsBounded'
      <3>1. n + 1 <= MAX_REDIRECTS + 1
        BY <2>2, <2>4, EgressAssumption
      <3> QED BY <1>1, <2>1, <2>3, <2>6, <3>1 DEF HopsBounded
    <2> QED BY <1>1, <1>2, <1>3, <2>1, <2>3, <2>4, <2>7, <2>8 DEF EgressInv, EgressGuarded
  <1> QED BY <1>4, <1>5

\* Every step of every client keeps the invariant of requests under way.
THEOREM EgressHolds == EgSpec => []EgressInv
  <1>1. EgInit => EgressInv
    <2> SUFFICES ASSUME EgInit PROVE EgressInv
      OBVIOUS
    <2>1. egTrail = <<>> /\ egAt = <<>> /\ egState = "idle"
      BY DEF EgInit
    <2>2. IsInjective(egTrail) /\ Len(egTrail) = 0 /\ egTrail \in Seq(EgUrls)
      BY <2>1 DEF IsInjective
    <2> QED BY <2>1, <2>2, EgressAssumption
            DEF EgressInv, EgressGuarded, NeverForbidden, HopsBounded
  <1>2. EgressInv /\ [EgNext]_egVars => EgressInv'
    <2> SUFFICES ASSUME EgressInv, [EgNext]_egVars PROVE EgressInv'
      OBVIOUS
    <2>1. CASE UNCHANGED egVars
      BY <2>1 DEF egVars, EgressInv, EgressGuarded, NeverForbidden, HopsBounded
    <2>2. ASSUME NEW u \in EgUrls, dispatch_http(u) \/ connect(u) PROVE EgressInv'
      BY <2>2, SendKeeps DEF dispatch_http, connect
    <2>3. ASSUME NEW u \in EgUrls, NEW p, execute(u, p) PROVE EgressInv'
      BY <2>3, SendKeeps DEF execute
    <2>4. ASSUME NEW u \in EgUrls, on_redirect(u) PROVE EgressInv'
      BY <2>4, RedirectKeeps
    <2>5. CASE Connect
      BY <2>5, ConnectKeeps
    <2>6. CASE Answer
      BY <2>6 DEF Answer, EgressInv, EgressGuarded, NeverForbidden, HopsBounded
    <2> QED BY <2>1, <2>2, <2>3, <2>4, <2>5, <2>6 DEF EgNext
  <1> QED BY <1>1, <1>2, PTL DEF EgSpec

\* With the guard on, no connection of any client goes to a forbidden address, whatever
\* the DNS answers and wherever redirects lead, and no request has more hops than
\* decide_redirect allows.
THEOREM AlwaysGuarded == EgSpec => []EgressGuarded
  <1>1. EgressInv => EgressGuarded
    BY DEF EgressInv
  <1> QED BY <1>1, EgressHolds, PTL

(* Startup                                                                     *)

\* What validate_mcp_oauth asks of auth alone, and the rest, about the URL.
AuthOk(auth, oauth) ==
    auth.type = "oauth" =>
        /\ auth.client # "blank"
        /\ auth.secret # "absent" => ensure_secret_ref(auth.secret)
        /\ auth.scopes
        /\ CASE auth.grant = "client_credentials" -> auth.client # "absent" /\ auth.secret # "absent"
             [] auth.grant = "authorization_code" ->
                  /\ auth.secret # "absent" => auth.client # "absent"
                  /\ oauth.redirect.set /\ oauth.key # "absent"
BadUrl(s) == s.auth.type = "oauth" /\ ~(s.url.http /\ s.url.secure)

\* An entry that is persisted or in use passes every check but the one on its URL.
ServerOk(s, oauth) == AuthOk(s.auth, oauth) /\ s.limits # "zero"
ResourceOk(r) ==
    /\ r.auth.type # "oauth" /\ r.limits # "zero"
    /\ r.pool # "none" => r.pool # "invalid" /\ r.auth.type # "none"
EntriesOk(config, oauth) ==
    /\ \A s \in config.servers : ServerOk(s, oauth)
    /\ \A r \in config.resources : ResourceOk(r)

\* The file alone passes every check.
YamlOk(yaml) ==
    /\ parse_config_file(yaml) /\ expand_ok(yaml.builtin)
    /\ pools_from_config(yaml.resources) /\ limits_from_config(yaml.servers, yaml.resources)

StartupInv ==
    /\ stDb = [servers |-> stDb.servers, resources |-> stDb.resources]
    /\ EntriesOk(stDb, Yaml.oauth) /\ EntriesOk(stLive, Yaml.oauth)
    /\ stEver => YamlOk(Yaml)
    /\ stState = "up" => stEver
    /\ RefusedOnlyForUrl

LEMMA AuthSplit ==
    ASSUME NEW s, NEW oauth
    PROVE  validate_mcp_oauth(s.auth, s.url, oauth) <=> AuthOk(s.auth, oauth) /\ ~BadUrl(s)
    BY DEF validate_mcp_oauth, AuthOk, BadUrl

LEMMA NoAuthOk == ASSUME NEW oauth PROVE AuthOk(NoAuth, oauth) /\ NoAuth.type # "oauth"
    BY DEF AuthOk, NoAuth

\* Merging rows that are in order into a file that is: only a URL can be refused.
LEMMA MergedOk ==
    ASSUME NEW yaml, NEW rows, YamlOk(yaml), EntriesOk(rows, yaml.oauth),
           NEW servers, NEW resources,
           servers = expand_builtin_mcp(yaml.builtin, merge_db_into_config(yaml.servers, rows.servers)),
           resources = merge_db_into_config(yaml.resources, rows.resources)
    PROVE  /\ EntriesOk([servers |-> servers, resources |-> resources], yaml.oauth)
           /\ pools_from_config(resources) /\ limits_from_config(servers, resources)
           /\ validate_oauth(yaml.oauth, servers, resources) \/ \E s \in rows.servers : BadUrl(s)
  <1>1. validate_oauth(yaml.oauth, yaml.servers, yaml.resources)
    BY DEF YamlOk, parse_config_file
  <1>2. \A r \in yaml.resources : ResourceOk(r)
    BY <1>1 DEF YamlOk, validate_oauth, pools_from_config, limits_from_config, ResourceOk
  <1>3. \A s \in yaml.servers : ServerOk(s, yaml.oauth) /\ ~BadUrl(s)
    BY <1>1, AuthSplit DEF YamlOk, validate_oauth, limits_from_config, ServerOk
  <1>4. \A id : ServerOk(PresetServer(id), yaml.oauth) /\ ~BadUrl(PresetServer(id))
    BY NoAuthOk DEF PresetServer, ServerOk, BadUrl
  <1>5. \A r \in resources : r \in yaml.resources \/ r \in rows.resources
    BY DEF merge_db_into_config
  <1>6. \A s \in servers : \/ s \in yaml.servers \/ s \in rows.servers
                           \/ \E id : s = PresetServer(id)
    BY DEF expand_builtin_mcp, merge_db_into_config
  <1>7. \A r \in resources : ResourceOk(r)
    BY <1>2, <1>5 DEF EntriesOk
  <1>8. \A s \in servers : ServerOk(s, yaml.oauth) /\ (s \in rows.servers \/ ~BadUrl(s))
    BY <1>3, <1>4, <1>6 DEF EntriesOk
  <1>9. pools_from_config(resources) /\ limits_from_config(servers, resources)
    BY <1>7, <1>8 DEF pools_from_config, limits_from_config, ResourceOk, ServerOk
  <1>10. EntriesOk([servers |-> servers, resources |-> resources], yaml.oauth)
    BY <1>7, <1>8 DEF EntriesOk
  <1>11. ASSUME \A s \in rows.servers : ~BadUrl(s)
         PROVE  validate_oauth(yaml.oauth, servers, resources)
    <2>1. \A s \in servers : validate_mcp_oauth(s.auth, s.url, yaml.oauth)
      BY <1>8, <1>11, AuthSplit DEF ServerOk
    <2>2. (\A r \in resources : r.auth.type # "oauth") /\ OAuthConfigValid(yaml.oauth)
      BY <1>1, <1>7 DEF ResourceOk, validate_oauth
    <2> QED BY <2>1, <2>2 DEF validate_oauth
  <1> QED BY <1>9, <1>10, <1>11

LEMMA ServeKeeps == StartupInv /\ serve => StartupInv'
  <1> SUFFICES ASSUME StartupInv, serve PROVE StartupInv'
    OBVIOUS
  <1> DEFINE yaml == Yaml
             config == load_serve_config(yaml)
             ok == /\ parse_config_file(yaml)
                   /\ expand_ok(yaml.builtin)
                   /\ validate_oauth(yaml.oauth, config.servers, config.resources)
                   /\ pools_from_config(config.resources)
                   /\ limits_from_config(config.servers, config.resources)
  <1>1. /\ IF ok THEN stState' = "up" /\ stLive' = config /\ stEver' = TRUE
             ELSE stState' = "refused" /\ stLive' = stLive /\ stEver' = stEver
        /\ stEnv' = stEnv /\ stDb' = stDb
    BY DEF serve
  <1>2. Yaml' = Yaml
    BY <1>1 DEF Yaml
  <1>3. config = [servers |-> config.servers, resources |-> config.resources]
        /\ config.servers = expand_builtin_mcp(yaml.builtin, merge_db_into_config(yaml.servers, stDb.servers))
        /\ config.resources = merge_db_into_config(yaml.resources, stDb.resources)
    BY DEF load_serve_config
  <1>4. EntriesOk(stDb, yaml.oauth) /\ EntriesOk(stLive, yaml.oauth)
    BY DEF StartupInv
  <1> HIDE DEF config, yaml
  <1>5. YamlOk(yaml) => /\ EntriesOk(config, yaml.oauth)
                        /\ pools_from_config(config.resources)
                        /\ limits_from_config(config.servers, config.resources)
                        /\ \/ validate_oauth(yaml.oauth, config.servers, config.resources)
                           \/ \E s \in stDb.servers : BadUrl(s)
    BY <1>3, <1>4, MergedOk
  <1>6. CASE ok
    <2>1. yaml.resources \subseteq config.resources /\ yaml.servers \subseteq config.servers
      BY <1>3 DEF expand_builtin_mcp, merge_db_into_config
    <2>2. YamlOk(yaml)
      BY <1>6, <2>1 DEF YamlOk, pools_from_config, limits_from_config
    <2>3. stState' = "up" /\ stLive' = config /\ stEver' = TRUE
      BY <1>1, <1>6
    <2> QED BY <1>1, <1>2, <1>4, <1>5, <2>2, <2>3 DEF StartupInv, RefusedOnlyForUrl, yaml
  <1>7. CASE ~ok
    <2>1. stState' = "refused" /\ stLive' = stLive /\ stEver' = stEver
      BY <1>1, <1>7
    <2>2. stEver => YamlOk(yaml)
      BY DEF StartupInv, yaml
    <2>3. stEver => \E s \in stDb.servers : BadUrl(s)
      BY <1>5, <1>7, <2>2 DEF YamlOk
    <2>4. RefusedOnlyForUrl'
      BY <1>1, <2>1, <2>3 DEF RefusedOnlyForUrl, BadUrl
    <2> QED BY <1>1, <1>2, <1>4, <2>1, <2>2, <2>4 DEF StartupInv, yaml
  <1> QED BY <1>6, <1>7

\* A write keeps the invariant when the entries it puts in use and those it persists
\* have auth that is in order, and are in use.
LEMMA SwapKeeps ==
    ASSUME StartupInv, NEW servers, NEW resources, Swap(servers, resources),
           \A s \in servers : AuthOk(s.auth, Yaml.oauth),
           stDb' = [servers |-> stDb'.servers, resources |-> stDb'.resources],
           \A s \in stDb'.servers : s \in stDb.servers \/ s \in servers,
           \A r \in stDb'.resources : r \in stDb.resources \/ r \in resources
    PROVE  StartupInv'
  <1>1. /\ stState = "up" /\ stState' = stState /\ stEnv' = stEnv /\ stEver' = stEver
        /\ stLive' = [servers |-> servers, resources |-> resources]
        /\ swap_ok(servers, resources)
    BY DEF Swap
  <1>2. Yaml' = Yaml
    BY <1>1 DEF Yaml
  <1>3. (\A s \in servers : ServerOk(s, Yaml.oauth)) /\ \A r \in resources : ResourceOk(r)
    BY <1>1 DEF swap_ok, limits_from_config, key_pools_from_config, pools_from_config,
                ServerOk, ResourceOk
  <1>4. EntriesOk(stLive', Yaml.oauth)
    BY <1>1, <1>3 DEF EntriesOk
  <1>5. EntriesOk(stDb', Yaml.oauth)
    BY <1>3 DEF EntriesOk, StartupInv
  <1>6. RefusedOnlyForUrl'
    BY <1>1 DEF RefusedOnlyForUrl
  <1> QED BY <1>1, <1>2, <1>4, <1>5, <1>6 DEF StartupInv

LEMMA PersistServers ==
    ASSUME StartupInv, NEW rows, Persist("servers", rows), NEW servers,
           \A s \in rows : s \in stDb.servers \/ s \in servers
    PROVE  /\ stDb' = [servers |-> stDb'.servers, resources |-> stDb'.resources]
           /\ \A s \in stDb'.servers : s \in stDb.servers \/ s \in servers
           /\ \A r \in stDb'.resources : r \in stDb.resources
    BY DEF StartupInv, Persist

LEMMA PersistResources ==
    ASSUME StartupInv, NEW rows, Persist("resources", rows), NEW resources,
           \A r \in rows : r \in stDb.resources \/ r \in resources
    PROVE  /\ stDb' = [servers |-> stDb'.servers, resources |-> stDb'.resources]
           /\ \A s \in stDb'.servers : s \in stDb.servers
           /\ \A r \in stDb'.resources : r \in stDb.resources \/ r \in resources
    BY DEF StartupInv, Persist

\* The auth of the servers in use, and what rows of an INSERT or UPDATE hold.
LEMMA LiveAuth == StartupInv => \A s \in stLive.servers : AuthOk(s.auth, Yaml.oauth)
    BY DEF StartupInv, EntriesOk, ServerOk

LEMMA RowsOf ==
    ASSUME NEW rows, NEW e
    PROVE  /\ \A x \in Insert(rows, e) : x \in rows \/ x = e
           /\ \A x \in Update(rows, e) : x \in rows \/ x = e
    BY DEF Insert, Update, Dropped

LEMMA ServerWriteKeeps ==
    ASSUME StartupInv, NEW w \in ServerWrites,
           create_server(w) \/ update_server(w) \/ delete_server(w.id)
    PROVE  StartupInv'
  <1>1. CASE create_server(w)
    <2> DEFINE e == into_config(w)
               servers == stLive.servers \cup {e}
    <2>1. /\ into_config_ok(w) /\ Swap(servers, stLive.resources)
          /\ Persist("servers", Insert(stDb.servers, e))
      BY <1>1 DEF create_server
    <2>2. AuthOk(e.auth, Yaml.oauth)
      BY <2>1, AuthSplit DEF into_config_ok
    <2>3. \A s \in servers : AuthOk(s.auth, Yaml.oauth)
      BY <2>2, LiveAuth
    <2>4. e \in servers
      OBVIOUS
    <2> HIDE DEF e, servers
    <2>5. \A s \in Insert(stDb.servers, e) : s \in stDb.servers \/ s \in servers
      BY <2>4, RowsOf
    <2> QED BY <2>1, <2>3, <2>5, PersistServers, SwapKeeps
  <1>2. CASE update_server(w)
    <2>1. PICK old \in stLive.servers :
             LET s == [into_config(w) EXCEPT !.auth = IF w.has_auth THEN @ ELSE old.auth]
             IN  /\ Swap(Dropped(stLive.servers, s.id) \cup {s}, stLive.resources)
                 /\ Persist("servers", Update(stDb.servers, s))
      BY <1>2 DEF update_server
    <2> DEFINE e == [into_config(w) EXCEPT !.auth = IF w.has_auth THEN @ ELSE old.auth]
               servers == Dropped(stLive.servers, e.id) \cup {e}
    <2>2. e.auth = IF w.has_auth THEN into_config(w).auth ELSE old.auth
      BY DEF into_config
    <2>3. AuthOk(into_config(w).auth, Yaml.oauth)
      BY <1>2, AuthSplit DEF update_server, into_config_ok
    <2>4. AuthOk(old.auth, Yaml.oauth)
      BY LiveAuth
    <2>5. Swap(servers, stLive.resources) /\ Persist("servers", Update(stDb.servers, e))
      BY <2>1
    <2> HIDE DEF e
    <2>6. \A s \in servers : AuthOk(s.auth, Yaml.oauth)
      BY <2>2, <2>3, <2>4, LiveAuth DEF Dropped
    <2>7. e \in servers
      OBVIOUS
    <2> HIDE DEF servers
    <2>8. \A s \in Update(stDb.servers, e) : s \in stDb.servers \/ s \in servers
      BY <2>7, RowsOf
    <2> QED BY <2>5, <2>6, <2>8, PersistServers, SwapKeeps
  <1>3. CASE delete_server(w.id)
    <2> DEFINE servers == Dropped(stLive.servers, w.id)
    <2>1. Swap(servers, stLive.resources) /\ Persist("servers", Dropped(stDb.servers, w.id))
      BY <1>3 DEF delete_server
    <2>2. \A s \in servers : AuthOk(s.auth, Yaml.oauth)
      BY LiveAuth DEF Dropped
    <2>3. \A s \in Dropped(stDb.servers, w.id) : s \in stDb.servers \/ s \in servers
      BY DEF Dropped
    <2> HIDE DEF servers
    <2> QED BY <2>1, <2>2, <2>3, PersistServers, SwapKeeps
  <1> QED BY <1>1, <1>2, <1>3

LEMMA ResourceWriteKeeps ==
    ASSUME StartupInv, NEW w \in ResourceWrites,
           create_resource(w) \/ update_resource(w) \/ delete_resource(w.id)
    PROVE  StartupInv'
  <1>1. ASSUME NEW resources, Swap(stLive.servers, resources),
               NEW rows, Persist("resources", rows),
               \A r \in rows : r \in stDb.resources \/ r \in resources
        PROVE  StartupInv'
    BY <1>1, LiveAuth, PersistResources, SwapKeeps
  <1>2. CASE create_resource(w)
    <2> DEFINE e == apply_create(w)
    <2>1. /\ Swap(stLive.servers, stLive.resources \cup {e})
          /\ Persist("resources", Insert(stDb.resources, e))
      BY <1>2 DEF create_resource
    <2> HIDE DEF e
    <2> QED BY <1>1, <2>1, RowsOf
  <1>3. CASE update_resource(w)
    <2>1. PICK old \in stLive.resources :
             LET r == apply_update(old, w)
             IN  /\ Swap(stLive.servers, Dropped(stLive.resources, r.id) \cup {r})
                 /\ Persist("resources", Update(stDb.resources, r))
      BY <1>3 DEF update_resource
    <2> DEFINE e == apply_update(old, w)
    <2>2. /\ Swap(stLive.servers, Dropped(stLive.resources, e.id) \cup {e})
          /\ Persist("resources", Update(stDb.resources, e))
      BY <2>1
    <2> HIDE DEF e
    <2> QED BY <1>1, <2>2, RowsOf
  <1>4. CASE delete_resource(w.id)
    <2>1. /\ Swap(stLive.servers, Dropped(stLive.resources, w.id))
          /\ Persist("resources", Dropped(stDb.resources, w.id))
      BY <1>4 DEF delete_resource
    <2>2. \A r \in Dropped(stDb.resources, w.id) : r \in stDb.resources
      BY DEF Dropped
    <2> QED BY <1>1, <2>1, <2>2
  <1> QED BY <1>2, <1>3, <1>4

\* Every start, stop and admin write keeps the invariant of file, rows and live entries.
THEOREM StartupHolds == StSpec => []StartupInv
  <1>1. StInit => StartupInv
    BY DEF StInit, StartupInv, EntriesOk, RefusedOnlyForUrl
  <1>2. StartupInv /\ [StNext]_stVars => StartupInv'
    <2> SUFFICES ASSUME StartupInv, [StNext]_stVars PROVE StartupInv'
      OBVIOUS
    <2>1. CASE UNCHANGED stVars
      BY <2>1 DEF stVars, StartupInv, RefusedOnlyForUrl, Yaml
    <2>2. CASE serve
      BY <2>2, ServeKeeps
    <2>3. CASE Stop
      BY <2>3 DEF Stop, StartupInv, RefusedOnlyForUrl, Yaml
    <2>4. CASE \E w \in ServerWrites : create_server(w) \/ update_server(w) \/ delete_server(w.id)
      BY <2>4, ServerWriteKeeps
    <2>5. CASE \E w \in ResourceWrites : create_resource(w) \/ update_resource(w) \/ delete_resource(w.id)
      BY <2>5, ResourceWriteKeeps
    <2> QED BY <2>1, <2>2, <2>3, <2>4, <2>5 DEF StNext
  <1> QED BY <1>1, <1>2, PTL DEF StSpec

\* Whatever the file, the environment and the requests the admin API accepted, a gateway
\* that ran once is refused its next start only for an OAuth server whose URL a PUT
\* without auth replaced.
THEOREM StartRefusedOnlyForUrl == StSpec => []RefusedOnlyForUrl
  <1>1. StartupInv => RefusedOnlyForUrl
    BY DEF StartupInv
  <1> QED BY <1>1, StartupHolds, PTL

(* Sums over finite sets                                                       *)

\* Every family of subsets of a finite set has a minimal member.
LEMMA LeastSet ==
    ASSUME NEW S, IsFiniteSet(S), NEW B \in SUBSET SUBSET S, B # {}
    PROVE  \E T \in B : \A U \in B : U \subseteq T => U = T
  <1> DEFINE R == StrictSubsetOrdering(S)
  <1>1. IsWellFoundedOn(R, FiniteSubsetsOf(S))
    BY FS_StrictSubsetOrderingWellFounded
  <1>2. B \subseteq FiniteSubsetsOf(S)
    BY FS_Subset DEF FiniteSubsetsOf
  <1>3. \A T, U \in B : U \subseteq T /\ U # T => <<U, T>> \in R
    BY DEF StrictSubsetOrdering
  <1> HIDE DEF R
  <1>4. PICK T \in B : \A U \in B : ~(<<U, T>> \in R)
    BY <1>1, <1>2, WFMin
  <1> QED BY <1>3, <1>4

Pick(U) == CHOOSE x \in U : TRUE
\* h gives the sums over the subsets of T.
SumsTo(w, h, T) ==
    h = [U \in SUBSET T |-> IF U = {} THEN 0 ELSE w[Pick(U)] + h[U \ {Pick(U)}]]

LEMMA PickIn == \A U : U # {} => Pick(U) \in U
  BY DEF Pick

LEMMA SumsAgree ==
    ASSUME NEW S, IsFiniteSet(S), NEW w, NEW h, NEW k, NEW A \in SUBSET S, NEW B \in SUBSET S,
           SumsTo(w, h, A), SumsTo(w, k, B), NEW V \in SUBSET (A \cap B)
    PROVE  h[V] = k[V]
  <1> DEFINE Bad == {U \in SUBSET S : U \subseteq A /\ U \subseteq B /\ h[U] # k[U]}
  <1> SUFFICES ASSUME Bad # {} PROVE FALSE
    OBVIOUS
  <1>1. PICK U \in Bad : \A X \in Bad : X \subseteq U => X = U
    <2>1. Bad \in SUBSET SUBSET S
      OBVIOUS
    <2> HIDE DEF Bad
    <2> QED BY <2>1, LeastSet
  <1>2. h[U] = (IF U = {} THEN 0 ELSE w[Pick(U)] + h[U \ {Pick(U)}])
    BY DEF SumsTo
  <1>3. k[U] = (IF U = {} THEN 0 ELSE w[Pick(U)] + k[U \ {Pick(U)}])
    BY DEF SumsTo
  <1>4. U # {}
    BY <1>2, <1>3
  <1>5. U \ {Pick(U)} \notin Bad
    BY <1>1, <1>4, PickIn
  <1>6. h[U \ {Pick(U)}] = k[U \ {Pick(U)}]
    BY <1>5
  <1> QED BY <1>2, <1>3, <1>4, <1>6

LEMMA SumsExist ==
    ASSUME NEW S, IsFiniteSet(S), NEW w \in [S -> Nat], NEW V \in SUBSET S
    PROVE  \E h \in [SUBSET V -> Nat] : SumsTo(w, h, V)
  <1> DEFINE Bad == {U \in SUBSET S : ~\E h \in [SUBSET U -> Nat] : SumsTo(w, h, U)}
  <1> SUFFICES ASSUME Bad # {} PROVE FALSE
    OBVIOUS
  <1>1. PICK T \in Bad : \A X \in Bad : X \subseteq T => X = T
    <2>1. Bad \in SUBSET SUBSET S
      OBVIOUS
    <2> HIDE DEF Bad
    <2> QED BY <2>1, LeastSet
  <1> DEFINE H(U) == CHOOSE h \in [SUBSET U -> Nat] : SumsTo(w, h, U)
             Top == IF T = {} THEN 0 ELSE w[Pick(T)] + H(T \ {Pick(T)})[T \ {Pick(T)}]
             g == [U \in SUBSET T |-> IF U = T THEN Top ELSE H(U)[U]]
  <1>2. \A U \in SUBSET T : U # T => H(U) \in [SUBSET U -> Nat] /\ SumsTo(w, H(U), U)
    BY <1>1
  <1> HIDE DEF H
  <1>3. T # {} => T \ {Pick(T)} \in SUBSET T /\ T \ {Pick(T)} # T /\ w[Pick(T)] \in Nat
    BY PickIn
  <1>4. Top \in Nat
    <2>1. CASE T = {}
      BY <2>1
    <2>2. CASE T # {}
      <3>1. H(T \ {Pick(T)})[T \ {Pick(T)}] \in Nat
        <4> DEFINE X == T \ {Pick(T)}
        <4>1. X \in SUBSET T /\ X # T
          BY <1>3, <2>2
        <4> HIDE DEF X
        <4>2. H(X) \in [SUBSET X -> Nat]
          BY <4>1, <1>2
        <4>3. H(X)[X] \in Nat
          BY <4>2
        <4> QED BY <4>3 DEF X
      <3> QED BY <3>1, <1>3, <2>2
    <2> QED BY <2>1, <2>2
  <1>5. g \in [SUBSET T -> Nat]
    BY <1>2, <1>4
  <1>6. ASSUME NEW U \in SUBSET T
        PROVE  g[U] = IF U = {} THEN 0 ELSE w[Pick(U)] + g[U \ {Pick(U)}]
    <2>1. CASE U = T
      BY <2>1, <1>3
    <2>2. CASE U # T /\ U = {}
      <3>1. g[U] = H(U)[U]
        BY <2>2
      <3>2. H(U)[U] = 0
        BY <1>2, <2>2 DEF SumsTo
      <3> QED BY <2>2, <3>1, <3>2
    <2>3. CASE U # T /\ U # {}
      <3> DEFINE X == U \ {Pick(U)}
      <3>1. X \in SUBSET U /\ X # T /\ X \in SUBSET T /\ X \in SUBSET (U \cap X)
        BY <2>3, PickIn
      <3>2. g[U] = H(U)[U] /\ g[X] = H(X)[X]
        BY <2>3, <3>1
      <3>3. SumsTo(w, H(U), U) /\ SumsTo(w, H(X), X)
        BY <1>2, <2>3, <3>1
      <3>4. H(U)[U] = w[Pick(U)] + H(U)[X]
        BY <2>3, <3>3 DEF SumsTo
      <3>5. H(U)[X] = H(X)[X]
        <4> DEFINE a == H(U)
                   b == H(X)
        <4>1. SumsTo(w, a, U) /\ SumsTo(w, b, X) /\ U \in SUBSET S /\ X \in SUBSET S
          BY <3>1, <3>3
        <4> HIDE DEF a, b, X
        <4> QED BY <4>1, <3>1, SumsAgree DEF a, b
      <3> QED BY <2>3, <3>2, <3>4, <3>5
    <2> QED BY <2>1, <2>2, <2>3
  <1>7. SumsTo(w, g, T)
    BY <1>5, <1>6 DEF SumsTo
  <1> QED BY <1>1, <1>5, <1>7

LEMMA SumIs ==
    ASSUME NEW S, IsFiniteSet(S), NEW w \in [S -> Nat], NEW V \in SUBSET S, NEW h, SumsTo(w, h, V)
    PROVE  SumFunctionOnSet(w, V) = h[V]
  <1> DEFINE c == CHOOSE g : SumsTo(w, g, V)
  <1>1. SumsTo(w, c, V)
    OBVIOUS
  <1>2. SumFunctionOnSet(w, V) = c[V]
    BY DEF SumFunctionOnSet, FoldFunctionOnSet, MapThenFoldSet, SumsTo, Pick
  <1> HIDE DEF c
  <1>3. V \in SUBSET (V \cap V)
    OBVIOUS
  <1> QED BY <1>1, <1>2, <1>3, SumsAgree

\* The sum over nothing is 0, and that over anything is reached from the sum
\* without the element that is taken first.
LEMMA SumSteps ==
    ASSUME NEW S, IsFiniteSet(S), NEW w \in [S -> Nat], NEW V \in SUBSET S
    PROVE  /\ SumFunctionOnSet(w, V) \in Nat
           /\ SumFunctionOnSet(w, {}) = 0
           /\ V # {} => SumFunctionOnSet(w, V) = w[Pick(V)] + SumFunctionOnSet(w, V \ {Pick(V)})
  <1>1. PICK h \in [SUBSET V -> Nat] : SumsTo(w, h, V)
    BY SumsExist
  <1>2. SumFunctionOnSet(w, V) = h[V]
    BY <1>1, SumIs
  <1>3. SumFunctionOnSet(w, V) \in Nat
    BY <1>2
  <1>4. SumFunctionOnSet(w, {}) = 0
    <2>1. {} \in SUBSET S
      OBVIOUS
    <2>2. PICK k : SumsTo(w, k, {})
      BY <2>1, SumsExist
    <2>3. k[{}] = 0
      BY <2>2 DEF SumsTo
    <2> QED BY <2>1, <2>2, <2>3, SumIs
  <1>5. ASSUME V # {}
        PROVE  SumFunctionOnSet(w, V) = w[Pick(V)] + SumFunctionOnSet(w, V \ {Pick(V)})
    <2> DEFINE X == V \ {Pick(V)}
    <2>1. X \in SUBSET S /\ X \in SUBSET (V \cap X)
      OBVIOUS
    <2>2. h[V] = w[Pick(V)] + h[X]
      BY <1>1, <1>5 DEF SumsTo
    <2> HIDE DEF X
    <2>3. PICK k : SumsTo(w, k, X)
      BY <2>1, SumsExist
    <2>4. SumFunctionOnSet(w, X) = k[X]
      BY <2>1, <2>3, SumIs
    <2>5. h[X] = k[X]
      BY <1>1, <2>1, <2>3, SumsAgree
    <2> QED BY <1>2, <2>2, <2>4, <2>5 DEF X
  <1> QED BY <1>3, <1>4, <1>5

\* The order of the summands does not matter.
LEMMA SumRemove ==
    ASSUME NEW S, IsFiniteSet(S), NEW w \in [S -> Nat], NEW V \in SUBSET S, NEW z \in V
    PROVE  SumFunctionOnSet(w, V) = w[z] + SumFunctionOnSet(w, V \ {z})
  <1> DEFINE Sum(X) == SumFunctionOnSet(w, X)
             Bad == {U \in SUBSET S : \E x \in U : Sum(U) # w[x] + Sum(U \ {x})}
  <1> SUFFICES ASSUME Bad # {} PROVE FALSE
    OBVIOUS
  <1>0. \A X \in SUBSET S : Sum(X) \in Nat /\ (X # {} => Sum(X) = w[Pick(X)] + Sum(X \ {Pick(X)}))
    BY SumSteps
  <1> HIDE DEF Sum
  <1>1. PICK U \in Bad : \A X \in Bad : X \subseteq U => X = U
    <2>1. Bad \in SUBSET SUBSET S
      OBVIOUS
    <2> HIDE DEF Bad
    <2> QED BY <2>1, LeastSet
  <1>2. PICK x \in U : Sum(U) # w[x] + Sum(U \ {x})
    OBVIOUS
  <1> DEFINE y == Pick(U)
             A == U \ {y}
             B == U \ {x}
             C == U \ {x, y}
  <1>3. y \in U /\ U \in SUBSET S /\ Sum(U) = w[y] + Sum(A)
    BY <1>0, <1>2, PickIn
  <1> HIDE DEF y
  <1>4. x # y
    BY <1>2, <1>3
  <1>5. A \notin Bad /\ B \notin Bad
    BY <1>1, <1>2, <1>3
  <1>6. x \in A /\ y \in B /\ A \ {x} = C /\ B \ {y} = C /\ A \in SUBSET S /\ B \in SUBSET S /\ C \in SUBSET S
    BY <1>2, <1>3, <1>4
  <1>7. Sum(A) = w[x] + Sum(A \ {x})
    BY <1>5, <1>6
  <1>8. Sum(B) = w[y] + Sum(B \ {y})
    BY <1>5, <1>6
  <1>9. w[x] \in Nat /\ w[y] \in Nat /\ Sum(C) \in Nat
    BY <1>0, <1>2, <1>3, <1>6
  <1>10. Sum(A) = w[x] + Sum(C) /\ Sum(B) = w[y] + Sum(C)
    BY <1>6, <1>7, <1>8
  <1> HIDE DEF A, B, C
  <1>11. Sum(U) = w[x] + Sum(B)
    BY <1>3, <1>9, <1>10
  <1> QED BY <1>2, <1>11 DEF B

\* Only the values on the set count.
LEMMA SumSame ==
    ASSUME NEW S, IsFiniteSet(S), NEW w \in [S -> Nat], NEW T, IsFiniteSet(T), NEW v \in [T -> Nat],
           NEW V \in SUBSET (S \cap T), \A x \in V : w[x] = v[x]
    PROVE  SumFunctionOnSet(w, V) = SumFunctionOnSet(v, V)
  <1> DEFINE Sw(X) == SumFunctionOnSet(w, X)
             Sv(X) == SumFunctionOnSet(v, X)
             Bad == {U \in SUBSET S : U \subseteq V /\ Sw(U) # Sv(U)}
  <1> SUFFICES ASSUME Bad # {} PROVE FALSE
    OBVIOUS
  <1>0. \A X \in SUBSET V : /\ Sw({}) = 0 /\ Sv({}) = 0
                            /\ X # {} => Sw(X) = w[Pick(X)] + Sw(X \ {Pick(X)})
                            /\ X # {} => Sv(X) = v[Pick(X)] + Sv(X \ {Pick(X)})
    <2> SUFFICES ASSUME NEW X \in SUBSET V
                 PROVE  /\ Sw({}) = 0 /\ Sv({}) = 0
                        /\ X # {} => Sw(X) = w[Pick(X)] + Sw(X \ {Pick(X)})
                        /\ X # {} => Sv(X) = v[Pick(X)] + Sv(X \ {Pick(X)})
      OBVIOUS
    <2>1. X \in SUBSET S /\ X \in SUBSET T
      OBVIOUS
    <2>2. Sw({}) = 0 /\ (X # {} => Sw(X) = w[Pick(X)] + Sw(X \ {Pick(X)}))
      BY <2>1, SumSteps
    <2>3. Sv({}) = 0 /\ (X # {} => Sv(X) = v[Pick(X)] + Sv(X \ {Pick(X)}))
      BY <2>1, SumSteps
    <2> QED BY <2>2, <2>3
  <1> HIDE DEF Sw, Sv
  <1>1. PICK U \in Bad : \A X \in Bad : X \subseteq U => X = U
    <2>1. Bad \in SUBSET SUBSET S
      OBVIOUS
    <2> HIDE DEF Bad
    <2> QED BY <2>1, LeastSet
  <1>2. U # {}
    BY <1>0
  <1> DEFINE y == Pick(U)
  <1>3. y \in U /\ U \in SUBSET V /\ Sw(U) = w[y] + Sw(U \ {y}) /\ Sv(U) = v[y] + Sv(U \ {y})
    BY <1>0, <1>2, PickIn
  <1> HIDE DEF y
  <1>4. U \ {y} \notin Bad
    BY <1>1, <1>3
  <1>5. Sw(U \ {y}) = Sv(U \ {y})
    BY <1>3, <1>4
  <1> QED BY <1>3, <1>5

\* Fewer summands, no larger sum.
LEMMA SumMonotone ==
    ASSUME NEW S, IsFiniteSet(S), NEW w \in [S -> Nat], NEW V \in SUBSET S, NEW W \in SUBSET V
    PROVE  SumFunctionOnSet(w, W) <= SumFunctionOnSet(w, V)
  <1> DEFINE Sum(X) == SumFunctionOnSet(w, X)
             Bad == {U \in SUBSET S : W \subseteq U /\ ~(Sum(W) <= Sum(U))}
  <1> SUFFICES ASSUME Bad # {} PROVE FALSE
    OBVIOUS
  <1>0. \A X \in SUBSET S : Sum(X) \in Nat /\ \A x \in X : Sum(X) = w[x] + Sum(X \ {x})
    <2>1. \A X \in SUBSET S : Sum(X) \in Nat
      BY SumSteps
    <2>2. ASSUME NEW X \in SUBSET S, NEW x \in X PROVE Sum(X) = w[x] + Sum(X \ {x})
      BY SumRemove
    <2> QED BY <2>1, <2>2
  <1> HIDE DEF Sum
  <1>1. PICK U \in Bad : \A X \in Bad : X \subseteq U => X = U
    <2>1. Bad \in SUBSET SUBSET S
      OBVIOUS
    <2> HIDE DEF Bad
    <2> QED BY <2>1, LeastSet
  <1>2. W \in SUBSET S /\ U \in SUBSET S /\ Sum(U) \in Nat /\ Sum(W) \in Nat /\ ~(Sum(W) <= Sum(U))
    BY <1>0, <1>1
  <1>3. U # W
    BY <1>2
  <1>4. PICK y \in U : y \notin W
    BY <1>1, <1>3
  <1>5. U \ {y} \notin Bad
    BY <1>1, <1>4
  <1>6. U \ {y} \in SUBSET S /\ W \subseteq U \ {y}
    BY <1>1, <1>2, <1>4
  <1>7. Sum(W) <= Sum(U \ {y})
    BY <1>5, <1>6
  <1>8. Sum(U) = w[y] + Sum(U \ {y}) /\ w[y] \in Nat /\ Sum(U \ {y}) \in Nat
    BY <1>0, <1>2, <1>4, <1>6
  <1> DEFINE a == Sum(U \ {y})
  <1>9. Sum(W) <= a /\ Sum(U) = w[y] + a /\ a \in Nat
    BY <1>7, <1>8
  <1> HIDE DEF a
  <1> QED BY <1>2, <1>8, <1>9

\* Counting by group and adding up counts everything once.
LEMMA CountByGroup ==
    ASSUME NEW W, IsFiniteSet(W), NEW D, IsFiniteSet(D), NEW f, NEW c \in [D -> Nat],
           \A k \in D : c[k] = Cardinality({w \in W : f[w] = k}), NEW X \in SUBSET D
    PROVE  SumFunctionOnSet(c, X) = Cardinality({w \in W : f[w] \in X})
  <1> DEFINE Sum(U) == SumFunctionOnSet(c, U)
             Part(U) == {w \in W : f[w] \in U}
             Bad == {U \in SUBSET D : Sum(U) # Cardinality(Part(U))}
  <1> SUFFICES ASSUME Bad # {} PROVE FALSE
    OBVIOUS
  <1>0. Sum({}) = 0 /\ \A U \in SUBSET D : Sum(U) \in Nat
    BY SumSteps
  <1>r. \A U \in SUBSET D : \A x \in U : Sum(U) = c[x] + Sum(U \ {x})
    <2> SUFFICES ASSUME NEW U \in SUBSET D, NEW x \in U PROVE Sum(U) = c[x] + Sum(U \ {x})
      OBVIOUS
    <2> QED BY SumRemove
  <1> HIDE DEF Sum
  <1>1. PICK U \in Bad : \A V \in Bad : V \subseteq U => V = U
    <2>1. Bad \in SUBSET SUBSET D
      OBVIOUS
    <2> HIDE DEF Bad
    <2> QED BY <2>1, LeastSet
  <1>2. \A V \in SUBSET D : IsFiniteSet(Part(V)) /\ Cardinality(Part(V)) \in Nat
    <2> SUFFICES ASSUME NEW V \in SUBSET D PROVE IsFiniteSet(Part(V)) /\ Cardinality(Part(V)) \in Nat
      OBVIOUS
    <2>1. Part(V) \in SUBSET W
      OBVIOUS
    <2> HIDE DEF Part
    <2>2. IsFiniteSet(Part(V))
      BY <2>1, FS_Subset
    <2> QED BY <2>2, FS_CardinalityType
  <1>3. CASE U = {}
    <2>1. Part(U) = {}
      BY <1>3
    <2>2. Cardinality(Part(U)) = 0
      BY <2>1, FS_EmptySet
    <2> QED BY <1>0, <1>3, <2>2
  <1>4. CASE U # {}
    <2>1. PICK x \in U : TRUE
      BY <1>4
    <2> DEFINE V == U \ {x}
               E == {w \in W : f[w] = x}
    <2>2. V \in SUBSET D /\ V \notin Bad /\ U \in SUBSET D /\ x \in D
      BY <1>1, <2>1
    <2>3. Sum(V) = Cardinality(Part(V))
      BY <2>2
    <2>4. Part(U) = Part(V) \cup E /\ Part(V) \cap E = {} /\ E \in SUBSET W
      BY <2>1, <2>2
    <2>5. c[x] = Cardinality(E)
      BY <2>2
    <2>6. Sum(U) = c[x] + Sum(V)
      BY <1>r, <2>1, <2>2
    <2>n. Sum(V) \in Nat /\ c[x] \in Nat
      BY <1>0, <2>2
    <2>u. Sum(U) # Cardinality(Part(U))
      OBVIOUS
    <2>f. IsFiniteSet(Part(V))
      BY <1>2, <2>2
    <2> HIDE DEF E, V, Part
    <2>7. IsFiniteSet(E)
      BY <2>4, FS_Subset
    <2>8. Cardinality(Part(V) \cup E) = Cardinality(Part(V)) + Cardinality(E) - Cardinality(Part(V) \cap E)
      BY <2>f, <2>7, FS_Union
    <2>9. Cardinality(Part(V) \cap E) = 0
      BY <2>4, FS_EmptySet
    <2>10. Cardinality(Part(U)) = Cardinality(Part(V)) + Cardinality(E)
      BY <2>3, <2>4, <2>5, <2>8, <2>9, <2>n
    <2> QED BY <2>3, <2>5, <2>6, <2>10, <2>u, <2>n
  <1> QED BY <1>3, <1>4

\* A set and what one of its members is counted by.
LEMMA CountOneMore ==
    ASSUME NEW S, IsFiniteSet(S), NEW x, x \notin S
    PROVE  Cardinality(S \cup {x}) = Cardinality(S) + 1 /\ IsFiniteSet(S \cup {x}) /\ Cardinality(S) \in Nat
  BY FS_AddElement, FS_CardinalityType

\* A nonempty set of natural numbers has a least element.
LEMMA LeastNat == \A T \in SUBSET Nat : T # {} => \E n \in T : \A m \in T : ~(m < n)
  <1> DEFINE R == {p \in Nat \X Nat : p[1] < p[2]}
  <1>1. IsWellFoundedOn(R, Nat)
    BY NatLessThanWellFounded DEF OpToRel
  <1>2. \A n, m \in Nat : <<m, n>> \in R <=> m < n
    OBVIOUS
  <1> HIDE DEF R
  <1> QED BY <1>1, <1>2, WFMin

LEMMA MinOf ==
    ASSUME NEW T \in SUBSET Nat, T # {}
    PROVE  Min(T) \in T /\ \A m \in T : Min(T) <= m
  <1>1. PICK n \in T : \A m \in T : ~(m < n)
    BY LeastNat
  <1>2. \A m \in T : n <= m
    BY <1>1
  <1> QED BY <1>2 DEF Min

\* A nonempty set of natural numbers below a bound has a greatest one.
LEMMA MaxOf ==
    ASSUME NEW n \in Nat, NEW T \in SUBSET (0 .. n), T # {}
    PROVE  Max(T) \in T /\ \A m \in T : m <= Max(T)
  <1> DEFINE U == {u \in Nat : \A m \in T : m <= u}
  <1>1. n \in U
    OBVIOUS
  <1>2. PICK u \in U : \A m \in U : ~(m < u)
    BY <1>1, LeastNat
  <1>3. u \in T
    <2> SUFFICES ASSUME u \notin T PROVE FALSE
      OBVIOUS
    <2>1. PICK t \in T : TRUE
      OBVIOUS
    <2>2. u \in Nat /\ \A m \in T : m \in Nat /\ m < u
      OBVIOUS
    <2>3. u - 1 \in Nat /\ \A m \in T : m <= u - 1
      BY <2>1, <2>2
    <2>4. u - 1 \in U /\ u - 1 < u
      BY <2>2, <2>3
    <2> QED BY <2>4, <1>2
  <1>4. \A m \in T : u >= m
    OBVIOUS
  <1>5. T \subseteq Nat
    OBVIOUS
  <1> HIDE DEF U
  <1> QED BY <1>3, <1>4, <1>5 DEF Max

(* Client boundary: errors and their answers                                   *)

\* Every layer that can refuse a request lies within the one that knows its id
\* and the one that adds the security headers (build_app_with_ct).
LEMMA LayerOrder ==
    ASSUME NEW l \in {"too_large", "admin_auth", "timeout", "handler"}
    PROVE  Within(l, "request_id") /\ Within(l, "headers")
  <1>1. /\ Len(Layers) = 8 /\ Layers[1] = "request_id" /\ Layers[2] = "trace" /\ Layers[3] = "headers"
        /\ Layers[4] = "too_large" /\ Layers[5] = "body_limit" /\ Layers[6] = "timeout"
        /\ Layers[7] = "admin_auth" /\ Layers[8] = "handler"
    BY DEF Layers
  <1>2. Position("request_id") = 1
    BY <1>1 DEF Position
  <1>3. Position("headers") = 3
    BY <1>1 DEF Position
  <1>4. Position(l) \in 4 .. 8
    BY <1>1 DEF Position
  <1> QED BY <1>2, <1>3, <1>4 DEF Within

\* Errors that carry a Retry-After are quota errors, answered 429.
LEMMA StatusIsError ==
    ASSUME NEW code
    PROVE  http_status_for(code) \in Int /\ http_status_for(code) >= 400
  BY DEF http_status_for

RetryCodes == {<<"limit", "quota_exceeded">>, <<"limit", "daily_calls_exhausted">>}

LEMMA RetryStatus ==
    ASSUME NEW code \in RetryCodes
    PROVE  http_status_for(code) = 429
  BY DEF http_status_for, RetryCodes, Codes, category

LEMMA RetryOnlyForQuota ==
    ASSUME NEW e \in AsterlaneErrors, e.retry # -1
    PROVE  e.code \in RetryCodes
  <1>1. CASE e \in LimitErrors
    BY <1>1 DEF LimitErrors, internal, internal_with_retry_after, RetryCodes
  <1>2. CASE e \notin LimitErrors
    <2>1. e.retry = -1
      BY <1>2 DEF AsterlaneErrors, ProxyErrors, CatalogErrors, StoreErrors, HandlerErrors, SecretErrors,
                  KeyPoolErrors, PolicyErrors, McpErrors, internal
    <2> QED BY <2>1
  <1> QED BY <1>1, <1>2

\* What every error in the gateway has: a code and a Retry-After, -1 for none.
LEMMA ErrorShape ==
    ASSUME NEW e \in AsterlaneErrors
    PROVE  e.retry \in Int /\ e.code # <<>>
  <1>1. ASSUME NEW c, NEW d, NEW r \in Int, e = internal_with_retry_after(c, d, r)
        PROVE  e.retry \in Int /\ e.code # <<>>
    BY <1>1 DEF internal_with_retry_after
  <1>2. ASSUME NEW c, NEW d
        PROVE  internal(c, d) = internal_with_retry_after(c, d, -1)
    BY DEF internal, internal_with_retry_after
  <1>3. \E c, d : \E r \in Int : e = internal_with_retry_after(c, d, r)
    <2>1. CASE e \in LimitErrors
      BY <2>1, <1>2 DEF LimitErrors
    <2>2. CASE e \notin LimitErrors
      <3>1. \E c, d : e = internal(c, d)
        BY <2>2 DEF AsterlaneErrors, ProxyErrors, CatalogErrors, StoreErrors, HandlerErrors, SecretErrors,
                    KeyPoolErrors, PolicyErrors, McpErrors
      <3> QED BY <3>1, <1>2
    <2> QED BY <2>1, <2>2
  <1> QED BY <1>1, <1>3

\* An answer made from an error says which, whose and with which headers.
ErrorReply(r, id, code) ==
    /\ r.body = "error" /\ r.code = code /\ r.id = attach_request_id(id) /\ r.headers
    /\ r.status \in Int /\ r.status >= 400 /\ (r.retry_after > 0 => r.status = 429)

LEMMA IntoResponse ==
    ASSUME NEW e, e.retry \in Int, e.retry # -1 => e.code \in RetryCodes, NEW id,
           NEW l \in {"too_large", "admin_auth", "timeout", "handler"}
    PROVE  ErrorReply(into_response(e, l, id), id, e.code)
  <1>1. Within(l, "request_id") /\ Within(l, "headers")
    BY LayerOrder
  <1>2. http_status_for(e.code) \in Int /\ http_status_for(e.code) >= 400
    BY StatusIsError
  <1>3. CASE e.retry = -1
    BY <1>1, <1>2, <1>3 DEF into_response, ErrorReply, error_request_id, Header, as_str
  <1>4. CASE e.retry # -1
    <2>1. http_status_for(e.code) = 429
      BY <1>4, RetryStatus
    <2> QED BY <1>1, <1>2, <2>1 DEF into_response, ErrorReply, error_request_id, Header, as_str
  <1> QED BY <1>3, <1>4

\* The client's table of exit codes is the gateway's.
LEMMA SameExit ==
    ASSUME NEW code, code # <<>>
    PROVE  exit_code_for_code(code) = exit_code(code)
  BY DEF exit_code_for_code, exit_code, category

LEMMA ExitNonzero ==
    ASSUME NEW r
    PROVE  CliExit(r) \in 1 .. 7
  BY DEF CliExit, exit_code_for_code

(* Client boundary: captured arguments                                         *)

\* Redaction changes no brace.
LEMMA RedactKeepsDepth ==
    ASSUME NEW s \in Seq(STRING), NEW n \in 0 .. Len(s), NEW m \in 0 .. n
    PROVE  Depth(redact_text(SubSeq(s, 1, n)), m) = Depth(s, m)
  <1> DEFINE t == redact_text(SubSeq(s, 1, n))
  <1>1. SubSeq(s, 1, n) \in Seq(STRING) /\ Len(SubSeq(s, 1, n)) = n /\ \A i \in 1 .. n : SubSeq(s, 1, n)[i] = s[i]
    OBVIOUS
  <1>2. \A i \in 1 .. n : t[i] = CASE s[i] = "k" -> "m" [] s[i] = "h" -> "x" [] OTHER -> s[i]
    BY <1>1 DEF redact_text
  <1>3. \A i \in 1 .. n : (t[i] = "{" <=> s[i] = "{") /\ (t[i] = "}" <=> s[i] = "}")
    BY <1>2
  <1> HIDE DEF t
  <1>n. n \in Nat /\ m \in Nat /\ m <= n /\ 1 .. m \subseteq 1 .. n
    OBVIOUS
  <1>4. {i \in 1 .. m : t[i] = "{"} = {i \in 1 .. m : s[i] = "{"}
    BY <1>3, <1>n
  <1>5. {i \in 1 .. m : t[i] = "}"} = {i \in 1 .. m : s[i] = "}"}
    BY <1>3, <1>n
  <1> QED BY <1>4, <1>5 DEF Depth, Count, t

\* What the capture limit left of a value's text is no object: it begins with a
\* brace that is closed only by the last token of the whole text.
LEMMA CutIsNoObject ==
    ASSUME NEW args \in BdArgs, is_object(capture_text(args))
    PROVE  capture_text(args) = redact_text(args)
  <1>1. args \in Seq(STRING) /\ CaptureMax \in Nat
    BY CaptureAssumption
  <1>w. args[1] = "{" => is_object(args)
    BY CaptureAssumption
  <1> DEFINE n == IF Len(args) < CaptureMax THEN Len(args) ELSE CaptureMax
             t == redact_text(SubSeq(args, 1, n))
  <1>2. n \in 0 .. Len(args)
    BY <1>1
  <1>3. capture_text(args) = t
    BY DEF capture_text, truncate_capture
  <1> HIDE DEF n
  <1>4. CASE n = Len(args)
    <2>1. SubSeq(args, 1, n) = args
      BY <1>1, <1>4
    <2> QED BY <2>1, <1>3
  <1>5. CASE n # Len(args)
    <2>1. Len(SubSeq(args, 1, n)) = n
      BY <1>1, <1>2
    <2>2. n \in Nat /\ Len(t) = n
      BY <1>2, <2>1 DEF redact_text
    <2>3. t[1] = "{"
      BY <1>3 DEF is_object
    <2>l. n > 0
      BY <1>3, <2>2 DEF is_object
    <2>4. n \in 1 .. Len(args)
      BY <1>1, <1>2, <2>l
    <2>5. Depth(t, n) = 0
      <3> HIDE DEF t
      <3>1. is_object(t)
        BY <1>3
      <3>2. \A m \in 1 .. Len(t) : (Depth(t, m) = 0) <=> (m = Len(t))
        BY <3>1 DEF is_object
      <3>3. n \in 1 .. Len(t) /\ n = Len(t)
        BY <2>2, <2>l
      <3> QED BY <3>2, <3>3, Zenon
    <2>6. Depth(args, n) = 0
      BY <2>5, <1>1, <2>4, RedactKeepsDepth
    <2>7. SubSeq(args, 1, n)[1] = args[1]
      BY <1>1, <2>4
    <2>8. t[1] = CASE args[1] = "k" -> "m" [] args[1] = "h" -> "x" [] OTHER -> args[1]
      BY <2>1, <2>4, <2>7 DEF redact_text
    <2>9. args[1] = "{"
      BY <2>3, <2>8
    <2> QED BY <1>w, <1>5, <2>4, <2>6, <2>9 DEF is_object
  <1> QED BY <1>4, <1>5

(* Client boundary: the inductive invariant                                    *)

CallEvent(args, captured) ==
    [there |-> TRUE, whole |-> args, captured |-> captured,
     text |-> IF captured THEN capture_text(args) ELSE <<>>]
Captures == {NoEvent} \cup {CallEvent(args, captured) : args \in BdArgs, captured \in BOOLEAN}
WholeArgs(e) == e.there => e.text = redact_text(e.whole)
SentIds == BdRequestIds \cup {<<>>}
CommandOps == {"request", "from_last", "filter", "meta", "call", "invoke"}
BdCommands ==
    [pc : {"idle", "sent", "events", "put", "answered", "exited"},
     op : CommandOps, id : SentIds, admin : BOOLEAN,
     exit : Int, local : BOOLEAN, args : Captures]

\* An answer fits what the gateway raised and did.
ReplyFits(r, id, op, raised, done) ==
    /\ r.body = "error" => ErrorReply(r, id, raised)
    /\ raised # NoError => r.body = "error"
    /\ r.status \in 200 .. 299 => done \/ (op = "meta" /\ r.data = "is_error") \/ ToldInAnswer(op, r.data)
ExitFits(cmd, r, raised, done) ==
    cmd.pc = "exited" =>
        /\ (~cmd.local /\ raised # NoError) => cmd.exit = exit_code(raised)
        /\ cmd.exit = 0 => done \/ ToldInAnswer(cmd.op, r.data)

\* An error's answer is for the request that is still there, a row or the
\* arguments on their way to it come from a capture that was not cut, and no
\* answer is there before a request.
BdInv ==
    /\ bdCmd \in BdCommands /\ bdEvent \in Captures
    /\ WholeArgs(bdCmd.args) /\ WholeArgs(bdRow)
    /\ bdCmd.pc = "idle" => bdReply = NoReply /\ bdError = NoError
    /\ ReplyFits(bdReply, bdCmd.id, bdCmd.op, bdError, bdDone)
    /\ ExitFits(bdCmd, bdReply, bdError, bdDone)
    /\ ProtocolErrorsRight

LEMMA CapturesParsed ==
    ASSUME NEW e \in Captures, parse_last_event_args(e)
    PROVE  WholeArgs(e)
  <1>1. e # NoEvent
    BY DEF parse_last_event_args, NoEvent
  <1>2. PICK args \in BdArgs, captured \in BOOLEAN : e = CallEvent(args, captured)
    BY <1>1 DEF Captures
  <1>3. e.captured = captured /\ e.whole = args /\ e.text = IF captured THEN capture_text(args) ELSE <<>>
    BY <1>2 DEF CallEvent
  <1>4. captured /\ is_object(e.text)
    BY <1>3 DEF parse_last_event_args
  <1>5. e.text = capture_text(args)
    BY <1>3, <1>4
  <1>6. e.text = redact_text(args)
    BY <1>4, <1>5, CutIsNoObject
  <1> QED BY <1>3, <1>6 DEF WholeArgs

LEMMA NotSuccess ==
    ASSUME NEW n \in Int, n >= 400
    PROVE  n \notin 200 .. 299
  OBVIOUS

\* Whatever layer or handler answers, the answer fits.
LEMMA ErrorFits ==
    ASSUME NEW e, e.retry \in Int, e.code # <<>>, e.retry # -1 => e.code \in RetryCodes,
           NEW l \in {"too_large", "admin_auth", "timeout", "handler"}, NEW id, NEW op, NEW done
    PROVE  ReplyFits(into_response(e, l, id), id, op, e.code, done)
  <1>1. ErrorReply(into_response(e, l, id), id, e.code)
    BY IntoResponse
  <1> DEFINE r == into_response(e, l, id)
  <1> HIDE DEF r
  <1>3. ErrorReply(r, id, e.code)
    BY <1>1 DEF r
  <1>b. r.body = "error" /\ r.status \in Int /\ r.status >= 400
    BY <1>3 DEF ErrorReply
  <1>2. r.body = "error" /\ r.status \notin 200 .. 299
    BY <1>b, NotSuccess
  <1>4. ReplyFits(r, id, op, e.code, done)
    BY <1>2, <1>3 DEF ReplyFits
  <1> QED BY <1>4 DEF r

LEMMA ServeFits ==
    ASSUME Serve
    PROVE  ReplyFits(bdReply', bdCmd.id, bdCmd.op, bdError', bdDone')
  <1>r. ASSUME NEW c, NEW d, NEW l \in {"too_large", "admin_auth", "timeout", "handler"}, NEW done,
               ReplyWith(into_response(internal(c, d), l, bdCmd.id), done, <<c, d>>)
        PROVE  ReplyFits(bdReply', bdCmd.id, bdCmd.op, bdError', bdDone')
    <2>1. internal(c, d).retry = -1 /\ internal(c, d).code = <<c, d>> /\ <<c, d>> # <<>>
      BY DEF internal
    <2>2. ReplyFits(into_response(internal(c, d), l, bdCmd.id), bdCmd.id, bdCmd.op, <<c, d>>, done)
      BY <2>1, ErrorFits
    <2> QED BY <1>r, <2>2 DEF ReplyWith
  <1>1. CASE Refused("too_large", "http", "body_too_large")
    BY <1>1, <1>r DEF Refused
  <1>2. CASE Refused("admin_auth", "admin", "unauthorized")
    BY <1>2, <1>r DEF Refused
  <1>3. CASE TimedOut
    BY <1>3, <1>r DEF TimedOut
  <1>4. CASE Failed
    <2>1. PICK e \in AsterlaneErrors : ReplyWith(into_response(e, "handler", bdCmd.id), FALSE, e.code)
      BY <1>4 DEF Failed
    <2>2. ReplyFits(into_response(e, "handler", bdCmd.id), bdCmd.id, bdCmd.op, e.code, FALSE)
      BY ErrorShape, RetryOnlyForQuota, ErrorFits
    <2> QED BY <2>1, <2>2 DEF ReplyWith
  <1>5. CASE Unmatched
    <2>1. PICK s \in {404, 405, 415, 422}, b \in {"empty", "text"} :
              ReplyWith(plain_response(s, b, "none"), FALSE, NoError)
      BY <1>5 DEF Unmatched
    <2>2. ReplyFits(plain_response(s, b, "none"), bdCmd.id, bdCmd.op, NoError, FALSE)
      <3>1. s \notin 200 .. 299
        OBVIOUS
      <3>2. b # "error"
        OBVIOUS
      <3> QED BY <3>1, <3>2 DEF ReplyFits, plain_response
    <2> QED BY <2>1, <2>2 DEF ReplyWith
  <1>6. CASE Succeeded
    <2>1. PICK b \in {"empty", "json", "text"},
               data \in IF bdCmd.op = "meta" THEN {"results", "is_error", "cut"} ELSE {"none"} :
              ReplyWith(plain_response(200, b, data), data # "is_error", NoError)
      BY <1>6 DEF Succeeded
    <2>2. (data # "is_error") \/ (bdCmd.op = "meta" /\ data = "is_error")
      OBVIOUS
    <2>3. ReplyFits(plain_response(200, b, data), bdCmd.id, bdCmd.op, NoError, data # "is_error")
      <3>1. b # "error"
        OBVIOUS
      <3> QED BY <2>2, <3>1 DEF ReplyFits, plain_response
    <2> QED BY <2>1, <2>3 DEF ReplyWith
  <1>7. CASE ToolFailed
    <2> DEFINE p(s, b, d) == plain_response(s, b, d)
    <2>1. ASSUME NEW r, r.body # "error", r.status \notin 200 .. 299 \/ ToldInAnswer(bdCmd.op, r.data),
                 ReplyWith(r, FALSE, NoError)
          PROVE  ReplyFits(bdReply', bdCmd.id, bdCmd.op, bdError', bdDone')
      <3>1. ReplyFits(r, bdCmd.id, bdCmd.op, NoError, FALSE)
        BY <2>1 DEF ReplyFits
      <3> QED BY <2>1, <3>1 DEF ReplyWith
    <2>2. ASSUME NEW s, NEW b, NEW d PROVE p(s, b, d).body = b /\ p(s, b, d).data = d /\ p(s, b, d).status = s
      BY DEF plain_response
    <2>3. ASSUME NEW s, NEW b, NEW d, NEW c
          PROVE  /\ [p(s, b, d) EXCEPT !.code = c].body = b /\ [p(s, b, d) EXCEPT !.code = c].data = d
                 /\ [p(s, b, d) EXCEPT !.code = c].status = s
      BY DEF plain_response
    <2> HIDE DEF p
    <2>4. CASE bdCmd.op \in {"call", "invoke"} /\ ReplyWith(p(200, "json", "is_error"), FALSE, NoError)
      <3>1. p(200, "json", "is_error").body # "error" /\ ToldInAnswer(bdCmd.op, p(200, "json", "is_error").data)
        BY <2>2, <2>4 DEF ToldInAnswer
      <3> QED BY <2>1, <2>4, <3>1
    <2>5. CASE bdCmd.op = "invoke" /\ ReplyWith(p(200, "json", "refused"), FALSE, NoError)
      <3>1. p(200, "json", "refused").body # "error" /\ ToldInAnswer(bdCmd.op, p(200, "json", "refused").data)
        BY <2>2, <2>5 DEF ToldInAnswer
      <3> QED BY <2>1, <2>5, <3>1
    <2>6. CASE \E s \in {302, 422, 503} :
                 \/ \E b \in {"empty", "json", "text"} : ReplyWith(p(s, b, "refused"), FALSE, NoError)
                 \/ \E c \in UpstreamCodes :
                      ReplyWith([p(s, "coded", "refused") EXCEPT !.code = c], FALSE, NoError)
      <3>1. PICK s \in {302, 422, 503} :
                 \/ \E b \in {"empty", "json", "text"} : ReplyWith(p(s, b, "refused"), FALSE, NoError)
                 \/ \E c \in UpstreamCodes :
                      ReplyWith([p(s, "coded", "refused") EXCEPT !.code = c], FALSE, NoError)
        BY <2>6
      <3>2. s \notin 200 .. 299
        OBVIOUS
      <3>3. CASE \E b \in {"empty", "json", "text"} : ReplyWith(p(s, b, "refused"), FALSE, NoError)
        <4>1. PICK b \in {"empty", "json", "text"} : ReplyWith(p(s, b, "refused"), FALSE, NoError)
          BY <3>3
        <4> DEFINE r == p(s, b, "refused")
        <4>2. r.body # "error"
          BY <2>2
        <4>3. r.status \notin 200 .. 299
          BY <2>2, <3>2
        <4>4. ReplyWith(r, FALSE, NoError)
          BY <4>1
        <4> HIDE DEF r
        <4>5. ReplyFits(r, bdCmd.id, bdCmd.op, NoError, FALSE)
          BY <4>2, <4>3 DEF ReplyFits
        <4>6. bdReply' = r /\ bdDone' = FALSE /\ bdError' = NoError
          BY <4>4 DEF ReplyWith
        <4> QED BY <4>5, <4>6
      <3>4. CASE \E c \in UpstreamCodes : ReplyWith([p(s, "coded", "refused") EXCEPT !.code = c], FALSE, NoError)
        <4>1. PICK c \in UpstreamCodes : ReplyWith([p(s, "coded", "refused") EXCEPT !.code = c], FALSE, NoError)
          BY <3>4
        <4> DEFINE r == [p(s, "coded", "refused") EXCEPT !.code = c]
        <4>2. r.body # "error"
          BY <2>3
        <4>3. r.status \notin 200 .. 299
          BY <2>3, <3>2
        <4>4. ReplyWith(r, FALSE, NoError)
          BY <4>1
        <4> HIDE DEF r
        <4>5. ReplyFits(r, bdCmd.id, bdCmd.op, NoError, FALSE)
          BY <4>2, <4>3 DEF ReplyFits
        <4>6. bdReply' = r /\ bdDone' = FALSE /\ bdError' = NoError
          BY <4>4 DEF ReplyWith
        <4> QED BY <4>5, <4>6
      <3> QED BY <3>1, <3>3, <3>4
    <2>7. \/ bdCmd.op \in {"call", "invoke"} /\ ReplyWith(p(200, "json", "is_error"), FALSE, NoError)
          \/ bdCmd.op = "invoke" /\ ReplyWith(p(200, "json", "refused"), FALSE, NoError)
          \/ \E s \in {302, 422, 503} :
                 \/ \E b \in {"empty", "json", "text"} : ReplyWith(p(s, b, "refused"), FALSE, NoError)
                 \/ \E c \in UpstreamCodes :
                      ReplyWith([p(s, "coded", "refused") EXCEPT !.code = c], FALSE, NoError)
      BY <1>7, Zenon DEF ToolFailed, p
    <2> QED BY <2>4, <2>5, <2>6, <2>7
  <1> QED BY <1>1, <1>2, <1>3, <1>4, <1>5, <1>6, <1>7 DEF Serve

\* What a tools/call may answer with.
FormRight(stage, code, form) ==
    /\ form # ToolError => \/ stage = "key" /\ form = [rpc |-> -32600]
                           \/ stage = "resolve" /\ form = mcp_error(code)
    /\ form = ToolError => mcp_error(code) = ToolError \/ code \in AsResult

LEMMA ResolveFormRight ==
    ASSUME NEW e \in ResolveErrors
    PROVE  FormRight("resolve", e.code, call_tool_form("resolve", e))
  <1>1. CASE e = internal("catalog", "unknown_tool")
    <2>1. e.code = <<"catalog", "unknown_tool">>
      BY <1>1 DEF internal
    <2> QED BY <2>1 DEF FormRight, mcp_error, call_tool_form, AsResult, Codes, Details, ToolError
  <1>2. CASE e = internal("catalog", "ambiguous_tool_name")
    <2>1. e.code = <<"catalog", "ambiguous_tool_name">>
      BY <1>2 DEF internal
    <2> QED BY <2>1 DEF FormRight, mcp_error, call_tool_form, AsResult, Codes, Details, ToolError
  <1>3. CASE e = internal("config", "invalid_tool_name")
    <2>1. e.code = <<"config", "invalid_tool_name">>
      BY <1>3 DEF internal
    <2> QED BY <2>1 DEF FormRight, mcp_error, call_tool_form, AsResult, Codes, Details, ToolError
  <1>4. CASE e = internal("config", "invalid_regex")
    <2>1. e.code = <<"config", "invalid_regex">>
      BY <1>4 DEF internal
    <2> QED BY <2>1 DEF FormRight, mcp_error, call_tool_form, AsResult, Codes, Details, ToolError
  <1>5. CASE e = internal("config", "invalid_yaml")
    <2>1. e.code = <<"config", "invalid_yaml">>
      BY <1>5 DEF internal
    <2> QED BY <2>1 DEF FormRight, mcp_error, call_tool_form, AsResult, Codes, Details, ToolError
  <1> QED BY <1>1, <1>2, <1>3, <1>4, <1>5 DEF ResolveErrors, CatalogErrors

LEMMA KeyFormRight ==
    ASSUME NEW e
    PROVE  FormRight("key", e.code, call_tool_form("key", e))
  BY DEF FormRight, call_tool_form, ToolError

\* Every error of the call itself is listed, here or there.
LEMMA CallCodesListed ==
    ASSUME NEW e \in ProxyErrors
    PROVE  mcp_error(e.code) = ToolError \/ e.code \in AsResult
  <1> DEFINE Ok(code) == mcp_error(code) = ToolError \/ code \in AsResult
  <1>p. ASSUME NEW d \in Details.proxy PROVE Ok(<<"proxy", d>>)
    BY DEF mcp_error, Codes, Details, ToolError
  <1>l. ASSUME NEW d \in Details.limit PROVE Ok(<<"limit", d>>)
    BY DEF mcp_error, Codes, Details, ToolError, AsResult
  <1>m. Ok(<<"mcp", "upstream_mcp_failure">>) /\ Ok(<<"mcp", "upstream_auth_required">>)
    BY DEF mcp_error, Codes, Details, ToolError
  <1>a. /\ Ok(<<"catalog", "unknown_tool">>) /\ Ok(<<"mcp", "invalid_tool_call">>)
        /\ Ok(<<"config", "unknown_resource">>) /\ Ok(<<"config", "invalid_yaml">>) /\ Ok(<<"config", "invalid_regex">>)
        /\ Ok(<<"auth", "forbidden_tool">>) /\ Ok(<<"auth", "missing_upstream_secret">>) /\ Ok(<<"admin", "not_found">>)
    BY DEF AsResult, Codes
  <1> SUFFICES Ok(e.code)
    OBVIOUS
  <1> HIDE DEF Ok
  <1>1. CASE e \in SecretErrors
    BY <1>1, <1>a DEF SecretErrors, internal
  <1>2. CASE e \in KeyPoolErrors
    BY <1>2, <1>a, <1>p DEF KeyPoolErrors, internal, Details
  <1>3. CASE e \in LimitErrors
    BY <1>3, <1>l DEF LimitErrors, internal, internal_with_retry_after, Details
  <1>4. CASE e \in PolicyErrors
    BY <1>4, <1>a DEF PolicyErrors, internal
  <1>5. CASE e \in McpErrors
    <2>1. "egress_blocked" \in Details.proxy
      BY DEF Details
    <2> QED BY <1>5, <1>1, <1>a, <1>m, <1>p, <2>1 DEF McpErrors, internal
  <1>6. CASE e \in {internal("proxy", d) : d \in Details.proxy}
    BY <1>6, <1>p DEF internal
  <1>7. CASE e \in {internal("catalog", "unknown_tool"), internal("config", "unknown_resource"),
                    internal("auth", "forbidden_tool"), internal("mcp", "invalid_tool_call")}
    BY <1>7, <1>a DEF internal
  <1> QED BY <1>1, <1>2, <1>3, <1>4, <1>5, <1>6, <1>7 DEF ProxyErrors

LEMMA CallFormRight ==
    ASSUME NEW e \in ProxyErrors
    PROVE  FormRight("call", e.code, call_tool_form("call", e))
  <1>1. call_tool_form("call", e) = ToolError
    BY DEF call_tool_form
  <1> QED BY <1>1, CallCodesListed DEF FormRight

LEMMA NoCommandShape ==
    NoEvent \in Captures /\ NoCommand \in BdCommands /\ NoCommand.args = NoEvent /\ NoCommand.pc = "idle"
  <1>1. NoEvent \in Captures
    BY DEF Captures
  <1>2. NoCommand \in BdCommands
    BY <1>1 DEF NoCommand, BdCommands, SentIds, CommandOps
  <1>3. NoCommand.args = NoEvent /\ NoCommand.pc = "idle"
    BY DEF NoCommand
  <1> QED BY <1>1, <1>2, <1>3

LEMMA OpIsOne ==
    ASSUME NEW g, NEW sub
    PROVE  OpOf(g, sub) \in CommandOps
  BY DEF OpOf, CommandOps

LEMMA BdInvInit ==
    BdInit => BdInv
  <1> SUFFICES ASSUME BdInit PROVE BdInv
    OBVIOUS
  <1>1. NoCommand \in BdCommands /\ NoEvent \in Captures
    BY NoCommandShape
  <1>2. NoCommand.pc = "idle" /\ NoCommand.args = NoEvent /\ WholeArgs(NoEvent)
    BY DEF NoCommand, WholeArgs, NoEvent
  <1>3. ReplyFits(NoReply, NoCommand.id, NoCommand.op, NoError, FALSE)
    BY DEF ReplyFits, NoReply, NoError
  <1>4. ExitFits(NoCommand, NoReply, NoError, FALSE)
    BY DEF ExitFits, NoCommand
  <1>5. ProtocolErrorsRight
    BY DEF ProtocolErrorsRight, BdInit
  <1> QED BY <1>1, <1>2, <1>3, <1>4, <1>5 DEF BdInit, BdInv

LEMMA EndsHereFits ==
    ASSUME NEW cmd \in BdCommands, WholeArgs(cmd.args), NEW n \in {1, 2}, NEW r, NEW raised, NEW done
    PROVE  /\ EndsHere(cmd, n) \in BdCommands /\ EndsHere(cmd, n).id = cmd.id /\ EndsHere(cmd, n).op = cmd.op
           /\ EndsHere(cmd, n).pc = "exited" /\ EndsHere(cmd, n).args = cmd.args
           /\ ExitFits(EndsHere(cmd, n), r, raised, done)
  <1>1. ASSUME NEW local \in BOOLEAN, NEW exit \in Int
        PROVE  [cmd EXCEPT !.pc = "exited", !.exit = exit, !.local = local] \in BdCommands
    BY DEF BdCommands
  <1>2. /\ EndsHere(cmd, n).id = cmd.id /\ EndsHere(cmd, n).op = cmd.op /\ EndsHere(cmd, n).pc = "exited"
        /\ EndsHere(cmd, n).args = cmd.args /\ EndsHere(cmd, n).exit = n /\ EndsHere(cmd, n).local = TRUE
    BY DEF EndsHere, BdCommands
  <1>3. EndsHere(cmd, n) \in BdCommands
    <2>1. n \in Int /\ TRUE \in BOOLEAN
      OBVIOUS
    <2> QED BY <1>1, <2>1, Zenon DEF EndsHere
  <1>4. n # 0
    OBVIOUS
  <1> QED BY <1>2, <1>3, <1>4 DEF ExitFits

LEMMA LocalErrorFits ==
    ASSUME NEW cmd \in BdCommands, WholeArgs(cmd.args), NEW r, NEW raised, NEW done
    PROVE  /\ LocalError(cmd) \in BdCommands /\ LocalError(cmd).id = cmd.id /\ LocalError(cmd).op = cmd.op
           /\ LocalError(cmd).pc = "exited" /\ LocalError(cmd).args = cmd.args
           /\ ExitFits(LocalError(cmd), r, raised, done)
  <1>1. 1 \in {1, 2}
    OBVIOUS
  <1> QED BY <1>1, EndsHereFits DEF LocalError

LEMMA StepTo ==
    ASSUME NEW cmd \in BdCommands, NEW pc \in {"idle", "sent", "events", "put", "answered", "exited"}
    PROVE  /\ [cmd EXCEPT !.pc = pc] \in BdCommands /\ [cmd EXCEPT !.pc = pc].pc = pc
           /\ [cmd EXCEPT !.pc = pc].id = cmd.id /\ [cmd EXCEPT !.pc = pc].op = cmd.op
           /\ [cmd EXCEPT !.pc = pc].args = cmd.args
  BY DEF BdCommands

LEMMA RunCommandFits ==
    ASSUME BdInv, RunCommand
    PROVE  BdInv'
  <1>1. /\ bdReply = NoReply /\ bdError = NoError
        /\ bdReply' = bdReply /\ bdError' = bdError /\ bdRow' = bdRow /\ bdEvent' = bdEvent
        /\ bdDone' = bdDone /\ bdForm' = bdForm
    BY DEF BdInv, RunCommand
  <1>2. PICK g \in 1 .. ToolsGroup : \E sub \in DOMAIN Groups[g] :
          \E raw \in BdRequestIds, flag, env \in {"absent", "json", "xml"}, token \in {"absent", "blank", "set"},
             flagged, file \in BOOLEAN, content \in {"object", "array", "invalid"} :
            LET cmd == [NoCommand EXCEPT !.op = OpOf(g, sub), !.id = raw, !.admin = (g # ToolsGroup)] IN
            bdCmd' = IF ~Parsed(Groups[g][sub], flagged, file) THEN UsageError(cmd)
                     ELSE IF resolve_cli_format(flag, env) /\ ApiClient(token) /\ Loads(Groups[g][sub], flagged, file, content)
                     THEN [cmd EXCEPT !.pc = IF cmd.op = "from_last" THEN "events" ELSE "sent"]
                     ELSE LocalError(cmd)
    BY DEF RunCommand
  <1>s. PICK sub \in DOMAIN Groups[g] :
          \E raw \in BdRequestIds, flag, env \in {"absent", "json", "xml"}, token \in {"absent", "blank", "set"},
             flagged, file \in BOOLEAN, content \in {"object", "array", "invalid"} :
            LET cmd == [NoCommand EXCEPT !.op = OpOf(g, sub), !.id = raw, !.admin = (g # ToolsGroup)] IN
            bdCmd' = IF ~Parsed(Groups[g][sub], flagged, file) THEN UsageError(cmd)
                     ELSE IF resolve_cli_format(flag, env) /\ ApiClient(token) /\ Loads(Groups[g][sub], flagged, file, content)
                     THEN [cmd EXCEPT !.pc = IF cmd.op = "from_last" THEN "events" ELSE "sent"]
                     ELSE LocalError(cmd)
    BY <1>2
  <1>3. PICK raw \in BdRequestIds, flag, env \in {"absent", "json", "xml"}, token \in {"absent", "blank", "set"},
             flagged, file \in BOOLEAN, content \in {"object", "array", "invalid"} :
            LET cmd == [NoCommand EXCEPT !.op = OpOf(g, sub), !.id = raw, !.admin = (g # ToolsGroup)] IN
            bdCmd' = IF ~Parsed(Groups[g][sub], flagged, file) THEN UsageError(cmd)
                     ELSE IF resolve_cli_format(flag, env) /\ ApiClient(token) /\ Loads(Groups[g][sub], flagged, file, content)
                     THEN [cmd EXCEPT !.pc = IF cmd.op = "from_last" THEN "events" ELSE "sent"]
                     ELSE LocalError(cmd)
    BY <1>s
  <1> DEFINE cmd == [NoCommand EXCEPT !.op = OpOf(g, sub), !.id = raw, !.admin = (g # ToolsGroup)]
             pc == IF cmd.op = "from_last" THEN "events" ELSE "sent"
  <1>4. OpOf(g, sub) \in CommandOps
    BY OpIsOne
  <1>5. cmd \in BdCommands /\ cmd.args = NoEvent
    <2> DEFINE op == OpOf(g, sub)
    <2> HIDE DEF op
    <2>1. op \in CommandOps
      BY <1>4 DEF op
    <2>2. NoCommand \in BdCommands /\ NoCommand.args = NoEvent
      BY NoCommandShape
    <2>3. cmd = [NoCommand EXCEPT !.op = op, !.id = raw, !.admin = (g # ToolsGroup)]
      BY DEF op
    <2> HIDE DEF cmd
    <2>4. raw \in SentIds
      BY DEF SentIds
    <2> QED BY <2>1, <2>2, <2>3, <2>4 DEF BdCommands
  <1>6. WholeArgs(NoEvent)
    BY DEF WholeArgs, NoEvent
  <1>7. bdCmd' = [cmd EXCEPT !.pc = pc] \/ bdCmd' = LocalError(cmd) \/ bdCmd' = UsageError(cmd)
    BY <1>3
  <1>8. pc \in {"events", "sent"}
    OBVIOUS
  <1> HIDE DEF cmd, pc
  <1>9. /\ bdCmd' \in BdCommands /\ bdCmd'.args = NoEvent /\ bdCmd'.pc # "idle"
        /\ ExitFits(bdCmd', bdReply', bdError', bdDone')
    <2>1. CASE bdCmd' = [cmd EXCEPT !.pc = pc]
      <3>1. /\ [cmd EXCEPT !.pc = pc] \in BdCommands /\ [cmd EXCEPT !.pc = pc].args = cmd.args
            /\ [cmd EXCEPT !.pc = pc].pc = pc
        <4>1. pc \in {"idle", "sent", "events", "put", "answered", "exited"}
          BY <1>8
        <4> QED BY <4>1, <1>5, StepTo
      <3>2. bdCmd' \in BdCommands /\ bdCmd'.args = NoEvent /\ bdCmd'.pc = pc
        BY <2>1, <3>1, <1>5
      <3> QED BY <3>2, <1>8 DEF ExitFits
    <2>2. CASE bdCmd' = LocalError(cmd)
      BY <2>2, <1>5, <1>6, LocalErrorFits
    <2>3. CASE bdCmd' = UsageError(cmd)
      <3>1. 2 \in {1, 2}
        OBVIOUS
      <3> QED BY <2>3, <3>1, <1>5, <1>6, EndsHereFits DEF UsageError
    <2> QED BY <2>1, <2>2, <2>3, <1>7
  <1>10. ReplyFits(bdReply', bdCmd'.id, bdCmd'.op, bdError', bdDone')
    BY <1>1 DEF ReplyFits, NoReply, NoError
  <1>11. ProtocolErrorsRight'
    BY <1>1 DEF BdInv, ProtocolErrorsRight
  <1>12. bdEvent' \in Captures /\ WholeArgs(bdRow')
    BY <1>1 DEF BdInv
  <1> QED BY <1>6, <1>9, <1>10, <1>11, <1>12 DEF BdInv

\* The steps that answer: the reply fits, the command only goes on.
LEMMA HandleRequestFits ==
    ASSUME BdInv, HandleRequest
    PROVE  BdInv'
  <1>1. /\ bdEvent' = bdEvent /\ bdForm' = bdForm /\ Serve
        /\ bdRow' = IF bdCmd.pc = "put" /\ bdDone' THEN bdCmd.args ELSE bdRow
        /\ bdCmd' = [bdCmd EXCEPT !.pc = "answered"]
    BY DEF HandleRequest
  <1>2. bdCmd \in BdCommands /\ WholeArgs(bdCmd.args) /\ WholeArgs(bdRow) /\ bdEvent \in Captures
    BY DEF BdInv
  <1>3. /\ bdCmd' \in BdCommands /\ bdCmd'.pc = "answered" /\ bdCmd'.id = bdCmd.id
        /\ bdCmd'.op = bdCmd.op /\ bdCmd'.args = bdCmd.args
    BY <1>1, <1>2, StepTo
  <1>4. ReplyFits(bdReply', bdCmd'.id, bdCmd'.op, bdError', bdDone')
    BY <1>1, <1>3, ServeFits
  <1>5. ExitFits(bdCmd', bdReply', bdError', bdDone')
    BY <1>3 DEF ExitFits
  <1>6. ProtocolErrorsRight'
    BY <1>1 DEF BdInv, ProtocolErrorsRight
  <1>7. WholeArgs(bdRow') /\ WholeArgs(bdCmd'.args) /\ bdEvent' \in Captures
    BY <1>1, <1>2, <1>3
  <1> QED BY <1>3, <1>4, <1>5, <1>6, <1>7 DEF BdInv

\* A command that ends by itself changes nothing of the answer.
LEMMA LocalEndFits ==
    ASSUME BdInv, bdCmd.pc # "idle", bdCmd' = LocalError(bdCmd),
           UNCHANGED <<bdReply, bdRow, bdEvent, bdDone, bdError, bdForm>>
    PROVE  BdInv'
  <1>1. /\ bdReply' = bdReply /\ bdError' = bdError /\ bdRow' = bdRow /\ bdEvent' = bdEvent
        /\ bdDone' = bdDone /\ bdForm' = bdForm
    OBVIOUS
  <1>2. bdCmd \in BdCommands /\ WholeArgs(bdCmd.args) /\ WholeArgs(bdRow) /\ bdEvent \in Captures
    BY DEF BdInv
  <1>3. /\ bdCmd' \in BdCommands /\ bdCmd'.pc = "exited" /\ bdCmd'.id = bdCmd.id
        /\ bdCmd'.op = bdCmd.op /\ bdCmd'.args = bdCmd.args /\ ExitFits(bdCmd', bdReply', bdError', bdDone')
    BY <1>2, LocalErrorFits
  <1>4. ReplyFits(bdReply', bdCmd'.id, bdCmd'.op, bdError', bdDone')
    BY <1>1, <1>3 DEF BdInv
  <1>6. ProtocolErrorsRight'
    BY <1>1 DEF BdInv, ProtocolErrorsRight
  <1>7. WholeArgs(bdRow') /\ WholeArgs(bdCmd'.args) /\ bdEvent' \in Captures
    BY <1>1, <1>2, <1>3
  <1> QED BY <1>3, <1>4, <1>6, <1>7 DEF BdInv

LEMMA ReadEventsFits ==
    ASSUME BdInv, ReadEvents
    PROVE  BdInv'
  <1>1. bdCmd.pc = "events" /\ bdRow' = bdRow /\ bdEvent' = bdEvent /\ bdForm' = bdForm
    BY DEF ReadEvents
  <1>2. /\ bdCmd \in BdCommands /\ WholeArgs(bdCmd.args) /\ WholeArgs(bdRow) /\ bdEvent \in Captures
    BY DEF BdInv
  <1>3. ProtocolErrorsRight'
    BY <1>1 DEF BdInv, ProtocolErrorsRight
  <1>4. CASE Serve /\ bdCmd' = [bdCmd EXCEPT !.pc = "answered"]
    <2>3. /\ bdCmd' \in BdCommands /\ bdCmd'.pc = "answered" /\ bdCmd'.id = bdCmd.id
          /\ bdCmd'.op = bdCmd.op /\ bdCmd'.args = bdCmd.args
      BY <1>2, <1>4, StepTo
    <2>4. ReplyFits(bdReply', bdCmd'.id, bdCmd'.op, bdError', bdDone')
      BY <1>4, <2>3, ServeFits
    <2>5. ExitFits(bdCmd', bdReply', bdError', bdDone')
      BY <2>3 DEF ExitFits
    <2>7. WholeArgs(bdRow') /\ WholeArgs(bdCmd'.args) /\ bdEvent' \in Captures
      BY <1>1, <1>2, <2>3
    <2> QED BY <1>3, <2>3, <2>4, <2>5, <2>7 DEF BdInv
  <1>5. CASE /\ parse_last_event_args(bdEvent) /\ bdCmd' = [bdCmd EXCEPT !.pc = "put", !.args = bdEvent]
             /\ UNCHANGED <<bdReply, bdDone, bdError>>
    <2>3. bdCmd' \in BdCommands
      BY <1>2, <1>5 DEF BdCommands
    <2>4. /\ bdCmd'.pc = "put" /\ bdCmd'.id = bdCmd.id /\ bdCmd'.op = bdCmd.op /\ bdCmd'.args = bdEvent
      BY <1>2, <1>5 DEF BdCommands
    <2>5. WholeArgs(bdEvent)
      BY <1>2, <1>5, CapturesParsed
    <2>6. ReplyFits(bdReply', bdCmd'.id, bdCmd'.op, bdError', bdDone')
      BY <1>5, <2>4 DEF BdInv
    <2>7. ExitFits(bdCmd', bdReply', bdError', bdDone')
      BY <2>4 DEF ExitFits
    <2>8. WholeArgs(bdRow') /\ WholeArgs(bdCmd'.args) /\ bdEvent' \in Captures
      BY <1>1, <1>2, <2>4, <2>5
    <2> QED BY <1>3, <2>3, <2>4, <2>6, <2>7, <2>8 DEF BdInv
  <1>6. CASE bdCmd' = LocalError(bdCmd) /\ UNCHANGED <<bdReply, bdDone, bdError>>
    BY <1>1, <1>6, LocalEndFits
  <1> QED BY <1>4, <1>5, <1>6 DEF ReadEvents

LEMMA EventFits ==
    ASSUME BdInv, OtherCall \/ PurgeEvent
    PROVE  BdInv'
  <1>1. /\ bdReply' = bdReply /\ bdError' = bdError /\ bdRow' = bdRow /\ bdCmd' = bdCmd
        /\ bdDone' = bdDone /\ bdForm' = bdForm
    BY DEF OtherCall, PurgeEvent
  <1>2. bdEvent' \in Captures
    <2>1. CASE OtherCall
      <3>1. PICK args \in BdArgs, captured \in BOOLEAN :
              bdEvent' = [there |-> TRUE, whole |-> args, captured |-> captured,
                          text |-> IF captured THEN capture_text(args) ELSE <<>>]
        BY <2>1 DEF OtherCall
      <3>2. bdEvent' = CallEvent(args, captured)
        BY <3>1 DEF CallEvent
      <3> QED BY <3>2 DEF Captures
    <2>2. CASE PurgeEvent
      BY <2>2 DEF PurgeEvent, Captures
    <2> QED BY <2>1, <2>2
  <1>3. ProtocolErrorsRight'
    BY <1>1 DEF BdInv, ProtocolErrorsRight
  <1> QED BY <1>1, <1>2, <1>3 DEF BdInv

\* What the client makes of an answer that fits.
LEMMA ReadAnswerFits ==
    ASSUME BdInv, ReadAnswer
    PROVE  BdInv'
  <1> DEFINE exit == IF bdReply.status \notin 200 .. 299 THEN CliExit(bdReply)
                     ELSE IF bdCmd.op = "meta" /\ ~normalize_meta_result(bdReply) THEN 1 ELSE 0
  <1>1. /\ bdReply' = bdReply /\ bdError' = bdError /\ bdRow' = bdRow /\ bdEvent' = bdEvent
        /\ bdDone' = bdDone /\ bdForm' = bdForm
        /\ bdCmd' = [bdCmd EXCEPT !.pc = "exited", !.exit = exit]
    BY DEF ReadAnswer
  <1>2. bdCmd \in BdCommands /\ WholeArgs(bdCmd.args) /\ WholeArgs(bdRow) /\ bdEvent \in Captures
    BY DEF BdInv
  <1>3. CliExit(bdReply) \in Int /\ CliExit(bdReply) # 0
    BY ExitNonzero
  <1>4. exit \in Int
    BY <1>3
  <1>5. ReplyFits(bdReply, bdCmd.id, bdCmd.op, bdError, bdDone)
    BY DEF BdInv
  <1>6. bdError # NoError => exit = exit_code(bdError)
    <2> SUFFICES ASSUME bdError # NoError PROVE exit = exit_code(bdError)
      OBVIOUS
    <2>1. bdReply.body = "error" /\ bdReply.code = bdError /\ bdReply.status \in Int /\ bdReply.status >= 400
      BY <1>5 DEF ReplyFits, ErrorReply
    <2>2. exit = CliExit(bdReply)
      BY <2>1, NotSuccess
    <2>3. parse_body(bdReply) = bdError
      BY <2>1 DEF parse_body
    <2> QED BY <2>2, <2>3, SameExit DEF CliExit, NoError
  <1>7. exit = 0 => bdDone \/ ToldInAnswer(bdCmd.op, bdReply.data)
    <2> SUFFICES ASSUME exit = 0 PROVE bdDone \/ ToldInAnswer(bdCmd.op, bdReply.data)
      OBVIOUS
    <2>1. bdReply.status \in 200 .. 299 /\ (bdCmd.op = "meta" => normalize_meta_result(bdReply))
      BY <1>3
    <2> QED BY <2>1, <1>5 DEF ReplyFits, normalize_meta_result
  <1> HIDE DEF exit
  <1>8. /\ bdCmd' \in BdCommands /\ bdCmd'.pc = "exited" /\ bdCmd'.exit = exit
        /\ bdCmd'.id = bdCmd.id /\ bdCmd'.op = bdCmd.op /\ bdCmd'.args = bdCmd.args
    BY <1>1, <1>2, <1>4 DEF BdCommands
  <1>9. ReplyFits(bdReply', bdCmd'.id, bdCmd'.op, bdError', bdDone')
    BY <1>1, <1>5, <1>8
  <1>10. ExitFits(bdCmd', bdReply', bdError', bdDone')
    BY <1>1, <1>6, <1>7, <1>8 DEF ExitFits
  <1>11. ProtocolErrorsRight'
    BY <1>1 DEF BdInv, ProtocolErrorsRight
  <1>12. WholeArgs(bdRow') /\ WholeArgs(bdCmd'.args) /\ bdEvent' \in Captures
    BY <1>1, <1>2, <1>8
  <1> QED BY <1>8, <1>9, <1>10, <1>11, <1>12 DEF BdInv

LEMMA McpCallFailsFits ==
    ASSUME BdInv, McpCallFails
    PROVE  BdInv'
  <1>1. /\ bdReply' = bdReply /\ bdError' = bdError /\ bdRow' = bdRow /\ bdEvent' = bdEvent
        /\ bdDone' = bdDone /\ bdCmd' = bdCmd
    BY DEF McpCallFails
  <1>2. PICK stage \in {"key", "resolve", "call"} : \E e \in StageErrors[stage] :
            bdForm' = [stage |-> stage, code |-> e.code, form |-> call_tool_form(stage, e)]
    BY DEF McpCallFails
  <1>e. PICK e \in StageErrors[stage] :
            bdForm' = [stage |-> stage, code |-> e.code, form |-> call_tool_form(stage, e)]
    BY <1>2
  <1>f. FormRight(stage, e.code, call_tool_form(stage, e))
    <2>1. CASE stage = "key"
      BY <2>1, KeyFormRight
    <2>2. CASE stage = "resolve"
      <3>1. e \in ResolveErrors
        BY <2>2 DEF StageErrors
      <3> QED BY <2>2, <3>1, ResolveFormRight
    <2>3. CASE stage = "call"
      <3>1. e \in ProxyErrors
        BY <2>3 DEF StageErrors
      <3> QED BY <2>3, <3>1, CallFormRight
    <2> QED BY <2>1, <2>2, <2>3
  <1>3. ProtocolErrorsRight'
    <2>1. bdForm'.stage = stage /\ bdForm'.code = e.code /\ bdForm'.form = call_tool_form(stage, e)
      BY <1>e
    <2>2. FormRight(bdForm'.stage, bdForm'.code, bdForm'.form)
      BY <1>f, <2>1
    <2> QED BY <2>2 DEF ProtocolErrorsRight, FormRight
  <1> QED BY <1>1, <1>3 DEF BdInv

LEMMA BdInvStep ==
    BdInv /\ [BdNext]_bdVars => BdInv'
  <1> SUFFICES ASSUME BdInv, [BdNext]_bdVars PROVE BdInv'
    OBVIOUS
  <1>1. CASE RunCommand
    BY <1>1, RunCommandFits
  <1>2. CASE HandleRequest
    BY <1>2, HandleRequestFits
  <1>3. CASE GiveUp
    BY <1>3, LocalEndFits DEF GiveUp
  <1>4. CASE ReadEvents
    BY <1>4, ReadEventsFits
  <1>5. CASE OtherCall \/ PurgeEvent
    BY <1>5, EventFits
  <1>6. CASE ReadAnswer
    BY <1>6, ReadAnswerFits
  <1>7. CASE FilterFails
    BY <1>7, LocalEndFits DEF FilterFails
  <1>8. CASE McpCallFails
    BY <1>8, McpCallFailsFits
  <1>9. CASE UNCHANGED bdVars
    BY <1>9 DEF BdInv, bdVars, ProtocolErrorsRight
  <1> QED BY <1>1, <1>2, <1>3, <1>4, <1>5, <1>6, <1>7, <1>8, <1>9 DEF BdNext

\* Whatever the layers, the handlers, the tool's other callers and the client do
\* and in whatever order, an error is answered with its request's id, its status
\* and headers and ends the command with the gateway's own exit code, and a
\* tools/call that ends in a protocol error never reached its tool; the errors
\* that are tool results against error.rs and error-model.md are the listed ones
\* (http/mod.rs, error.rs, mcp/server.rs, cli/).
THEOREM ErrorsAlwaysReported == BdSpec => []ErrorsReported
  <1>1. BdInv => ErrorsReported
    <2> SUFFICES ASSUME BdInv PROVE ErrorsReported
      OBVIOUS
    <2>1. ErrorsTraceable
      BY DEF BdInv, ReplyFits, ErrorReply, ErrorsTraceable
    <2>2. ExitNamesCause
      BY DEF BdInv, ExitFits, ExitNamesCause
    <2>3. ProtocolErrorsRight
      BY DEF BdInv
    <2> QED BY <2>1, <2>2, <2>3 DEF ErrorsReported
  <1> QED BY BdInvInit, BdInvStep, <1>1, PTL DEF BdSpec

\* In the same behaviours, exit code 0 stands for what was done, except for a
\* tool's call whose printed answer holds the failure (an error result of an MCP
\* tool, an upstream's refusal under admin invoke), and defaults taken from an
\* event are one whole call (cli/, observability/capture.rs).
THEOREM SuccessAlwaysTrue == BdSpec => []SuccessTrue
  <1>1. BdInv => SuccessTrue
    <2> SUFFICES ASSUME BdInv PROVE SuccessTrue
      OBVIOUS
    <2>1. SuccessMeansDone
      BY DEF BdInv, ExitFits, SuccessMeansDone
    <2>2. DefaultsWhole
      BY DEF BdInv, WholeArgs, DefaultsWhole
    <2> QED BY <2>1, <2>2 DEF SuccessTrue
  <1> QED BY BdInvInit, BdInvStep, <1>1, PTL DEF BdSpec

(* MCP surface: the longest prefix and the first of several                    *)

(* MCP surface: URIs                                                           *)

\* The place of every character of a gateway URI.
LEMMA UriShape ==
    ASSUME NEW s \in Seq(UriChars), NEW u \in Seq(UriChars)
    PROVE  /\ gateway_uri(s, u) \in Seq(UriChars) /\ Len(gateway_uri(s, u)) = Len(s) + Len(u) + 2
           /\ gateway_uri(s, u)[1] = Scheme
           /\ \A i \in 1 .. Len(s) : gateway_uri(s, u)[i + 1] = s[i]
           /\ gateway_uri(s, u)[Len(s) + 2] = "/"
           /\ \A i \in 1 .. Len(u) : gateway_uri(s, u)[Len(s) + 2 + i] = u[i]
  <1> DEFINE z == <<Scheme>>
             sl == <<"/">>
             a == z \o s
             b == a \o sl
             g == b \o u
  <1>0. z \in Seq(UriChars) /\ Len(z) = 1 /\ z[1] = Scheme /\ sl \in Seq(UriChars) /\ Len(sl) = 1 /\ sl[1] = "/"
    BY SurfaceAssumption
  <1>n. Len(s) \in Nat /\ Len(u) \in Nat
    OBVIOUS
  <1> HIDE DEF z, sl
  <1>1. /\ a \in Seq(UriChars) /\ Len(a) = Len(z) + Len(s) /\ \A i \in 1 .. Len(z) : a[i] = z[i]
        /\ \A i \in 1 .. Len(s) : a[Len(z) + i] = s[i]
    <2>1. z \in Seq(UriChars) /\ s \in Seq(UriChars)
      BY <1>0
    <2>2. a \in Seq(UriChars) /\ Len(a) = Len(z) + Len(s)
      BY <2>1
    <2>3. \A i \in 1 .. Len(z) : a[i] = z[i]
      BY <2>1
    <2>4. \A i \in 1 .. Len(s) : a[Len(z) + i] = s[i]
      BY <2>1
    <2> QED BY <2>2, <2>3, <2>4
  <1> HIDE DEF a
  <1>2. /\ b \in Seq(UriChars) /\ Len(b) = Len(a) + Len(sl) /\ \A i \in 1 .. Len(a) : b[i] = a[i]
        /\ \A i \in 1 .. Len(sl) : b[Len(a) + i] = sl[i]
    <2>1. a \in Seq(UriChars) /\ sl \in Seq(UriChars)
      BY <1>0, <1>1
    <2>2. b \in Seq(UriChars) /\ Len(b) = Len(a) + Len(sl)
      BY <2>1
    <2>3. \A i \in 1 .. Len(a) : b[i] = a[i]
      BY <2>1
    <2>4. \A i \in 1 .. Len(sl) : b[Len(a) + i] = sl[i]
      BY <2>1
    <2> QED BY <2>2, <2>3, <2>4
  <1> HIDE DEF b
  <1>3. /\ g \in Seq(UriChars) /\ Len(g) = Len(b) + Len(u) /\ \A i \in 1 .. Len(b) : g[i] = b[i]
        /\ \A i \in 1 .. Len(u) : g[Len(b) + i] = u[i]
    <2>1. b \in Seq(UriChars) /\ u \in Seq(UriChars)
      BY <1>2
    <2>2. g \in Seq(UriChars) /\ Len(g) = Len(b) + Len(u)
      BY <2>1
    <2>3. \A i \in 1 .. Len(b) : g[i] = b[i]
      BY <2>1
    <2>4. \A i \in 1 .. Len(u) : g[Len(b) + i] = u[i]
      BY <2>1
    <2> QED BY <2>2, <2>3, <2>4
  <1>4. g = gateway_uri(s, u)
    BY DEF z, sl, a, b, gateway_uri
  <1> HIDE DEF g
  <1>5. Len(a) = Len(s) + 1 /\ Len(b) = Len(s) + 2 /\ Len(g) = Len(s) + Len(u) + 2
    BY <1>0, <1>1, <1>2, <1>3, <1>n
  <1>6. g[1] = Scheme
    BY <1>0, <1>1, <1>2, <1>3, <1>5, <1>n
  <1>7. g[Len(s) + 2] = "/"
    <2>1. b[Len(a) + 1] = "/"
      BY <1>0, <1>2
    <2> QED BY <2>1, <1>3, <1>5, <1>n
  <1>8. ASSUME NEW i \in 1 .. Len(s) PROVE g[i + 1] = s[i]
    <2>1. a[1 + i] = s[i]
      BY <1>0, <1>1
    <2>2. i + 1 \in 1 .. Len(a) /\ i + 1 \in 1 .. Len(b) /\ i + 1 = 1 + i
      BY <1>5, <1>n
    <2> QED BY <2>1, <2>2, <1>2, <1>3
  <1>9. \A i \in 1 .. Len(u) : g[Len(s) + 2 + i] = u[i]
    BY <1>3, <1>5
  <1> QED BY <1>3, <1>4, <1>5, <1>6, <1>7, <1>8, <1>9

\* A server id has no slash, so that the first one ends it.
LEMMA IdEnd ==
    ASSUME NEW s \in Seq(UriChars), "/" \notin Range(s), NEW u \in Seq(UriChars)
    PROVE  id_end(gateway_uri(s, u)) = Len(s) + 2
  <1> DEFINE g == gateway_uri(s, u)
             n == Len(s) + 2
             I == {i \in 1 .. Len(g) : g[i] = "/"}
  <1>1. /\ g \in Seq(UriChars) /\ Len(g) = Len(s) + Len(u) + 2 /\ g[1] = Scheme
        /\ \A i \in 1 .. Len(s) : g[i + 1] = s[i]
        /\ g[n] = "/"
    BY UriShape
  <1> HIDE DEF g
  <1>2. n \in I
    BY <1>1
  <1>3. ASSUME NEW i \in I, i < n PROVE FALSE
    <2>1. CASE i = 1
      BY <2>1, <1>1 DEF Scheme
    <2>2. CASE i # 1
      <3>1. i - 1 \in 1 .. Len(s) /\ g[(i - 1) + 1] = g[i]
        BY <1>1, <1>3, <2>2
      <3>2. s[i - 1] = "/"
        BY <3>1, <1>1
      <3> QED BY <3>1, <3>2 DEF Range
    <2> QED BY <2>1, <2>2
  <1>4. \A i \in I : n <= i
    BY <1>3, <1>1
  <1>5. I \subseteq Nat /\ n \in Nat
    BY <1>1
  <1>6. Min(I) = n
    <2> HIDE DEF I, n
    <2>1. Min(I) \in I /\ \A m \in I : Min(I) <= m
      BY <1>2, <1>5, MinOf
    <2>2. Min(I) \in Nat /\ n \in Nat /\ Min(I) <= n /\ n <= Min(I)
      BY <2>1, <1>2, <1>4, <1>5
    <2> QED BY <2>2
  <1>7. "/" \in Range(g)
    BY <1>1, <1>2 DEF Range
  <1> QED BY <1>2, <1>6, <1>7 DEF id_end, SelectInSeq, g

\* Joining and splitting are inverse: for a URI that is not empty.
LEMMA RoundTrip ==
    ASSUME NEW s \in Seq(UriChars), Whole(s), NEW u \in Seq(UriChars)
    PROVE  /\ u # <<>> => parse_gateway_uri(gateway_uri(s, u)) = [ok |-> TRUE, server |-> s, upstream |-> u]
           /\ u = <<>> => ~parse_gateway_uri(gateway_uri(s, u)).ok
  <1> DEFINE g == gateway_uri(s, u)
             n == Len(s) + 2
  <1>0. s \in Seq(UriChars) /\ s # <<>> /\ "/" \notin Range(s)
    BY DEF Whole
  <1>1. /\ g \in Seq(UriChars) /\ Len(g) = Len(s) + Len(u) + 2 /\ g[1] = Scheme
        /\ \A i \in 1 .. Len(s) : g[i + 1] = s[i]
        /\ \A i \in 1 .. Len(u) : g[Len(s) + 2 + i] = u[i]
    BY <1>0, UriShape
  <1>2. id_end(g) = n
    BY <1>0, IdEnd
  <1> HIDE DEF g
  <1>3. Len(s) \in Nat /\ Len(u) \in Nat /\ Len(s) > 0 /\ (u # <<>> => Len(u) > 0)
    BY <1>0
  <1>4. n > 2 /\ (u # <<>> => n < Len(g)) /\ (u = <<>> => ~(n < Len(g)))
    BY <1>1, <1>3
  <1>5. SubSeq(g, 2, n - 1) = s
    <2> DEFINE x == SubSeq(g, 2, n - 1)
    <2>1. x \in Seq(UriChars) /\ Len(x) = Len(s) /\ \A i \in 1 .. Len(s) : x[i] = g[i + 1]
      BY <1>1, <1>3
    <2> HIDE DEF x
    <2>2. \A i \in 1 .. Len(s) : x[i] = s[i]
      BY <2>1, <1>1
    <2>3. x = s
      BY <2>1, <2>2, <1>0
    <2> QED BY <2>3 DEF x
  <1>6. ASSUME u # <<>> PROVE SubSeq(g, n + 1, Len(g)) = u
    <2> DEFINE x == SubSeq(g, n + 1, Len(g))
    <2>1. x \in Seq(UriChars) /\ Len(x) = Len(u) /\ \A i \in 1 .. Len(u) : x[i] = g[n + i]
      BY <1>1, <1>3, <1>6
    <2> HIDE DEF x
    <2>2. \A i \in 1 .. Len(u) : x[i] = u[i]
      BY <2>1, <1>1
    <2>3. x = u
      BY <2>1, <2>2
    <2> QED BY <2>3 DEF x
  <1>7. ASSUME u # <<>> PROVE parse_gateway_uri(g) = [ok |-> TRUE, server |-> s, upstream |-> u]
    <2>1. n > 2 /\ n < Len(g) /\ g[1] = Scheme
      BY <1>1, <1>4, <1>7
    <2>2. SubSeq(g, n + 1, Len(g)) = u
      BY <1>6, <1>7
    <2> HIDE DEF n
    <2> QED BY <1>2, <2>1, <2>2, <1>5 DEF parse_gateway_uri
  <1>8. ASSUME u = <<>> PROVE ~parse_gateway_uri(g).ok
    BY <1>2, <1>4, <1>8 DEF parse_gateway_uri
  <1> QED BY <1>7, <1>8 DEF g

\* Whatever URI can be split at all is that of the parts.
LEMMA Joins ==
    ASSUME NEW uri \in Seq(UriChars), parse_gateway_uri(uri).ok
    PROVE  LET p == parse_gateway_uri(uri)
           IN  /\ uri = gateway_uri(p.server, p.upstream) /\ Whole(p.server) /\ p.upstream # <<>>
               /\ p.upstream \in Seq(UriChars)
  <1> DEFINE n == id_end(uri)
             s == SubSeq(uri, 2, n - 1)
             u == SubSeq(uri, n + 1, Len(uri))
             I == {i \in 1 .. Len(uri) : uri[i] = "/"}
             g == gateway_uri(s, u)
  <1>1. /\ n > 2 /\ n < Len(uri) /\ uri[1] = Scheme
        /\ parse_gateway_uri(uri) = [ok |-> TRUE, server |-> s, upstream |-> u]
    BY DEF parse_gateway_uri
  <1>2. "/" \in Range(uri)
    BY <1>1 DEF id_end
  <1>3. I # {} /\ I \subseteq Nat /\ \A i \in I : i \in 1 .. Len(uri) /\ uri[i] = "/"
    BY <1>2 DEF Range
  <1>4. n = Min(I)
    BY <1>2, <1>3 DEF id_end, SelectInSeq
  <1>i. \A i \in 1 .. Len(uri) : uri[i] = "/" => i \in I
    OBVIOUS
  <1> HIDE DEF n, I
  <1>5. n \in I /\ \A m \in I : n <= m
    BY <1>3, <1>4, MinOf
  <1>6. n \in 1 .. Len(uri) /\ uri[n] = "/" /\ Len(uri) \in Nat
    BY <1>3, <1>5
  <1>7. s \in Seq(UriChars) /\ Len(s) = n - 2 /\ \A i \in 1 .. n - 2 : s[i] = uri[i + 1]
    BY <1>1, <1>6
  <1>8. u \in Seq(UriChars) /\ Len(u) = Len(uri) - n /\ \A i \in 1 .. Len(uri) - n : u[i] = uri[n + i]
    BY <1>1, <1>6
  <1> HIDE DEF s, u
  <1>9. /\ g \in Seq(UriChars) /\ Len(g) = Len(s) + Len(u) + 2 /\ g[1] = Scheme
        /\ \A i \in 1 .. Len(s) : g[i + 1] = s[i]
        /\ g[Len(s) + 2] = "/"
        /\ \A i \in 1 .. Len(u) : g[Len(s) + 2 + i] = u[i]
    BY <1>7, <1>8, UriShape
  <1> HIDE DEF g
  <1>10. Len(g) = Len(uri) /\ Len(s) + 2 = n
    BY <1>6, <1>7, <1>8, <1>9
  <1>11. ASSUME NEW i \in 1 .. Len(uri) PROVE g[i] = uri[i]
    <2>1. CASE i = 1
      BY <2>1, <1>1, <1>9
    <2>2. CASE i > 1 /\ i < n
      <3>1. i - 1 \in 1 .. n - 2 /\ i - 1 \in 1 .. Len(s) /\ (i - 1) + 1 = i
        BY <2>2, <1>6, <1>7
      <3> QED BY <3>1, <1>7, <1>9
    <2>3. CASE i = n
      BY <2>3, <1>6, <1>9, <1>10
    <2>4. CASE i > n
      <3>1. i - n \in 1 .. Len(uri) - n /\ i - n \in 1 .. Len(u) /\ n + (i - n) = i
        BY <2>4, <1>6, <1>8
      <3>2. g[n + (i - n)] = u[i - n] /\ u[i - n] = uri[n + (i - n)]
        BY <3>1, <1>8, <1>9, <1>10
      <3> QED BY <3>1, <3>2
    <2> QED BY <2>1, <2>2, <2>3, <2>4, <1>6
  <1>12. uri = g
    BY <1>9, <1>10, <1>11
  <1>13. Whole(s)
    <2>1. s # <<>>
      BY <1>1, <1>6, <1>7
    <2>2. ASSUME "/" \in Range(s) PROVE FALSE
      <3>1. PICK i \in 1 .. n - 2 : s[i] = "/"
        BY <2>2, <1>7 DEF Range
      <3>2. uri[i + 1] = "/" /\ i + 1 \in 1 .. Len(uri) /\ i + 1 < n
        BY <3>1, <1>6, <1>7
      <3> QED BY <3>2, <1>i, <1>5, <1>6
    <2> QED BY <2>1, <2>2 DEF Whole
  <1>14. u # <<>>
    BY <1>1, <1>6, <1>8
  <1> QED BY <1>1, <1>8, <1>12, <1>13, <1>14 DEF g

(* MCP surface: lists                                                          *)

PosSets == UNION {SUBSET (1 .. n) : n \in Nat}
Lists(S) == UNION {[D -> S] : D \in PosSets}

LEMMA ListShape ==
    ASSUME NEW S, NEW f \in Lists(S)
    PROVE  /\ DOMAIN f \in PosSets /\ DOMAIN f \subseteq Nat /\ f \in [DOMAIN f -> S]
           /\ \E n \in Nat : DOMAIN f \subseteq 1 .. n
  <1>1. PICK D \in PosSets : f \in [D -> S]
    BY DEF Lists
  <1>2. PICK n \in Nat : D \subseteq 1 .. n
    BY DEF PosSets
  <1>3. DOMAIN f = D
    BY <1>1
  <1> QED BY <1>1, <1>2, <1>3

LEMMA RestrictList ==
    ASSUME NEW S, NEW f \in Lists(S), NEW K \in SUBSET DOMAIN f
    PROVE  Restrict(f, K) \in Lists(S) /\ DOMAIN Restrict(f, K) = K /\ \A i \in K : Restrict(f, K)[i] = f[i]
  <1>1. PICK n \in Nat : DOMAIN f \subseteq 1 .. n
    BY ListShape
  <1>2. K \in PosSets
    BY <1>1 DEF PosSets
  <1>3. f \in [DOMAIN f -> S]
    BY ListShape
  <1>4. Restrict(f, K) \in [K -> S] /\ DOMAIN Restrict(f, K) = K /\ \A i \in K : Restrict(f, K)[i] = f[i]
    BY <1>3 DEF Restrict
  <1> QED BY <1>2, <1>4 DEF Lists

LEMMA SequenceList ==
    ASSUME NEW S, NEW f \in Seq(S)
    PROVE  f \in Lists(S)
  <1>1. Len(f) \in Nat /\ f \in [1 .. Len(f) -> S]
    OBVIOUS
  <1>2. 1 .. Len(f) \in PosSets
    BY <1>1 DEF PosSets
  <1> QED BY <1>1, <1>2 DEF Lists

LEMMA EmptyList ==
    ASSUME NEW S
    PROVE  <<>> \in Lists(S) /\ DOMAIN <<>> = {} /\ Range(<<>>) = {}
  <1>1. <<>> \in Seq(S) /\ DOMAIN <<>> = {}
    OBVIOUS
  <1> QED BY <1>1, SequenceList DEF Range

\* Of two resources with one URI the first stays.
OneEach(f) == \A i, j \in DOMAIN f : f[i].uri = f[j].uri => i = j

LEMMA KeepList ==
    ASSUME NEW S, NEW f \in Lists(S), NEW K \in SUBSET DOMAIN f
    PROVE  Range(Restrict(f, K)) \subseteq Range(f)
  BY RestrictList DEF Range

Prompts == UNION {Range(o.prompts) : o \in SfOffers}
Resources == UNION {Range(o.resources) : o \in SfOffers}
Templates == UNION {Range(o.templates) : o \in SfOffers}

LEMMA OfferedLists ==
    ASSUME NEW o \in SfOffers
    PROVE  o.prompts \in Lists(Prompts) /\ o.resources \in Lists(Resources) /\ o.templates \in Lists(Templates)
  <1>1. ASSUME NEW f, NEW S, f \in Seq(Range(f)), Range(f) \subseteq S
        PROVE  f \in Lists(S)
    <2>1. f \in Seq(S)
      BY <1>1
    <2> QED BY <2>1, SequenceList
  <1>2. o.prompts \in Seq(Range(o.prompts)) /\ o.resources \in Seq(Range(o.resources))
        /\ o.templates \in Seq(Range(o.templates))
    BY SurfaceAssumption
  <1>3. /\ Range(o.prompts) \subseteq Prompts /\ Range(o.resources) \subseteq Resources
        /\ Range(o.templates) \subseteq Templates
    BY DEF Prompts, Resources, Templates
  <1> QED BY <1>1, <1>2, <1>3

LEMMA WrappedPrompts ==
    ASSUME NEW s, NEW f \in Lists(Prompts)
    PROVE  wrap_prompts(s, f) \in Lists(Prompts)
  <1> DEFINE named == Keep(f, LAMBDA i : f[i] # "not a name")
             K == {i \in DOMAIN f : f[i] # "not a name"}
             keys == [i \in DOMAIN named |-> WireName(s, named[i])]
             U == {i \in DOMAIN named : \A j \in DOMAIN named : j < i => keys[j] # keys[i]}
  <1>1. named = Restrict(f, K)
    BY DEF Keep
  <1>k. K \in SUBSET DOMAIN f
    OBVIOUS
  <1> HIDE DEF K, named
  <1>2. named \in Lists(Prompts)
    BY <1>1, <1>k, RestrictList
  <1>3. wrap_prompts(s, f) = Restrict(named, U)
    BY DEF wrap_prompts, unique_by, Keep, named
  <1>4. U \in SUBSET DOMAIN named
    OBVIOUS
  <1> HIDE DEF U
  <1> QED BY <1>2, <1>3, <1>4, RestrictList

LEMMA WrappedTemplates ==
    ASSUME NEW s, NEW f \in Lists(Templates)
    PROVE  wrap_templates(s, f) \in Lists(Templates)
  <1> DEFINE K == {i \in DOMAIN f : f[i].template # "" /\ f[i].name # ""}
             whole == Restrict(f, K)
             keys == [i \in DOMAIN whole |-> whole[i].template]
             U == {i \in DOMAIN whole : \A j \in DOMAIN whole : j < i => keys[j] # keys[i]}
  <1>2. whole \in Lists(Templates)
    BY RestrictList
  <1>3. wrap_templates(s, f) = Restrict(whole, U)
    BY DEF wrap_templates, unique_by, Keep
  <1>4. U \in SUBSET DOMAIN whole
    OBVIOUS
  <1> HIDE DEF U, whole
  <1> QED BY <1>2, <1>3, <1>4, RestrictList

LEMMA WrappedResources ==
    ASSUME NEW s, NEW f \in Lists(Resources)
    PROVE  /\ wrap_resources(s, f) \in Lists(Resources) /\ OneEach(wrap_resources(s, f))
           /\ \A r \in Range(wrap_resources(s, f)) : r.uri # <<>>
  <1> DEFINE K == {i \in DOMAIN f : f[i].uri # <<>> /\ f[i].name # ""}
             whole == Restrict(f, K)
             keys == [i \in DOMAIN whole |-> whole[i].uri]
             U == {i \in DOMAIN whole : \A j \in DOMAIN whole : j < i => keys[j] # keys[i]}
             w == Restrict(whole, U)
  <1>1. wrap_resources(s, f) = w
    BY DEF wrap_resources, unique_by, Keep
  <1>k. K \in SUBSET DOMAIN f /\ \A i \in K : f[i].uri # <<>>
    OBVIOUS
  <1> HIDE DEF K
  <1>2. whole \in Lists(Resources) /\ DOMAIN whole = K /\ \A i \in K : whole[i] = f[i]
    BY <1>k, RestrictList
  <1>3. \A i \in DOMAIN whole : whole[i].uri # <<>>
    BY <1>2, <1>k
  <1>n. DOMAIN whole \subseteq Nat
    BY <1>2, ListShape
  <1>4. \A i \in U : i \in DOMAIN whole /\ \A j \in DOMAIN whole : j < i => whole[j].uri # whole[i].uri
    OBVIOUS
  <1>u. U \in SUBSET DOMAIN whole
    OBVIOUS
  <1> HIDE DEF U, whole
  <1>5. w \in Lists(Resources) /\ DOMAIN w = U /\ \A i \in U : w[i] = whole[i]
    BY <1>2, <1>u, RestrictList
  <1> HIDE DEF w
  <1>6. OneEach(w)
    BY <1>4, <1>5, <1>n DEF OneEach
  <1>7. \A r \in Range(w) : r.uri # <<>>
    BY <1>3, <1>4, <1>5 DEF Range
  <1> QED BY <1>1, <1>5, <1>6, <1>7

(* MCP surface: the inductive invariant                                        *)

Surfaces == [prompts : Lists(Prompts), resources : Lists(Resources), templates : Lists(Templates)]
Entries == [connected : BOOLEAN, prompts : Lists(Prompts), resources : Lists(Resources),
            templates : Lists(Templates)]
SurfaceOk(f) == OneEach(f.resources) /\ \A r \in Range(f.resources) : r.uri # <<>>
EntryOk(e) == SurfaceOk(e) /\ (~e.connected => Range(e.prompts) = {} /\ Range(e.resources) = {})
SoundEntries == {e \in Entries : EntryOk(e)}
ReadServers == SfIds \cup {<<>>}
Reads == [pc : {"idle", "sent", "answered"}, server : ReadServers, upstream : Seq(UriChars),
          got : SUBSET Seq(UriChars)]
LeadsBack(r) ==
    \/ IsPrefix(gateway_uri(r.server, <<>>), r.upstream)
    \/ \A uri \in r.got :
          parse_gateway_uri(uri) = [ok |-> TRUE, server |-> r.server, upstream |-> r.upstream]
ReadOk(r) ==
    /\ r.pc # "idle" => r.server \in SfIds /\ Whole(r.server) /\ r.upstream # <<>>
    /\ LeadsBack(r)
Ops == [pc : {"idle", "copied", "fetched"}, server : ReadServers, adds : BOOLEAN, entry : SoundEntries]
OpOk(o) == o.pc # "idle" => o.server \in SfIds
Refreshes == [running : BOOLEAN, ids : SUBSET SfIds, todo : Seq(SfIds), copies : [SfIds -> SoundEntries],
              fresh : [SfIds -> SoundEntries]]

\* What the entries, the handlers, the refresh, the reads and the listeners satisfy
\* in every state: besides the types, that an entry without connection lists
\* nothing, also one that is only copied or fetched, that no URI is listed twice,
\* that a server which is not registered has nothing, and that no prompt is listed
\* by two servers, neither in what a refresh has collected nor, unless a server was
\* added during the last one, in the registry.
PromptsApart(entry) ==
    \A s, t \in SfIds : s # t =>
        \A p \in Range(entry[s].prompts), q \in Range(entry[t].prompts) : WireName(s, p) # WireName(t, q)
EntriesFit ==
    /\ sfEntry \in [SfIds -> SoundEntries] /\ sfOrder \in Seq(SfIds)
    /\ \A s \in SfIds : s \notin Range(sfOrder) => Range(sfEntry[s].prompts) = {}
    /\ ~sfMixed => PromptsApart(sfEntry)
OpsFit == sfOp \in [SfOps -> Ops] /\ \A a \in SfOps : OpOk(sfOp[a])
RefreshFits == sfRefresh \in Refreshes /\ PromptsApart(sfRefresh.fresh)
ReadsFit == sfRead \in [SfClients -> Reads] /\ \A c \in SfClients : ReadOk(sfRead[c])
TargetsFit == sfTargets \in [ListenTargets -> Nat] /\ NotifiedOnce
SfInv == EntriesFit /\ OpsFit /\ RefreshFits /\ ReadsFit /\ TargetsFit

LEMMA ResourceUris ==
    ASSUME NEW r \in Resources
    PROVE  r.uri \in Seq(UriChars)
  <1>1. PICK o \in SfOffers : r \in Range(o.resources)
    BY DEF Resources
  <1> QED BY <1>1, SurfaceAssumption

LEMMA NoSurfaceOk == NoSurface \in Surfaces /\ SurfaceOk(NoSurface)
  <1>1. NoSurface \in Surfaces
    BY EmptyList DEF NoSurface, Surfaces
  <1>2. NoSurface.resources = <<>>
    BY DEF NoSurface
  <1>3. DOMAIN <<>> = {} /\ Range(<<>>) = {}
    BY EmptyList
  <1> QED BY <1>1, <1>2, <1>3 DEF SurfaceOk, OneEach

LEMMA AbsentOk == Absent \in SoundEntries /\ Range(Absent.prompts) = {}
  <1>2. NoSurface.prompts = <<>> /\ NoSurface.resources = <<>> /\ NoSurface.templates = <<>>
    BY DEF NoSurface
  <1>3. Range(<<>>) = {} /\ <<>> \in Lists(Prompts) /\ <<>> \in Lists(Resources) /\ <<>> \in Lists(Templates)
    BY EmptyList
  <1>4. Absent \in Entries
    BY <1>2, <1>3 DEF Absent, Entry, Entries
  <1>5. EntryOk(Absent)
    BY <1>2, <1>3, EmptyList DEF Absent, Entry, EntryOk, SurfaceOk, OneEach
  <1>6. Range(Absent.prompts) = {}
    BY <1>2, <1>3 DEF Absent, Entry
  <1> QED BY <1>4, <1>5, <1>6 DEF SoundEntries

LEMMA AllAbsentOk == AllAbsent \in [SfIds -> SoundEntries] /\ PromptsApart(AllAbsent)
  <1>1. AllAbsent \in [SfIds -> SoundEntries]
    BY AbsentOk DEF AllAbsent
  <1>2. \A s \in SfIds : Range(AllAbsent[s].prompts) = {}
    BY AbsentOk DEF AllAbsent
  <1> QED BY <1>1, <1>2 DEF PromptsApart

\* What a probe loads is as sound as what the entry had.
LEMMA Loaded ==
    ASSUME NEW s, NEW o \in SfOffers, NEW fails, NEW previous \in Surfaces, SurfaceOk(previous)
    PROVE  load_surface(s, o, fails, previous) \in Surfaces /\ SurfaceOk(load_surface(s, o, fails, previous))
  <1> DEFINE p == load_kind(o.has_prompts, "prompts" \in fails, wrap_prompts(s, o.prompts), previous.prompts)
             r == load_kind(o.has_resources, "resources" \in fails,
                             wrap_resources(s, o.resources), previous.resources)
             t == load_kind(o.has_resources, "templates" \in fails,
                             wrap_templates(s, o.templates), previous.templates)
  <1>1. o.prompts \in Lists(Prompts) /\ o.resources \in Lists(Resources) /\ o.templates \in Lists(Templates)
    BY OfferedLists
  <1>2. p \in Lists(Prompts)
    <2>1. wrap_prompts(s, o.prompts) \in Lists(Prompts) /\ <<>> \in Lists(Prompts)
          /\ previous.prompts \in Lists(Prompts)
      BY <1>1, WrappedPrompts, EmptyList DEF Surfaces
    <2> QED BY <2>1 DEF load_kind
  <1>3. t \in Lists(Templates)
    <2>1. wrap_templates(s, o.templates) \in Lists(Templates) /\ <<>> \in Lists(Templates)
          /\ previous.templates \in Lists(Templates)
      BY <1>1, WrappedTemplates, EmptyList DEF Surfaces
    <2> QED BY <2>1 DEF load_kind
  <1>4. r \in Lists(Resources) /\ OneEach(r) /\ \A x \in Range(r) : x.uri # <<>>
    <2>1. /\ wrap_resources(s, o.resources) \in Lists(Resources) /\ OneEach(wrap_resources(s, o.resources))
          /\ \A x \in Range(wrap_resources(s, o.resources)) : x.uri # <<>>
      BY <1>1, WrappedResources
    <2>2. <<>> \in Lists(Resources) /\ OneEach(<<>>) /\ \A x \in Range(<<>>) : x.uri # <<>>
      BY EmptyList DEF OneEach
    <2>3. previous.resources \in Lists(Resources) /\ OneEach(previous.resources)
          /\ \A x \in Range(previous.resources) : x.uri # <<>>
      BY DEF Surfaces, SurfaceOk
    <2> QED BY <2>1, <2>2, <2>3 DEF load_kind
  <1>5. load_surface(s, o, fails, previous) = [prompts |-> p, resources |-> r, templates |-> t]
    BY DEF load_surface
  <1> HIDE DEF p, r, t
  <1> QED BY <1>2, <1>3, <1>4, <1>5 DEF Surfaces, SurfaceOk

\* Whatever a probe over a connection ends with is a sound entry.
LEMMA Probed ==
    ASSUME NEW s, NEW previous \in Surfaces, SurfaceOk(previous), NEW e \in probe_entry(s, previous)
    PROVE  e \in SoundEntries
  <1>1. ASSUME NEW f \in Surfaces, SurfaceOk(f)
        PROVE  Entry(TRUE, f) \in SoundEntries
    <2>1. f.prompts \in Lists(Prompts) /\ f.resources \in Lists(Resources) /\ f.templates \in Lists(Templates)
      BY DEF Surfaces
    <2>2. Entry(TRUE, f) \in Entries
      BY <2>1 DEF Entries, Entry
    <2>3. Entry(TRUE, f).resources = f.resources /\ Entry(TRUE, f).connected = TRUE
      BY DEF Entry
    <2> QED BY <2>2, <2>3, <1>1 DEF EntryOk, SurfaceOk, SoundEntries
  <1>2. CASE e = Entry(TRUE, previous)
    BY <1>1, <1>2
  <1>3. CASE \E o \in SfOffers, fails \in SfFails : e = Entry(TRUE, load_surface(s, o, fails, previous))
    <2>1. PICK o \in SfOffers, fails \in SfFails : e = Entry(TRUE, load_surface(s, o, fails, previous))
      BY <1>3
    <2>2. load_surface(s, o, fails, previous) \in Surfaces /\ SurfaceOk(load_surface(s, o, fails, previous))
      BY Loaded
    <2> QED BY <2>1, <2>2, <1>1
  <1>4. \/ \E o \in SfOffers : e \in {Entry(TRUE, load_surface(s, o, fails, previous)) : fails \in SfFails}
        \/ e = Entry(TRUE, previous)
    BY DEF probe_entry
  <1> QED BY <1>2, <1>3, <1>4

LEMMA Established ==
    ASSUME NEW s, NEW e \in establish_entry(s)
    PROVE  e \in SoundEntries
  <1>1. e \in probe_entry(s, NoSurface) \/ e = Absent
    BY DEF establish_entry
  <1> QED BY <1>1, Probed, NoSurfaceOk, AbsentOk

\* The lists of a sound entry are what the next probe of it may keep.
LEMMA CopyOk ==
    ASSUME NEW e \in SoundEntries
    PROVE  SurfaceOf(e) \in Surfaces /\ SurfaceOk(SurfaceOf(e))
  <1>1. e \in Entries /\ EntryOk(e)
    BY DEF SoundEntries
  <1>2. SurfaceOf(e) \in Surfaces /\ SurfaceOf(e).resources = e.resources
    BY <1>1 DEF SurfaceOf, Surfaces, Entries
  <1> QED BY <1>1, <1>2 DEF EntryOk, SurfaceOk

\* A prompt that another server has under the same name is left out.
AwayFrom(s, e, entries) ==
    \A t \in SfIds : t # s =>
        \A p \in Range(e.prompts), q \in Range(entries[t].prompts) : WireName(s, p) # WireName(t, q)
LEMMA Deduped ==
    ASSUME NEW s \in SfIds, NEW e \in SoundEntries, NEW entries \in [SfIds -> SoundEntries]
    PROVE  /\ dedup_against_others(s, e, entries) \in SoundEntries
           /\ AwayFrom(s, dedup_against_others(s, e, entries), entries)
  <1> DEFINE f == e.prompts
             seen == UNION {{WireName(t, p) : p \in Range(entries[t].prompts)} : t \in SfIds \ {s}}
             K == {i \in DOMAIN f : WireName(s, f[i]) \notin seen}
             g == dedup_prompts(s, f, entries)
             d == dedup_against_others(s, e, entries)
  <1>0. e \in Entries /\ EntryOk(e) /\ f \in Lists(Prompts)
    BY DEF SoundEntries, Entries
  <1>1. g = Restrict(f, K)
    BY DEF dedup_prompts, Keep
  <1>2. K \in SUBSET DOMAIN f /\ \A i \in K : WireName(s, f[i]) \notin seen
    OBVIOUS
  <1>3. \A t \in SfIds : t # s => \A q \in Range(entries[t].prompts) : WireName(t, q) \in seen
    OBVIOUS
  <1>d. d = [e EXCEPT !.prompts = g]
    BY DEF dedup_against_others
  <1> HIDE DEF K, seen, f
  <1>4. g \in Lists(Prompts) /\ Range(g) \subseteq Range(f) /\ DOMAIN Restrict(f, K) = K
        /\ \A i \in K : Restrict(f, K)[i] = f[i]
    BY <1>0, <1>1, <1>2, RestrictList, KeepList
  <1>5. \A p \in Range(g) : WireName(s, p) \notin seen
    BY <1>1, <1>2, <1>4 DEF Range
  <1> HIDE DEF g, d
  <1>6. /\ d \in Entries /\ d.prompts = g /\ d.resources = e.resources /\ d.connected = e.connected
    BY <1>0, <1>4, <1>d DEF Entries
  <1>7. d \in SoundEntries
    <2>1. SurfaceOk(d)
      BY <1>0, <1>6 DEF EntryOk, SurfaceOk
    <2>2. ~d.connected => Range(d.prompts) = {} /\ Range(d.resources) = {}
      BY <1>0, <1>4, <1>6 DEF EntryOk, f
    <2> QED BY <1>6, <2>1, <2>2 DEF EntryOk, SoundEntries
  <1>8. AwayFrom(s, d, entries)
    BY <1>3, <1>5, <1>6 DEF AwayFrom
  <1> QED BY <1>7, <1>8 DEF d

\* Putting such an entry in place keeps the names apart.
LEMMA Replaced ==
    ASSUME NEW entries \in [SfIds -> SoundEntries], NEW s \in SfIds, NEW e \in SoundEntries,
           AwayFrom(s, e, entries)
    PROVE  /\ [entries EXCEPT ![s] = e] \in [SfIds -> SoundEntries]
           /\ PromptsApart(entries) => PromptsApart([entries EXCEPT ![s] = e])
  <1> DEFINE next == [entries EXCEPT ![s] = e]
  <1>1. next \in [SfIds -> SoundEntries] /\ next[s] = e /\ \A t \in SfIds : t # s => next[t] = entries[t]
    OBVIOUS
  <1> HIDE DEF next
  <1>2. ASSUME PromptsApart(entries), NEW a \in SfIds, NEW b \in SfIds, a # b,
               NEW p \in Range(next[a].prompts), NEW q \in Range(next[b].prompts)
        PROVE  WireName(a, p) # WireName(b, q)
    <2>1. CASE a = s
      BY <2>1, <1>1, <1>2 DEF AwayFrom
    <2>2. CASE b = s
      <3>1. next[a] = entries[a] /\ next[b] = e
        BY <2>2, <1>1, <1>2
      <3>2. WireName(b, q) # WireName(a, p)
        BY <3>1, <2>2, <1>2 DEF AwayFrom
      <3> QED BY <3>2
    <2>3. CASE a # s /\ b # s
      BY <2>3, <1>1, <1>2 DEF PromptsApart
    <2> QED BY <2>1, <2>2, <2>3
  <1> QED BY <1>1, <1>2 DEF PromptsApart, next

(* MCP surface: the steps                                                      *)

LEMMA NoOpOk == NoOp \in Ops /\ OpOk(NoOp)
  <1>1. <<>> \in ReadServers /\ FALSE \in BOOLEAN
    BY DEF ReadServers
  <1> QED BY <1>1, AbsentOk DEF NoOp, Ops, OpOk

LEMMA OpsKept ==
    ASSUME OpsFit, NEW a \in SfOps, NEW o \in Ops, OpOk(o), sfOp' = [sfOp EXCEPT ![a] = o]
    PROVE  OpsFit'
  <1>1. sfOp \in [SfOps -> Ops] /\ \A b \in SfOps : OpOk(sfOp[b])
    BY DEF OpsFit
  <1>2. sfOp' \in [SfOps -> Ops] /\ sfOp'[a] = o /\ \A b \in SfOps : b # a => sfOp'[b] = sfOp[b]
    BY <1>1
  <1> QED BY <1>1, <1>2 DEF OpsFit

LEMMA CopyKeeps ==
    ASSUME SfInv, NEW a \in SfOps, NEW s \in SfIds, UpdateServer(a, s) \/ add_server(a, s), UNCHANGED sfTargets
    PROVE  SfInv'
  <1>1. PICK e \in {sfEntry[s], Absent} : CopyEntry(a, s, e)
    BY DEF UpdateServer, add_server, probe, reconnect
  <1> DEFINE o == [pc |-> "copied", server |-> s, adds |-> s \notin Registered, entry |-> e]
  <1>2. sfOp' = [sfOp EXCEPT ![a] = o] /\ UNCHANGED <<sfEntry, sfOrder, sfRefresh, sfMixed, sfRead>>
    BY <1>1 DEF CopyEntry
  <1>3. e \in SoundEntries
    BY AbsentOk DEF SfInv, EntriesFit
  <1>4. o \in Ops /\ OpOk(o)
    <2> DEFINE new == s \notin Registered
    <2>1. new \in BOOLEAN
      OBVIOUS
    <2> HIDE DEF new
    <2>2. s \in ReadServers
      BY DEF ReadServers
    <2>3. [pc |-> "copied", server |-> s, adds |-> new, entry |-> e] \in Ops
      BY <1>3, <2>1, <2>2 DEF Ops
    <2> QED BY <2>3 DEF OpOk, new
  <1> HIDE DEF o
  <1>5. OpsFit'
    BY <1>2, <1>4, OpsKept DEF SfInv
  <1> QED BY <1>2, <1>5 DEF SfInv, EntriesFit, RefreshFits, ReadsFit, TargetsFit, NotifiedOnce

LEMMA FetchKeeps ==
    ASSUME SfInv, NEW a \in SfOps, Fetch(a), UNCHANGED sfTargets
    PROVE  SfInv'
  <1> DEFINE me == sfOp[a]
  <1>1. PICK e \in IF me.entry.connected THEN probe_entry(me.server, SurfaceOf(me.entry))
                   ELSE establish_entry(me.server) :
          sfOp' = [sfOp EXCEPT ![a].pc = "fetched", ![a].entry = e]
    BY DEF Fetch
  <1>2. me \in Ops /\ OpOk(me) /\ me.pc = "copied" /\ sfOp \in [SfOps -> Ops]
    BY DEF SfInv, OpsFit, Fetch
  <1>3. e \in SoundEntries
    <2>1. me.entry \in SoundEntries
      BY <1>2 DEF Ops
    <2>2. SurfaceOf(me.entry) \in Surfaces /\ SurfaceOk(SurfaceOf(me.entry))
      BY <2>1, CopyOk
    <2>3. CASE e \in probe_entry(me.server, SurfaceOf(me.entry))
      BY <2>2, <2>3, Probed
    <2>4. CASE e \in establish_entry(me.server)
      BY <2>4, Established
    <2> QED BY <1>1, <2>3, <2>4
  <1> DEFINE o == [me EXCEPT !.pc = "fetched", !.entry = e]
  <1>4. sfOp' = [sfOp EXCEPT ![a] = o]
    BY <1>1, <1>2
  <1>5. o \in Ops /\ OpOk(o)
    <2> HIDE DEF me
    <2>1. o \in Ops /\ o.server = me.server
      BY <1>2, <1>3 DEF Ops
    <2> QED BY <1>2, <2>1 DEF OpOk
  <1> HIDE DEF o
  <1>6. OpsFit'
    BY <1>4, <1>5, OpsKept DEF SfInv
  <1>7. UNCHANGED <<sfEntry, sfOrder, sfRefresh, sfMixed, sfRead>>
    BY DEF Fetch
  <1> QED BY <1>6, <1>7 DEF SfInv, EntriesFit, RefreshFits, ReadsFit, TargetsFit, NotifiedOnce

LEMMA ReplaceKeeps ==
    ASSUME SfInv, NEW a \in SfOps, replace_entry(a), UNCHANGED sfTargets
    PROVE  SfInv'
  <1> DEFINE me == sfOp[a]
             s == me.server
             e == dedup_against_others(s, me.entry, sfEntry)
  <1>1. me \in Ops /\ s \in SfIds /\ me.entry \in SoundEntries
    BY DEF SfInv, OpsFit, OpOk, Ops, replace_entry
  <1>2. sfEntry \in [SfIds -> SoundEntries] /\ sfOrder \in Seq(SfIds)
    BY DEF SfInv, EntriesFit
  <1>3. e \in SoundEntries /\ AwayFrom(s, e, sfEntry)
    BY <1>1, <1>2, Deduped
  <1>4. \/ UNCHANGED <<sfEntry, sfOrder>>
        \/ sfEntry' = [sfEntry EXCEPT ![s] = e] /\ sfOrder' = Append(sfOrder, s)
        \/ sfEntry' = [sfEntry EXCEPT ![s] = e] /\ sfOrder' = sfOrder /\ s \in Range(sfOrder)
    BY <1>1 DEF replace_entry, Registered, Ops
  <1>5. sfMixed' = sfMixed /\ UNCHANGED <<sfRefresh, sfRead>> /\ sfOp' = [sfOp EXCEPT ![a] = NoOp]
    BY DEF replace_entry
  <1>6. OpsFit'
    BY <1>5, NoOpOk, OpsKept DEF SfInv
  <1> HIDE DEF e, s, me
  <1>7. EntriesFit'
    <2>1. CASE UNCHANGED <<sfEntry, sfOrder>>
      BY <2>1, <1>5 DEF SfInv, EntriesFit
    <2>2. ASSUME sfEntry' = [sfEntry EXCEPT ![s] = e], sfOrder' \in Seq(SfIds),
                 Range(sfOrder) \cup {s} \subseteq Range(sfOrder')
          PROVE  EntriesFit'
      <3>1. sfEntry' \in [SfIds -> SoundEntries] /\ (PromptsApart(sfEntry) => PromptsApart(sfEntry'))
        BY <2>2, <1>1, <1>2, <1>3, Replaced
      <3>3. ASSUME NEW t \in SfIds, t \notin Range(sfOrder') PROVE Range(sfEntry'[t].prompts) = {}
        <4>1. t # s /\ t \notin Range(sfOrder)
          BY <2>2, <3>3
        <4>2. sfEntry'[t] = sfEntry[t]
          BY <4>1, <2>2, <1>2
        <4> QED BY <4>1, <4>2 DEF SfInv, EntriesFit
      <3> QED BY <2>2, <3>1, <3>3, <1>5 DEF SfInv, EntriesFit
    <2>3. CASE sfEntry' = [sfEntry EXCEPT ![s] = e] /\ sfOrder' = Append(sfOrder, s)
      <3>1. sfOrder' \in Seq(SfIds) /\ Len(sfOrder') = Len(sfOrder) + 1 /\ sfOrder'[Len(sfOrder) + 1] = s
            /\ \A i \in 1 .. Len(sfOrder) : sfOrder'[i] = sfOrder[i]
        BY <2>3, <1>1, <1>2
      <3>2. Range(sfOrder) \cup {s} \subseteq Range(sfOrder')
        BY <3>1, <1>2 DEF Range
      <3> QED BY <2>2, <2>3, <3>1, <3>2
    <2>4. CASE sfEntry' = [sfEntry EXCEPT ![s] = e] /\ sfOrder' = sfOrder /\ s \in Range(sfOrder)
      BY <2>2, <2>4, <1>2
    <2> QED BY <1>4, <2>1, <2>3, <2>4
  <1> QED BY <1>5, <1>6, <1>7 DEF SfInv, RefreshFits, ReadsFit, TargetsFit, NotifiedOnce

LEMMA HandlerDropKeeps ==
    ASSUME SfInv, NEW a \in SfOps, HandlerDropped(a), UNCHANGED sfTargets
    PROVE  SfInv'
  <1>1. sfOp' = [sfOp EXCEPT ![a] = NoOp] /\ UNCHANGED <<sfEntry, sfOrder, sfRefresh, sfMixed, sfRead>>
    BY DEF HandlerDropped
  <1>2. OpsFit'
    BY <1>1, NoOpOk, OpsKept DEF SfInv
  <1> QED BY <1>1, <1>2 DEF SfInv, EntriesFit, RefreshFits, ReadsFit, TargetsFit, NotifiedOnce

LEMMA RefreshStarts ==
    ASSUME SfInv, RefreshCopies, UNCHANGED sfTargets
    PROVE  SfInv'
  <1>1. /\ sfRefresh' = [running |-> TRUE, ids |-> Registered, todo |-> sfOrder, copies |-> sfEntry,
                         fresh |-> AllAbsent]
        /\ UNCHANGED <<sfEntry, sfOrder, sfOp, sfMixed, sfRead>>
    BY DEF RefreshCopies
  <1>2. sfEntry \in [SfIds -> SoundEntries] /\ sfOrder \in Seq(SfIds)
    BY DEF SfInv, EntriesFit
  <1>3. Registered \in SUBSET SfIds
    BY <1>2 DEF Registered, Range
  <1>4. RefreshFits'
    BY <1>1, <1>2, <1>3, AllAbsentOk DEF RefreshFits, Refreshes
  <1> QED BY <1>1, <1>4 DEF SfInv, EntriesFit, OpsFit, ReadsFit, TargetsFit, NotifiedOnce

LEMMA PushKeeps ==
    ASSUME SfInv, push_deduped_entry, UNCHANGED sfTargets
    PROVE  SfInv'
  <1> DEFINE r == sfRefresh
             s == Head(r.todo)
             copy == r.copies[s]
  <1>1. PICK e \in IF s \notin SfChecked THEN {copy}
                   ELSE IF copy.connected THEN probe_entry(s, SurfaceOf(copy)) ELSE establish_entry(s) :
          sfRefresh' = [r EXCEPT !.todo = Tail(@), !.copies[s] = Absent,
                          !.fresh[s] = dedup_against_others(s, e, r.fresh)]
    BY DEF push_deduped_entry
  <1>2. r \in Refreshes /\ PromptsApart(r.fresh) /\ r.todo # <<>>
    BY DEF SfInv, RefreshFits, push_deduped_entry
  <1>3. /\ r.copies \in [SfIds -> SoundEntries] /\ r.fresh \in [SfIds -> SoundEntries] /\ r.todo \in Seq(SfIds)
        /\ r.running \in BOOLEAN /\ r.ids \in SUBSET SfIds
    BY <1>2 DEF Refreshes
  <1>4. s \in SfIds /\ Tail(r.todo) \in Seq(SfIds) /\ copy \in SoundEntries
    BY <1>2, <1>3
  <1>5. e \in SoundEntries
    <2>2. SurfaceOf(copy) \in Surfaces /\ SurfaceOk(SurfaceOf(copy))
      BY <1>4, CopyOk
    <2>3. CASE e \in probe_entry(s, SurfaceOf(copy))
      BY <2>2, <2>3, Probed
    <2>4. CASE e \in establish_entry(s)
      BY <2>4, Established
    <2>5. CASE e = copy
      BY <2>5, <1>4
    <2> QED BY <1>1, <2>3, <2>4, <2>5
  <1> DEFINE d == dedup_against_others(s, e, r.fresh)
             copies == [r.copies EXCEPT ![s] = Absent]
             fresh == [r.fresh EXCEPT ![s] = d]
  <1>6. d \in SoundEntries /\ AwayFrom(s, d, r.fresh)
    BY <1>3, <1>4, <1>5, Deduped
  <1>7. sfRefresh' = [running |-> r.running, ids |-> r.ids, todo |-> Tail(r.todo), copies |-> copies,
                      fresh |-> fresh]
    BY <1>1, <1>2 DEF Refreshes
  <1>8. fresh \in [SfIds -> SoundEntries] /\ PromptsApart(fresh)
    <2> HIDE DEF d, s, r
    <2> QED BY <1>2, <1>3, <1>4, <1>6, Replaced
  <1>9. copies \in [SfIds -> SoundEntries]
    BY <1>3, <1>4, AbsentOk
  <1>10. RefreshFits'
    <2> HIDE DEF fresh, copies, r
    <2> QED BY <1>3, <1>4, <1>7, <1>8, <1>9 DEF RefreshFits, Refreshes
  <1>11. UNCHANGED <<sfEntry, sfOrder, sfOp, sfMixed, sfRead>>
    BY DEF push_deduped_entry
  <1> QED BY <1>10, <1>11 DEF SfInv, EntriesFit, OpsFit, ReadsFit, TargetsFit, NotifiedOnce

LEMMA NoRefreshFits == NoRefresh \in Refreshes /\ PromptsApart(NoRefresh.fresh)
  <1>1. <<>> \in Seq(SfIds) /\ {} \in SUBSET SfIds
    OBVIOUS
  <1> QED BY <1>1, AllAbsentOk DEF NoRefresh, Refreshes

\* What a refresh has collected is apart; it replaces all there is, unless a
\* server was added meanwhile.
LEMMA RefreshEnds ==
    ASSUME SfInv, refresh_inner, UNCHANGED sfTargets
    PROVE  SfInv'
  <1> DEFINE fresh == sfRefresh.fresh
             mine == sfRefresh.ids \cap Registered
  <1>1. /\ sfEntry' = [s \in SfIds |-> IF s \in mine THEN fresh[s] ELSE sfEntry[s]]
        /\ sfMixed' = ~(Registered \subseteq sfRefresh.ids) /\ sfRefresh' = NoRefresh
        /\ UNCHANGED <<sfOrder, sfOp, sfRead>>
    BY DEF refresh_inner
  <1>2. fresh \in [SfIds -> SoundEntries] /\ PromptsApart(fresh)
    BY DEF SfInv, RefreshFits, Refreshes
  <1>3. sfEntry \in [SfIds -> SoundEntries] /\ sfOrder \in Seq(SfIds)
        /\ \A s \in SfIds : s \notin Registered => Range(sfEntry[s].prompts) = {}
    BY DEF SfInv, EntriesFit, Registered
  <1>4. sfEntry' \in [SfIds -> SoundEntries] /\ \A s \in SfIds : s \notin mine => sfEntry'[s] = sfEntry[s]
    BY <1>1, <1>2, <1>3
  <1>5. \A s \in SfIds : s \in mine => sfEntry'[s] = fresh[s]
    BY <1>1
  <1>6. \A s \in SfIds : s \notin Registered => Range(sfEntry'[s].prompts) = {}
    BY <1>3, <1>4
  <1>7. ASSUME ~sfMixed' PROVE PromptsApart(sfEntry')
    <2>1. mine = Registered
      BY <1>1, <1>7
    <2> HIDE DEF mine, fresh
    <2>2. \A s \in SfIds : Range(sfEntry'[s].prompts) \subseteq Range(fresh[s].prompts)
      BY <2>1, <1>5, <1>6
    <2> QED BY <2>2, <1>2 DEF PromptsApart
  <1>8. EntriesFit'
    BY <1>1, <1>3, <1>4, <1>6, <1>7 DEF EntriesFit, Registered
  <1>9. RefreshFits'
    BY <1>1, NoRefreshFits DEF RefreshFits
  <1> QED BY <1>1, <1>8, <1>9 DEF SfInv, OpsFit, ReadsFit, TargetsFit, NotifiedOnce

LEMMA RemoveKeeps ==
    ASSUME SfInv, NEW s \in SfIds, remove_server(s), UNCHANGED sfTargets
    PROVE  SfInv'
  <1> DEFINE I == {i \in 1 .. Len(sfOrder) : sfOrder[i] = s}
             n == Min(I)
  <1>1. sfEntry \in [SfIds -> SoundEntries] /\ sfOrder \in Seq(SfIds) /\ s \in Range(sfOrder)
    BY DEF SfInv, EntriesFit, remove_server, Registered
  <1>2. I # {} /\ I \subseteq Nat /\ \A i \in I : i \in 1 .. Len(sfOrder) /\ sfOrder[i] = s
    BY <1>1 DEF Range
  <1>3. n \in I
    <2> HIDE DEF I
    <2> QED BY <1>2, MinOf
  <1>4. sfOrder' = SubSeq(sfOrder, 1, n - 1) \o SubSeq(sfOrder, n + 1, Len(sfOrder))
    BY <1>2 DEF remove_server, RemoveFirst, RemoveAt, SelectInSeq
  <1>n. n \in 1 .. Len(sfOrder) /\ sfOrder[n] = s /\ Len(sfOrder) \in Nat
    BY <1>1, <1>2, <1>3
  <1> HIDE DEF n, I
  <1> DEFINE a == SubSeq(sfOrder, 1, n - 1)
             b == SubSeq(sfOrder, n + 1, Len(sfOrder))
  <1>5. /\ a \in Seq(SfIds) /\ Len(a) = n - 1 /\ \A i \in 1 .. n - 1 : a[i] = sfOrder[i]
    BY <1>1, <1>n
  <1>6. /\ b \in Seq(SfIds) /\ Len(b) = Len(sfOrder) - n
        /\ \A i \in 1 .. Len(sfOrder) - n : b[i] = sfOrder[n + i]
    BY <1>1, <1>n
  <1> HIDE DEF a, b
  <1>7. /\ a \o b \in Seq(SfIds) /\ Len(a \o b) = Len(a) + Len(b)
        /\ \A i \in 1 .. Len(a) : (a \o b)[i] = a[i]
        /\ \A i \in 1 .. Len(b) : (a \o b)[Len(a) + i] = b[i]
    BY <1>5, <1>6
  <1>8. sfOrder' = a \o b
    BY <1>4 DEF a, b
  <1>9. ASSUME NEW t \in Range(sfOrder), t # s PROVE t \in Range(sfOrder')
    <2>1. PICK i \in 1 .. Len(sfOrder) : sfOrder[i] = t
      BY <1>1 DEF Range
    <2>2. CASE i < n
      <3>1. i \in 1 .. Len(a) /\ i \in 1 .. n - 1
        BY <2>2, <1>5, <1>n
      <3>2. sfOrder'[i] = t /\ i \in 1 .. Len(sfOrder')
        BY <3>1, <2>1, <1>5, <1>6, <1>7, <1>8, <1>n
      <3> QED BY <3>2, <1>7, <1>8 DEF Range
    <2>3. CASE i > n
      <3>1. i - n \in 1 .. Len(b) /\ i - n \in 1 .. Len(sfOrder) - n /\ n + (i - n) = i
        BY <2>3, <1>6, <1>n
      <3>2. b[i - n] = t
        BY <3>1, <2>1, <1>6
      <3>3. (a \o b)[Len(a) + (i - n)] = t /\ Len(a) + (i - n) \in 1 .. Len(a \o b)
        BY <3>1, <3>2, <1>5, <1>6, <1>7, <1>n
      <3> QED BY <3>3, <1>7, <1>8 DEF Range
    <2> QED BY <2>1, <2>2, <2>3, <1>9, <1>n
  <1>10. AwayFrom(s, Absent, sfEntry) /\ Absent \in SoundEntries /\ Range(Absent.prompts) = {}
    BY AbsentOk DEF AwayFrom
  <1>11. sfEntry' = [sfEntry EXCEPT ![s] = Absent] /\ UNCHANGED <<sfOp, sfRefresh, sfMixed, sfRead>>
    BY DEF remove_server
  <1>12. sfEntry' \in [SfIds -> SoundEntries] /\ (PromptsApart(sfEntry) => PromptsApart(sfEntry'))
    BY <1>1, <1>10, <1>11, Replaced
  <1>13. ASSUME NEW t \in SfIds, t \notin Range(sfOrder') PROVE Range(sfEntry'[t].prompts) = {}
    <2>1. CASE t = s
      BY <2>1, <1>1, <1>10, <1>11
    <2>2. CASE t # s
      <3>1. t \notin Range(sfOrder) /\ sfEntry'[t] = sfEntry[t]
        BY <2>2, <1>1, <1>9, <1>11, <1>13
      <3> QED BY <3>1 DEF SfInv, EntriesFit
    <2> QED BY <2>1, <2>2
  <1>14. EntriesFit'
    BY <1>7, <1>8, <1>11, <1>12, <1>13 DEF SfInv, EntriesFit
  <1> QED BY <1>11, <1>14 DEF SfInv, OpsFit, RefreshFits, ReadsFit, TargetsFit, NotifiedOnce

LEMMA AskedShape ==
    ASSUME NEW uri \in AskedUris
    PROVE  uri \in Seq(UriChars)
  <1>1. PICK s \in SfIds, r \in Resources : uri = gateway_uri(s, r.uri)
    BY DEF AskedUris, Resources
  <1>2. r.uri \in Seq(UriChars) /\ s \in Seq(UriChars)
    BY ResourceUris, SurfaceAssumption
  <1> QED BY <1>1, <1>2, UriShape

\* What a read that is let through asks for, and in whose name.
LEMMA Resolved ==
    ASSUME NEW k \in SfKeys, NEW uri \in AskedUris, resolve_read(k, uri).found
    PROVE  \E s \in SfIds, u \in Seq(UriChars) :
             /\ Whole(s) /\ u # <<>> /\ uri = gateway_uri(s, u)
             /\ resolve_read(k, uri) = [found |-> TRUE, server |-> s, upstream |-> u]
             /\ sfEntry[s].connected
             /\ \E n \in scope_name_for_read(sfEntry[s], u) : sees_name(k, WireName(s, n), s)
  <1> DEFINE p == parse_gateway_uri(uri)
  <1>1. p.ok => /\ uri = gateway_uri(p.server, p.upstream) /\ Whole(p.server) /\ p.upstream # <<>>
                /\ p.upstream \in Seq(UriChars)
    BY AskedShape, Joins
  <1> HIDE DEF p
  <1>2. /\ p.ok /\ p.server \in SfIds /\ sfEntry[p.server].connected
        /\ \E n \in scope_name_for_read(sfEntry[p.server], p.upstream) :
                 sees_name(k, WireName(p.server, n), p.server)
        /\ resolve_read(k, uri) = [found |-> TRUE, server |-> p.server, upstream |-> p.upstream]
    BY DEF resolve_read, NotFound, p
  <1> QED BY <1>1, <1>2

LEMMA ReadsKept ==
    ASSUME ReadsFit, NEW c \in SfClients, NEW r \in Reads, ReadOk(r), sfRead' = [sfRead EXCEPT ![c] = r]
    PROVE  ReadsFit'
  <1>1. sfRead \in [SfClients -> Reads] /\ \A d \in SfClients : ReadOk(sfRead[d])
    BY DEF ReadsFit
  <1>2. sfRead' \in [SfClients -> Reads] /\ sfRead'[c] = r /\ \A d \in SfClients : d # c => sfRead'[d] = sfRead[d]
    BY <1>1
  <1> QED BY <1>1, <1>2 DEF ReadsFit

LEMMA ReadKeeps ==
    ASSUME SfInv, NEW c \in SfClients, read_resource_for(c), UNCHANGED sfTargets
    PROVE  SfInv'
  <1>1. PICK k \in SfKeys, uri \in AskedUris :
          /\ resolve_read(k, uri).found
          /\ sfRead' = [sfRead EXCEPT ![c] =
                 [pc |-> "sent", server |-> resolve_read(k, uri).server,
                  upstream |-> resolve_read(k, uri).upstream, got |-> {}]]
    BY DEF read_resource_for
  <1>2. PICK s \in SfIds, u \in Seq(UriChars) :
             /\ Whole(s) /\ u # <<>>
             /\ resolve_read(k, uri) = [found |-> TRUE, server |-> s, upstream |-> u]
    BY <1>1, Resolved
  <1> DEFINE me == [pc |-> "sent", server |-> s, upstream |-> u, got |-> {}]
  <1>3. sfRead' = [sfRead EXCEPT ![c] = me]
    BY <1>1, <1>2
  <1>4. me \in Reads
    BY DEF Reads, ReadServers
  <1>5. ReadOk(me)
    BY <1>2 DEF ReadOk, LeadsBack
  <1> HIDE DEF me
  <1>6. ReadsFit'
    BY <1>3, <1>4, <1>5, ReadsKept DEF SfInv
  <1>7. UNCHANGED <<sfEntry, sfOrder, sfOp, sfRefresh, sfMixed>>
    BY DEF read_resource_for
  <1> QED BY <1>6, <1>7 DEF SfInv, EntriesFit, OpsFit, RefreshFits, TargetsFit, NotifiedOnce

\* Both URIs an upstream may answer with lead back to what was asked for.
LEMMA Rewritten ==
    ASSUME NEW s \in SfIds, Whole(s), NEW u \in Seq(UriChars), u # <<>>,
           NEW x \in {u, gateway_uri(s, u)}
    PROVE  /\ ~IsPrefix(gateway_uri(s, <<>>), u) => rewrite_read_uris(s, x) = gateway_uri(s, u)
           /\ rewrite_read_uris(s, x) \in Seq(UriChars)
           /\ parse_gateway_uri(gateway_uri(s, u)) = [ok |-> TRUE, server |-> s, upstream |-> u]
  <1>0. s \in Seq(UriChars)
    BY SurfaceAssumption
  <1> DEFINE g == gateway_uri(s, u)
             b == gateway_uri(s, <<>>)
  <1>1. /\ g \in Seq(UriChars) /\ Len(g) = Len(s) + Len(u) + 2 /\ g[1] = Scheme
        /\ \A i \in 1 .. Len(s) : g[i + 1] = s[i]
        /\ g[Len(s) + 2] = "/"
    BY <1>0, UriShape
  <1>2. /\ b \in Seq(UriChars) /\ Len(b) = Len(s) + 2 /\ b[1] = Scheme
        /\ \A i \in 1 .. Len(s) : b[i + 1] = s[i]
        /\ b[Len(s) + 2] = "/"
    <2>1. <<>> \in Seq(UriChars) /\ Len(<<>>) = 0
      OBVIOUS
    <2> HIDE DEF b
    <2>2. b \in Seq(UriChars) /\ Len(b) = Len(s) + Len(<<>>) + 2
      BY <1>0, <2>1, UriShape DEF b
    <2>3. b[1] = Scheme /\ (\A i \in 1 .. Len(s) : b[i + 1] = s[i]) /\ b[Len(s) + 2] = "/"
      BY <1>0, <2>1, UriShape DEF b
    <2>4. Len(s) \in Nat
      BY <1>0
    <2> QED BY <2>1, <2>2, <2>3, <2>4
  <1>3. Len(s) \in Nat /\ Len(u) \in Nat
    BY <1>0
  <1>r. parse_gateway_uri(g) = [ok |-> TRUE, server |-> s, upstream |-> u]
    BY <1>0, RoundTrip
  <1> HIDE DEF g, b
  <1>4. \A i \in 1 .. Len(b) : b[i] = g[i]
    <2> SUFFICES ASSUME NEW i \in 1 .. Len(b) PROVE b[i] = g[i]
      OBVIOUS
    <2>1. i = 1 \/ i = Len(s) + 2 \/ (i - 1 \in 1 .. Len(s) /\ (i - 1) + 1 = i)
      BY <1>2, <1>3
    <2> QED BY <2>1, <1>1, <1>2
  <1>5. IsPrefix(b, g)
    <2>1. SubSeq(b, 1, Len(b)) = b
      BY <1>2
    <2> DEFINE y == SubSeq(g, 1, Len(b))
    <2>2. y \in Seq(UriChars) /\ Len(y) = Len(b) /\ \A i \in 1 .. Len(b) : y[i] = g[i]
      BY <1>1, <1>2, <1>3
    <2> HIDE DEF y
    <2>3. y = b
      BY <1>2, <1>4, <2>2
    <2>4. Len(b) <= Len(g)
      BY <1>1, <1>2, <1>3
    <2> QED BY <2>1, <2>3, <2>4 DEF IsPrefix, y
  <1>6. rewrite_read_uris(s, g) = g
    BY <1>5 DEF rewrite_read_uris, b
  <1>7. ~IsPrefix(gateway_uri(s, <<>>), u) => rewrite_read_uris(s, u) = g
    BY DEF rewrite_read_uris, g
  <1>8. rewrite_read_uris(s, u) \in {u, g}
    BY DEF rewrite_read_uris, g
  <1> QED BY <1>1, <1>6, <1>7, <1>8, <1>r DEF g

LEMMA AnswerKeeps ==
    ASSUME SfInv, NEW c \in SfClients, ReadAnswered(c), UNCHANGED sfTargets
    PROVE  SfInv'
  <1> DEFINE me == sfRead[c]
             u == me.upstream
             g == gateway_uri(me.server, u)
             got == {rewrite_read_uris(me.server, x) : x \in {u, g}}
             now == [me EXCEPT !.pc = "answered", !.got = got]
  <1>1. sfRead' = [sfRead EXCEPT ![c] = now]
    BY DEF ReadAnswered
  <1>3. me \in Reads /\ ReadOk(me) /\ me.pc = "sent"
    BY DEF ReadAnswered, SfInv, ReadsFit
  <1>4. me.server \in SfIds /\ Whole(me.server) /\ u \in Seq(UriChars) /\ u # <<>>
    BY <1>3 DEF ReadOk, Reads
  <1>5. \A x \in {u, g} : /\ ~IsPrefix(gateway_uri(me.server, <<>>), u) => rewrite_read_uris(me.server, x) = g
                          /\ rewrite_read_uris(me.server, x) \in Seq(UriChars)
    BY <1>4, Rewritten
  <1>6. parse_gateway_uri(g) = [ok |-> TRUE, server |-> me.server, upstream |-> u]
    BY <1>4, Rewritten
  <1>7. got \in SUBSET Seq(UriChars) /\ (~IsPrefix(gateway_uri(me.server, <<>>), u) => \A x \in got : x = g)
    BY <1>5
  <1> HIDE DEF got
  <1>8. /\ now \in Reads /\ now.pc = "answered" /\ now.got = got
        /\ now.server = me.server /\ now.upstream = me.upstream
    BY <1>3, <1>7 DEF Reads
  <1> HIDE DEF now
  <1>9. LeadsBack(now)
    BY <1>6, <1>7, <1>8 DEF LeadsBack
  <1>10. ReadOk(now)
    BY <1>4, <1>8, <1>9 DEF ReadOk
  <1>11. ReadsFit'
    BY <1>1, <1>8, <1>10, ReadsKept DEF SfInv
  <1>12. UNCHANGED <<sfEntry, sfOrder, sfOp, sfRefresh, sfMixed>>
    BY DEF ReadAnswered
  <1> QED BY <1>11, <1>12 DEF SfInv, EntriesFit, OpsFit, RefreshFits, TargetsFit, NotifiedOnce

LEMMA IdleRead == NoRead \in Reads /\ ReadOk(NoRead)
  <1>1. <<>> \in Seq(UriChars) /\ <<>> \in ReadServers
    BY DEF ReadServers
  <1> QED BY <1>1 DEF NoRead, Reads, ReadOk, LeadsBack

LEMMA DoneKeeps ==
    ASSUME SfInv, NEW c \in SfClients, ReadDone(c), UNCHANGED sfTargets
    PROVE  SfInv'
  <1>1. sfRead' = [sfRead EXCEPT ![c] = NoRead] /\ UNCHANGED <<sfEntry, sfOrder, sfOp, sfRefresh, sfMixed>>
    BY DEF ReadDone
  <1>2. ReadsFit'
    BY <1>1, IdleRead, ReadsKept DEF SfInv
  <1> QED BY <1>1, <1>2 DEF SfInv, EntriesFit, OpsFit, RefreshFits, TargetsFit, NotifiedOnce

LEMMA TargetsKeep ==
    ASSUME SfInv, TgNext, UNCHANGED sfVars
    PROVE  SfInv'
  <1> SUFFICES sfTargets' \in [ListenTargets -> Nat] /\ \A t \in ListenTargets : sfTargets'[t] <= 1
    BY DEF SfInv, EntriesFit, OpsFit, RefreshFits, ReadsFit, TargetsFit, NotifiedOnce, sfVars
  <1>1. sfTargets \in [ListenTargets -> Nat] /\ \A t \in ListenTargets : sfTargets[t] <= 1
    BY DEF SfInv, TargetsFit, NotifiedOnce
  <1>2. ASSUME NEW x \in ListenTargets, register(x)
        PROVE  sfTargets' \in [ListenTargets -> Nat] /\ \A t \in ListenTargets : sfTargets'[t] <= 1
    <2>1. CASE x \in Listening
      BY <1>1, <1>2, <2>1 DEF register
    <2>2. CASE x \notin Listening
      <3>1. sfTargets[x] = 0
        BY <1>1, <2>2 DEF Listening
      <3>2. sfTargets' = [sfTargets EXCEPT ![x] = sfTargets[x] + 1]
        BY <1>2, <2>2 DEF register
      <3> QED BY <1>1, <3>1, <3>2
    <2> QED BY <2>1, <2>2
  <1>3. CASE notify_peers_tool_list_changed
    <2>1. PICK failed \in SUBSET Listening :
              sfTargets' = [t \in ListenTargets |-> IF t \in failed THEN 0 ELSE sfTargets[t]]
      BY <1>3 DEF notify_peers_tool_list_changed
    <2>2. \A t \in ListenTargets : (IF t \in failed THEN 0 ELSE sfTargets[t]) \in Nat
                                  /\ (IF t \in failed THEN 0 ELSE sfTargets[t]) <= 1
      BY <1>1
    <2> QED BY <2>1, <2>2
  <1>4. CASE \E c \in TgClients : register_legacy_peer(c) \/ listen_tools_list_changed(c)
    <2>1. PICK c \in TgClients : register(TargetOf(c, TRUE)) \/ register(TargetOf(c, FALSE))
      BY <1>4 DEF register_legacy_peer, listen_tools_list_changed
    <2>2. TargetOf(c, TRUE) \in ListenTargets /\ TargetOf(c, FALSE) \in ListenTargets
      BY Zenon DEF TargetOf, ListenTargets
    <2>3. CASE register(TargetOf(c, TRUE))
      BY <2>2, <2>3, <1>2, Zenon
    <2>4. CASE register(TargetOf(c, FALSE))
      BY <2>2, <2>4, <1>2, Zenon
    <2> QED BY <2>1, <2>3, <2>4, Zenon
  <1> QED BY <1>3, <1>4 DEF TgNext

LEMMA SurfaceStart ==
    ASSUME SfInit, TgInit
    PROVE  SfInv
  <1>1. AllAbsent \in [SfIds -> SoundEntries] /\ PromptsApart(AllAbsent)
        /\ \A s \in SfIds : Range(AllAbsent[s].prompts) = {}
    BY AllAbsentOk, AbsentOk DEF AllAbsent
  <1>2. sfEntry = AllAbsent /\ sfOrder = <<>> /\ sfRefresh = NoRefresh
        /\ sfOp = [a \in SfOps |-> NoOp] /\ sfRead = [c \in SfClients |-> NoRead]
    BY DEF SfInit
  <1>3. EntriesFit
    BY <1>1, <1>2 DEF EntriesFit
  <1>4. OpsFit
    BY <1>2, NoOpOk DEF OpsFit
  <1>5. RefreshFits
    BY <1>2, NoRefreshFits DEF RefreshFits
  <1>6. ReadsFit
    BY <1>2, IdleRead DEF ReadsFit
  <1>7. sfTargets \in [ListenTargets -> Nat] /\ \A t \in ListenTargets : sfTargets[t] <= 1
    BY DEF TgInit
  <1> QED BY <1>3, <1>4, <1>5, <1>6, <1>7 DEF SfInv, TargetsFit, NotifiedOnce

LEMMA SurfaceKept == SfSpec => []SfInv
  <1>1. SfInit /\ TgInit => SfInv
    BY SurfaceStart
  <1>2. SfInv /\ [(SfNext /\ UNCHANGED sfTargets) \/ (TgNext /\ UNCHANGED sfVars)]_<<sfVars, sfTargets>> => SfInv'
    <2> SUFFICES ASSUME SfInv, [(SfNext /\ UNCHANGED sfTargets) \/ (TgNext /\ UNCHANGED sfVars)]_<<sfVars, sfTargets>>
                 PROVE  SfInv'
      OBVIOUS
    <2>1. CASE SfHandlers /\ UNCHANGED sfTargets
      BY <2>1, CopyKeeps, FetchKeeps, ReplaceKeeps, HandlerDropKeeps, RemoveKeeps DEF SfHandlers
    <2>2. CASE SfRefreshes /\ UNCHANGED sfTargets
      BY <2>2, RefreshStarts, PushKeeps, RefreshEnds DEF SfRefreshes
    <2>3. CASE SfReads /\ UNCHANGED sfTargets
      BY <2>3, ReadKeeps, AnswerKeeps, DoneKeeps DEF SfReads
    <2>4. CASE TgNext /\ UNCHANGED sfVars
      BY <2>4, TargetsKeep
    <2>5. CASE UNCHANGED <<sfVars, sfTargets>>
      BY <2>5 DEF SfInv, EntriesFit, OpsFit, RefreshFits, ReadsFit, TargetsFit, NotifiedOnce, sfVars
    <2> QED BY <2>1, <2>2, <2>3, <2>4, <2>5 DEF SfNext
  <1> QED BY <1>1, <1>2, PTL DEF SfSpec

(* MCP surface: what the invariant says of lists, reads and answers            *)

\* The one listed resource with a URI decides whether it may be read.
LEMMA ScopeOfListed ==
    ASSUME NEW e \in SoundEntries, NEW r \in Range(e.resources)
    PROVE  scope_name_for_read(e, r.uri) = {r.name}
  <1>1. PICK i \in DOMAIN e.resources : r = e.resources[i]
    BY DEF Range
  <1>2. \A q \in Range(e.resources) : q.uri = r.uri => q = r
    BY <1>1 DEF SoundEntries, EntryOk, SurfaceOk, OneEach, Range
  <1>3. {q \in Range(e.resources) : q.uri = r.uri} = {r}
    BY <1>2
  <1>4. \E q \in Range(e.resources) : q.uri = r.uri
    OBVIOUS
  <1>5. {q.name : q \in {x \in Range(e.resources) : x.uri = r.uri}} = {r.name}
    BY <1>3
  <1> QED BY <1>4, <1>5 DEF scope_name_for_read

\* Of the templates that cover a URI, none is more specific than the one chosen.
LEMMA LongestCovers ==
    ASSUME NEW e \in SoundEntries, NEW u, NEW n \in Longest(e, u)
    PROVE  \E i \in Matching(e, u) :
             /\ n = e.templates[i].name
             /\ \A j \in Matching(e, u) : Len(e.templates[j].prefix) <= Len(e.templates[i].prefix)
  <1> DEFINE best == {i \in Matching(e, u) : \A j \in Matching(e, u) :
                        Len(e.templates[j].prefix) <= Len(e.templates[i].prefix)}
  <1>1. best # {} /\ n = e.templates[Max(best)].name
    BY DEF Longest
  <1>2. e.templates \in Lists(Templates)
    BY DEF SoundEntries, Entries
  <1>3. PICK m \in Nat : DOMAIN e.templates \subseteq 1 .. m
    BY <1>2, ListShape
  <1>4. best \in SUBSET (0 .. m)
    BY <1>3 DEF Matching
  <1>5. \A i \in best : i \in Matching(e, u) /\ \A j \in Matching(e, u) :
                        Len(e.templates[j].prefix) <= Len(e.templates[i].prefix)
    OBVIOUS
  <1> HIDE DEF best
  <1>6. Max(best) \in best
    BY <1>1, <1>4, MaxOf
  <1> QED BY <1>1, <1>5, <1>6

LEMMA ListedOk == SfInv => ListedReadable
  <1> SUFFICES ASSUME SfInv, NEW k \in SfKeys, NEW s \in SfIds, NEW r \in Range(sfEntry[s].resources),
                      sees_name(k, WireName(s, r.name), s), Whole(s)
               PROVE  resolve_read(k, gateway_uri(s, r.uri)) = [found |-> TRUE, server |-> s, upstream |-> r.uri]
    BY DEF ListedReadable, resources_for_key
  <1>1. sfEntry[s] \in SoundEntries /\ sfEntry[s] \in Entries /\ EntryOk(sfEntry[s])
    BY DEF SfInv, EntriesFit, SoundEntries
  <1>2. r \in Resources
    <2>1. sfEntry[s].resources \in Lists(Resources)
      BY <1>1 DEF Entries
    <2>2. sfEntry[s].resources \in [DOMAIN sfEntry[s].resources -> Resources]
      BY <2>1, ListShape
    <2> QED BY <2>2 DEF Range
  <1>3. r.uri \in Seq(UriChars) /\ r.uri # <<>>
    BY <1>1, <1>2, ResourceUris DEF EntryOk, SurfaceOk
  <1>4. sfEntry[s].connected
    BY <1>1 DEF EntryOk
  <1>5. parse_gateway_uri(gateway_uri(s, r.uri)) = [ok |-> TRUE, server |-> s, upstream |-> r.uri]
    <2>1. s \in Seq(UriChars)
      BY SurfaceAssumption
    <2> QED BY <2>1, <1>3, RoundTrip
  <1>6. \E n \in scope_name_for_read(sfEntry[s], r.uri) : sees_name(k, WireName(s, n), s)
    BY <1>1, ScopeOfListed
  <1> QED BY <1>4, <1>5, <1>6 DEF resolve_read

LEMMA PromptsOk == SfInv => ListedPromptResolves
  <1> SUFFICES ASSUME SfInv, NEW k \in SfKeys, NEW s \in SfIds, NEW p \in Range(sfEntry[s].prompts),
                      sees_name(k, WireName(s, p), s),
                      \/ ~sfMixed
                      \/ \A t \in SfIds \ {s} : WireName(s, p) \notin {WireName(t, q) : q \in Range(sfEntry[t].prompts)}
               PROVE  resolve_prompt(k, WireName(s, p)).server = s
    BY DEF ListedPromptResolves, prompts_for_key
  <1> DEFINE qname == WireName(s, p)
             Has(t) == sfEntry[t].connected /\ qname \in {WireName(t, q) : q \in Range(sfEntry[t].prompts)}
             I == {i \in 1 .. Len(sfOrder) : Has(sfOrder[i])}
  <1>1. sfEntry[s].connected
    BY DEF SfInv, EntriesFit, SoundEntries, EntryOk
  <1>2. \A t \in SfIds : Has(t) => t = s
    <2>1. CASE ~sfMixed
      BY <2>1 DEF SfInv, EntriesFit, PromptsApart
    <2>2. CASE sfMixed
      BY <2>2
    <2> QED BY <2>1, <2>2
  <1>3. sfOrder \in Seq(SfIds) /\ s \in Range(sfOrder)
    BY DEF SfInv, EntriesFit
  <1>4. I # {}
    <2>1. PICK i \in 1 .. Len(sfOrder) : sfOrder[i] = s
      BY <1>3 DEF Range
    <2>2. Has(s)
      BY <1>1
    <2>3. i \in I
      BY <2>1, <2>2
    <2> QED BY <2>3
  <1>5. I \subseteq Nat /\ \A i \in I : i \in 1 .. Len(sfOrder) /\ i # 0 /\ Has(sfOrder[i])
    BY <1>3
  <1>6. resolve_prompt(k, qname) = IF SelectInSeq(sfOrder, Has) # 0
                                     /\ sees_name(k, qname, sfOrder[SelectInSeq(sfOrder, Has)])
                                  THEN [found |-> TRUE, server |-> sfOrder[SelectInSeq(sfOrder, Has)],
                                        upstream |-> qname]
                                  ELSE NotFound
    BY DEF resolve_prompt
  <1>7. SelectInSeq(sfOrder, Has) = Min(I)
    BY <1>4 DEF SelectInSeq
  <1> HIDE DEF I
  <1>8. Min(I) \in I
    BY <1>4, <1>5, MinOf
  <1>9. Min(I) # 0 /\ sfOrder[Min(I)] = s
    BY <1>2, <1>3, <1>5, <1>8
  <1> QED BY <1>6, <1>7, <1>9

LEMMA AuthorizedOk == SfInv => ReadAuthorized
  <1> SUFFICES ASSUME SfInv, NEW k \in SfKeys, NEW uri \in AskedUris, resolve_read(k, uri).found
               PROVE  LET to == resolve_read(k, uri)
                          e == sfEntry[to.server]
                          Sees(name) == sees_name(k, WireName(to.server, name), to.server)
                          listed == {r \in Range(e.resources) : r.uri = to.upstream}
                          covers == Matching(e, to.upstream)
                      IN  /\ uri = gateway_uri(to.server, to.upstream) /\ e.connected
                          /\ \A r \in listed : Sees(r.name)
                          /\ listed = {} => \E i \in covers :
                               /\ Sees(e.templates[i].name)
                               /\ \A j \in covers : Len(e.templates[j].prefix) <= Len(e.templates[i].prefix)
    BY DEF ReadAuthorized
  <1>1. PICK s \in SfIds, u \in Seq(UriChars) :
             /\ uri = gateway_uri(s, u)
             /\ resolve_read(k, uri) = [found |-> TRUE, server |-> s, upstream |-> u]
             /\ sfEntry[s].connected
             /\ \E n \in scope_name_for_read(sfEntry[s], u) : sees_name(k, WireName(s, n), s)
    BY Resolved
  <1> DEFINE e == sfEntry[s]
             listed == {q \in Range(e.resources) : q.uri = u}
  <1>2. resolve_read(k, uri).server = s /\ resolve_read(k, uri).upstream = u
    BY <1>1
  <1>3. PICK n \in scope_name_for_read(e, u) : sees_name(k, WireName(s, n), s)
    BY <1>1
  <1>4. e \in SoundEntries
    BY DEF SfInv, EntriesFit
  <1>5. ASSUME NEW q \in listed PROVE sees_name(k, WireName(s, q.name), s)
    <2>1. q \in Range(e.resources) /\ q.uri = u
      OBVIOUS
    <2>2. scope_name_for_read(e, q.uri) = {q.name}
      BY <2>1, <1>4, ScopeOfListed
    <2>3. n = q.name
      BY <2>1, <2>2, <1>3
    <2> QED BY <2>3, <1>3
  <1>6. ASSUME listed = {}
        PROVE  \E i \in Matching(e, u) :
                 /\ sees_name(k, WireName(s, e.templates[i].name), s)
                 /\ \A j \in Matching(e, u) : Len(e.templates[j].prefix) <= Len(e.templates[i].prefix)
    <2>1. n \in Longest(e, u)
      BY <1>3, <1>6 DEF scope_name_for_read
    <2> HIDE DEF e
    <2>2. PICK i \in Matching(e, u) :
             /\ n = e.templates[i].name
             /\ \A j \in Matching(e, u) : Len(e.templates[j].prefix) <= Len(e.templates[i].prefix)
      BY <2>1, <1>4, LongestCovers
    <2> QED BY <2>2, <1>3
  <1>7. uri = gateway_uri(s, u) /\ e.connected
    BY <1>1
  <1> HIDE DEF e
  <1> QED BY <1>2, <1>5, <1>6, <1>7 DEF e

\* Of the prompts and resources of the MCP upstreams, for every set of server ids,
\* offers, keys and clients, and however probes, reconnections, additions, removals
\* and the refresh overlap: a listed resource of a server whose id has no slash can
\* be read under its URI; a listed prompt leads to its server, but for a name that
\* two servers list since one was added during the last refresh; what a key may not
\* use it cannot read; an answer's URIs lead back to what was read; and nobody is
\* announced a change twice (mcp/surface.rs, mcp/registry.rs, mcp/health.rs,
\* mcp/notify.rs).
THEOREM SurfaceAlwaysSound == SfSpec => []SurfaceSound
  <1>1. SfInv => SurfaceSound
    <2>1. SfInv => ContentReadable
      BY DEF SfInv, ReadsFit, ReadOk, LeadsBack, ContentReadable
    <2>2. SfInv => NotifiedOnce
      BY DEF SfInv, TargetsFit
    <2> QED BY <2>1, <2>2, ListedOk, PromptsOk, AuthorizedOk DEF SurfaceSound
  <1> QED BY <1>1, SurfaceKept, PTL

(* Records: the order of timestamps                                            *)

\* The first place where two texts differ decides.
LEMMA FirstDifference ==
    ASSUME NEW a \in Seq(Int), NEW b \in Seq(Int), NEW k \in 1 .. Len(a), k <= Len(b), a[k] # b[k],
           \A j \in 1 .. k - 1 : a[j] = b[j]
    PROVE  TextBefore(a, b) <=> a[k] < b[k]
  <1>1. ~IsPrefix(a, b)
    <2> SUFFICES ASSUME IsPrefix(a, b) PROVE FALSE
      OBVIOUS
    <2>1. Len(a) <= Len(b) /\ SubSeq(a, 1, Len(a)) = SubSeq(b, 1, Len(a))
      BY DEF IsPrefix
    <2>2. SubSeq(a, 1, Len(a))[k] = a[k]
      OBVIOUS
    <2>3. SubSeq(b, 1, Len(a))[k] = b[k]
      BY <2>1
    <2> QED BY <2>1, <2>2, <2>3
  <1>2. \A i \in 1 .. Len(a) : (i <= Len(b) /\ a[i] < b[i] /\ \A j \in 1 .. i - 1 : a[j] = b[j]) => i = k
    <2> SUFFICES ASSUME NEW i \in 1 .. Len(a), i <= Len(b), a[i] < b[i], \A j \in 1 .. i - 1 : a[j] = b[j]
                 PROVE  i = k
      OBVIOUS
    <2>1. ~(i < k)
      <3>1. a[i] \in Int /\ b[i] \in Int
        OBVIOUS
      <3> QED BY <3>1
    <2>2. ~(k < i)
      OBVIOUS
    <2> QED BY <2>1, <2>2
  <1> QED BY <1>1, <1>2 DEF TextBefore

LEMMA Joined ==
    ASSUME NEW T, NEW n \in T, NEW f \in Seq(T), NEW m \in T
    PROVE  LET x == <<n>> \o f \o <<m>>
           IN  /\ x \in Seq(T) /\ Len(x) = Len(f) + 2 /\ x[1] = n
               /\ \A i \in 2 .. Len(f) + 1 : x[i] = f[i - 1]
               /\ x[Len(f) + 2] = m
  <1> DEFINE h == <<n>>
             e == <<m>>
             a == h \o f
             x == a \o e
  <1>h. h \in Seq(T) /\ Len(h) = 1 /\ h[1] = n
    OBVIOUS
  <1>e. e \in Seq(T) /\ Len(e) = 1 /\ e[1] = m
    OBVIOUS
  <1>t. h \in Seq(T) /\ e \in Seq(T) /\ Len(f) \in Nat
    BY <1>h, <1>e
  <1>d. x = <<n>> \o f \o <<m>>
    OBVIOUS
  <1> HIDE DEF h, e
  <1>1. a \in Seq(T) /\ Len(a) = Len(h) + Len(f)
    BY <1>t
  <1>2. \A i \in 1 .. Len(h) : a[i] = h[i]
    BY <1>t
  <1>3. \A i \in 1 .. Len(f) : a[Len(h) + i] = f[i]
    BY <1>t
  <1> HIDE DEF a
  <1>t2. a \in Seq(T)
    BY <1>1
  <1>4. x \in Seq(T) /\ Len(x) = Len(a) + Len(e)
    BY <1>t, <1>t2
  <1>5. \A i \in 1 .. Len(a) : x[i] = a[i]
    BY <1>t, <1>t2
  <1>6. \A i \in 1 .. Len(e) : x[Len(a) + i] = e[i]
    BY <1>t, <1>t2
  <1> HIDE DEF x
  <1>7. Len(a) = Len(f) + 1 /\ Len(x) = Len(f) + 2
    BY <1>h, <1>e, <1>t, <1>1, <1>4
  <1>8. x[1] = n
    BY <1>h, <1>2, <1>5, <1>7, <1>t
  <1>9. x[Len(f) + 2] = m
    <2>1. x[Len(a) + 1] = m /\ Len(a) + 1 = Len(f) + 2
      BY <1>e, <1>6, <1>7, <1>t
    <2> QED BY <2>1
  <1>10. ASSUME NEW i \in 2 .. Len(f) + 1 PROVE x[i] = f[i - 1]
    <2>1. i - 1 \in 1 .. Len(f) /\ 1 + (i - 1) = i /\ i \in 1 .. Len(a)
      BY <1>7, <1>t
    <2>2. a[1 + (i - 1)] = f[i - 1]
      BY <2>1, <1>3, <1>h
    <2> QED BY <2>1, <2>2, <1>5
  <1> QED BY <1>4, <1>7, <1>8, <1>9, <1>10, <1>d

\* The text of an instant: its second and what is left of it.
LEMMA TextOf ==
    ASSUME NEW t \in Nat
    PROVE  LET x == to_rfc3339(t)
               r == t % 4
           IN  /\ r \in 0 .. 3 /\ x \in Seq(Int) /\ x[1] = 48 + (t \div 4)
               /\ r = 0 => Len(x) = 2 /\ x[2] = 43
               /\ r = 1 => Len(x) = 5 /\ x[2] = 46 /\ x[3] = 48 /\ x[4] = 49 /\ x[5] = 43
               /\ r = 2 => Len(x) = 4 /\ x[2] = 46 /\ x[3] = 49 /\ x[4] = 43
               /\ r = 3 => Len(x) = 5 /\ x[2] = 46 /\ x[3] = 49 /\ x[4] = 49 /\ x[5] = 43
  <1> DEFINE q == t \div 4
             r == t % 4
             f == Fraction(r)
             x == <<48 + q>> \o f \o <<43>>
  <1>0. to_rfc3339(t) = x
    BY TicksAssumption DEF to_rfc3339, Digit, Plus
  <1>1. q \in Nat /\ r \in 0 .. 3 /\ 48 + q \in Int
    OBVIOUS
  <1>2. /\ r = 0 => f \in Seq(Int) /\ Len(f) = 0
        /\ r = 1 => f \in Seq(Int) /\ Len(f) = 3 /\ f[1] = 46 /\ f[2] = 48 /\ f[3] = 49
        /\ r = 2 => f \in Seq(Int) /\ Len(f) = 2 /\ f[1] = 46 /\ f[2] = 49
        /\ r = 3 => f \in Seq(Int) /\ Len(f) = 3 /\ f[1] = 46 /\ f[2] = 49 /\ f[3] = 49
    BY <1>1 DEF Fraction, Digit, Point
  <1> HIDE DEF f
  <1>3. f \in Seq(Int)
    BY <1>1, <1>2
  <1>4. /\ x \in Seq(Int) /\ Len(x) = Len(f) + 2 /\ x[1] = 48 + q
        /\ \A i \in 2 .. Len(f) + 1 : x[i] = f[i - 1]
        /\ x[Len(f) + 2] = 43
    <2> DEFINE n == 48 + q
               m == 43
    <2>1. n \in Int /\ m \in Int
      BY <1>1
    <2> HIDE DEF n, m
    <2> QED BY <1>3, <2>1, Joined DEF n, m
  <1> HIDE DEF x, r, q
  <1>5. r = 0 => Len(x) = 2 /\ x[2] = 43
    BY <1>2, <1>4
  <1>6. ASSUME r = 1 PROVE Len(x) = 5 /\ x[2] = 46 /\ x[3] = 48 /\ x[4] = 49 /\ x[5] = 43
    <2>1. f \in Seq(Int) /\ Len(f) = 3 /\ f[1] = 46 /\ f[2] = 48 /\ f[3] = 49
      BY <1>2, <1>6
    <2>2. \A i \in 2 .. 4 : x[i] = f[i - 1]
      BY <2>1, <1>4
    <2>3. x[2] = f[1] /\ x[3] = f[2] /\ x[4] = f[3]
      BY <2>2
    <2>4. Len(x) = 5 /\ x[5] = 43
      BY <2>1, <1>4
    <2> QED BY <2>1, <2>3, <2>4
  <1>7. ASSUME r = 2 PROVE Len(x) = 4 /\ x[2] = 46 /\ x[3] = 49 /\ x[4] = 43
    <2>1. f \in Seq(Int) /\ Len(f) = 2 /\ f[1] = 46 /\ f[2] = 49
      BY <1>2, <1>7
    <2>2. \A i \in 2 .. 3 : x[i] = f[i - 1]
      BY <2>1, <1>4
    <2>3. x[2] = f[1] /\ x[3] = f[2]
      BY <2>2
    <2>4. Len(x) = 4 /\ x[4] = 43
      BY <2>1, <1>4
    <2> QED BY <2>1, <2>3, <2>4
  <1>8. ASSUME r = 3 PROVE Len(x) = 5 /\ x[2] = 46 /\ x[3] = 49 /\ x[4] = 49 /\ x[5] = 43
    <2>1. f \in Seq(Int) /\ Len(f) = 3 /\ f[1] = 46 /\ f[2] = 49 /\ f[3] = 49
      BY <1>2, <1>8
    <2>2. \A i \in 2 .. 4 : x[i] = f[i - 1]
      BY <2>1, <1>4
    <2>3. x[2] = f[1] /\ x[3] = f[2] /\ x[4] = f[3]
      BY <2>2
    <2>4. Len(x) = 5 /\ x[5] = 43
      BY <2>1, <1>4
    <2> QED BY <2>1, <2>3, <2>4
  <1> QED BY <1>0, <1>1, <1>4, <1>5, <1>6, <1>7, <1>8 DEF r, q

\* Although a fraction may be left out or have fewer digits, texts are ordered
\* as the instants they stand for.
LEMMA TextOrder ==
    ASSUME NEW t \in Nat, NEW u \in Nat
    PROVE  TextBefore(to_rfc3339(t), to_rfc3339(u)) <=> t < u
  <1> DEFINE x == to_rfc3339(t)
             y == to_rfc3339(u)
             q == t \div 4
             r == t % 4
             p == u \div 4
             s == u % 4
  <1>1. /\ x \in Seq(Int) /\ x[1] = 48 + q /\ r \in 0 .. 3
        /\ r = 0 => Len(x) = 2 /\ x[2] = 43
        /\ r = 1 => Len(x) = 5 /\ x[2] = 46 /\ x[3] = 48 /\ x[4] = 49 /\ x[5] = 43
        /\ r = 2 => Len(x) = 4 /\ x[2] = 46 /\ x[3] = 49 /\ x[4] = 43
        /\ r = 3 => Len(x) = 5 /\ x[2] = 46 /\ x[3] = 49 /\ x[4] = 49 /\ x[5] = 43
    BY TextOf
  <1>2. /\ y \in Seq(Int) /\ y[1] = 48 + p /\ s \in 0 .. 3
        /\ s = 0 => Len(y) = 2 /\ y[2] = 43
        /\ s = 1 => Len(y) = 5 /\ y[2] = 46 /\ y[3] = 48 /\ y[4] = 49 /\ y[5] = 43
        /\ s = 2 => Len(y) = 4 /\ y[2] = 46 /\ y[3] = 49 /\ y[4] = 43
        /\ s = 3 => Len(y) = 5 /\ y[2] = 46 /\ y[3] = 49 /\ y[4] = 49 /\ y[5] = 43
    BY TextOf
  <1>3. t = 4 * q + r /\ u = 4 * p + s /\ q \in Nat /\ p \in Nat
    OBVIOUS
  <1> HIDE DEF x, y, q, r, p, s
  <1>s. Len(x) >= 2 /\ Len(y) >= 2 /\ Len(x) \in Nat /\ Len(y) \in Nat
    BY <1>1, <1>2
  <1>4. CASE q # p
    <2> DEFINE k == 1
    <2>1. k \in 1 .. Len(x) /\ k <= Len(y) /\ x[k] # y[k] /\ \A j \in 1 .. k - 1 : x[j] = y[j]
      BY <1>1, <1>2, <1>3, <1>4, <1>s
    <2>2. x[k] < y[k] <=> t < u
      BY <1>1, <1>2, <1>3, <1>4
    <2> HIDE DEF k
    <2>3. TextBefore(x, y) <=> x[k] < y[k]
      BY <1>1, <1>2, <2>1, FirstDifference
    <2> QED BY <2>2, <2>3 DEF x, y
  <1>5. CASE q = p /\ r # s
    <2>0. (r < s <=> t < u) /\ x[1] = y[1]
      BY <1>1, <1>2, <1>3, <1>5
    <2>1. CASE r = 0 \/ s = 0
      <3> DEFINE k == 2
      <3>1. k \in 1 .. Len(x) /\ k <= Len(y) /\ x[k] # y[k]
        BY <1>1, <1>2, <1>5, <2>1
      <3>2. x[1] = y[1]
        BY <1>1, <1>2, <1>5, <2>0, <2>1
      <3>3. \A j \in 1 .. k - 1 : x[j] = y[j]
        <4>1. \A j \in 1 .. k - 1 : j = 1
          OBVIOUS
        <4> QED BY <4>1, <3>2
      <3>4. x[k] < y[k] <=> r < s
        BY <1>1, <1>2, <1>5, <2>1
      <3> HIDE DEF k
      <3>5. TextBefore(x, y) <=> x[k] < y[k]
        BY <1>1, <1>2, <3>1, <3>3, FirstDifference
      <3> QED BY <2>0, <3>4, <3>5 DEF x, y
    <2>2. CASE r # 0 /\ s # 0 /\ (r = 1 \/ s = 1)
      <3> DEFINE k == 3
      <3>a. r \in 1 .. 3 /\ s \in 1 .. 3
        BY <1>1, <1>2, <2>2
      <3>b. x[3] = (IF r = 1 THEN 48 ELSE 49) /\ Len(x) >= 4
        BY <1>1, <3>a
      <3>c. y[3] = (IF s = 1 THEN 48 ELSE 49) /\ Len(y) >= 4
        BY <1>2, <3>a
      <3>1. k \in 1 .. Len(x) /\ k <= Len(y) /\ x[k] # y[k]
        BY <1>s, <1>5, <2>2, <3>a, <3>b, <3>c
      <3>2. x[1] = y[1] /\ x[2] = y[2]
        BY <1>1, <1>2, <1>5, <2>0, <2>2
      <3>3. \A j \in 1 .. k - 1 : x[j] = y[j]
        <4>1. \A j \in 1 .. k - 1 : j = 1 \/ j = 2
          OBVIOUS
        <4> QED BY <4>1, <3>2
      <3>4. x[k] < y[k] <=> r < s
        BY <1>1, <1>2, <1>5, <2>2
      <3> HIDE DEF k
      <3>5. TextBefore(x, y) <=> x[k] < y[k]
        BY <1>1, <1>2, <3>1, <3>3, FirstDifference
      <3> QED BY <2>0, <3>4, <3>5 DEF x, y
    <2>3. CASE r \in 2 .. 3 /\ s \in 2 .. 3
      <3> DEFINE k == 4
      <3>1. k \in 1 .. Len(x) /\ k <= Len(y) /\ x[k] # y[k]
        BY <1>1, <1>2, <1>5, <2>3
      <3>2. x[1] = y[1] /\ x[2] = y[2] /\ x[3] = y[3]
        BY <1>1, <1>2, <1>5, <2>0, <2>3
      <3>3. \A j \in 1 .. k - 1 : x[j] = y[j]
        <4>1. \A j \in 1 .. k - 1 : j = 1 \/ j = 2 \/ j = 3
          OBVIOUS
        <4> QED BY <4>1, <3>2
      <3>4. x[k] < y[k] <=> r < s
        BY <1>1, <1>2, <1>5, <2>3
      <3> HIDE DEF k
      <3>5. TextBefore(x, y) <=> x[k] < y[k]
        BY <1>1, <1>2, <3>1, <3>3, FirstDifference
      <3> QED BY <2>0, <3>4, <3>5 DEF x, y
    <2> QED BY <1>1, <1>2, <2>1, <2>2, <2>3
  <1>6. CASE q = p /\ r = s
    <2>1. t = u
      BY <1>3, <1>6
    <2>2. \A i \in 1 .. Len(x) : x[i] \in Int
      BY <1>1
    <2>3. ~TextBefore(x, x)
      BY <1>s, <2>2 DEF TextBefore
    <2> QED BY <2>1, <2>3 DEF x
  <1> QED BY <1>4, <1>5, <1>6

(* Records: hours                                                              *)

\* An hour holds the instants from its start on, up to the next one.
LEMMA HourOf ==
    ASSUME NEW t \in Nat, NEW u \in Nat
    PROVE  /\ bucket_start(t) \in Nat
           /\ bucket_start(t) = bucket_start(u) <=> bucket_start(u) <= t /\ t < bucket_start(u) + HourTicks
  <1> DEFINE H == HourTicks
             q == t \div H
             p == u \div H
  <1>0. H \in Nat /\ H > 0
    BY TicksAssumption
  <1>1. q \in Nat /\ p \in Nat
    BY <1>0
  <1>2. q * H <= t /\ t < q * H + H
    <2>1. t = H * (t \div H) + (t % H) /\ t % H \in 0 .. H - 1
      BY <1>0
    <2> QED BY <2>1, <1>0, <1>1
  <1> HIDE DEF H, q, p
  <1>3. q * H \in Nat /\ p * H \in Nat
    BY <1>0, <1>1
  <1>4. ASSUME q < p PROVE q * H + H <= p * H
    <2>1. PICK d \in Nat : p = q + 1 + d
      <3>1. p - q - 1 \in Nat /\ p = q + 1 + (p - q - 1)
        BY <1>1, <1>4
      <3> QED BY <3>1
    <2>2. p * H = q * H + H + d * H
      BY <2>1, <1>0, <1>1
    <2>3. d * H \in Nat
      BY <1>0
    <2> QED BY <2>2, <2>3, <1>3, <1>0
  <1>5. ASSUME p < q PROVE p * H + H <= q * H
    <2>1. PICK d \in Nat : q = p + 1 + d
      <3>1. q - p - 1 \in Nat /\ q = p + 1 + (q - p - 1)
        BY <1>1, <1>5
      <3> QED BY <3>1
    <2>2. q * H = p * H + H + d * H
      BY <2>1, <1>0, <1>1
    <2>3. d * H \in Nat
      BY <1>0
    <2> QED BY <2>2, <2>3, <1>3, <1>0
  <1>6. q * H = p * H <=> p * H <= t /\ t < p * H + H
    <2>1. CASE q < p
      BY <2>1, <1>0, <1>2, <1>3, <1>4
    <2>2. CASE p < q
      BY <2>2, <1>0, <1>2, <1>3, <1>5
    <2>3. CASE p = q
      BY <2>3, <1>0, <1>2, <1>3
    <2> QED BY <2>1, <2>2, <2>3, <1>1
  <1> QED BY <1>3, <1>6 DEF bucket_start, H, q, p

(* Records: the inductive invariant                                            *)

Stamped == [t : Nat, event : UsEvents]
Counters == [requests : Nat, errors : Nat]
KeyOf(w) == BucketKey(usEvent[w].event, usEvent[w].t)
LabelOf(w) == status_label(usEvent[w].event.status)
PostedTo(k) == {w \in usPosted : KeyOf(w) = k}
FailedTo(k) == {w \in PostedTo(k) : is_error(usEvent[w].event)}
Counted(l) == {w \in UsWriters : usPc[w] # "idle" /\ Request(usEvent[w].event) /\ LabelOf(w) = l}

UsTyped ==
    /\ usNow \in Nat /\ usDays \in Nat /\ usPosted \subseteq UsWriters
    /\ usPc \in [UsWriters -> {"idle", "insert", "bucket", "done"}]
    /\ usEvent \in [UsWriters -> Stamped] /\ usMetrics \in [UsLabels -> Nat]
\* A row is that of a writer which is past its insert.
RowsKnown ==
    /\ IsFiniteSet(usRows)
    /\ \A r \in usRows : \E w \in UsWriters : r = Row(w) /\ usPc[w] \in {"bucket", "done"}
PostedKnown ==
    /\ \A w \in usPosted : usPc[w] = "done" /\ Request(usEvent[w].event)
    /\ \A w \in UsWriters : usPc[w] = "bucket" => Request(usEvent[w].event)
\* A bucket counts the writers that posted to it.
BucketsCount ==
    /\ IsFiniteSet(DOMAIN usBuckets) /\ usBuckets \in [DOMAIN usBuckets -> Counters]
    /\ \A w \in usPosted : KeyOf(w) \in DOMAIN usBuckets
    /\ \A k \in DOMAIN usBuckets : PostedTo(k) # {}
    /\ \A k \in DOMAIN usBuckets : /\ usBuckets[k].requests = Cardinality(PostedTo(k))
                                   /\ usBuckets[k].errors = Cardinality(FailedTo(k))
\* Without failures the three records are determined by where the writers are.
CleanCounts ==
    usClean =>
      /\ \A l \in UsLabels : usMetrics[l] = Cardinality(Counted(l))
      /\ \A w \in UsWriters : usPc[w] = "done" /\ Request(usEvent[w].event) => w \in usPosted
      /\ \A w \in UsWriters : usPc[w] \in {"bucket", "done"} => Row(w) \in usRows
UsInv == UsTyped /\ RowsKnown /\ PostedKnown /\ BucketsCount /\ CleanCounts

LEMMA LabelTyped ==
    ASSUME NEW e \in UsEvents
    PROVE  status_label(e.status) \in UsLabels
  BY RecordsAssumption DEF status_label, UsLabels, UsStatuses

LEMMA UsStart == UsInit => UsInv
  <1> SUFFICES ASSUME UsInit PROVE UsInv
    OBVIOUS
  <1> DEFINE e0 == CHOOSE e \in UsEvents : TRUE
  <1>1. e0 \in UsEvents
    BY RecordsAssumption
  <1> HIDE DEF e0
  <1>2. usEvent = [w \in UsWriters |-> [t |-> 0, event |-> e0]]
    BY DEF UsInit, e0
  <1>3. usEvent \in [UsWriters -> Stamped]
    BY <1>1, <1>2 DEF Stamped
  <1>4. UsTyped
    BY <1>3 DEF UsInit, UsTyped
  <1>5. RowsKnown
    BY FS_EmptySet DEF UsInit, RowsKnown
  <1>6. PostedKnown
    BY DEF UsInit, PostedKnown
  <1>7. BucketsCount
    <2>1. usBuckets = << >> /\ DOMAIN usBuckets = {} /\ usPosted = {}
      BY DEF UsInit
    <2>2. usBuckets \in [{} -> Counters]
      BY <2>1
    <2> QED BY <2>1, <2>2, FS_EmptySet DEF BucketsCount
  <1>8. CleanCounts
    <2>1. \A w \in UsWriters : usPc[w] = "idle"
      BY DEF UsInit
    <2>2. \A l : Counted(l) = {}
      BY <2>1 DEF Counted
    <2>3. \A l \in UsLabels : usMetrics[l] = 0
      BY DEF UsInit
    <2> QED BY <2>1, <2>2, <2>3, FS_EmptySet DEF CleanCounts
  <1> QED BY <1>4, <1>5, <1>6, <1>7, <1>8 DEF UsInv

\* Buckets are as right as before when no writer posted and none changed its event.
LEMMA BucketsStay ==
    ASSUME BucketsCount, usBuckets' = usBuckets, usPosted' = usPosted,
           \A w \in usPosted : usEvent'[w] = usEvent[w]
    PROVE  BucketsCount'
  <1>1. \A w \in usPosted : KeyOf(w)' = KeyOf(w)
    BY DEF KeyOf
  <1>2. ASSUME NEW k PROVE PostedTo(k)' = PostedTo(k) /\ FailedTo(k)' = FailedTo(k)
    <2>1. PostedTo(k)' = PostedTo(k)
      BY <1>1 DEF PostedTo
    <2>2. \A w \in PostedTo(k) : usEvent'[w] = usEvent[w]
      BY DEF PostedTo
    <2> QED BY <2>1, <2>2 DEF FailedTo
  <1> QED BY <1>1, <1>2 DEF BucketsCount

LEMMA RecordKeeps ==
    ASSUME UsInv, NEW w \in UsWriters, NEW e \in UsEvents, record_event(w, e)
    PROVE  UsInv'
  <1>1. /\ usPc[w] = "idle" /\ usEvent' = [usEvent EXCEPT ![w] = [t |-> usNow, event |-> e]]
        /\ usPc' = [usPc EXCEPT ![w] = "insert"]
        /\ usMetrics' = (IF Request(e) THEN record_request_event(usMetrics, e) ELSE usMetrics)
        /\ usNow' = usNow /\ usDays' = usDays /\ usRows' = usRows /\ usBuckets' = usBuckets
        /\ usPosted' = usPosted /\ usClean' = usClean
    BY DEF record_event
  <1>2. UsTyped
    BY DEF UsInv
  <1>3. [t |-> usNow, event |-> e] \in Stamped
    BY <1>2 DEF UsTyped, Stamped
  <1>4. /\ usEvent' \in [UsWriters -> Stamped] /\ usEvent'[w] = [t |-> usNow, event |-> e]
        /\ \A v \in UsWriters : v # w => usEvent'[v] = usEvent[v]
    BY <1>1, <1>2, <1>3 DEF UsTyped
  <1>5. /\ usPc' \in [UsWriters -> {"idle", "insert", "bucket", "done"}] /\ usPc'[w] = "insert"
        /\ \A v \in UsWriters : v # w => usPc'[v] = usPc[v]
    BY <1>1, <1>2 DEF UsTyped
  <1>6. /\ usMetrics' \in [UsLabels -> Nat]
        /\ \A l \in UsLabels : usMetrics'[l] = IF Request(e) /\ l = status_label(e.status) THEN usMetrics[l] + 1
                                               ELSE usMetrics[l]
    <2>1. usMetrics \in [UsLabels -> Nat] /\ status_label(e.status) \in UsLabels
      BY <1>2, LabelTyped DEF UsTyped
    <2> QED BY <1>1, <2>1 DEF record_request_event
  <1>7. UsTyped'
    BY <1>1, <1>2, <1>4, <1>5, <1>6 DEF UsTyped
  <1>8. RowsKnown'
    <2>1. ASSUME NEW r \in usRows
          PROVE  \E v \in UsWriters : r = Row(v)' /\ usPc'[v] \in {"bucket", "done"}
      <3>1. PICK v \in UsWriters : r = Row(v) /\ usPc[v] \in {"bucket", "done"}
        BY DEF UsInv, RowsKnown
      <3>2. v # w
        BY <3>1, <1>1
      <3>3. Row(v)' = Row(v)
        BY <3>2, <1>4 DEF Row
      <3> QED BY <3>1, <3>2, <3>3, <1>5
    <2> QED BY <2>1, <1>1 DEF UsInv, RowsKnown
  <1>9. PostedKnown'
    BY <1>1, <1>2, <1>4, <1>5 DEF UsInv, PostedKnown, UsTyped
  <1>10. BucketsCount'
    <2>1. \A v \in usPosted : v \in UsWriters /\ v # w
      BY <1>1, <1>2 DEF UsInv, PostedKnown, UsTyped
    <2> QED BY <2>1, <1>1, <1>4, BucketsStay DEF UsInv
  <1>11. CleanCounts'
    <2> SUFFICES ASSUME usClean
                 PROVE  /\ \A l \in UsLabels : usMetrics'[l] = Cardinality(Counted(l)')
                        /\ \A v \in UsWriters : usPc'[v] = "done" /\ Request(usEvent'[v].event) => v \in usPosted'
                        /\ \A v \in UsWriters : usPc'[v] \in {"bucket", "done"} => Row(v)' \in usRows'
      BY <1>1 DEF CleanCounts
    <2>0. CleanCounts
      BY DEF UsInv
    <2>1. ASSUME NEW l \in UsLabels PROVE usMetrics'[l] = Cardinality(Counted(l)')
      <3>1. usMetrics[l] = Cardinality(Counted(l)) /\ w \notin Counted(l)
        BY <2>0, <1>1 DEF CleanCounts, Counted
      <3>2. IsFiniteSet(Counted(l))
        <4>1. Counted(l) \in SUBSET UsWriters
          BY DEF Counted
        <4> QED BY <4>1, RecordsAssumption, FS_Subset
      <3>3. \A v \in UsWriters : v # w => (v \in Counted(l)' <=> v \in Counted(l))
        BY <1>4, <1>5 DEF Counted, LabelOf
      <3>4. w \in Counted(l)' <=> Request(e) /\ l = status_label(e.status)
        BY <1>4, <1>5 DEF Counted, LabelOf
      <3>5. Counted(l) \subseteq UsWriters /\ Counted(l)' \subseteq UsWriters
        BY DEF Counted
      <3>6. CASE Request(e) /\ l = status_label(e.status)
        <4>1. Counted(l)' = Counted(l) \cup {w}
          BY <3>3, <3>4, <3>5, <3>6
        <4>2. usMetrics'[l] = usMetrics[l] + 1
          BY <1>6, <3>6
        <4> QED BY <4>1, <4>2, <3>1, <3>2, CountOneMore
      <3>7. CASE ~(Request(e) /\ l = status_label(e.status))
        <4>1. Counted(l)' = Counted(l)
          BY <3>1, <3>3, <3>4, <3>5, <3>7
        <4> QED BY <4>1, <3>1, <1>6, <3>7
      <3> QED BY <3>6, <3>7
    <2>2. ASSUME NEW v \in UsWriters, usPc'[v] \in {"bucket", "done"}
          PROVE  v # w /\ usPc[v] = usPc'[v] /\ usEvent'[v] = usEvent[v] /\ Row(v)' = Row(v)
      <3>1. v # w
        BY <2>2, <1>5
      <3> QED BY <3>1, <1>4, <1>5 DEF Row
    <2>3. \A v \in UsWriters : usPc'[v] = "done" /\ Request(usEvent'[v].event) => v \in usPosted'
      BY <2>0, <2>2, <1>1 DEF CleanCounts
    <2>4. \A v \in UsWriters : usPc'[v] \in {"bucket", "done"} => Row(v)' \in usRows'
      BY <2>0, <2>2, <1>1 DEF CleanCounts
    <2> QED BY <2>1, <2>3, <2>4
  <1> QED BY <1>7, <1>8, <1>9, <1>10, <1>11 DEF UsInv

\* The rows stay known as long as nothing is added and no writer falls back.
LEMMA RowsStay ==
    ASSUME RowsKnown, usRows' \subseteq usRows, usEvent' = usEvent,
           \A v \in UsWriters : usPc[v] \in {"bucket", "done"} => usPc'[v] \in {"bucket", "done"}
    PROVE  RowsKnown'
  <1>1. IsFiniteSet(usRows')
    BY FS_Subset DEF RowsKnown
  <1>2. \A v \in UsWriters : Row(v)' = Row(v)
    BY DEF Row
  <1> QED BY <1>1, <1>2 DEF RowsKnown

LEMMA InsertKeeps ==
    ASSUME UsInv, NEW w \in UsWriters, insert_event(w)
    PROVE  UsInv'
  <1> DEFINE next == IF Request(usEvent[w].event) THEN "bucket" ELSE "done"
  <1>1. /\ usPc[w] = "insert" /\ usPc' = [usPc EXCEPT ![w] = next]
        /\ usNow' = usNow /\ usDays' = usDays /\ usEvent' = usEvent /\ usBuckets' = usBuckets
        /\ usMetrics' = usMetrics /\ usPosted' = usPosted
        /\ (usRows' = usRows \cup {Row(w)} /\ usClean' = usClean) \/ (usClean' = FALSE /\ usRows' = usRows)
    BY DEF insert_event
  <1>2. UsTyped
    BY DEF UsInv
  <1>3. next \in {"bucket", "done"} /\ (next = "bucket" <=> Request(usEvent[w].event))
    OBVIOUS
  <1> HIDE DEF next
  <1>4. /\ usPc' \in [UsWriters -> {"idle", "insert", "bucket", "done"}] /\ usPc'[w] = next
        /\ \A v \in UsWriters : v # w => usPc'[v] = usPc[v]
    BY <1>1, <1>2, <1>3 DEF UsTyped
  <1>5. UsTyped'
    BY <1>1, <1>2, <1>4 DEF UsTyped
  <1>6. \A v \in UsWriters : Row(v)' = Row(v)
    BY <1>1 DEF Row
  <1>7. RowsKnown'
    <2>1. IsFiniteSet(usRows')
      BY <1>1, FS_AddElement DEF UsInv, RowsKnown
    <2>2. ASSUME NEW r \in usRows'
          PROVE  \E v \in UsWriters : r = Row(v)' /\ usPc'[v] \in {"bucket", "done"}
      <3>1. CASE r \in usRows
        <4>1. PICK v \in UsWriters : r = Row(v) /\ usPc[v] \in {"bucket", "done"}
          BY <3>1 DEF UsInv, RowsKnown
        <4>2. v # w
          BY <4>1, <1>1
        <4> QED BY <4>1, <4>2, <1>4, <1>6
      <3>2. CASE r = Row(w)
        BY <3>2, <1>3, <1>4, <1>6
      <3> QED BY <3>1, <3>2, <1>1
    <2> QED BY <2>1, <2>2 DEF RowsKnown
  <1>8. PostedKnown'
    <2>1. \A v \in usPosted : v \in UsWriters /\ v # w
      BY <1>1, <1>2 DEF UsInv, PostedKnown, UsTyped
    <2>2. \A v \in usPosted : usPc'[v] = "done" /\ Request(usEvent'[v].event)
      BY <2>1, <1>1, <1>4 DEF UsInv, PostedKnown
    <2>3. \A v \in UsWriters : usPc'[v] = "bucket" => Request(usEvent'[v].event)
      BY <1>1, <1>3, <1>4 DEF UsInv, PostedKnown
    <2> QED BY <2>2, <2>3, <1>1 DEF PostedKnown
  <1>9. BucketsCount'
    BY <1>1, BucketsStay DEF UsInv
  <1>10. CleanCounts'
    <2> SUFFICES ASSUME usClean'
                 PROVE  /\ \A l \in UsLabels : usMetrics'[l] = Cardinality(Counted(l)')
                        /\ \A v \in UsWriters : usPc'[v] = "done" /\ Request(usEvent'[v].event) => v \in usPosted'
                        /\ \A v \in UsWriters : usPc'[v] \in {"bucket", "done"} => Row(v)' \in usRows'
      BY DEF CleanCounts
    <2>0. usClean /\ CleanCounts /\ usRows' = usRows \cup {Row(w)}
      BY <1>1 DEF UsInv
    <2>1. ASSUME NEW l \in UsLabels PROVE usMetrics'[l] = Cardinality(Counted(l)')
      <3>1. \A v \in UsWriters : usPc'[v] # "idle" <=> usPc[v] # "idle"
        BY <1>1, <1>3, <1>4
      <3>2. Counted(l)' = Counted(l)
        BY <3>1, <1>1 DEF Counted, LabelOf
      <3> QED BY <3>2, <2>0, <1>1 DEF CleanCounts
    <2>2. \A v \in UsWriters : usPc'[v] = "done" /\ Request(usEvent'[v].event) => v \in usPosted'
      BY <2>0, <1>1, <1>3, <1>4 DEF CleanCounts
    <2>3. \A v \in UsWriters : usPc'[v] \in {"bucket", "done"} => Row(v)' \in usRows'
      BY <2>0, <1>4, <1>6 DEF CleanCounts
    <2> QED BY <2>1, <2>2, <2>3
  <1> QED BY <1>5, <1>7, <1>8, <1>9, <1>10 DEF UsInv

\* The counters of a bucket after one more event.
LEMMA Upserted ==
    ASSUME NEW k, NEW e, BucketsCount, usBuckets' = upsert_bucket(usBuckets, k, from_event(e))
    PROVE  /\ DOMAIN usBuckets' = DOMAIN usBuckets \cup {k} /\ IsFiniteSet(DOMAIN usBuckets')
           /\ usBuckets' \in [DOMAIN usBuckets' -> Counters]
           /\ \A x \in DOMAIN usBuckets : x # k => usBuckets'[x] = usBuckets[x]
           /\ usBuckets'[k].requests = (IF k \in DOMAIN usBuckets THEN usBuckets[k].requests ELSE 0) + 1
           /\ usBuckets'[k].errors = (IF k \in DOMAIN usBuckets THEN usBuckets[k].errors ELSE 0)
                                     + (IF is_error(e) THEN 1 ELSE 0)
  <1> DEFINE c == from_event(e)
             D == DOMAIN usBuckets
  <1>1. c \in Counters /\ c.requests = 1 /\ c.errors = (IF is_error(e) THEN 1 ELSE 0)
    BY DEF from_event, Counters
  <1> HIDE DEF c
  <1>2. IsFiniteSet(D) /\ usBuckets \in [D -> Counters]
    BY DEF BucketsCount
  <1>3. usBuckets' = [x \in D \cup {k} |->
        IF x # k THEN usBuckets[x]
        ELSE IF k \notin D THEN c
        ELSE [requests |-> usBuckets[k].requests + c.requests, errors |-> usBuckets[k].errors + c.errors]]
    BY DEF upsert_bucket, c
  <1>4. DOMAIN usBuckets' = D \cup {k}
    BY <1>3
  <1>5. IsFiniteSet(D \cup {k})
    BY <1>2, FS_AddElement
  <1>6. \A x \in D : usBuckets[x] \in Counters /\ usBuckets[x].requests \in Nat /\ usBuckets[x].errors \in Nat
    BY <1>2 DEF Counters
  <1>7. \A x \in D : x # k => usBuckets'[x] = usBuckets[x]
    BY <1>3
  <1>8. usBuckets'[k] = IF k \notin D THEN c
        ELSE [requests |-> usBuckets[k].requests + c.requests, errors |-> usBuckets[k].errors + c.errors]
    BY <1>3
  <1>9. usBuckets'[k] \in Counters
    <2>1. CASE k \notin D
      BY <2>1, <1>1, <1>8
    <2>2. CASE k \in D
      <3>1. c.requests \in Nat /\ c.errors \in Nat
        BY <1>1
      <3>2. usBuckets[k].requests + c.requests \in Nat /\ usBuckets[k].errors + c.errors \in Nat
        BY <2>2, <3>1, <1>6
      <3> QED BY <2>2, <3>2, <1>8 DEF Counters
    <2> QED BY <2>1, <2>2
  <1>10. usBuckets' \in [DOMAIN usBuckets' -> Counters]
    <2>1. \A x \in D \cup {k} : usBuckets'[x] \in Counters
      BY <1>6, <1>7, <1>9
    <2>2. usBuckets' = [x \in D \cup {k} |-> usBuckets'[x]]
      BY <1>3
    <2> QED BY <2>1, <2>2, <1>4
  <1>11. usBuckets'[k].requests = (IF k \in D THEN usBuckets[k].requests ELSE 0) + 1
    BY <1>1, <1>8
  <1>12. usBuckets'[k].errors = (IF k \in D THEN usBuckets[k].errors ELSE 0) + (IF is_error(e) THEN 1 ELSE 0)
    <2>1. c.errors \in Int
      BY <1>1
    <2> QED BY <1>1, <1>8, <2>1
  <1> QED BY <1>4, <1>5, <1>7, <1>10, <1>11, <1>12

LEMMA PostKeeps ==
    ASSUME UsInv, NEW w \in UsWriters, w \notin usPosted,
           usEvent' = usEvent, usPosted' = usPosted \cup {w},
           usBuckets' = upsert_bucket(usBuckets, KeyOf(w), from_event(usEvent[w].event))
    PROVE  BucketsCount'
  <1>k. PICK k : k = KeyOf(w)
    OBVIOUS
  <1> DEFINE e == usEvent[w].event
             D == DOMAIN usBuckets
  <1>0. BucketsCount /\ usPosted \in SUBSET UsWriters
    BY DEF UsInv, UsTyped
  <1>1. /\ DOMAIN usBuckets' = D \cup {k} /\ IsFiniteSet(DOMAIN usBuckets')
        /\ usBuckets' \in [DOMAIN usBuckets' -> Counters]
        /\ \A x \in D : x # k => usBuckets'[x] = usBuckets[x]
        /\ usBuckets'[k].requests = (IF k \in D THEN usBuckets[k].requests ELSE 0) + 1
        /\ usBuckets'[k].errors = (IF k \in D THEN usBuckets[k].errors ELSE 0) + (IF is_error(e) THEN 1 ELSE 0)
    <2> HIDE DEF e
    <2>1. usBuckets' = upsert_bucket(usBuckets, k, from_event(e))
      BY <1>k DEF e
    <2> QED BY <1>0, <2>1, Upserted
  <1>2. \A v : KeyOf(v)' = KeyOf(v)
    BY DEF KeyOf
  <1>3. ASSUME NEW x, x # k PROVE PostedTo(x)' = PostedTo(x) /\ FailedTo(x)' = FailedTo(x)
    <2>1. PostedTo(x)' = PostedTo(x)
      BY <1>2, <1>3, <1>k DEF PostedTo
    <2> QED BY <2>1 DEF FailedTo
  <1>4. PostedTo(k)' = PostedTo(k) \cup {w}
    BY <1>2, <1>k DEF PostedTo
  <1>5. FailedTo(k)' = IF is_error(e) THEN FailedTo(k) \cup {w} ELSE FailedTo(k)
    BY <1>4 DEF FailedTo
  <1>6. w \notin PostedTo(k) /\ w \notin FailedTo(k)
    BY DEF PostedTo, FailedTo
  <1>7. IsFiniteSet(PostedTo(k)) /\ IsFiniteSet(FailedTo(k))
    <2>1. PostedTo(k) \in SUBSET UsWriters /\ FailedTo(k) \in SUBSET UsWriters
      BY <1>0 DEF PostedTo, FailedTo
    <2> QED BY <2>1, RecordsAssumption, FS_Subset
  <1> HIDE DEF e
  <1>8. \A v \in usPosted' : KeyOf(v)' \in DOMAIN usBuckets'
    BY <1>0, <1>1, <1>2, <1>k DEF BucketsCount
  <1>9. k \notin D => PostedTo(k) = {} /\ FailedTo(k) = {}
    BY <1>0 DEF BucketsCount, PostedTo, FailedTo
  <1>10. /\ (IF k \in D THEN usBuckets[k].requests ELSE 0) = Cardinality(PostedTo(k))
         /\ (IF k \in D THEN usBuckets[k].errors ELSE 0) = Cardinality(FailedTo(k))
    BY <1>0, <1>9, FS_EmptySet DEF BucketsCount
  <1>11. usBuckets'[k].requests = Cardinality(PostedTo(k)')
    BY <1>1, <1>4, <1>6, <1>7, <1>10, CountOneMore
  <1>12. usBuckets'[k].errors = Cardinality(FailedTo(k)')
    <2>1. Cardinality(FailedTo(k)) \in Nat
      BY <1>7, FS_CardinalityType
    <2>2. CASE is_error(e)
      BY <2>2, <1>1, <1>5, <1>6, <1>7, <1>10, CountOneMore
    <2>3. CASE ~is_error(e)
      BY <2>1, <2>3, <1>1, <1>5, <1>10
    <2> QED BY <2>2, <2>3
  <1>13. ASSUME NEW x \in DOMAIN usBuckets'
         PROVE  usBuckets'[x].requests = Cardinality(PostedTo(x)') /\ usBuckets'[x].errors = Cardinality(FailedTo(x)')
    <2>1. CASE x = k
      BY <2>1, <1>11, <1>12
    <2>2. CASE x # k
      BY <2>2, <1>0, <1>1, <1>3 DEF BucketsCount
    <2> QED BY <2>1, <2>2
  <1>14. ASSUME NEW x \in DOMAIN usBuckets' PROVE PostedTo(x)' # {}
    <2>1. CASE x = k
      BY <2>1, <1>4
    <2>2. CASE x # k
      BY <2>2, <1>0, <1>1, <1>3 DEF BucketsCount
    <2> QED BY <2>1, <2>2
  <1> QED BY <1>1, <1>8, <1>13, <1>14 DEF BucketsCount

LEMMA AddKeeps ==
    ASSUME UsInv, NEW w \in UsWriters, add_to_bucket(w)
    PROVE  UsInv'
  <1>1. /\ usPc[w] = "bucket" /\ usPc' = [usPc EXCEPT ![w] = "done"]
        /\ usNow' = usNow /\ usDays' = usDays /\ usEvent' = usEvent /\ usRows' = usRows
        /\ usMetrics' = usMetrics
        /\ \/ /\ usBuckets' = upsert_bucket(usBuckets, KeyOf(w), from_event(usEvent[w].event))
              /\ usPosted' = usPosted \cup {w} /\ usClean' = usClean
           \/ usClean' = FALSE /\ usBuckets' = usBuckets /\ usPosted' = usPosted
    BY DEF add_to_bucket, KeyOf
  <1>2. UsTyped
    BY DEF UsInv
  <1>3. /\ usPc' \in [UsWriters -> {"idle", "insert", "bucket", "done"}] /\ usPc'[w] = "done"
        /\ \A v \in UsWriters : v # w => usPc'[v] = usPc[v]
    BY <1>1, <1>2 DEF UsTyped
  <1>4. UsTyped'
    BY <1>1, <1>2, <1>3 DEF UsTyped
  <1>5. RowsKnown'
    BY <1>1, <1>3, RowsStay DEF UsInv
  <1>6. w \notin usPosted /\ Request(usEvent[w].event)
    BY <1>1 DEF UsInv, PostedKnown
  <1>7. PostedKnown'
    <2>1. \A v \in usPosted' : v \in UsWriters
      BY <1>4 DEF UsTyped
    <2>2. \A v \in usPosted' : usPc'[v] = "done" /\ Request(usEvent'[v].event)
      BY <2>1, <1>1, <1>3, <1>6 DEF UsInv, PostedKnown
    <2>3. \A v \in UsWriters : usPc'[v] = "bucket" => Request(usEvent'[v].event)
      BY <1>1, <1>3 DEF UsInv, PostedKnown
    <2> QED BY <2>2, <2>3 DEF PostedKnown
  <1>8. BucketsCount'
    <2>1. CASE usPosted' = usPosted /\ usBuckets' = usBuckets
      BY <2>1, <1>1, BucketsStay DEF UsInv
    <2>2. CASE usPosted' = usPosted \cup {w}
               /\ usBuckets' = upsert_bucket(usBuckets, KeyOf(w), from_event(usEvent[w].event))
      BY <2>2, <1>1, <1>6, PostKeeps
    <2> QED BY <2>1, <2>2, <1>1
  <1>9. CleanCounts'
    <2> SUFFICES ASSUME usClean'
                 PROVE  /\ \A l \in UsLabels : usMetrics'[l] = Cardinality(Counted(l)')
                        /\ \A v \in UsWriters : usPc'[v] = "done" /\ Request(usEvent'[v].event) => v \in usPosted'
                        /\ \A v \in UsWriters : usPc'[v] \in {"bucket", "done"} => Row(v)' \in usRows'
      BY DEF CleanCounts
    <2>0. usClean /\ CleanCounts /\ usPosted' = usPosted \cup {w}
      BY <1>1 DEF UsInv
    <2>1. ASSUME NEW l \in UsLabels PROVE usMetrics'[l] = Cardinality(Counted(l)')
      <3>1. \A v \in UsWriters : usPc'[v] # "idle" <=> usPc[v] # "idle"
        BY <1>1, <1>3
      <3>2. Counted(l)' = Counted(l)
        BY <3>1, <1>1 DEF Counted, LabelOf
      <3> QED BY <3>2, <2>0, <1>1 DEF CleanCounts
    <2>2. \A v \in UsWriters : usPc'[v] = "done" /\ Request(usEvent'[v].event) => v \in usPosted'
      BY <2>0, <1>1, <1>3 DEF CleanCounts
    <2>3. \A v \in UsWriters : usPc'[v] \in {"bucket", "done"} => Row(v)' \in usRows'
      <3>1. \A v \in UsWriters : Row(v)' = Row(v)
        BY <1>1 DEF Row
      <3> QED BY <3>1, <2>0, <1>1, <1>3 DEF CleanCounts
    <2> QED BY <2>1, <2>2, <2>3
  <1> QED BY <1>4, <1>5, <1>7, <1>8, <1>9 DEF UsInv

\* Whatever else happens, it is no longer clean or changes no record.
LEMMA FailureKeeps ==
    ASSUME UsInv, usClean' = FALSE, usRows' \subseteq usRows, usEvent' = usEvent, usBuckets' = usBuckets,
           usPosted' = usPosted, usNow' = usNow, usDays' = usDays, usMetrics' \in [UsLabels -> Nat],
           usPc' \in [UsWriters -> {"idle", "insert", "bucket", "done"}],
           \A v \in UsWriters : usPc'[v] = usPc[v] \/ usPc'[v] = "done"
    PROVE  UsInv'
  <1>1. UsTyped'
    BY DEF UsInv, UsTyped
  <1>2. RowsKnown'
    BY RowsStay DEF UsInv
  <1>3. PostedKnown'
    <2>1. \A v \in usPosted : v \in UsWriters
      BY DEF UsInv, UsTyped
    <2> QED BY <2>1 DEF UsInv, PostedKnown
  <1>4. BucketsCount'
    BY BucketsStay DEF UsInv
  <1>5. CleanCounts'
    BY DEF CleanCounts
  <1> QED BY <1>1, <1>2, <1>3, <1>4, <1>5 DEF UsInv

LEMMA DropKeeps ==
    ASSUME UsInv, NEW w \in UsWriters, drop_record(w)
    PROVE  UsInv'
  <1>1. UsTyped
    BY DEF UsInv
  <1>2. /\ usPc' \in [UsWriters -> {"idle", "insert", "bucket", "done"}]
        /\ \A v \in UsWriters : usPc'[v] = usPc[v] \/ usPc'[v] = "done"
    BY <1>1 DEF drop_record, UsTyped
  <1>3. usMetrics' \in [UsLabels -> Nat]
    BY <1>1 DEF drop_record, UsTyped
  <1> QED BY <1>2, <1>3, FailureKeeps DEF drop_record

LEMMA PurgeKeeps ==
    ASSUME UsInv, purge_expired_request_events
    PROVE  UsInv'
  <1>1. UsTyped
    BY DEF UsInv
  <1>2. /\ usPc' \in [UsWriters -> {"idle", "insert", "bucket", "done"}]
        /\ \A v \in UsWriters : usPc'[v] = usPc[v] \/ usPc'[v] = "done"
    BY <1>1 DEF purge_expired_request_events, UsTyped
  <1>3. usMetrics' \in [UsLabels -> Nat]
    BY <1>1 DEF purge_expired_request_events, UsTyped
  <1>4. usRows' \subseteq usRows
    BY DEF purge_expired_request_events, purge, delete_events_before
  <1> QED BY <1>2, <1>3, <1>4, FailureKeeps DEF purge_expired_request_events

LEMMA CrashKeeps ==
    ASSUME UsInv, UsCrash
    PROVE  UsInv'
  <1>1. UsTyped
    BY DEF UsInv
  <1>2. /\ usPc' \in [UsWriters -> {"idle", "insert", "bucket", "done"}]
        /\ \A v \in UsWriters : usPc'[v] = usPc[v] \/ usPc'[v] = "done"
    BY <1>1 DEF UsCrash, UsTyped
  <1>3. usMetrics' \in [UsLabels -> Nat]
    BY DEF UsCrash
  <1> QED BY <1>2, <1>3, FailureKeeps DEF UsCrash

LEMMA StillKeeps ==
    ASSUME UsInv, usNow' \in Nat, UNCHANGED <<usDays, usPc, usEvent, usRows, usBuckets, usMetrics, usPosted, usClean>>
    PROVE  UsInv'
  <1>1. UsTyped'
    BY DEF UsInv, UsTyped
  <1>2. RowsKnown'
    BY RowsStay DEF UsInv
  <1>3. PostedKnown'
    BY DEF UsInv, PostedKnown
  <1>4. BucketsCount'
    BY BucketsStay DEF UsInv
  <1>5. CleanCounts'
    <2>1. \A l : Counted(l)' = Counted(l)
      BY DEF Counted, LabelOf
    <2>2. \A v : Row(v)' = Row(v)
      BY DEF Row
    <2> QED BY <2>1, <2>2 DEF UsInv, CleanCounts
  <1> QED BY <1>1, <1>2, <1>3, <1>4, <1>5 DEF UsInv

LEMMA UsStep == UsInv /\ [UsNext]_usVars => UsInv'
  <1> SUFFICES ASSUME UsInv, [UsNext]_usVars PROVE UsInv'
    OBVIOUS
  <1>1. CASE \E w \in UsWriters : \/ \E e \in UsEvents : record_event(w, e)
                                  \/ insert_event(w) \/ add_to_bucket(w) \/ drop_record(w)
    BY <1>1, RecordKeeps, InsertKeeps, AddKeeps, DropKeeps
  <1>2. CASE UsTick
    <2>1. usNow' \in Nat
      BY <1>2, TicksAssumption DEF UsTick
    <2> QED BY <1>2, <2>1, StillKeeps DEF UsTick
  <1>3. CASE UNCHANGED usVars
    <2>1. usNow' \in Nat
      BY <1>3 DEF usVars, UsInv, UsTyped
    <2> QED BY <1>3, <2>1, StillKeeps DEF usVars
  <1> QED BY <1>1, <1>2, <1>3, PurgeKeeps, CrashKeeps DEF UsNext

(* Records: what the invariant says of queries and totals                      *)

LEMMA RowShape ==
    ASSUME UsInv, NEW r \in usRows
    PROVE  r.t \in Nat /\ r.at = to_rfc3339(r.t) /\ r.event \in UsEvents
  <1>1. PICK w \in UsWriters : r = Row(w)
    BY DEF UsInv, RowsKnown
  <1>2. usEvent[w] \in Stamped
    BY DEF UsInv, UsTyped
  <1> QED BY <1>1, <1>2 DEF Row, Stamped

LEMMA SelectedByTime ==
    ASSUME UsInv, NEW table, NEW f \in UsFilters
    PROVE  Selected(table, f) = {r \in usRows : r.event.table = table /\ InRange(r, f)}
  <1>1. ASSUME NEW r \in usRows PROVE Matches(r, f) <=> InRange(r, f)
    <2>1. r.t \in Nat /\ r.at = to_rfc3339(r.t) /\ f.from \in Int /\ f.to \in Int
      BY RowShape, RecordsAssumption
    <2>2. f.from >= 0 => (TextBefore(r.at, to_rfc3339(f.from)) <=> r.t < f.from)
      <3> SUFFICES ASSUME f.from >= 0 PROVE TextBefore(r.at, to_rfc3339(f.from)) <=> r.t < f.from
        OBVIOUS
      <3>1. f.from \in Nat
        BY <2>1
      <3> QED BY <2>1, <3>1, TextOrder
    <2>3. f.to >= 0 => (TextBefore(r.at, to_rfc3339(f.to)) <=> r.t < f.to)
      <3> SUFFICES ASSUME f.to >= 0 PROVE TextBefore(r.at, to_rfc3339(f.to)) <=> r.t < f.to
        OBVIOUS
      <3>1. f.to \in Nat
        BY <2>1
      <3> QED BY <2>1, <3>1, TextOrder
    <2>4. f.from <= r.t <=> ~(r.t < f.from)
      BY <2>1
    <2> QED BY <2>2, <2>3, <2>4 DEF Matches, InRange
  <1> QED BY <1>1 DEF Selected

LEMMA LimitedPage ==
    ASSUME NEW rows, IsFiniteSet(rows), NEW limit \in Nat, NEW page \in Limited(rows, limit)
    PROVE  /\ page \in SUBSET rows /\ IsFiniteSet(page)
           /\ Cardinality(page) < limit => page = rows
  <1>1. /\ page \in SUBSET rows
        /\ Cardinality(page) = (IF limit < Cardinality(rows) THEN limit ELSE Cardinality(rows))
    BY DEF Limited
  <1>2. IsFiniteSet(page) /\ Cardinality(rows) \in Nat
    BY <1>1, FS_Subset, FS_CardinalityType
  <1>3. ASSUME Cardinality(page) < limit PROVE page = rows
    <2>1. Cardinality(page) = Cardinality(rows)
      BY <1>1, <1>2, <1>3
    <2> QED BY <2>1, <1>1, FS_Subset
  <1> QED BY <1>1, <1>2, <1>3

LEMMA QueryOk == UsInv => QueryInOrder
  <1> SUFFICES ASSUME UsInv, NEW table \in UsTables, NEW f \in UsFilters, NEW limit \in UsLimits,
                      NEW page \in list_events(table, f, limit)
               PROVE  LET wanted == {r \in usRows : r.event.table = table /\ InRange(r, f)}
                      IN  /\ page \subseteq wanted
                          /\ Cardinality(page) < limit => page = wanted
                          /\ \A in \in page, out \in wanted \ page : in.t >= out.t
    BY DEF QueryInOrder
  <1> DEFINE rows == Selected(table, f)
  <1>1. rows = {r \in usRows : r.event.table = table /\ InRange(r, f)}
    BY SelectedByTime
  <1>p. page \in Limited(rows, limit) /\ \A in \in page, out \in rows \ page : ~TextBefore(in.at, out.at)
    BY DEF list_events
  <1>3. rows \in SUBSET usRows
    BY <1>1
  <1> HIDE DEF rows
  <1>4. IsFiniteSet(rows) /\ limit \in Nat
    BY <1>3, FS_Subset, RecordsAssumption DEF UsInv, RowsKnown
  <1>2. page \in SUBSET rows /\ \A in \in page, out \in rows \ page : ~TextBefore(in.at, out.at)
    BY <1>p, <1>4, LimitedPage
  <1>5. ASSUME Cardinality(page) < limit PROVE page = rows
    BY <1>p, <1>4, <1>5, LimitedPage
  <1>6. ASSUME NEW in \in page, NEW out \in rows \ page PROVE in.t >= out.t
    <2>1. in \in usRows /\ out \in usRows /\ ~TextBefore(in.at, out.at)
      BY <1>2, <1>3
    <2>2. /\ in.t \in Nat /\ in.at = to_rfc3339(in.t)
          /\ out.t \in Nat /\ out.at = to_rfc3339(out.t)
      BY <2>1, RowShape
    <2>3. ~(in.t < out.t)
      BY <2>1, <2>2, TextOrder
    <2> QED BY <2>2, <2>3
  <1> QED BY <1>1, <1>2, <1>5, <1>6

LEMMA RetentionOk == UsInv => RetentionExact
  <1> SUFFICES ASSUME UsInv PROVE purge = {r \in usRows : ~Expired(r)}
    BY DEF RetentionExact
  <1> DEFINE d == usDays * DayTicks
             cut == usNow - d
  <1>1. usDays \in Nat /\ usNow \in Nat /\ d \in Nat
    BY TicksAssumption DEF UsInv, UsTyped
  <1> HIDE DEF d
  <1>t. \A r \in usRows : r.event.table # "request_events" <=> ~Request(r.event)
    BY DEF Request
  <1>2. CASE usDays = 0
    BY <1>2 DEF purge, Expired
  <1>3. CASE usDays # 0 /\ usNow < d
    <2>1. \A r \in usRows : r.t \in Nat
      BY RowShape
    <2>2. \A r \in usRows : ~(r.t + d < usNow)
      BY <2>1, <1>1, <1>3
    <2> QED BY <1>3, <2>2 DEF purge, Expired, d
  <1>4. CASE usDays # 0 /\ ~(usNow < d)
    <2>1. cut \in Nat
      BY <1>1, <1>4
    <2>2. purge = delete_events_before(cut)
      BY <1>4 DEF purge, d
    <2>3. ASSUME NEW r \in usRows PROVE TextBefore(r.at, to_rfc3339(cut)) <=> r.t + d < usNow
      <3>1. r.t \in Nat /\ r.at = to_rfc3339(r.t)
        BY RowShape
      <3>2. r.t < cut <=> r.t + d < usNow
        BY <3>1, <1>1
      <3> HIDE DEF cut
      <3>3. TextBefore(r.at, to_rfc3339(cut)) <=> r.t < cut
        BY <3>1, <2>1, TextOrder
      <3> QED BY <3>2, <3>3
    <2>4. usDays > 0
      BY <1>1, <1>4
    <2> HIDE DEF cut
    <2> QED BY <2>2, <2>3, <2>4, <1>t DEF delete_events_before, Expired, d
  <1> QED BY <1>2, <1>3, <1>4

\* A total over buckets counts the writers that posted to them.
LEMMA TotalsCount ==
    ASSUME UsInv, NEW ks \in SUBSET DOMAIN usBuckets
    PROVE  /\ RequestsIn(ks) = Cardinality({w \in usPosted : KeyOf(w) \in ks})
           /\ ErrorsIn(ks) = Cardinality({w \in usPosted : is_error(usEvent[w].event) /\ KeyOf(w) \in ks})
  <1> DEFINE D == DOMAIN usBuckets
             f == [w \in usPosted |-> KeyOf(w)]
             c == [k \in D |-> usBuckets[k].requests]
             d == [k \in D |-> usBuckets[k].errors]
             E == {w \in usPosted : is_error(usEvent[w].event)}
  <1>0. BucketsCount /\ usPosted \in SUBSET UsWriters
    BY DEF UsInv, UsTyped
  <1>1. IsFiniteSet(D) /\ IsFiniteSet(usPosted) /\ c \in [D -> Nat] /\ d \in [D -> Nat]
    BY <1>0, RecordsAssumption, FS_Subset DEF BucketsCount, Counters
  <1>e. E \in SUBSET usPosted /\ IsFiniteSet(E)
    <2>1. E \in SUBSET usPosted
      OBVIOUS
    <2> HIDE DEF E
    <2> QED BY <2>1, <1>1, FS_Subset
  <1>2. ASSUME NEW k \in D PROVE c[k] = Cardinality({w \in usPosted : f[w] = k})
    <2>1. {w \in usPosted : f[w] = k} = PostedTo(k)
      BY DEF PostedTo
    <2> QED BY <2>1, <1>0 DEF BucketsCount
  <1>3. ASSUME NEW k \in D PROVE d[k] = Cardinality({w \in E : f[w] = k})
    <2>1. {w \in E : f[w] = k} = FailedTo(k)
      BY DEF FailedTo, PostedTo
    <2> QED BY <2>1, <1>0 DEF BucketsCount
  <1>4. {w \in usPosted : f[w] \in ks} = {w \in usPosted : KeyOf(w) \in ks}
    OBVIOUS
  <1>5. {w \in E : f[w] \in ks} = {w \in usPosted : is_error(usEvent[w].event) /\ KeyOf(w) \in ks}
    OBVIOUS
  <1>6. RequestsIn(ks) = SumFunctionOnSet(c, ks) /\ ErrorsIn(ks) = SumFunctionOnSet(d, ks)
    BY DEF RequestsIn, ErrorsIn
  <1> HIDE DEF c, d, f, D, E
  <1>k. ks \in SUBSET D
    BY DEF D
  <1>7. SumFunctionOnSet(c, ks) = Cardinality({w \in usPosted : f[w] \in ks})
    BY <1>1, <1>2, <1>k, CountByGroup
  <1>8. SumFunctionOnSet(d, ks) = Cardinality({w \in E : f[w] \in ks})
    BY <1>1, <1>e, <1>3, <1>k, CountByGroup
  <1> QED BY <1>4, <1>5, <1>6, <1>7, <1>8

LEMMA ImageFinite ==
    ASSUME NEW S, IsFiniteSet(S), NEW f, NEW T, T = {f[x] : x \in S}
    PROVE  IsFiniteSet(T)
  <1> DEFINE g == [x \in S |-> f[x]]
  <1>1. g \in Surjection(S, T)
    BY DEF Surjection
  <1> HIDE DEF g
  <1> QED BY <1>1, FS_Surjection

LEMMA SameCount ==
    ASSUME NEW S, IsFiniteSet(S), NEW T, NEW g \in [S -> T],
           \A x, y \in S : g[x] = g[y] => x = y, \A z \in T : \E x \in S : g[x] = z
    PROVE  Cardinality(T) = Cardinality(S)
  <1>1. g \in Bijection(S, T)
    BY DEF Bijection, Injection, Surjection, IsInjective
  <1>2. ExistsBijection(S, T)
    BY <1>1 DEF ExistsBijection
  <1> QED BY <1>2, FS_Bijection

LEMMA CountEachGroup ==
    ASSUME NEW W, IsFiniteSet(W), NEW D, IsFiniteSet(D), NEW f, NEW c \in [D -> Nat],
           \A k \in D : c[k] = Cardinality({w \in W : f[w] = k})
    PROVE  SumFunctionOnSet(c, D) = Cardinality({w \in W : f[w] \in D})
  <1>1. D \in SUBSET D
    OBVIOUS
  <1>2. \A X \in SUBSET D : SumFunctionOnSet(c, X) = Cardinality({w \in W : f[w] \in X})
    BY CountByGroup
  <1> QED BY <1>1, <1>2, Zenon

LEMMA SeriesOk == UsInv => SeriesExact
  <1> SUFFICES ASSUME UsInv, NEW f \in UsFilters, NEW limit \in UsLimits, NEW series \in series_by_bucket(f, limit)
               PROVE  LET wanted == {w \in usPosted : /\ f.key = "any" \/ usEvent[w].event.key = f.key
                                                      /\ f.from >= 0 => f.from <= bucket_start(usEvent[w].t)
                                                      /\ f.to >= 0 => bucket_start(usEvent[w].t) < f.to}
                          Ended(h) == {w \in wanted : h <= usEvent[w].t /\ usEvent[w].t < h + HourTicks} IN
        /\ \A h \in DOMAIN series :
             /\ Ended(h) # {}
             /\ series[h] = [requests |-> Cardinality(Ended(h)),
                             errors |-> Cardinality({w \in Ended(h) : is_error(usEvent[w].event)})]
        /\ \A w \in wanted, h \in DOMAIN series : usEvent[w].t < h => bucket_start(usEvent[w].t) \in DOMAIN series
        /\ Cardinality(DOMAIN series) < limit =>
             \A w \in wanted : bucket_start(usEvent[w].t) \in DOMAIN series
    BY DEF SeriesExact
  <1> DEFINE start(w) == bucket_start(usEvent[w].t)
             wanted == {w \in usPosted : /\ f.key = "any" \/ usEvent[w].event.key = f.key
                                         /\ f.from >= 0 => f.from <= start(w)
                                         /\ f.to >= 0 => start(w) < f.to}
             Ended(h) == {w \in wanted : h <= usEvent[w].t /\ usEvent[w].t < h + HourTicks}
             ks == {k \in DOMAIN usBuckets : BucketMatches(k, f)}
             hours == {k.start : k \in ks}
             Of(h) == {k \in ks : k.start = h}
  <1>p. PICK page \in Limited(hours, limit) :
           /\ \A in \in page, out \in hours \ page : ~TextBefore(to_rfc3339(out), to_rfc3339(in))
           /\ series = [h \in page |-> [requests |-> RequestsIn(Of(h)), errors |-> ErrorsIn(Of(h))]]
    BY DEF series_by_bucket
  <1>0. BucketsCount /\ usPosted \in SUBSET UsWriters /\ f.from \in Int /\ f.to \in Int /\ limit \in Nat
    BY RecordsAssumption DEF UsInv, UsTyped
  <1>1. ASSUME NEW w \in usPosted
        PROVE  /\ usEvent[w].t \in Nat /\ start(w) \in Nat /\ start(w) <= usEvent[w].t
               /\ KeyOf(w).start = start(w) /\ KeyOf(w) \in DOMAIN usBuckets
               /\ w \in wanted <=> KeyOf(w) \in ks
    <2>1. usEvent[w].t \in Nat
      BY <1>0 DEF UsInv, UsTyped, Stamped
    <2>2. start(w) \in Nat /\ start(w) <= usEvent[w].t
      BY <2>1, HourOf
    <2>3. KeyOf(w).start = start(w) /\ KeyOf(w).key = usEvent[w].event.key
      BY DEF KeyOf, BucketKey
    <2>4. KeyOf(w) \in DOMAIN usBuckets
      BY <1>0 DEF BucketsCount
    <2> HIDE DEF start
    <2>5. f.from >= 0 => (TextBefore(to_rfc3339(start(w)), to_rfc3339(f.from)) <=> start(w) < f.from)
      <3> SUFFICES ASSUME f.from >= 0 PROVE TextBefore(to_rfc3339(start(w)), to_rfc3339(f.from)) <=> start(w) < f.from
        OBVIOUS
      <3>1. f.from \in Nat
        BY <1>0
      <3> QED BY <2>2, <3>1, TextOrder
    <2>6. f.to >= 0 => (TextBefore(to_rfc3339(start(w)), to_rfc3339(f.to)) <=> start(w) < f.to)
      <3> SUFFICES ASSUME f.to >= 0 PROVE TextBefore(to_rfc3339(start(w)), to_rfc3339(f.to)) <=> start(w) < f.to
        OBVIOUS
      <3>1. f.to \in Nat
        BY <1>0
      <3> QED BY <2>2, <3>1, TextOrder
    <2>7. f.from <= start(w) <=> ~(start(w) < f.from)
      BY <1>0, <2>2
    <2>8. BucketMatches(KeyOf(w), f) <=> /\ f.key = "any" \/ usEvent[w].event.key = f.key
                                         /\ f.from >= 0 => f.from <= start(w)
                                         /\ f.to >= 0 => start(w) < f.to
      BY <2>3, <2>5, <2>6, <2>7 DEF BucketMatches
    <2> QED BY <2>1, <2>2, <2>3, <2>4, <2>8
  <1>2. ASSUME NEW k \in ks PROVE \E w \in wanted : KeyOf(w) = k
    <2>1. PICK w \in PostedTo(k) : TRUE
      BY <1>0 DEF BucketsCount
    <2>2. w \in usPosted /\ KeyOf(w) = k
      BY DEF PostedTo
    <2> QED BY <2>2, <1>1
  <1>3. ASSUME NEW w \in wanted PROVE start(w) \in hours
    BY <1>1
  <1>4. IsFiniteSet(hours)
    <2> DEFINE st == [k \in ks |-> k.start]
    <2>1. hours = {st[k] : k \in ks} /\ ks \in SUBSET DOMAIN usBuckets
      OBVIOUS
    <2> HIDE DEF st, ks, hours
    <2>2. IsFiniteSet(ks)
      BY <2>1, <1>0, FS_Subset DEF BucketsCount
    <2> QED BY <2>1, <2>2, ImageFinite
  <1>5. page \in SUBSET hours /\ (Cardinality(page) < limit => page = hours) /\ DOMAIN series = page
    <2> HIDE DEF hours
    <2>1. page \in SUBSET hours /\ (Cardinality(page) < limit => page = hours)
      BY <1>0, <1>4, LimitedPage
    <2> QED BY <2>1, <1>p
  <1>6. ASSUME NEW h \in page
        PROVE  /\ h \in Nat /\ Ended(h) # {} /\ Ended(h) = {w \in usPosted : KeyOf(w) \in Of(h)}
               /\ Of(h) \in SUBSET DOMAIN usBuckets
    <2>1. PICK k \in ks : h = k.start
      BY <1>5
    <2>2. PICK v \in wanted : KeyOf(v) = k
      BY <1>2
    <2>3. v \in usPosted /\ h = start(v) /\ usEvent[v].t \in Nat /\ h \in Nat
      BY <2>1, <2>2, <1>1
    <2>4. ASSUME NEW w \in usPosted
          PROVE  start(w) = h <=> h <= usEvent[w].t /\ usEvent[w].t < h + HourTicks
      BY <1>1, <2>3, HourOf
    <2>5. v \in Ended(h)
      BY <2>3, <2>4
    <2>6. ASSUME NEW w \in usPosted PROVE w \in Ended(h) <=> KeyOf(w) \in Of(h)
      BY <1>1, <2>4
    <2>7. Ended(h) = {w \in usPosted : KeyOf(w) \in Of(h)}
      BY <2>6
    <2> QED BY <2>3, <2>5, <2>7
  <1>7. ASSUME NEW h \in page
        PROVE  series[h] = [requests |-> Cardinality(Ended(h)),
                            errors |-> Cardinality({w \in Ended(h) : is_error(usEvent[w].event)})]
    <2>0. PICK s : s = Of(h)
      OBVIOUS
    <2>1. {w \in Ended(h) : is_error(usEvent[w].event)} = {w \in usPosted : is_error(usEvent[w].event) /\ KeyOf(w) \in s}
      BY <1>6, <2>0
    <2>2. Ended(h) = {w \in usPosted : KeyOf(w) \in s} /\ s \in SUBSET DOMAIN usBuckets
      BY <1>6, <2>0
    <2>3. series[h] = [requests |-> RequestsIn(s), errors |-> ErrorsIn(s)]
      BY <1>p, <2>0
    <2> HIDE DEF Ended, Of
    <2>4. /\ RequestsIn(s) = Cardinality({w \in usPosted : KeyOf(w) \in s})
          /\ ErrorsIn(s) = Cardinality({w \in usPosted : is_error(usEvent[w].event) /\ KeyOf(w) \in s})
      BY <2>2, TotalsCount
    <2> QED BY <2>1, <2>2, <2>3, <2>4
  <1>8. ASSUME NEW w \in wanted, NEW h \in page, usEvent[w].t < h PROVE start(w) \in page
    <2> SUFFICES ASSUME start(w) \notin page PROVE FALSE
      OBVIOUS
    <2>1. start(w) \in hours \ page
      BY <1>3
    <2>2. w \in usPosted /\ start(w) \in Nat /\ start(w) <= usEvent[w].t /\ usEvent[w].t \in Nat
      BY <1>1
    <2>3. h \in Nat
      BY <1>6
    <2> HIDE DEF start, hours
    <2>4. ~TextBefore(to_rfc3339(start(w)), to_rfc3339(h))
      BY <2>1, <1>p
    <2>5. ~(start(w) < h)
      BY <2>2, <2>3, <2>4, TextOrder
    <2> QED BY <2>2, <2>3, <2>5, <1>8
  <1>9. ASSUME Cardinality(page) < limit, NEW w \in wanted PROVE start(w) \in page
    BY <1>3, <1>5, <1>9
  <1>10. \A h \in page :
           /\ Ended(h) # {}
           /\ series[h] = [requests |-> Cardinality(Ended(h)),
                           errors |-> Cardinality({w \in Ended(h) : is_error(usEvent[w].event)})]
    <2> HIDE DEF Ended
    <2> QED BY <1>6, <1>7
  <1> QED BY <1>5, <1>8, <1>9, <1>10

\* The rows of a query, grouped by any of the columns.
LEMMA GroupsCount ==
    ASSUME NEW W, IsFiniteSet(W), NEW f, NEW D, IsFiniteSet(D),
           NEW c, c = [g \in D |-> Cardinality({r \in W : f[r] = g})]
    PROVE  SumFunction(c) = Cardinality({r \in W : f[r] \in D})
  <1>3. ASSUME NEW g \in D PROVE Cardinality({r \in W : f[r] = g}) \in Nat
    <2>1. {r \in W : f[r] = g} \in SUBSET W
      OBVIOUS
    <2> QED BY <2>1, FS_Subset, FS_CardinalityType
  <1>4. c \in [D -> Nat]
    BY <1>3
  <1>d. DOMAIN c = D
    OBVIOUS
  <1>6. \A g \in D : c[g] = Cardinality({r \in W : f[r] = g})
    OBVIOUS
  <1>7. SumFunctionOnSet(c, D) = Cardinality({r \in W : f[r] \in D})
    <2>1. PICK d : d = c
      OBVIOUS
    <2>3. d \in [D -> Nat] /\ \A g \in D : d[g] = Cardinality({r \in W : f[r] = g})
      BY <2>1, <1>4, <1>6
    <2>5. SumFunctionOnSet(d, D) = Cardinality({r \in W : f[r] \in D})
      BY <2>3, CountEachGroup
    <2> QED BY <2>1, <2>5, Zenon
  <1> QED BY <1>d, <1>7 DEF SumFunction

LEMMA CountedOk == UsInv => EachCountedOnce
  <1> SUFFICES ASSUME UsInv, NEW f \in UsFilters, NEW dim \in Dimensions, NEW limit \in UsLimits,
                      NEW groups \in summarize_by(dim, f, limit)
               PROVE  LET wanted == {r \in usRows : Request(r.event) /\ InRange(r, f)}
                          all == overall_stats(f)
                          shown == {r \in wanted : group_by(dim, r.event) \in DOMAIN groups} IN
        /\ SumFunction([g \in DOMAIN groups |-> groups[g].requests]) = Cardinality(shown)
        /\ SumFunction([g \in DOMAIN groups |-> groups[g].errors])
               = Cardinality({r \in shown : is_error(r.event)})
        /\ \A g \in DOMAIN groups, r \in wanted \ shown :
             groups[g].requests >= Cardinality(Members(dim, wanted, group_by(dim, r.event)))
        /\ Cardinality(DOMAIN groups) < limit =>
             /\ SumFunction([g \in DOMAIN groups |-> groups[g].requests]) = all.total_requests
             /\ SumFunction([g \in DOMAIN groups |-> groups[g].errors]) = all.total_errors
             /\ dim = "tool" => Cardinality({g \in DOMAIN groups : g[1] = "tool"}) = all.unique_tools
    BY DEF EachCountedOnce
  <1>w. PICK rows : rows = {r \in usRows : Request(r.event) /\ InRange(r, f)}
    OBVIOUS
  <1>s. Selected("request_events", f) = rows
    BY <1>w, SelectedByTime DEF Request
  <1>1. IsFiniteSet(rows)
    <2>1. rows \in SUBSET usRows
      BY <1>w
    <2> QED BY <2>1, FS_Subset DEF UsInv, RowsKnown
  <1> DEFINE all == overall_stats(f)
             key == [r \in rows |-> group_by(dim, r.event)]
             D == {key[r] : r \in rows}
             E == {r \in rows : is_error(r.event)}
             Of(g) == {r \in rows : key[r] = g}
  <1>m. \A g : Members(dim, rows, g) = Of(g)
    BY DEF Members
  <1>2. GroupsOf(dim, rows) = D
    BY DEF GroupsOf
  <1>p. PICK page \in Limited(D, limit) :
          /\ \A in \in page, out \in D \ page : Cardinality(Members(dim, rows, in)) >= Cardinality(Members(dim, rows, out))
          /\ groups = [g \in page |-> Tally(Members(dim, rows, g))]
    <2> HIDE DEF D
    <2> QED BY <1>s, <1>2 DEF summarize_by
  <1>3. /\ all.total_requests = Cardinality(rows) /\ all.total_errors = Cardinality(E)
        /\ all.unique_tools = Cardinality({r.event.name : r \in {x \in rows : x.event.kind = "tool"}})
    BY <1>s DEF overall_stats
  <1>k. \A r \in rows : key[r] = group_by(dim, r.event)
    OBVIOUS
  <1>d. D = {key[r] : r \in rows}
    OBVIOUS
  <1>e. E \in SUBSET rows
    OBVIOUS
  <1>o. \A g : {r \in Of(g) : is_error(r.event)} = {r \in E : key[r] = g}
    OBVIOUS
  <1> HIDE DEF all, key, D
  <1>4. IsFiniteSet(D) /\ limit \in Nat
    BY <1>1, <1>d, ImageFinite, RecordsAssumption
  <1>5. page \in SUBSET D /\ IsFiniteSet(page) /\ (Cardinality(page) < limit => page = D)
    BY <1>4, LimitedPage
  <1>6. DOMAIN groups = page /\ \A g \in page : groups[g] = Tally(Of(g))
    <2> HIDE DEF Of
    <2> QED BY <1>p, <1>m
  <1>7. \A g \in page : /\ groups[g].requests = Cardinality({r \in rows : key[r] = g})
                        /\ groups[g].errors = Cardinality({r \in E : key[r] = g})
    <2>1. ASSUME NEW g \in page
          PROVE  Tally(Of(g)).requests = Cardinality({r \in rows : key[r] = g})
                 /\ Tally(Of(g)).errors = Cardinality({r \in E : key[r] = g})
      BY <1>o DEF Tally
    <2> HIDE DEF Of, E
    <2> QED BY <1>6, <2>1
  <1> DEFINE shown == {r \in rows : group_by(dim, r.event) \in page}
  <1>8. /\ shown = {r \in rows : key[r] \in page}
        /\ {r \in shown : is_error(r.event)} = {r \in E : key[r] \in page}
    BY <1>k
  <1>9. IsFiniteSet(E)
    <2> HIDE DEF E
    <2> QED BY <1>e, <1>1, FS_Subset
  <1> HIDE DEF shown, E, Of
  <1>10. SumFunction([g \in DOMAIN groups |-> groups[g].requests]) = Cardinality(shown)
    <2> DEFINE c == [g \in page |-> Cardinality({r \in rows : key[r] = g})]
    <2>1. [g \in DOMAIN groups |-> groups[g].requests] = c
      BY <1>6, <1>7
    <2>2. c = [g \in page |-> Cardinality({r \in rows : key[r] = g})]
      OBVIOUS
    <2> HIDE DEF c
    <2>3. SumFunction(c) = Cardinality({r \in rows : key[r] \in page})
      BY <1>1, <1>5, <2>2, GroupsCount
    <2> QED BY <2>1, <2>3, <1>8
  <1>11. SumFunction([g \in DOMAIN groups |-> groups[g].errors]) = Cardinality({r \in shown : is_error(r.event)})
    <2> DEFINE c == [g \in page |-> Cardinality({r \in E : key[r] = g})]
    <2>1. [g \in DOMAIN groups |-> groups[g].errors] = c
      BY <1>6, <1>7
    <2>2. c = [g \in page |-> Cardinality({r \in E : key[r] = g})]
      OBVIOUS
    <2> HIDE DEF c
    <2>3. SumFunction(c) = Cardinality({r \in E : key[r] \in page})
      BY <1>9, <1>5, <2>2, GroupsCount
    <2> QED BY <2>1, <2>3, <1>8
  <1>12. ASSUME NEW g \in page, NEW r \in rows \ shown
         PROVE  groups[g].requests >= Cardinality(Members(dim, rows, group_by(dim, r.event)))
    <2>1. key[r] = group_by(dim, r.event) /\ key[r] \in D \ page
      BY <1>k, <1>d, <1>8
    <2>2. Cardinality(Members(dim, rows, g)) >= Cardinality(Members(dim, rows, key[r]))
      BY <1>p, <2>1
    <2>3. groups[g].requests = Cardinality(Members(dim, rows, g))
      BY <1>7, <1>m DEF Of
    <2> QED BY <2>1, <2>2, <2>3
  <1>13. ASSUME page = D
         PROVE  shown = rows /\ {r \in shown : is_error(r.event)} = E
    BY <1>13, <1>8, <1>d, <1>e
  <1>14. ASSUME dim = "tool"
         PROVE  Cardinality({g \in D : g[1] = "tool"}) = all.unique_tools
    <2>1. \A r \in rows : key[r] = <<r.event.kind, r.event.name>>
      BY <1>14, <1>k DEF group_by, dimension_column
    <2> DEFINE T == {x \in rows : x.event.kind = "tool"}
               names == {r.event.name : r \in T}
               G == {g \in D : g[1] = "tool"}
               h == [n \in names |-> <<"tool", n>>]
    <2>3. IsFiniteSet(names)
      <3> DEFINE nm == [r \in T |-> r.event.name]
      <3>1. names = {nm[r] : r \in T}
        OBVIOUS
      <3>2. T \in SUBSET rows
        OBVIOUS
      <3> HIDE DEF T, nm, names
      <3>3. IsFiniteSet(T)
        BY <3>2, <1>1, FS_Subset
      <3> QED BY <3>1, <3>3, ImageFinite
    <2>4. ASSUME NEW n \in names PROVE h[n] = <<"tool", n>> /\ h[n] \in G
      <3>1. PICK r \in rows : r.event.kind = "tool" /\ n = r.event.name
        OBVIOUS
      <3>2. key[r] = <<"tool", n>> /\ key[r] \in D
        BY <3>1, <2>1, <1>d
      <3> QED BY <3>2
    <2>5. ASSUME NEW g \in G PROVE \E n \in names : h[n] = g
      <3>1. PICK r \in rows : g = key[r]
        BY <1>d
      <3>2. g = <<r.event.kind, r.event.name>> /\ r.event.kind = "tool"
        BY <3>1, <2>1
      <3>3. r.event.name \in names
        BY <3>2
      <3> QED BY <3>2, <3>3
    <2>6. h \in [names -> G] /\ \A x, y \in names : h[x] = h[y] => x = y
      BY <2>4
    <2>7. all.unique_tools = Cardinality(names)
      BY <1>3
    <2>8. G = {g \in D : g[1] = "tool"}
      OBVIOUS
    <2> HIDE DEF names, G, h
    <2>9. Cardinality(G) = Cardinality(names)
      BY <2>3, <2>5, <2>6, SameCount
    <2> QED BY <2>7, <2>8, <2>9
  <1>15. ASSUME Cardinality(page) < limit
         PROVE  /\ Cardinality(shown) = all.total_requests
                /\ Cardinality({r \in shown : is_error(r.event)}) = all.total_errors
                /\ dim = "tool" => Cardinality({g \in page : g[1] = "tool"}) = all.unique_tools
    <2>1. page = D
      BY <1>5, <1>15
    <2>2. shown = rows /\ {r \in shown : is_error(r.event)} = E
      BY <2>1, <1>13
    <2> QED BY <2>1, <2>2, <1>3, <1>14
  <1>16. shown = {r \in rows : group_by(dim, r.event) \in DOMAIN groups}
    BY <1>6 DEF shown
  <1> QED BY <1>w, <1>6, <1>10, <1>11, <1>12, <1>15, <1>16 DEF all

LEMMA AgreeOk == UsInv => RecordsAgree
  <1> SUFFICES ASSUME UsInv, usClean, \A w \in UsWriters : usPc[w] \in {"idle", "done"}, NEW l \in UsLabels
               PROVE  /\ usMetrics[l] = RequestsIn({k \in DOMAIN usBuckets : k.status = l})
                      /\ usMetrics[l] = Cardinality({r \in usRows : Request(r.event) /\ status_label(r.event.status) = l})
    BY DEF RecordsAgree
  <1>0. /\ UsTyped /\ RowsKnown /\ PostedKnown /\ BucketsCount
        /\ usMetrics[l] = Cardinality(Counted(l))
        /\ \A w \in UsWriters : usPc[w] = "done" /\ Request(usEvent[w].event) => w \in usPosted
        /\ \A w \in UsWriters : usPc[w] \in {"bucket", "done"} => Row(w) \in usRows
    BY DEF UsInv, CleanCounts
  <1>1. usMetrics[l] = RequestsIn({k \in DOMAIN usBuckets : k.status = l})
    <2> DEFINE ks == {k \in DOMAIN usBuckets : k.status = l}
    <2>1. \A w \in usPosted : w \in UsWriters /\ usPc[w] # "idle" /\ Request(usEvent[w].event)
      BY <1>0 DEF PostedKnown, UsTyped
    <2>2. \A w \in usPosted : KeyOf(w).status = LabelOf(w) /\ KeyOf(w) \in DOMAIN usBuckets
      BY <1>0 DEF KeyOf, LabelOf, BucketKey, BucketsCount
    <2>3. \A w \in usPosted : KeyOf(w) \in ks <=> LabelOf(w) = l
      BY <2>2
    <2>4. Counted(l) = {w \in usPosted : KeyOf(w) \in ks}
      BY <1>0, <2>1, <2>3 DEF Counted
    <2>5. ks \in SUBSET DOMAIN usBuckets
      OBVIOUS
    <2> HIDE DEF ks
    <2>6. RequestsIn(ks) = Cardinality({w \in usPosted : KeyOf(w) \in ks})
      BY <2>5, TotalsCount
    <2> QED BY <1>0, <2>4, <2>6 DEF ks
  <1>2. usMetrics[l] = Cardinality({r \in usRows : Request(r.event) /\ status_label(r.event.status) = l})
    <2> DEFINE S == Counted(l)
               T == {r \in usRows : Request(r.event) /\ status_label(r.event.status) = l}
               g == [w \in S |-> Row(w)]
    <2>1. \A w \in UsWriters : Row(w).id = w /\ Row(w).event = usEvent[w].event
      BY DEF Row
    <2>2. S \in SUBSET UsWriters /\ \A w \in S : usPc[w] = "done" /\ Request(usEvent[w].event) /\ LabelOf(w) = l
      BY DEF Counted
    <2>3. \A w \in S : Row(w) \in T
      BY <1>0, <2>1, <2>2 DEF LabelOf
    <2>4. ASSUME NEW r \in T PROVE \E w \in S : g[w] = r
      <3>1. PICK w \in UsWriters : r = Row(w) /\ usPc[w] \in {"bucket", "done"}
        BY <1>0 DEF RowsKnown
      <3>2. w \in S
        BY <3>1, <2>1 DEF Counted, LabelOf
      <3> QED BY <3>1, <3>2
    <2>5. g \in [S -> T] /\ \A x, y \in S : g[x] = g[y] => x = y
      BY <2>1, <2>2, <2>3
    <2> HIDE DEF S, T, g
    <2>6. IsFiniteSet(S)
      BY <2>2, RecordsAssumption, FS_Subset
    <2>7. Cardinality(T) = Cardinality(S)
      BY <2>4, <2>5, <2>6, SameCount
    <2> QED BY <1>0, <2>7 DEF S, T
  <1> QED BY <1>1, <1>2

(* Records: default arguments                                                  *)

DefRows == [set : BOOLEAN, args : DefArgs, source : {"none", "manual", "captured"}]
Taken(A, t, args) == \E outcome \in DebugOutcomes(t) \ {"refused"} : <<t, args, outcome>> \in A
\* Arguments in flight and on record are argument objects.
DefInv ==
    /\ defRow \in [DefTools -> DefRows] /\ CapturedTaken
    /\ DOMAIN debug = Debuggers /\ \A d \in Debuggers : debug[d].args \in DefArgs

LEMMA DefaultsStart == DefInit => DefInv
  <1> SUFFICES ASSUME DefInit PROVE DefInv
    OBVIOUS
  <1>1. NoRow \in DefRows /\ NoRow.source = "none" /\ NoDebug.args \in DefArgs
    <2>1. FALSE \in BOOLEAN /\ "none" \in {"none", "manual", "captured"} /\ Empty \in DefArgs
      BY EmptyAssumption
    <2> QED BY <2>1, Zenon DEF NoRow, DefRows, NoDebug
  <1>2. defRow = [t \in DefTools |-> NoRow] /\ debug = [d \in Debuggers |-> NoDebug]
    BY DEF DefInit
  <1>3. defRow \in [DefTools -> DefRows] /\ \A t \in DefTools : defRow[t].source = "none"
    BY <1>1, <1>2
  <1>4. CapturedTaken
    BY <1>3 DEF CapturedTaken
  <1> QED BY <1>1, <1>2, <1>3, <1>4 DEF DefInv

LEMMA SetKeeps ==
    ASSUME DefInv, NEW t, NEW args \in DefArgs, NEW source \in {"manual", "captured"},
           set_tool_default(t, args, source), answers \subseteq answers',
           source = "captured" => Taken(answers', t, args)
    PROVE  defRow' \in [DefTools -> DefRows] /\ CapturedTaken'
  <1> DEFINE row == [set |-> TRUE, args |-> args, source |-> source]
  <1>1. row \in DefRows
    BY Zenon DEF DefRows
  <1>2. row.source = source /\ row.args = args
    OBVIOUS
  <1>3. defRow' = [defRow EXCEPT ![t] = row]
    BY DEF set_tool_default
  <1> HIDE DEF row
  <1>4. defRow' \in [DefTools -> DefRows]
    BY <1>1, <1>3 DEF DefInv
  <1>5. \A u \in DefTools : defRow'[u] = IF u = t THEN row ELSE defRow[u]
    BY <1>3 DEF DefInv
  <1>6. \A u \in DefTools : defRow[u].source = "captured" => Taken(answers, u, defRow[u].args)
    BY DEF DefInv, CapturedTaken, Taken
  <1>7. \A u, a : Taken(answers, u, a) => Taken(answers', u, a)
    BY DEF Taken
  <1>8. \A u \in DefTools : defRow'[u].source = "captured" => Taken(answers', u, defRow'[u].args)
    BY <1>2, <1>5, <1>6, <1>7
  <1>9. CapturedTaken'
    BY <1>8 DEF CapturedTaken, Taken
  <1> QED BY <1>4, <1>9

LEMMA DefaultsStep == DefInv /\ [DefNext]_defVars => DefInv'
  <1> SUFFICES ASSUME DefInv, [DefNext]_defVars PROVE DefInv'
    OBVIOUS
  <1>1. ASSUME NEW t \in DefTools, put_default(t) PROVE DefInv'
    <2>1. PICK args \in DefArgs : set_tool_default(t, args, "manual")
      BY <1>1 DEF put_default
    <2>2. UNCHANGED <<debug, debugCount, answers>>
      BY <1>1 DEF put_default
    <2>3. defRow' \in [DefTools -> DefRows] /\ CapturedTaken'
      BY <2>1, <2>2, SetKeeps
    <2> QED BY <2>2, <2>3 DEF DefInv
  <1>2. ASSUME NEW t \in DefTools, delete_default(t) PROVE DefInv'
    <2>1. NoRow \in DefRows /\ NoRow.source = "none"
      <3>1. FALSE \in BOOLEAN /\ "none" \in {"none", "manual", "captured"} /\ Empty \in DefArgs
        BY EmptyAssumption
      <3> QED BY <3>1, Zenon DEF NoRow, DefRows
    <2>2. defRow' = [defRow EXCEPT ![t] = NoRow] /\ UNCHANGED <<debug, debugCount, answers>>
      BY <1>2 DEF delete_default, delete_tool_default
    <2>3. defRow' \in [DefTools -> DefRows] /\ \A u \in DefTools : defRow'[u] = IF u = t THEN NoRow ELSE defRow[u]
      BY <2>1, <2>2 DEF DefInv
    <2>4. CapturedTaken'
      BY <2>1, <2>2, <2>3 DEF DefInv, CapturedTaken
    <2> QED BY <2>2, <2>3, <2>4 DEF DefInv
  <1>3. ASSUME NEW t \in DefTools, NEW d \in Debuggers, invoke_tool_debug(d, t) PROVE DefInv'
    <2>1. PICK body \in Bodies, args \in DefArgs, use \in BOOLEAN, save \in BOOLEAN :
             debug' = [debug EXCEPT ![d] = [pc |-> "called", tool |-> t, save |-> save,
                                            args |-> chosen_args(body, args, use, t)]]
      BY <1>3 DEF invoke_tool_debug
    <2>2. chosen_args(body, args, use, t) \in DefArgs
      <3>1. get_tool_default(t) \in DefArgs
        BY EmptyAssumption DEF get_tool_default, DefInv, DefRows
      <3> QED BY <3>1, EmptyAssumption DEF chosen_args
    <2>3. UNCHANGED <<defRow, answers>>
      BY <1>3 DEF invoke_tool_debug
    <2>4. DOMAIN debug' = Debuggers /\ \A x \in Debuggers : debug'[x].args \in DefArgs
      BY <2>1, <2>2 DEF DefInv
    <2> QED BY <2>3, <2>4 DEF DefInv, CapturedTaken
  <1>4. ASSUME NEW d \in Debuggers, DebugAnswered(d) PROVE DefInv'
    <2> DEFINE me == debug[d]
    <2>1. PICK outcome \in DebugOutcomes(me.tool) :
             /\ answers' = answers \cup {<<me.tool, me.args, outcome>>}
             /\ IF capture(d, invoke_status(outcome)) THEN set_tool_default(me.tool, me.args, "captured")
                ELSE UNCHANGED defRow
      BY <1>4 DEF DebugAnswered
    <2>2. debug' = [debug EXCEPT ![d] = NoDebug]
      BY <1>4 DEF DebugAnswered
    <2>3. DOMAIN debug' = Debuggers /\ \A x \in Debuggers : debug'[x].args \in DefArgs
      BY <2>2, EmptyAssumption DEF DefInv, NoDebug
    <2>4. answers \subseteq answers' /\ me.args \in DefArgs
      BY <2>1 DEF DefInv
    <2>5. CASE capture(d, invoke_status(outcome))
      <3>0. outcome # "refused"
        BY <2>5 DEF capture, invoke_status
      <3>1. Taken(answers', me.tool, me.args) /\ set_tool_default(me.tool, me.args, "captured")
        BY <2>1, <2>5, <3>0 DEF Taken
      <3> HIDE DEF me
      <3>2. defRow' \in [DefTools -> DefRows] /\ CapturedTaken'
        BY <2>4, <3>1, SetKeeps
      <3> QED BY <2>3, <3>2 DEF DefInv
    <2>6. CASE ~capture(d, invoke_status(outcome))
      <3>1. UNCHANGED defRow
        BY <2>1, <2>6
      <3> QED BY <2>3, <2>4, <3>1 DEF DefInv, CapturedTaken
    <2> QED BY <2>5, <2>6
  <1>5. ASSUME NEW d \in Debuggers, DebugFailed(d) PROVE DefInv'
    <2>1. debug' = [debug EXCEPT ![d] = NoDebug] /\ UNCHANGED <<defRow, debugCount, answers>>
      BY <1>5 DEF DebugFailed
    <2>2. DOMAIN debug' = Debuggers /\ \A x \in Debuggers : debug'[x].args \in DefArgs
      BY <2>1, EmptyAssumption DEF DefInv, NoDebug
    <2> QED BY <2>1, <2>2 DEF DefInv, CapturedTaken
  <1>6. CASE UNCHANGED defVars
    BY <1>6 DEF defVars, DefInv, CapturedTaken
  <1> QED BY <1>1, <1>2, <1>3, <1>4, <1>5, <1>6 DEF DefNext

\* What the store remembers of calls is true, for every number of calls, events
\* and times: a captured default was taken by its tool's upstream, a page holds
\* the newest events of the time asked for, series and breakdowns count every call
\* they show once and leave out the latest hours and the smallest groups only, the
\* metrics, buckets and rows agree while nothing failed, and a purge removes what
\* is too old (admin/defaults.rs, store/sqlite.rs, sqlite_aggregation.rs,
\* retention.rs, observability).
THEOREM RowsAlwaysTrue == RecSpec => []RowsTrue
  <1> DEFINE Inv == DefInv /\ UsInv
  <1>1. DefInit /\ UsInit => Inv
    BY DefaultsStart, UsStart
  <1>2. Inv /\ [(DefNext /\ UNCHANGED usVars) \/ (UsNext /\ UNCHANGED defVars)]_<<defVars, usVars>> => Inv'
    BY DefaultsStep, UsStep
  <1>3. Inv => RowsTrue
    BY QueryOk, SeriesOk, CountedOk, AgreeOk, RetentionOk DEF RowsTrue, DefInv
  <1> HIDE DEF Inv
  <1> QED BY <1>1, <1>2, <1>3, PTL DEF RecSpec

(* Result cache: texts and their character boundaries                          *)

LEMMA TextShape ==
    ASSUME NEW text \in Seq(Nat)
    PROVE  /\ Len(text) \in Nat /\ DOMAIN text = 1 .. Len(text)
           /\ text \in [1 .. Len(text) -> Nat] /\ IsFiniteSet(1 .. Len(text))
  <1>1. Len(text) \in Nat /\ DOMAIN text = 1 .. Len(text) /\ text \in [1 .. Len(text) -> Nat]
    OBVIOUS
  <1>2. 1 \in Int /\ Len(text) \in Int
    BY <1>1
  <1> QED BY <1>1, <1>2, FS_Interval

\* What is before the n-th boundary.
LEMMA TextSums ==
    ASSUME NEW text \in Seq(Nat)
    PROVE  /\ Bytes(text) \in Nat
           /\ SumFunctionOnSet(text, 1 .. Len(text)) = Bytes(text)
           /\ SumFunctionOnSet(text, 1 .. 0) = 0
           /\ \A n \in 0 .. Len(text) :
                /\ SumFunctionOnSet(text, 1 .. n) \in Nat
                /\ SumFunctionOnSet(text, 1 .. n) <= Bytes(text)
           /\ \A n \in 0 .. Len(text) - 1 :
                SumFunctionOnSet(text, 1 .. (n + 1)) = text[n + 1] + SumFunctionOnSet(text, 1 .. n)
  <1> DEFINE S == 1 .. Len(text)
             P(n) == SumFunctionOnSet(text, 1 .. n)
  <1>1. Len(text) \in Nat /\ DOMAIN text = S /\ text \in [S -> Nat] /\ IsFiniteSet(S)
    BY TextShape
  <1>2. P(Len(text)) = Bytes(text)
    BY <1>1 DEF Bytes, SumFunction
  <1>3. \A n \in 0 .. Len(text) : 1 .. n \in SUBSET S
    BY <1>1
  <1>4. ASSUME NEW n \in 0 .. Len(text) PROVE P(n) \in Nat /\ P(n) <= P(Len(text))
    <2>1. 1 .. n \in SUBSET S /\ S \in SUBSET S
      BY <1>3
    <2> HIDE DEF S
    <2>2. SumFunctionOnSet(text, 1 .. n) \in Nat
      BY <1>1, <2>1, SumSteps
    <2>3. SumFunctionOnSet(text, 1 .. n) <= SumFunctionOnSet(text, S)
      BY <1>1, <2>1, SumMonotone
    <2> QED BY <2>2, <2>3 DEF S
  <1>5. P(0) = 0
    <2>1. 1 .. 0 = {} /\ {} \in SUBSET S
      OBVIOUS
    <2> HIDE DEF S
    <2>2. SumFunctionOnSet(text, {}) = 0
      BY <1>1, <2>1, SumSteps
    <2> QED BY <2>1, <2>2, Zenon
  <1>6. ASSUME NEW n \in 0 .. Len(text) - 1 PROVE P(n + 1) = text[n + 1] + P(n)
    <2>1. n + 1 \in 1 .. (n + 1) /\ 1 .. (n + 1) \in SUBSET S /\ (1 .. (n + 1)) \ {n + 1} = 1 .. n
      BY <1>1
    <2>2. PICK V : V = 1 .. (n + 1)
      OBVIOUS
    <2>3. PICK z : z = n + 1
      OBVIOUS
    <2>4. V \in SUBSET S /\ z \in V /\ V \ {z} = 1 .. n
      BY <2>1, <2>2, <2>3, Zenon
    <2> HIDE DEF S
    <2>5. SumFunctionOnSet(text, V) = text[z] + SumFunctionOnSet(text, V \ {z})
      BY <1>1, <2>4, SumRemove
    <2> QED BY <2>2, <2>3, <2>4, <2>5, Zenon
  <1>7. Len(text) \in 0 .. Len(text)
    BY <1>1
  <1>8. Bytes(text) \in Nat
    BY <1>2, <1>4, <1>7
  <1> HIDE DEF P
  <1>9. \A n \in 0 .. Len(text) : P(n) \in Nat /\ P(n) <= Bytes(text)
    BY <1>2, <1>4
  <1>10. \A n \in 0 .. Len(text) - 1 : P(n + 1) = text[n + 1] + P(n)
    BY <1>6
  <1> QED BY <1>2, <1>5, <1>8, <1>9, <1>10 DEF P

LEMMA BoundariesBelow ==
    ASSUME NEW text \in Seq(Nat)
    PROVE  /\ Boundaries(text) \in SUBSET (0 .. Bytes(text)) /\ Bytes(text) \in Nat
           /\ 0 \in Boundaries(text) /\ Bytes(text) \in Boundaries(text)
  <1> DEFINE P(n) == SumFunctionOnSet(text, 1 .. n)
  <1>1. /\ Bytes(text) \in Nat /\ P(Len(text)) = Bytes(text) /\ P(0) = 0
        /\ \A n \in 0 .. Len(text) : P(n) \in Nat /\ P(n) <= Bytes(text)
    BY TextSums
  <1>2. Boundaries(text) = {P(n) : n \in 0 .. Len(text)}
    BY DEF Boundaries
  <1>3. 0 \in 0 .. Len(text) /\ Len(text) \in 0 .. Len(text)
    OBVIOUS
  <1> HIDE DEF P
  <1>4. \A b \in Boundaries(text) : b \in 0 .. Bytes(text)
    BY <1>1, <1>2
  <1> QED BY <1>1, <1>2, <1>3, <1>4

LEMMA FloorIs ==
    ASSUME NEW text \in Seq(Nat), NEW index \in Nat
    PROVE  /\ floor_char_boundary(text, index) \in Boundaries(text)
           /\ floor_char_boundary(text, index) <= index
           /\ \A b \in Boundaries(text) : b <= index => b <= floor_char_boundary(text, index)
  <1> DEFINE T == {b \in Boundaries(text) : b <= index}
  <1>1. Bytes(text) \in Nat /\ T \in SUBSET (0 .. Bytes(text)) /\ T # {}
    BY BoundariesBelow
  <1>2. floor_char_boundary(text, index) = Max(T)
    BY DEF floor_char_boundary
  <1>t. \A b : b \in T <=> b \in Boundaries(text) /\ b <= index
    OBVIOUS
  <1> HIDE DEF T
  <1>3. Max(T) \in T /\ \A b \in T : b <= Max(T)
    BY <1>1, MaxOf
  <1> QED BY <1>2, <1>3, <1>t, Zenon

\* A page that starts at a boundary before the end gets at least one character.
LEMMA PageAdvances ==
    ASSUME NEW text \in Seq(Nat), NEW limit \in Nat, \A i \in 1 .. Len(text) : text[i] \in 1 .. limit,
           NEW from \in Boundaries(text), from < Bytes(text),
           NEW end, end = floor_char_boundary(text, Min({Bytes(text), from + limit}))
    PROVE  /\ floor_char_boundary(text, from) = from
           /\ end \in Boundaries(text) /\ from < end /\ end <= Bytes(text) /\ end \in Nat /\ from \in Nat
  <1> DEFINE P(n) == SumFunctionOnSet(text, 1 .. n)
             index == Min({Bytes(text), from + limit})
  <1>1. from \in Nat /\ Bytes(text) \in Nat /\ Boundaries(text) \in SUBSET (0 .. Bytes(text))
    BY BoundariesBelow
  <1>2. floor_char_boundary(text, from) = from
    <2>1. /\ floor_char_boundary(text, from) \in Boundaries(text)
          /\ floor_char_boundary(text, from) <= from
          /\ \A b \in Boundaries(text) : b <= from => b <= floor_char_boundary(text, from)
      BY <1>1, FloorIs
    <2>2. from <= floor_char_boundary(text, from)
      BY <2>1, <1>1
    <2>3. floor_char_boundary(text, from) \in Nat
      BY <2>1, <1>1
    <2> QED BY <2>1, <2>2, <2>3, <1>1
  <1>3. index \in {Bytes(text), from + limit} /\ index <= Bytes(text) /\ index <= from + limit
    <2>1. {Bytes(text), from + limit} \in SUBSET Nat /\ {Bytes(text), from + limit} # {}
      BY <1>1
    <2>2. Min({Bytes(text), from + limit}) \in {Bytes(text), from + limit}
          /\ \A m \in {Bytes(text), from + limit} : Min({Bytes(text), from + limit}) <= m
      BY <2>1, MinOf
    <2> QED BY <2>2
  <1>i. index \in Nat
    BY <1>3, <1>1
  <1>e. end = floor_char_boundary(text, index)
    OBVIOUS
  <1> HIDE DEF index
  <1>4. /\ end \in Boundaries(text) /\ end <= index
        /\ \A b \in Boundaries(text) : b <= index => b <= end
    BY <1>i, <1>e, FloorIs
  <1>5. PICK n \in 0 .. Len(text) : from = P(n)
    BY DEF Boundaries
  <1>6. Len(text) \in Nat
    OBVIOUS
  <1>7. /\ P(Len(text)) = Bytes(text)
        /\ \A k \in 0 .. Len(text) : P(k) \in Nat /\ P(k) <= Bytes(text)
        /\ \A k \in 0 .. Len(text) - 1 : P(k + 1) = text[k + 1] + P(k)
    BY TextSums
  <1>8. \A k \in 0 .. Len(text) : P(k) \in Boundaries(text)
    BY DEF Boundaries
  <1> HIDE DEF P
  <1>9. n # Len(text)
    BY <1>5, <1>7, <1>1
  <1>10. n \in 0 .. Len(text) - 1 /\ n + 1 \in 0 .. Len(text) /\ n + 1 \in 1 .. Len(text)
    BY <1>9, <1>6
  <1>11. text[n + 1] \in 1 .. limit
    BY <1>10
  <1>12. P(n + 1) = text[n + 1] + from /\ P(n + 1) \in Nat /\ P(n + 1) <= Bytes(text)
    BY <1>5, <1>7, <1>10
  <1>13. P(n + 1) \in Boundaries(text)
    BY <1>8, <1>10
  <1>14. P(n + 1) <= index /\ from < P(n + 1)
    BY <1>1, <1>3, <1>11, <1>12
  <1>15. P(n + 1) <= end
    BY <1>4, <1>13, <1>14
  <1>16. end \in Nat
    BY <1>1, <1>4
  <1> QED BY <1>1, <1>2, <1>3, <1>4, <1>i, <1>12, <1>14, <1>15, <1>16

(* Result cache: sizes of the cache                                            *)

KeyNames == RcKeys \cup {Unset}
CacheEntries == [text : Seq(Nat), created : Nat, key : KeyNames]
Cursors == 0 .. rcCounter - 1
WeightOf(stored, n) == [c \in 0 .. n - 1 |-> Bytes(stored[c].text)]
Weight == WeightOf(rcStored, rcCounter)

\* A map that holds some of what was stored.
PartOf(map) == DOMAIN map \in SUBSET Cursors /\ map = [c \in DOMAIN map |-> rcStored[c]]

StoreTyped == rcCounter \in Nat /\ rcNow \in Nat /\ rcStored \in [Cursors -> CacheEntries]

LEMMA WeightOfTyped ==
    ASSUME NEW n \in Nat, NEW stored \in [0 .. n - 1 -> CacheEntries]
    PROVE  /\ IsFiniteSet(0 .. n - 1) /\ WeightOf(stored, n) \in [0 .. n - 1 -> Nat]
           /\ \A c \in 0 .. n - 1 :
                /\ WeightOf(stored, n)[c] = Bytes(stored[c].text) /\ c \in Nat /\ c < n
                /\ stored[c].text \in Seq(Nat)
  <1>1. 0 \in Int /\ n - 1 \in Int
    OBVIOUS
  <1>2. IsFiniteSet(0 .. n - 1)
    BY <1>1, FS_Interval
  <1>3. \A c \in 0 .. n - 1 : stored[c].text \in Seq(Nat)
    BY DEF CacheEntries
  <1>4. \A c \in 0 .. n - 1 : Bytes(stored[c].text) \in Nat
    BY <1>3, TextSums
  <1>5. \A c \in 0 .. n - 1 : c \in Nat /\ c < n
    OBVIOUS
  <1> QED BY <1>2, <1>3, <1>4, <1>5 DEF WeightOf

LEMMA WeightTyped ==
    ASSUME StoreTyped
    PROVE  /\ IsFiniteSet(Cursors) /\ Weight \in [Cursors -> Nat]
           /\ \A c \in Cursors : Weight[c] = Bytes(rcStored[c].text) /\ c \in Nat /\ c < rcCounter
  BY WeightOfTyped DEF StoreTyped, Weight, Cursors

LEMMA TotalIs ==
    ASSUME StoreTyped, NEW map, PartOf(map)
    PROVE  /\ total_bytes_inner(map) = SumFunctionOnSet(Weight, DOMAIN map)
           /\ total_bytes_inner(map) \in Nat
           /\ IsFiniteSet(DOMAIN map) /\ Cardinality(DOMAIN map) \in Nat
  <1> DEFINE D == DOMAIN map
             w == [c \in D |-> Bytes(map[c].text)]
  <1>1. D \in SUBSET Cursors /\ \A c \in D : map[c] = rcStored[c]
    BY DEF PartOf
  <1>2. IsFiniteSet(Cursors) /\ Weight \in [Cursors -> Nat] /\ \A c \in Cursors : Weight[c] = Bytes(rcStored[c].text)
    BY WeightTyped
  <1>3. IsFiniteSet(D) /\ Cardinality(D) \in Nat
    BY <1>1, <1>2, FS_Subset, FS_CardinalityType
  <1>4. \A c \in D : w[c] = Weight[c]
    BY <1>1, <1>2
  <1>5. w \in [D -> Nat]
    <2>1. \A c \in D : Bytes(map[c].text) \in Nat
      BY <1>1, <1>2
    <2> QED BY <2>1
  <1>6. total_bytes_inner(map) = SumFunctionOnSet(w, D)
    BY DEF total_bytes_inner, SumFunction
  <1>d. D \in SUBSET (Cursors \cap D)
    BY <1>1
  <1> HIDE DEF D, w
  <1>7. SumFunctionOnSet(Weight, D) = SumFunctionOnSet(w, D)
    <2>1. \A x \in D : Weight[x] = w[x]
      BY <1>4
    <2> QED BY <1>2, <1>3, <1>5, <1>d, <2>1, SumSame
  <1>8. SumFunctionOnSet(Weight, D) \in Nat
    BY <1>1, <1>2, SumSteps
  <1> QED BY <1>3, <1>6, <1>7, <1>8 DEF D

LEMMA SweepPart ==
    ASSUME StoreTyped, PartOf(rcCache)
    PROVE  /\ PartOf(sweep(rcCache))
           /\ DOMAIN sweep(rcCache) = {d \in DOMAIN rcCache : rcNow - rcStored[d].created < CACHE_TTL_SECS}
  BY DEF PartOf, sweep

LEMMA NewerPart ==
    ASSUME NEW map, PartOf(map), NEW n
    PROVE  PartOf(Newer(map, n)) /\ DOMAIN Newer(map, n) = {d \in DOMAIN map : d >= n}
  BY DEF PartOf, Newer

LEMMA EvictPart ==
    ASSUME StoreTyped, NEW map, PartOf(map)
    PROVE  /\ PartOf(evict(map)) /\ DOMAIN evict(map) \in SUBSET DOMAIN map /\ ~full(evict(map))
           /\ \A c \in DOMAIN map : c \notin DOMAIN evict(map) => full(Newer(map, c))
  <1> DEFINE T == {n \in 0 .. rcCounter : n = rcCounter \/ ~full(Newer(map, n))}
  <1>1. rcCounter \in Nat /\ T \in SUBSET Nat /\ T # {}
    BY DEF StoreTyped
  <1>2. first_kept(map) = Min(T)
    BY DEF first_kept
  <1>t. \A n : n \in T <=> n \in 0 .. rcCounter /\ (n = rcCounter \/ ~full(Newer(map, n)))
    OBVIOUS
  <1> HIDE DEF T
  <1>3. PICK k : k = Min(T)
    OBVIOUS
  <1>4. k \in T /\ \A m \in T : k <= m
    BY <1>1, <1>3, MinOf
  <1>5. k \in Nat
    BY <1>1, <1>4
  <1>6. evict(map) = Newer(map, k)
    BY <1>2, <1>3 DEF evict
  <1>7. PartOf(Newer(map, k)) /\ DOMAIN Newer(map, k) = {d \in DOMAIN map : d >= k}
    BY NewerPart
  <1>8. ~full(Newer(map, k))
    <2> SUFFICES ASSUME k = rcCounter PROVE ~full(Newer(map, k))
      BY <1>4, <1>t
    <2>1. DOMAIN Newer(map, k) = {}
      <3>1. \A d \in DOMAIN map : d \in Nat /\ d < rcCounter
        BY WeightTyped DEF PartOf
      <3> QED BY <3>1, <1>7, <1>1
    <2>2. total_bytes_inner(Newer(map, k)) = 0
      <3>1. total_bytes_inner(Newer(map, k)) = SumFunctionOnSet(Weight, {})
        BY <1>7, <2>1, TotalIs
      <3>2. IsFiniteSet(Cursors) /\ Weight \in [Cursors -> Nat] /\ {} \in SUBSET Cursors
        BY WeightTyped
      <3>3. SumFunctionOnSet(Weight, {}) = 0
        BY <3>2, SumSteps
      <3> QED BY <3>1, <3>3
    <2>3. Cardinality({}) = 0
      BY FS_EmptySet
    <2> QED BY <2>1, <2>2, <2>3, ShapingAssumption DEF full
  <1>9. ASSUME NEW c \in DOMAIN map, c \notin DOMAIN Newer(map, k) PROVE full(Newer(map, c))
    <2>1. c \in Nat /\ c < rcCounter
      BY WeightTyped DEF PartOf
    <2>2. c < k
      BY <1>5, <1>7, <1>9, <2>1
    <2>3. c \notin T
      BY <1>4, <1>5, <2>1, <2>2
    <2>4. c \in 0 .. rcCounter /\ c # rcCounter
      BY <2>1, <1>1
    <2> QED BY <2>3, <2>4, <1>t
  <1>10. DOMAIN Newer(map, k) \in SUBSET DOMAIN map
    BY <1>7
  <1> QED BY <1>6, <1>7, <1>8, <1>9, <1>10

(* Result cache: the cache stays within its bounds and keeps what it promised  *)

Weighs(X) == SumFunctionOnSet(Weight, X)

\* The newest entry came on top of a cache that was not full.
Bounded ==
    /\ Cardinality(DOMAIN rcCache) <= MAX_CACHE_ENTRIES
    /\ \A m \in DOMAIN rcCache :
         (\A c \in DOMAIN rcCache : c <= m) => Weighs(DOMAIN rcCache \ {m}) < MAX_CACHE_BYTES

Lasts(c) ==
    \/ c \in DOMAIN rcCache
    \/ rcNow - rcStored[c].created >= CACHE_TTL_SECS
    \/ rcCounter - 1 - c >= MAX_CACHE_ENTRIES
    \/ Weighs(c .. rcCounter - 2) >= MAX_CACHE_BYTES

CacheInv == StoreTyped /\ PartOf(rcCache) /\ Bounded /\ \A c \in Cursors : Lasts(c)

\* What was stored before weighs after a store what it did before.
LEMMA StoredMore ==
    ASSUME StoreTyped, NEW text \in Seq(Nat), NEW key \in KeyNames, store(text, key), rcNow' = rcNow
    PROVE  /\ StoreTyped' /\ Cursors' = Cursors \cup {rcCounter} /\ rcCounter \notin Cursors
           /\ rcStored'[rcCounter] = [text |-> text, created |-> rcNow, key |-> key]
           /\ \A c \in Cursors : rcStored'[c] = rcStored[c]
           /\ \A X \in SUBSET Cursors : SumFunctionOnSet(Weight', X) = Weighs(X) /\ Weighs(X) \in Nat
  <1> DEFINE entry == [text |-> text, created |-> rcNow, key |-> key]
             n == rcCounter
  <1>1. rcCounter \in Nat /\ rcNow \in Nat /\ rcStored \in [Cursors -> CacheEntries]
    BY DEF StoreTyped
  <1>2. rcStored' = Put(rcStored, n, entry) /\ rcCounter' = n + 1
    BY DEF store
  <1>3. Cursors' = Cursors \cup {n} /\ n \notin Cursors
    BY <1>1, <1>2 DEF Cursors
  <1>4. entry \in CacheEntries
    BY <1>1 DEF CacheEntries
  <1> HIDE DEF entry
  <1>5. /\ rcStored' \in [Cursors' -> CacheEntries] /\ rcStored'[n] = entry
        /\ \A c \in Cursors : rcStored'[c] = rcStored[c]
    BY <1>1, <1>2, <1>3, <1>4 DEF Put
  <1>6. StoreTyped'
    BY <1>1, <1>2, <1>5 DEF StoreTyped
  <1>7. ASSUME NEW X \in SUBSET Cursors
        PROVE  SumFunctionOnSet(Weight', X) = Weighs(X) /\ Weighs(X) \in Nat
    <2>1. IsFiniteSet(Cursors) /\ Weight \in [Cursors -> Nat] /\ \A c \in Cursors : Weight[c] = Bytes(rcStored[c].text)
      BY WeightTyped
    <2>2. PICK v : v = WeightOf(rcStored', rcCounter')
      OBVIOUS
    <2>3. PICK C : C = Cursors'
      OBVIOUS
    <2>4. IsFiniteSet(C) /\ v \in [C -> Nat] /\ \A c \in C : v[c] = Bytes(rcStored'[c].text)
      BY <1>6, <2>2, <2>3, WeightOfTyped DEF StoreTyped, Cursors
    <2>5. X \in SUBSET (Cursors \cap C)
      BY <1>3, <2>3
    <2>6. \A c \in X : Weight[c] = v[c]
      BY <2>1, <2>4, <2>5, <1>5
    <2>7. SumFunctionOnSet(Weight, X) = SumFunctionOnSet(v, X)
      BY <2>1, <2>4, <2>5, <2>6, SumSame
    <2>8. SumFunctionOnSet(Weight, X) \in Nat
      BY <2>1, SumSteps
    <2>9. Weight' = v
      BY <2>2 DEF Weight
    <2> HIDE DEF Weight
    <2> QED BY <2>7, <2>8, <2>9 DEF Weighs
  <1> QED BY <1>3, <1>5, <1>6, <1>7 DEF entry

LEMMA WeighsMore ==
    ASSUME StoreTyped, NEW Y \in SUBSET Cursors, NEW X \in SUBSET Y
    PROVE  Weighs(X) <= Weighs(Y) /\ Weighs(X) \in Nat /\ Weighs(Y) \in Nat
  <1>1. IsFiniteSet(Cursors) /\ Weight \in [Cursors -> Nat] /\ X \in SUBSET Cursors
    BY WeightTyped
  <1>2. SumFunctionOnSet(Weight, X) <= SumFunctionOnSet(Weight, Y)
    BY <1>1, SumMonotone
  <1>3. SumFunctionOnSet(Weight, X) \in Nat /\ SumFunctionOnSet(Weight, Y) \in Nat
    BY <1>1, SumSteps
  <1> QED BY <1>2, <1>3 DEF Weighs

LEMMA FullAt ==
    ASSUME StoreTyped, NEW map, PartOf(map)
    PROVE  /\ full(map) <=> Cardinality(DOMAIN map) >= MAX_CACHE_ENTRIES \/ Weighs(DOMAIN map) >= MAX_CACHE_BYTES
           /\ IsFiniteSet(DOMAIN map) /\ Cardinality(DOMAIN map) \in Nat /\ Weighs(DOMAIN map) \in Nat
  BY TotalIs DEF full, Weighs

\* An entry that makes room is followed by a full cache.
LEMMA EvictedLast ==
    ASSUME StoreTyped, NEW map, PartOf(map), NEW c \in DOMAIN map, full(Newer(map, c))
    PROVE  rcCounter - c >= MAX_CACHE_ENTRIES \/ Weighs(c .. rcCounter - 1) >= MAX_CACHE_BYTES
  <1> DEFINE X == DOMAIN Newer(map, c)
             Y == c .. rcCounter - 1
  <1>1. PartOf(Newer(map, c)) /\ X = {d \in DOMAIN map : d >= c}
    BY NewerPart
  <1>2. c \in Nat /\ c < rcCounter /\ rcCounter \in Nat
    BY WeightTyped DEF PartOf, StoreTyped
  <1>3. Y \in SUBSET Cursors /\ X \in SUBSET Y
    <2>1. \A d \in DOMAIN map : d \in 0 .. rcCounter - 1
      BY DEF PartOf, Cursors
    <2> QED BY <2>1, <1>1, <1>2 DEF Cursors
  <1>4. c \in Int /\ rcCounter - 1 \in Int
    BY <1>2
  <1>5. IsFiniteSet(Y) /\ Cardinality(Y) = rcCounter - c
    <2>1. IsFiniteSet(Y) /\ Cardinality(Y) = IF c > rcCounter - 1 THEN 0 ELSE (rcCounter - 1) - c + 1
      BY <1>4, FS_Interval
    <2> HIDE DEF Y
    <2> QED BY <2>1, <1>2
  <1>6. \/ Cardinality(X) >= MAX_CACHE_ENTRIES \/ Weighs(X) >= MAX_CACHE_BYTES
    BY <1>1, FullAt
  <1> HIDE DEF X, Y
  <1>7. Cardinality(X) <= Cardinality(Y) /\ Cardinality(X) \in Nat
    BY <1>3, <1>5, FS_Subset, FS_CardinalityType
  <1>8. Weighs(X) <= Weighs(Y) /\ Weighs(X) \in Nat /\ Weighs(Y) \in Nat
    BY <1>3, WeighsMore
  <1>9. CASE Cardinality(X) >= MAX_CACHE_ENTRIES
    BY <1>9, <1>2, <1>5, <1>7, ShapingAssumption
  <1>10. CASE Weighs(X) >= MAX_CACHE_BYTES
    <2>1. Weighs(Y) >= MAX_CACHE_BYTES
      BY <1>10, <1>8, ShapingAssumption
    <2> QED BY <2>1 DEF Y
  <1> QED BY <1>6, <1>9, <1>10

LEMMA FewerBounded ==
    ASSUME CacheInv, NEW D \in SUBSET DOMAIN rcCache
    PROVE  /\ Cardinality(D) <= MAX_CACHE_ENTRIES
           /\ \A m \in D : (\A c \in D : c <= m) => Weighs(D \ {m}) < MAX_CACHE_BYTES
  <1> DEFINE A == DOMAIN rcCache
  <1>1. StoreTyped /\ PartOf(rcCache) /\ Bounded
    BY DEF CacheInv
  <1>2. IsFiniteSet(A) /\ Cardinality(A) \in Nat /\ A \in SUBSET Cursors
    BY <1>1, FullAt DEF PartOf
  <1>3. Cardinality(A) <= MAX_CACHE_ENTRIES
        /\ \A m \in A : (\A c \in A : c <= m) => Weighs(A \ {m}) < MAX_CACHE_BYTES
    BY <1>1 DEF Bounded
  <1>4. D \in SUBSET A
    OBVIOUS
  <1>n. rcCounter \in Nat /\ \A c \in A : c \in Nat /\ c < rcCounter
    BY <1>1, <1>2, WeightTyped DEF StoreTyped
  <1> HIDE DEF A
  <1>5. Cardinality(D) <= MAX_CACHE_ENTRIES
    <2>1. Cardinality(D) <= Cardinality(A) /\ Cardinality(D) \in Nat
      BY <1>2, <1>4, FS_Subset, FS_CardinalityType
    <2> QED BY <2>1, <1>2, <1>3, ShapingAssumption
  <1>6. ASSUME NEW m \in D, \A c \in D : c <= m PROVE Weighs(D \ {m}) < MAX_CACHE_BYTES
    <2>1. A \in SUBSET (0 .. rcCounter) /\ A # {}
      BY <1>n, <1>4
    <2>2. PICK M \in A : \A c \in A : c <= M
      BY <2>1, <1>n, MaxOf
    <2>3. D \ {m} \in SUBSET (A \ {M})
      <3> SUFFICES ASSUME NEW x \in D, x # m PROVE x # M
        BY <1>4
      <3>1. x \in Nat /\ m \in Nat /\ M \in Nat
        BY <1>4, <1>n
      <3>2. x <= m /\ m <= M
        BY <1>4, <1>6, <2>2
      <3> QED BY <3>1, <3>2
    <2>4. Weighs(A \ {M}) < MAX_CACHE_BYTES
      BY <1>3, <2>2
    <2>5. A \ {M} \in SUBSET Cursors
      BY <1>2
    <2>6. Weighs(D \ {m}) <= Weighs(A \ {M}) /\ Weighs(D \ {m}) \in Nat /\ Weighs(A \ {M}) \in Nat
      BY <1>1, <2>3, <2>5, WeighsMore
    <2> QED BY <2>4, <2>6, ShapingAssumption
  <1> QED BY <1>5, <1>6

LEMMA SweepKeeps ==
    ASSUME CacheInv, rcCache' = sweep(rcCache), UNCHANGED <<rcCounter, rcNow, rcStored>>
    PROVE  CacheInv'
  <1> DEFINE D == DOMAIN sweep(rcCache)
  <1>1. StoreTyped /\ PartOf(rcCache) /\ \A c \in Cursors : Lasts(c)
    BY DEF CacheInv
  <1>2. PartOf(sweep(rcCache)) /\ D = {d \in DOMAIN rcCache : rcNow - rcStored[d].created < CACHE_TTL_SECS}
    BY <1>1, SweepPart
  <1>3. StoreTyped' /\ Cursors' = Cursors
    BY <1>1 DEF StoreTyped, Cursors
  <1>4. PartOf(rcCache)'
    BY <1>2, <1>3 DEF PartOf
  <1>w. \A X : Weighs(X)' = Weighs(X)
    BY DEF Weighs, Weight
  <1>d. DOMAIN rcCache' = D /\ D \in SUBSET DOMAIN rcCache
    BY <1>2
  <1> HIDE DEF D
  <1>5. Bounded'
    <2>1. /\ Cardinality(D) <= MAX_CACHE_ENTRIES
          /\ \A m \in D : (\A c \in D : c <= m) => Weighs(D \ {m}) < MAX_CACHE_BYTES
      BY <1>d, FewerBounded
    <2> QED BY <2>1, <1>d, <1>w DEF Bounded
  <1>6. ASSUME NEW c \in Cursors PROVE Lasts(c)'
    <2>1. rcNow \in Nat /\ rcStored[c].created \in Nat
      BY <1>1 DEF StoreTyped, CacheEntries
    <2>2. c \in DOMAIN rcCache => c \in D \/ rcNow - rcStored[c].created >= CACHE_TTL_SECS
      BY <1>2, <2>1, ShapingAssumption
    <2>3. Lasts(c)
      BY <1>1
    <2> QED BY <2>2, <2>3, <1>d, <1>w DEF Lasts
  <1> QED BY <1>3, <1>4, <1>5, <1>6 DEF CacheInv

LEMMA StoreKeeps ==
    ASSUME CacheInv, NEW text \in Seq(Nat), NEW key \in KeyNames, store(text, key), rcNow' = rcNow
    PROVE  CacheInv'
  <1> DEFINE map == sweep(rcCache)
             kept == evict(map)
             K == DOMAIN kept
             n == rcCounter
             entry == [text |-> text, created |-> rcNow, key |-> key]
  <1>1. StoreTyped /\ PartOf(rcCache) /\ \A c \in Cursors : Lasts(c)
    BY DEF CacheInv
  <1>2. PartOf(map) /\ DOMAIN map = {d \in DOMAIN rcCache : rcNow - rcStored[d].created < CACHE_TTL_SECS}
    BY <1>1, SweepPart
  <1>c. rcCache' = Put(kept, n, entry) /\ rcCounter' = n + 1
    BY DEF store
  <1> HIDE DEF map
  <1>3. /\ PartOf(kept) /\ K \in SUBSET DOMAIN map /\ ~full(kept)
        /\ \A c \in DOMAIN map : c \notin K => full(Newer(map, c))
    BY <1>1, <1>2, EvictPart
  <1>4. /\ StoreTyped' /\ Cursors' = Cursors \cup {n} /\ n \notin Cursors
        /\ rcStored'[n] = entry /\ \A c \in Cursors : rcStored'[c] = rcStored[c]
        /\ \A X \in SUBSET Cursors : SumFunctionOnSet(Weight', X) = Weighs(X) /\ Weighs(X) \in Nat
    BY <1>1, StoredMore
  <1> HIDE DEF kept, entry
  <1>5. K \in SUBSET Cursors /\ \A c \in K : kept[c] = rcStored[c]
    BY <1>3 DEF PartOf
  <1>6. DOMAIN rcCache' = K \cup {n} /\ rcCache'[n] = entry /\ \A c \in K : rcCache'[c] = rcStored[c]
    BY <1>c, <1>4, <1>5 DEF Put
  <1>7. PartOf(rcCache)'
    <2>1. rcCache' = [c \in DOMAIN rcCache' |-> rcCache'[c]]
      BY <1>c DEF Put
    <2>2. \A c \in DOMAIN rcCache' : rcCache'[c] = rcStored'[c]
      BY <1>4, <1>5, <1>6
    <2>3. DOMAIN rcCache' \in SUBSET Cursors'
      BY <1>4, <1>5, <1>6
    <2> QED BY <2>1, <2>2, <2>3 DEF PartOf
  <1>n. n \in Nat /\ \A c \in Cursors : c \in Nat /\ c < n
    BY <1>1, WeightTyped DEF StoreTyped
  <1>8. Bounded'
    <2>1. ~(Cardinality(K) >= MAX_CACHE_ENTRIES \/ Weighs(K) >= MAX_CACHE_BYTES)
          /\ IsFiniteSet(K) /\ Cardinality(K) \in Nat /\ Weighs(K) \in Nat
      BY <1>1, <1>3, FullAt
    <2>2. n \notin K
      BY <1>4, <1>5
    <2> HIDE DEF K
    <2>3. Cardinality(K \cup {n}) = Cardinality(K) + 1
      BY <2>1, <2>2, CountOneMore
    <2>4. Cardinality(DOMAIN rcCache') <= MAX_CACHE_ENTRIES
      BY <2>1, <2>3, <1>6, ShapingAssumption
    <2>5. ASSUME NEW m \in DOMAIN rcCache', \A c \in DOMAIN rcCache' : c <= m
          PROVE  SumFunctionOnSet(Weight', DOMAIN rcCache' \ {m}) < MAX_CACHE_BYTES
      <3>1. m = n
        <4>1. n <= m
          BY <1>6, <2>5
        <4>2. m \in K => m \in Nat /\ m < n
          BY <1>5, <1>n
        <4> QED BY <4>1, <4>2, <1>6, <1>n
      <3>2. DOMAIN rcCache' \ {m} = K
        BY <3>1, <2>2, <1>6
      <3>3. SumFunctionOnSet(Weight', K) = Weighs(K)
        BY <1>4, <1>5
      <3>4. Weighs(K) < MAX_CACHE_BYTES
        BY <2>1, ShapingAssumption
      <3> QED BY <3>2, <3>3, <3>4
    <2> QED BY <2>4, <2>5 DEF Bounded, Weighs
  <1>9. ASSUME NEW c \in Cursors' PROVE Lasts(c)'
    <2>1. CASE c = n
      BY <2>1, <1>6 DEF Lasts
    <2>2. CASE c \in Cursors
      <3>t. c \in Nat /\ c < n /\ rcNow \in Nat /\ rcStored[c].created \in Nat
        BY <2>2, <1>1, <1>n DEF StoreTyped, CacheEntries
      <3>y. c .. n - 1 \in SUBSET Cursors /\ c .. n - 2 \in SUBSET (c .. n - 1)
        BY <3>t, <1>n DEF Cursors
      <3>w. SumFunctionOnSet(Weight', c .. n - 1) = Weighs(c .. n - 1) /\ Weighs(c .. n - 1) \in Nat
        BY <3>y, <1>4
      <3>1. n - c >= MAX_CACHE_ENTRIES => Lasts(c)'
        BY <1>c, <1>n, <3>t, ShapingAssumption DEF Lasts
      <3>2. Weighs(c .. n - 1) >= MAX_CACHE_BYTES => Lasts(c)'
        <4>1. rcCounter' - 2 = n - 1
          BY <1>c, <1>n
        <4>2. SumFunctionOnSet(Weight', c .. n - 1) = SumFunctionOnSet(Weight', c .. rcCounter' - 2)
          BY <4>1
        <4> SUFFICES ASSUME Weighs(c .. n - 1) >= MAX_CACHE_BYTES PROVE Lasts(c)'
          OBVIOUS
        <4>3. SumFunctionOnSet(Weight', c .. rcCounter' - 2) >= MAX_CACHE_BYTES
          BY <4>2, <3>w
        <4> QED BY <4>3 DEF Lasts, Weighs
      <3>3. rcNow - rcStored[c].created >= CACHE_TTL_SECS => Lasts(c)'
        BY <1>4, <2>2 DEF Lasts
      <3>4. CASE c \in DOMAIN rcCache
        <4>1. CASE c \notin DOMAIN map
          BY <4>1, <3>4, <1>2, <3>t, <3>3, ShapingAssumption
        <4>2. CASE c \in K
          BY <4>2, <1>6 DEF Lasts
        <4>3. CASE c \in DOMAIN map /\ c \notin K
          <5>1. full(Newer(map, c))
            BY <4>3, <1>3
          <5>2. rcCounter - c >= MAX_CACHE_ENTRIES \/ Weighs(c .. rcCounter - 1) >= MAX_CACHE_BYTES
            BY <5>1, <4>3, <1>1, <1>2, EvictedLast
          <5> QED BY <5>2, <3>1, <3>2
        <4> QED BY <4>1, <4>2, <4>3
      <3>5. CASE rcCounter - 1 - c >= MAX_CACHE_ENTRIES
        <4>1. n - c >= MAX_CACHE_ENTRIES
          BY <3>5, <3>t, <1>n, ShapingAssumption
        <4> QED BY <4>1, <3>1
      <3>6. CASE Weighs(c .. rcCounter - 2) >= MAX_CACHE_BYTES
        <4>1. Weighs(c .. n - 2) <= Weighs(c .. n - 1) /\ Weighs(c .. n - 2) \in Nat
          BY <1>1, <3>y, WeighsMore
        <4>2. Weighs(c .. n - 1) >= MAX_CACHE_BYTES
          BY <4>1, <3>w, <3>6, ShapingAssumption
        <4> QED BY <4>2, <3>2
      <3>7. Lasts(c)
        BY <2>2, <1>1
      <3> QED BY <3>3, <3>4, <3>5, <3>6, <3>7 DEF Lasts
    <2> QED BY <2>1, <2>2, <1>4
  <1> QED BY <1>4, <1>7, <1>8, <1>9 DEF CacheInv

LEMMA TickKeeps ==
    ASSUME CacheInv, RcTick
    PROVE  CacheInv'
  <1>1. StoreTyped /\ PartOf(rcCache) /\ Bounded /\ \A c \in Cursors : Lasts(c)
    BY DEF CacheInv
  <1>2. rcNow' = rcNow + 1 /\ UNCHANGED <<rcCache, rcCounter, rcStored>>
    BY DEF RcTick
  <1>3. StoreTyped' /\ Cursors' = Cursors
    BY <1>1, <1>2 DEF StoreTyped, Cursors
  <1>4. PartOf(rcCache)' /\ Bounded'
    BY <1>1, <1>2 DEF PartOf, Cursors, Bounded, Weighs, Weight
  <1>5. ASSUME NEW c \in Cursors PROVE Lasts(c)'
    <2>1. Lasts(c) /\ rcNow \in Nat /\ rcStored[c].created \in Nat
      BY <1>1 DEF StoreTyped, CacheEntries
    <2>2. Weighs(c .. rcCounter - 2)' = Weighs(c .. rcCounter - 2)
      BY <1>2 DEF Weighs, Weight
    <2> QED BY <2>1, <2>2, <1>2, ShapingAssumption DEF Lasts
  <1> QED BY <1>3, <1>4, <1>5 DEF CacheInv

(* Result cache: the readers                                                   *)

CachePages == [text : Seq(Nat), owner : KeyNames, from : Nat, to : Nat]
PagedPcs == {"paging", "read", "expired"}
ReaderPcs == {"idle", "inline", "paging", "read", "expired", "guessed"}
Readers == [pc : ReaderPcs, key : KeyNames, cursor : Int, offset : Nat, text : Seq(Nat),
            pages : Seq(CachePages), due : BOOLEAN, flag : BOOLEAN]

\* The pages so far, and where the next one starts.
PagesJoin(me) ==
    \A i \in 1 .. Len(me.pages) :
        /\ me.pages[i].text = me.text
        /\ me.pages[i].from = IF i = 1 THEN 0 ELSE me.pages[i - 1].to
        /\ me.pages[i].from < me.pages[i].to
        /\ me.pages[i].to \in Boundaries(me.text)
PageInv(me) ==
    /\ \A i \in 1 .. Len(me.text) : me.text[i] \in 1 .. DEFAULT_BUDGET_BYTES
    /\ PagesJoin(me)
    /\ me.offset = IF Len(me.pages) = 0 THEN 0 ELSE me.pages[Len(me.pages)].to
    /\ me.offset \in Boundaries(me.text)
    /\ me.pc = "paging" => me.offset < Bytes(me.text)
    /\ me.pc = "read" => me.offset = Bytes(me.text) /\ Len(me.pages) > 0
OwnPages(me) == \A i \in 1 .. Len(me.pages) : me.pages[i].owner = me.key
ReaderOk(me) == /\ me \in Readers /\ me.flag = me.due /\ OwnPages(me)
                /\ me.pc \in PagedPcs => PageInv(me)
Linked(me) == me.pc \in PagedPcs => me.cursor \in Cursors /\ rcStored[me.cursor].text = me.text

ChunkEnd(text, offset, limit) == floor_char_boundary(text, Min({Bytes(text), offset + limit}))

LEMMA FetchIs ==
    ASSUME CacheInv, NEW cursor, NEW key, NEW offset \in Nat, NEW limit \in Nat,
           NEW chunk, chunk = fetch(cursor, key, offset, limit), chunk # Gone
    PROVE  /\ cursor \in Cursors /\ chunk.owner = key
           /\ chunk.text = rcStored[cursor].text /\ chunk.text \in Seq(Nat)
           /\ chunk.from \in Nat /\ chunk.to \in Nat
           /\ offset < Bytes(chunk.text) => chunk.from = floor_char_boundary(chunk.text, offset)
           /\ offset < Bytes(chunk.text) => chunk.to = ChunkEnd(chunk.text, offset, limit)
           /\ offset < Bytes(chunk.text) =>
                IF chunk.to < Bytes(chunk.text) THEN chunk.has_more ELSE ~chunk.has_more
  <1> DEFINE map == sweep(rcCache)
  <1>1. StoreTyped /\ PartOf(rcCache)
    BY DEF CacheInv
  <1>2. PartOf(map)
    BY <1>1, SweepPart
  <1>s. /\ \A c \in DOMAIN map : c \in Cursors /\ map[c] = rcStored[c]
        /\ \A c \in Cursors : rcStored[c] \in CacheEntries
    BY <1>1, <1>2 DEF PartOf, StoreTyped
  <1> HIDE DEF map
  <1>4. cursor \in DOMAIN map /\ owned(map[cursor], key)
    BY DEF fetch, map
  <1> DEFINE text == map[cursor].text
             len == Bytes(text)
             end == floor_char_boundary(text, Min({len, offset + limit}))
             answer == [found |-> TRUE, owner |-> map[cursor].key, text |-> text,
                        from |-> IF offset >= len THEN offset ELSE floor_char_boundary(text, offset),
                        to |-> IF offset >= len THEN offset ELSE end,
                        has_more |-> offset < len /\ end < len]
  <1>5. chunk = answer
    BY <1>4 DEF fetch, map
  <1>6. cursor \in Cursors /\ text = rcStored[cursor].text /\ text \in Seq(Nat) /\ map[cursor].key = key
        /\ key \in KeyNames
    BY <1>4, <1>s DEF owned, CacheEntries
  <1>7. chunk.owner = map[cursor].key /\ chunk.text = text
    BY <1>5
  <1>8. /\ chunk.from = IF offset >= len THEN offset ELSE floor_char_boundary(text, offset)
        /\ chunk.to = IF offset >= len THEN offset ELSE end
        /\ chunk.has_more = (offset < len /\ end < len)
    BY <1>5
  <1> HIDE DEF text, answer
  <1>9. len \in Nat /\ Boundaries(text) \in SUBSET (0 .. len)
    BY <1>6, BoundariesBelow
  <1>10. floor_char_boundary(text, offset) \in Nat
    <2>1. floor_char_boundary(text, offset) \in Boundaries(text)
      BY <1>6, FloorIs
    <2> QED BY <2>1, <1>9
  <1>11. end \in Nat
    <2>1. {len, offset + limit} \in SUBSET Nat /\ {len, offset + limit} # {}
      BY <1>9
    <2>2. Min({len, offset + limit}) \in Nat
      BY <2>1, MinOf
    <2>3. end \in Boundaries(text)
      BY <1>6, <2>2, FloorIs
    <2> QED BY <2>3, <1>9
  <1>12. chunk.from \in Nat /\ chunk.to \in Nat
    BY <1>8, <1>10, <1>11
  <1>13. offset < len => /\ chunk.from = floor_char_boundary(text, offset) /\ chunk.to = end
                         /\ chunk.has_more = (end < len)
    BY <1>8, <1>9
  <1> QED BY <1>6, <1>7, <1>12, <1>13 DEF ChunkEnd

\* The next page joins the ones before it.
LEMMA PageJoins ==
    ASSUME NEW me, ReaderOk(me), me.pc = "paging", NEW owner, owner = me.key,
           NEW to \in Boundaries(me.text), me.offset < to, NEW pc,
           (pc = "paging" /\ to < Bytes(me.text)) \/ (pc = "read" /\ to = Bytes(me.text)),
           NEW page, page = [text |-> me.text, owner |-> owner, from |-> me.offset, to |-> to],
           NEW next, next.pages = Append(me.pages, page), next.offset = to, next.pc = pc,
           next.text = me.text, next.key = me.key, next.due = me.due, next.flag = me.flag,
           next \in Readers
    PROVE  ReaderOk(next)
  <1> DEFINE old == me.pages
             n == Len(old)
  <1>1. me \in Readers /\ PageInv(me) /\ OwnPages(me) /\ me.flag = me.due
    BY DEF ReaderOk, PagedPcs
  <1>2. /\ me.text \in Seq(Nat) /\ old \in Seq(CachePages) /\ me.offset \in Nat /\ me.key \in KeyNames
        /\ me.cursor \in Int /\ me.due \in BOOLEAN /\ me.flag \in BOOLEAN
    BY <1>1 DEF Readers
  <1>3. to \in Nat
    BY <1>2, BoundariesBelow
  <1>4. page \in CachePages
    BY <1>2, <1>3 DEF CachePages
  <1>5. /\ next.pages = Append(old, page) /\ next.offset = to /\ next.pc = pc /\ next.text = me.text
        /\ next.key = me.key /\ next.due = me.due /\ next.flag = me.flag /\ next \in Readers
    OBVIOUS
  <1>p. pc \in {"paging", "read"}
    OBVIOUS
  <1>v. page.text = me.text /\ page.owner = me.key /\ page.from = me.offset /\ page.to = to
    OBVIOUS
  <1>6. Append(old, page) \in Seq(CachePages)
    BY <1>2, <1>4
  <1>7. Len(Append(old, page)) = n + 1 /\ n \in Nat
    BY <1>2
  <1>8. Append(old, page)[n + 1] = page
    BY <1>2
  <1>9. \A i \in 1 .. n : Append(old, page)[i] = old[i]
    BY <1>2
  <1>11. OwnPages(next)
    <2> SUFFICES ASSUME NEW i \in 1 .. (n + 1) PROVE Append(old, page)[i].owner = me.key
      BY <1>5, <1>7 DEF OwnPages
    <2>1. CASE i = n + 1
      BY <2>1, <1>8, <1>v
    <2>2. CASE i \in 1 .. n
      BY <2>2, <1>1, <1>9 DEF OwnPages
    <2> QED BY <2>1, <2>2, <1>7
  <1>o. me.offset = IF n = 0 THEN 0 ELSE old[n].to
    BY <1>1 DEF PageInv
  <1>12. PagesJoin(next)
    <2> DEFINE p == Append(old, page)
    <2>0. PagesJoin(me)
      BY <1>1 DEF PageInv
    <2> SUFFICES ASSUME NEW i \in 1 .. (n + 1)
                 PROVE  /\ p[i].text = me.text
                        /\ p[i].from = IF i = 1 THEN 0 ELSE p[i - 1].to
                        /\ p[i].from < p[i].to
                        /\ p[i].to \in Boundaries(me.text)
      BY <1>5, <1>7 DEF PagesJoin
    <2>1. CASE i = n + 1
      <3>1. p[i] = page
        BY <2>1, <1>8
      <3>2. page.from = IF i = 1 THEN 0 ELSE p[i - 1].to
        <4>1. CASE n = 0
          BY <4>1, <2>1, <1>o, <1>v
        <4>2. CASE n # 0
          <5>1. n \in 1 .. n /\ i - 1 = n /\ i # 1
            BY <4>2, <2>1, <1>7
          <5>2. p[i - 1] = old[n]
            BY <5>1, <1>9
          <5> QED BY <5>1, <5>2, <4>2, <1>o, <1>v
        <4> QED BY <4>1, <4>2
      <3> QED BY <3>1, <3>2, <1>v
    <2>2. CASE i \in 1 .. n
      <3>1. p[i] = old[i]
        BY <2>2, <1>9
      <3>2. i # 1 => i - 1 \in 1 .. n
        BY <2>2, <1>7
      <3>3. i # 1 => p[i - 1] = old[i - 1]
        BY <3>2, <1>9
      <3>4. /\ old[i].text = me.text
            /\ old[i].from = IF i = 1 THEN 0 ELSE old[i - 1].to
            /\ old[i].from < old[i].to
            /\ old[i].to \in Boundaries(me.text)
        BY <2>0, <2>2 DEF PagesJoin
      <3> HIDE DEF p
      <3> QED BY <3>1, <3>3, <3>4
    <2> QED BY <2>1, <2>2, <1>7
  <1>13. PageInv(next)
    <2>1. next.offset = IF Len(next.pages) = 0 THEN 0 ELSE next.pages[Len(next.pages)].to
      BY <1>5, <1>7, <1>8, <1>v
    <2>2. Len(next.pages) > 0
      BY <1>5, <1>7
    <2>3. next.pc = "paging" => next.offset < Bytes(next.text)
      BY <1>5
    <2>4. next.pc = "read" => next.offset = Bytes(next.text)
      BY <1>5
    <2>5. \A i \in 1 .. Len(next.text) : next.text[i] \in 1 .. DEFAULT_BUDGET_BYTES
      BY <1>1, <1>5 DEF PageInv
    <2>6. next.offset \in Boundaries(next.text)
      BY <1>5
    <2> QED BY <2>1, <2>2, <2>3, <2>4, <2>5, <2>6, <1>12 DEF PageInv
  <1>14. next.pc \in PagedPcs
    BY <1>5, <1>p DEF PagedPcs
  <1>15. next.flag = next.due
    BY <1>1, <1>5
  <1> QED BY <1>5, <1>11, <1>13, <1>14, <1>15 DEF ReaderOk

LEMMA Rendered ==
    ASSUME NEW t \in Texts, NEW format
    PROVE  render(t, format) \in Seq(Nat)
           /\ \A i \in 1 .. Len(render(t, format)) : render(t, format)[i] \in 1 .. DEFAULT_BUDGET_BYTES
  <1> DEFINE T == 1 .. DEFAULT_BUDGET_BYTES
  <1>1. t.chars \in Seq(T) /\ 1 \in T /\ T \subseteq Nat
    BY ShapingAssumption
  <1> HIDE DEF T
  <1>2. <<1>> \in Seq(T)
    BY <1>1
  <1>3. <<1>> \o t.chars \in Seq(T)
    BY <1>1, <1>2
  <1>4. render(t, format) \in Seq(T)
    BY <1>1, <1>3 DEF render
  <1>5. PICK text : text = render(t, format)
    OBVIOUS
  <1>6. text \in Seq(T)
    BY <1>4, <1>5
  <1>7. \A i \in 1 .. Len(text) : text[i] \in T
    BY <1>6
  <1>8. text \in Seq(Nat)
    BY <1>1, <1>6, SeqMonotonic
  <1> QED BY <1>5, <1>7, <1>8 DEF T

\* A reader that has no page yet.
LEMMA FreshReader ==
    ASSUME NEW me \in Readers, me.offset = 0, me.pages = <<>>, me.flag = me.due,
           me.pc \in PagedPcs => /\ me.pc = "paging" /\ 0 < Bytes(me.text)
                                 /\ \A i \in 1 .. Len(me.text) : me.text[i] \in 1 .. DEFAULT_BUDGET_BYTES
    PROVE  ReaderOk(me)
  <1>1. Len(me.pages) = 0 /\ 1 .. 0 = {} /\ me.text \in Seq(Nat)
    BY DEF Readers
  <1>2. OwnPages(me) /\ PagesJoin(me)
    BY <1>1 DEF OwnPages, PagesJoin
  <1>3. 0 \in Boundaries(me.text)
    BY <1>1, BoundariesBelow
  <1>4. ASSUME me.pc \in PagedPcs PROVE PageInv(me)
    BY <1>1, <1>2, <1>3, <1>4 DEF PageInv
  <1> QED BY <1>2, <1>4 DEF ReaderOk

\* Its fields.
LEMMA ReaderFields ==
    ASSUME NEW pc \in ReaderPcs, NEW key \in KeyNames, NEW cursor \in Int, NEW offset \in Nat,
           NEW text \in Seq(Nat), NEW pages \in Seq(CachePages), NEW hit \in BOOLEAN, NEW flag \in BOOLEAN,
           NEW me, me = [pc |-> pc, key |-> key, cursor |-> cursor, offset |-> offset, text |-> text,
                         pages |-> pages, due |-> hit, flag |-> flag]
    PROVE  /\ me \in Readers /\ me.pc = pc /\ me.key = key /\ me.cursor = cursor /\ me.offset = offset
           /\ me.text = text /\ me.pages = pages /\ me.due = hit /\ me.flag = flag
  BY DEF Readers

\* The records that start from the idle one.
LEMMA RecordAt ==
    ASSUME NEW p, NEW k, NEW c, NEW o, NEW t, NEW g, NEW h, NEW f, NEW me,
           me = [pc |-> p, key |-> k, cursor |-> c, offset |-> o, text |-> t, pages |-> g, due |-> h, flag |-> f],
           NEW q
    PROVE  [me EXCEPT !.pc = q] = [pc |-> q, key |-> k, cursor |-> c, offset |-> o, text |-> t,
                                   pages |-> g, due |-> h, flag |-> f]
  OBVIOUS

LEMMA RecordShaped ==
    ASSUME NEW p, NEW k, NEW c, NEW o, NEW t, NEW g, NEW h, NEW f, NEW me,
           me = [pc |-> p, key |-> k, cursor |-> c, offset |-> o, text |-> t, pages |-> g, due |-> h, flag |-> f],
           NEW k2, NEW t2, NEW h2, NEW f2,
           NEW next, next = [me EXCEPT !.key = k2, !.text = t2, !.due = h2, !.flag = f2]
    PROVE  next = [pc |-> p, key |-> k2, cursor |-> c, offset |-> o, text |-> t2,
                   pages |-> g, due |-> h2, flag |-> f2]
  OBVIOUS

LEMMA RecordPaging ==
    ASSUME NEW p, NEW k, NEW c, NEW o, NEW t, NEW g, NEW h, NEW f, NEW me,
           me = [pc |-> p, key |-> k, cursor |-> c, offset |-> o, text |-> t, pages |-> g, due |-> h, flag |-> f],
           NEW q, NEW c2, NEW next, next = [me EXCEPT !.pc = q, !.cursor = c2]
    PROVE  next = [pc |-> q, key |-> k, cursor |-> c2, offset |-> o, text |-> t,
                   pages |-> g, due |-> h, flag |-> f]
  <1>1. PICK a : a = [me EXCEPT !.pc = q]
    OBVIOUS
  <1>2. a = [pc |-> q, key |-> k, cursor |-> c, offset |-> o, text |-> t,
             pages |-> g, due |-> h, flag |-> f]
    BY <1>1
  <1>3. [a EXCEPT !.cursor = c2] = [pc |-> q, key |-> k, cursor |-> c2, offset |-> o, text |-> t,
                                    pages |-> g, due |-> h, flag |-> f]
    BY <1>2
  <1> QED BY <1>1, <1>3, Zenon

LEMMA RecordGuessed ==
    ASSUME NEW p, NEW k, NEW c, NEW o, NEW t, NEW g, NEW h, NEW f, NEW me,
           me = [pc |-> p, key |-> k, cursor |-> c, offset |-> o, text |-> t, pages |-> g, due |-> h, flag |-> f],
           NEW q, NEW k2, NEW t2, NEW g2,
           NEW next, next = [me EXCEPT !.pc = q, !.key = k2, !.text = t2, !.pages = g2]
    PROVE  next = [pc |-> q, key |-> k2, cursor |-> c, offset |-> o, text |-> t2,
                   pages |-> g2, due |-> h, flag |-> f]
  <1>1. PICK a : a = [me EXCEPT !.pc = q]
    OBVIOUS
  <1>2. a = [pc |-> q, key |-> k, cursor |-> c, offset |-> o, text |-> t,
             pages |-> g, due |-> h, flag |-> f]
    BY <1>1
  <1>3. PICK b : b = [a EXCEPT !.key = k2]
    OBVIOUS
  <1>4. b = [pc |-> q, key |-> k2, cursor |-> c, offset |-> o, text |-> t,
             pages |-> g, due |-> h, flag |-> f]
    BY <1>2, <1>3
  <1>5. PICK d : d = [b EXCEPT !.text = t2]
    OBVIOUS
  <1>6. d = [pc |-> q, key |-> k2, cursor |-> c, offset |-> o, text |-> t2,
             pages |-> g, due |-> h, flag |-> f]
    BY <1>4, <1>5
  <1>7. [d EXCEPT !.pages = g2]
          = [pc |-> q, key |-> k2, cursor |-> c, offset |-> o, text |-> t2,
             pages |-> g2, due |-> h, flag |-> f]
    BY <1>6
  <1> QED BY <1>1, <1>3, <1>5, <1>7, Zenon

LEMMA IdleReaderIs ==
    \E none \in Int, no \in BOOLEAN :
        /\ no = FALSE
        /\ IdleReader = [pc |-> "idle", key |-> Unset, cursor |-> none, offset |-> 0, text |-> <<>>,
                         pages |-> <<>>, due |-> no, flag |-> no]
  <1>1. PICK none \in Int : none = -1
    OBVIOUS
  <1>2. IdleReader = [pc |-> "idle", key |-> Unset, cursor |-> none, offset |-> 0, text |-> <<>>,
                      pages |-> <<>>, due |-> FALSE, flag |-> FALSE]
    BY <1>1 DEF IdleReader
  <1> QED BY <1>2, Zenon

LEMMA IdleReaderOk ==
    ASSUME NEW pc \in {"idle", "inline"}
    PROVE  ReaderOk([IdleReader EXCEPT !.pc = pc]) /\ [IdleReader EXCEPT !.pc = pc].pc \notin PagedPcs
  <1>1. pc \in ReaderPcs /\ Unset \in KeyNames /\ <<>> \in Seq(Nat) /\ pc \notin PagedPcs
    BY DEF ReaderPcs, KeyNames, PagedPcs
  <1>2. PICK none \in Int, no \in BOOLEAN :
            IdleReader = [pc |-> "idle", key |-> Unset, cursor |-> none, offset |-> 0, text |-> <<>>,
                          pages |-> <<>>, due |-> no, flag |-> no]
    BY IdleReaderIs
  <1>3. PICK me : me = [IdleReader EXCEPT !.pc = pc]
    OBVIOUS
  <1>4. me = [pc |-> pc, key |-> Unset, cursor |-> none, offset |-> 0, text |-> <<>>,
              pages |-> <<>>, due |-> no, flag |-> no]
    BY <1>2, <1>3, RecordAt
  <1>5. ReaderOk(me) /\ me.pc = pc
    <2>1. 0 \in Nat /\ <<>> \in Seq(CachePages)
      OBVIOUS
    <2>z. PICK zero \in Nat : zero = 0
      OBVIOUS
    <2>2. PICK nil : nil = <<>>
      OBVIOUS
    <2>3. nil \in Seq(Nat) /\ nil \in Seq(CachePages)
      BY <1>1, <2>1, <2>2
    <2>4. PICK key \in KeyNames : key = Unset
      BY <1>1
    <2>5. me = [pc |-> pc, key |-> key, cursor |-> none, offset |-> zero, text |-> nil,
                pages |-> nil, due |-> no, flag |-> no]
      BY <1>4, <2>z, <2>2, <2>4, Zenon
    <2>6. me \in Readers /\ me.pc = pc /\ me.offset = zero /\ me.pages = nil /\ me.due = no /\ me.flag = no
      BY <1>1, <2>3, <2>5, ReaderFields
    <2>7. me.offset = 0 /\ me.pages = <<>> /\ me.flag = me.due
      BY <2>z, <2>2, <2>6
    <2> QED BY <1>1, <2>6, <2>7, FreshReader
  <1> QED BY <1>1, <1>3, <1>5

(* Result cache: the batches                                                   *)

BatchItems == [size : Nat, error : BOOLEAN]
BatchPcs == {"idle", "fitting", "given", "refused"}
LargestOut(b) ==
    \A i \in DOMAIN b.moved, j \in DOMAIN b.items \ DOMAIN b.moved : b.items[j].size <= b.items[i].size
Needed(b) ==
    DOMAIN b.moved # {} =>
        \E i \in DOMAIN b.moved : /\ \A j \in DOMAIN b.moved : b.moved[j] <= b.moved[i]
                                  /\ over_budget(b.items, DOMAIN b.moved \ {i})
BatchOk(b) ==
    /\ b = [pc |-> b.pc, key |-> b.key, items |-> b.items, moved |-> b.moved]
    /\ b.pc \in BatchPcs /\ b.key \in KeyNames /\ b.items \in Seq(BatchItems)
    /\ DOMAIN b.moved \in SUBSET DOMAIN b.items
    /\ LargestOut(b) /\ Needed(b)
    /\ b.pc = "given" => ~over_budget(b.items, DOMAIN b.moved)
    /\ b.pc = "refused" => over_budget(b.items, DOMAIN b.items)
BatchLinked(b) ==
    \A i \in DOMAIN b.moved : /\ b.moved[i] \in Cursors
                              /\ rcStored[b.moved[i]].text = json(b.items[i])
                              /\ rcStored[b.moved[i]].key = b.key

LEMMA LargestIs ==
    ASSUME NEW items \in Seq(BatchItems), NEW in \in SUBSET DOMAIN items, in # {}
    PROVE  largest(items, in) \in in /\ \A j \in in : items[j].size <= items[largest(items, in)].size
  <1> DEFINE S == 1 .. Len(items)
             w == [i \in S |-> items[i].size]
             sizes == {w[i] : i \in in}
             all == SumFunctionOnSet(w, S)
             T == {i \in in : \A j \in in : items[j].size <= items[i].size}
  <1>1. Len(items) \in Nat /\ in \in SUBSET S /\ \A i \in S : items[i].size \in Nat
    <2>1. Len(items) \in Nat /\ DOMAIN items = S /\ \A i \in S : items[i] \in BatchItems
      OBVIOUS
    <2> QED BY <2>1 DEF BatchItems
  <1>f. IsFiniteSet(S)
    <2>1. 1 \in Int /\ Len(items) \in Int
      BY <1>1
    <2> QED BY <2>1, FS_Interval
  <1>2. w \in [S -> Nat] /\ \A i \in S : w[i] = items[i].size
    BY <1>1
  <1>s. S \in SUBSET S /\ \A i \in S : S \ {i} \in SUBSET S
    OBVIOUS
  <1>w. largest(items, in) = Max(T)
    BY DEF largest
  <1>i. \A i \in S : i \in 0 .. Len(items)
    BY <1>1
  <1> HIDE DEF S, w
  <1>3. all \in Nat
    BY <1>f, <1>2, <1>s, SumSteps
  <1>4. ASSUME NEW i \in S PROVE w[i] \in 0 .. all
    <2>1. SumFunctionOnSet(w, S) = w[i] + SumFunctionOnSet(w, S \ {i})
      BY <1>f, <1>2, <1>s, SumRemove
    <2>2. SumFunctionOnSet(w, S \ {i}) \in Nat
      BY <1>f, <1>2, <1>s, SumSteps
    <2>3. w[i] \in Nat
      BY <1>2
    <2> QED BY <2>1, <2>2, <2>3, <1>3
  <1>5. sizes \in SUBSET (0 .. all) /\ sizes # {}
    BY <1>1, <1>4
  <1> HIDE DEF all
  <1>6. PICK m \in sizes : \A x \in sizes : x <= m
    <2> HIDE DEF sizes
    <2> QED BY <1>3, <1>5, MaxOf
  <1>7. PICK i \in in : m = w[i]
    BY <1>6
  <1>8. i \in T
    <2>1. \A j \in in : w[j] <= w[i]
      BY <1>6, <1>7
    <2> QED BY <2>1, <1>1, <1>2
  <1>9. T \in SUBSET (0 .. Len(items)) /\ T # {}
    BY <1>8, <1>1, <1>i
  <1>t. \A k \in T : k \in in /\ \A j \in in : items[j].size <= items[k].size
    OBVIOUS
  <1> HIDE DEF T
  <1>10. Max(T) \in T
    BY <1>1, <1>9, MaxOf
  <1> QED BY <1>10, <1>t, <1>w

\* One more item i is out, under the new cursor c.
Below(moved, c) == \A j \in DOMAIN moved : moved[j] \in Nat /\ moved[j] < c
OneMoreOut(b, i, c, now) ==
    /\ i \in DOMAIN b.items /\ DOMAIN now = DOMAIN b.moved \cup {i} /\ now[i] = c
    /\ \A j \in DOMAIN b.moved : j # i /\ now[j] = b.moved[j]

LEMMA ItemMoved ==
    ASSUME NEW b, BatchOk(b), b.pc = "fitting", over_budget(b.items, DOMAIN b.moved),
           NEW c \in Nat, Below(b.moved, c),
           NEW left, left = DOMAIN b.items \ DOMAIN b.moved, left # {},
           NEW i, i = largest(b.items, left), NEW now, now = Put(b.moved, i, c),
           NEW next, next = [pc |-> b.pc, key |-> b.key, items |-> b.items, moved |-> now]
    PROVE  BatchOk(next) /\ OneMoreOut(b, i, c, now)
  <1> DEFINE out == DOMAIN b.moved
  <1>1. b.items \in Seq(BatchItems) /\ out \in SUBSET DOMAIN b.items /\ LargestOut(b)
        /\ b = [pc |-> b.pc, key |-> b.key, items |-> b.items, moved |-> b.moved] /\ b.key \in KeyNames
    BY DEF BatchOk
  <1>2. i \in left /\ \A j \in left : b.items[j].size <= b.items[i].size
    <2>1. left \in SUBSET DOMAIN b.items
      OBVIOUS
    <2> QED BY <1>1, <2>1, LargestIs
  <1>3. i \in DOMAIN b.items /\ i \notin out
    BY <1>2
  <1>4. DOMAIN now = out \cup {i} /\ now[i] = c /\ \A j \in out : j # i /\ now[j] = b.moved[j]
    BY <1>3 DEF Put
  <1>5. next = [pc |-> b.pc, key |-> b.key, items |-> b.items, moved |-> now]
    OBVIOUS
  <1>6. next.pc = b.pc /\ next.key = b.key /\ next.items = b.items /\ next.moved = now
    BY <1>5
  <1>7. LargestOut(next)
    <2> SUFFICES ASSUME NEW k \in out \cup {i}, NEW j \in DOMAIN b.items, j \notin out, j # i
                 PROVE  b.items[j].size <= b.items[k].size
      BY <1>4, <1>6 DEF LargestOut
    <2>1. CASE k = i
      BY <2>1, <1>2
    <2>2. CASE k \in out
      BY <2>2, <1>1 DEF LargestOut
    <2> QED BY <2>1, <2>2
  <1>8. Needed(next)
    <2>1. \A j \in DOMAIN now : now[j] <= now[i]
      BY <1>4 DEF Below
    <2>2. DOMAIN now \ {i} = out
      BY <1>3, <1>4
    <2>3. i \in DOMAIN now /\ over_budget(b.items, DOMAIN now \ {i})
      BY <1>4, <2>2
    <2> QED BY <2>1, <2>3, <1>6 DEF Needed
  <1>9. DOMAIN next.moved \in SUBSET DOMAIN next.items
    BY <1>1, <1>3, <1>4, <1>6
  <1>10. next.pc = "fitting" /\ next.pc \in BatchPcs
    BY <1>6 DEF BatchPcs
  <1>11. BatchOk(next)
    BY <1>1, <1>5, <1>6, <1>7, <1>8, <1>9, <1>10 DEF BatchOk
  <1> QED BY <1>3, <1>4, <1>11 DEF OneMoreOut

(* Result cache: the invariant and its steps                                   *)

ReadersInv ==
    /\ reader \in [CallReaders -> Readers]
    /\ \A r \in CallReaders : ReaderOk(reader[r]) /\ Linked(reader[r])
BatchesInv ==
    /\ batch = [r \in CallReaders |-> batch[r]]
    /\ \A r \in CallReaders : BatchOk(batch[r]) /\ BatchLinked(batch[r])
RcInv == CacheInv /\ ReadersInv /\ BatchesInv

\* Entries are stored under new cursors only.
Extends == \A c \in Cursors : c \in Cursors' /\ rcStored'[c] = rcStored[c]

LEMMA SameExtends ==
    ASSUME UNCHANGED <<rcCounter, rcStored>>
    PROVE  Extends
  BY DEF Extends, Cursors

LEMMA ReadersStay ==
    ASSUME RcInv, Extends, reader' = reader
    PROVE  ReadersInv'
  BY DEF RcInv, ReadersInv, Extends, Linked

LEMMA BatchesStay ==
    ASSUME RcInv, Extends, batch' = batch
    PROVE  BatchesInv'
  BY DEF RcInv, BatchesInv, Extends, BatchLinked

LEMMA ReaderChanges ==
    ASSUME RcInv, Extends, NEW r \in CallReaders, NEW me, ReaderOk(me), Linked(me)',
           reader' = [reader EXCEPT ![r] = me]
    PROVE  ReadersInv'
  <1>1. /\ reader \in [CallReaders -> Readers]
        /\ \A s \in CallReaders : ReaderOk(reader[s]) /\ Linked(reader[s])
    BY DEF RcInv, ReadersInv
  <1>2. reader' \in [CallReaders -> Readers]
    BY <1>1 DEF ReaderOk
  <1>3. ASSUME NEW s \in CallReaders PROVE ReaderOk(reader'[s]) /\ Linked(reader[s])'
    <2>1. CASE s = r
      BY <2>1, <1>1
    <2>2. CASE s # r
      <3>1. reader'[s] = reader[s]
        BY <2>2, <1>1
      <3>2. Linked(reader[s])'
        BY <3>1, <1>1 DEF Linked, Extends
      <3> QED BY <3>1, <3>2, <1>1
    <2> QED BY <2>1, <2>2
  <1> QED BY <1>2, <1>3 DEF ReadersInv

LEMMA BatchChanges ==
    ASSUME RcInv, Extends, NEW r \in CallReaders, NEW b, BatchOk(b), BatchLinked(b)',
           batch' = [batch EXCEPT ![r] = b]
    PROVE  BatchesInv'
  <1>1. /\ batch = [s \in CallReaders |-> batch[s]]
        /\ \A s \in CallReaders : BatchOk(batch[s]) /\ BatchLinked(batch[s])
    BY DEF RcInv, BatchesInv
  <1>2. /\ batch' = [s \in CallReaders |-> batch'[s]]
        /\ batch'[r] = b /\ \A s \in CallReaders : s # r => batch'[s] = batch[s]
    BY <1>1
  <1>3. ASSUME NEW s \in CallReaders PROVE BatchOk(batch'[s]) /\ BatchLinked(batch[s])'
    <2>1. CASE s = r
      BY <2>1, <1>2
    <2>2. CASE s # r
      <3>1. batch'[s] = batch[s]
        BY <2>2, <1>2
      <3>2. BatchLinked(batch[s])'
        BY <3>1, <1>1 DEF BatchLinked, Extends
      <3> QED BY <3>1, <3>2, <1>1
    <2> QED BY <2>1, <2>2
  <1> QED BY <1>2, <1>3 DEF BatchesInv

LEMMA StoreExtends ==
    ASSUME CacheInv, NEW text \in Seq(Nat), NEW key \in KeyNames, store(text, key), rcNow' = rcNow
    PROVE  /\ CacheInv' /\ Extends /\ rcCounter \in Cursors' /\ rcCounter \in Nat
           /\ rcStored'[rcCounter].text = text /\ rcStored'[rcCounter].key = key
  <1>1. StoreTyped
    BY DEF CacheInv
  <1>2. /\ Cursors' = Cursors \cup {rcCounter}
        /\ rcStored'[rcCounter] = [text |-> text, created |-> rcNow, key |-> key]
        /\ \A c \in Cursors : rcStored'[c] = rcStored[c]
    BY <1>1, StoredMore
  <1>3. CacheInv'
    BY StoreKeeps
  <1> QED BY <1>1, <1>2, <1>3 DEF Extends, StoreTyped

LEMMA AnswerStep ==
    ASSUME RcInv, NEW r \in CallReaders, apply_defense_and_shaping(r)
    PROVE  RcInv'
  <1>0. CacheInv
    BY DEF RcInv
  <1>1. rcNow' = rcNow /\ batch' = batch
    BY DEF apply_defense_and_shaping
  <1>2. PICK t \in Texts, key \in RcKeys, budget \in Budgets, enabled \in BOOLEAN :
          \E format \in {resolve_format(format_from_accept(accept), wish, Unset) :
                           accept \in SUBSET Formats, wish \in {Unset, "yaml"}} :
            IF t.ok THEN shape_result(r, t, key, format, budget, enabled)
            ELSE /\ reader' = [reader EXCEPT ![r] = [IdleReader EXCEPT !.pc = "inline"]]
                 /\ UNCHANGED <<rcCache, rcCounter, rcStored>>
    BY DEF apply_defense_and_shaping
  <1>3. PICK format :
            IF t.ok THEN shape_result(r, t, key, format, budget, enabled)
            ELSE /\ reader' = [reader EXCEPT ![r] = [IdleReader EXCEPT !.pc = "inline"]]
                 /\ UNCHANGED <<rcCache, rcCounter, rcStored>>
    BY <1>2
  <1>4. CASE ~t.ok
    <2>1. /\ reader' = [reader EXCEPT ![r] = [IdleReader EXCEPT !.pc = "inline"]]
          /\ UNCHANGED <<rcCache, rcCounter, rcStored>>
      BY <1>3, <1>4
    <2>2. PICK me : me = [IdleReader EXCEPT !.pc = "inline"]
      OBVIOUS
    <2>3. ReaderOk(me) /\ me.pc \notin PagedPcs
      <3>1. "inline" \in {"idle", "inline"}
        OBVIOUS
      <3> QED BY <2>2, <3>1, IdleReaderOk
    <2>4. Linked(me)'
      BY <2>3 DEF Linked
    <2>5. Extends
      BY <2>1, SameExtends
    <2>6. ReadersInv' /\ BatchesInv'
      BY <1>1, <2>1, <2>2, <2>3, <2>4, <2>5, ReaderChanges, BatchesStay
    <2>7. CacheInv'
      BY <1>0, <1>1, <2>1 DEF CacheInv, StoreTyped, PartOf, Bounded, Lasts, Cursors, Weighs, Weight
    <2> QED BY <2>6, <2>7 DEF RcInv
  <1>5. CASE t.ok
    <2> DEFINE text == render(t, format)
               hit == enabled /\ t.hit > 0
               flag == scan_defense(t.chars, t.hit, enabled)
               head == [IdleReader EXCEPT !.key = key, !.text = text, !.due = hit, !.flag = hit]
               inline == [head EXCEPT !.pc = "inline"]
               paging == [head EXCEPT !.pc = "paging", !.cursor = rcCounter]
    <2>1. shape_result(r, t, key, format, budget, enabled)
      BY <1>3, <1>5
    <2>s. flag = hit
      <3>1. t.hit \in 0 .. Len(t.chars) /\ t.chars \in Seq(1 .. DEFAULT_BUDGET_BYTES)
        BY ShapingAssumption
      <3>2. Len(t.chars) \in Nat
        BY <3>1
      <3>3. t.hit \in 1 .. Len(t.chars) <=> t.hit > 0
        BY <3>1, <3>2
      <3> QED BY <3>3 DEF scan_defense, scan_content
    <2>2. \/ /\ Bytes(text) <= budget
             /\ reader' = [reader EXCEPT ![r] = inline] /\ UNCHANGED <<rcCache, rcCounter, rcStored>>
          \/ /\ ~(Bytes(text) <= budget)
             /\ reader' = [reader EXCEPT ![r] = paging] /\ store(text, key)
      BY <2>1, <2>s DEF shape_result
    <2>3. /\ text \in Seq(Nat)
          /\ \A i \in 1 .. Len(text) : text[i] \in 1 .. DEFAULT_BUDGET_BYTES
      BY Rendered
    <2>4. budget \in Nat /\ hit \in BOOLEAN /\ key \in KeyNames
      BY ShapingAssumption DEF KeyNames
    <2>5. PICK none \in Int, no \in BOOLEAN :
            IdleReader = [pc |-> "idle", key |-> Unset, cursor |-> none, offset |-> 0, text |-> <<>>,
                          pages |-> <<>>, due |-> no, flag |-> no]
      BY IdleReaderIs
    <2> HIDE DEF text, hit, flag
    <2>n. 0 \in Nat /\ <<>> \in Seq(CachePages)
      OBVIOUS
    <2>z. PICK zero \in Nat, nil \in Seq(CachePages) : zero = 0 /\ nil = <<>>
      BY <2>n
    <2>i. /\ inline = [pc |-> "inline", key |-> key, cursor |-> none, offset |-> 0, text |-> text,
                       pages |-> <<>>, due |-> hit, flag |-> hit]
          /\ paging = [pc |-> "paging", key |-> key, cursor |-> rcCounter, offset |-> 0, text |-> text,
                       pages |-> <<>>, due |-> hit, flag |-> hit]
      <3>1. PICK h : h = hit
        OBVIOUS
      <3>2. PICK c : c = rcCounter
        OBVIOUS
      <3>3. PICK x : x = text
        OBVIOUS
      <3>4. PICK idle : idle = IdleReader
        OBVIOUS
      <3>5. PICK shaped : shaped = [idle EXCEPT !.key = key, !.text = x, !.due = h, !.flag = h]
        OBVIOUS
      <3>6. shaped = [pc |-> "idle", key |-> key, cursor |-> none, offset |-> 0, text |-> x,
                      pages |-> <<>>, due |-> h, flag |-> h]
        BY <2>5, <3>4, <3>5, RecordShaped
      <3>7. [shaped EXCEPT !.pc = "inline"]
              = [pc |-> "inline", key |-> key, cursor |-> none, offset |-> 0, text |-> x,
                 pages |-> <<>>, due |-> h, flag |-> h]
        BY <3>6, RecordAt
      <3>8. [shaped EXCEPT !.pc = "paging", !.cursor = c]
              = [pc |-> "paging", key |-> key, cursor |-> c, offset |-> 0, text |-> x,
                 pages |-> <<>>, due |-> h, flag |-> h]
        <4>1. PICK o : o = 0
          OBVIOUS
        <4>2. PICK e : e = <<>>
          OBVIOUS
        <4>3. shaped = [pc |-> "idle", key |-> key, cursor |-> none, offset |-> o, text |-> x,
                        pages |-> e, due |-> h, flag |-> h]
          BY <3>6, <4>1, <4>2, Zenon
        <4>4. PICK next : next = [shaped EXCEPT !.pc = "paging", !.cursor = c]
          OBVIOUS
        <4>5. next = [pc |-> "paging", key |-> key, cursor |-> c, offset |-> o, text |-> x,
                      pages |-> e, due |-> h, flag |-> h]
          BY <4>3, <4>4, RecordPaging
        <4> QED BY <4>1, <4>2, <4>4, <4>5, Zenon
      <3> QED BY <3>1, <3>2, <3>3, <3>4, <3>5, <3>7, <3>8, Zenon
    <2> HIDE DEF inline, paging, head
    <2>r. rcCounter \in Nat
      BY <1>0 DEF CacheInv, StoreTyped
    <2>6. inline = [pc |-> "inline", key |-> key, cursor |-> none, offset |-> zero, text |-> text,
                    pages |-> nil, due |-> hit, flag |-> hit]
      BY <2>i, <2>z, Zenon
    <2>7. paging = [pc |-> "paging", key |-> key, cursor |-> rcCounter, offset |-> zero, text |-> text,
                    pages |-> nil, due |-> hit, flag |-> hit]
      BY <2>i, <2>z, Zenon
    <2>p. "inline" \in ReaderPcs /\ "paging" \in ReaderPcs /\ "inline" \notin PagedPcs /\ rcCounter \in Int
      BY <2>r DEF ReaderPcs, PagedPcs
    <2>8. CASE /\ Bytes(text) <= budget
               /\ reader' = [reader EXCEPT ![r] = inline] /\ UNCHANGED <<rcCache, rcCounter, rcStored>>
      <3>1. /\ inline \in Readers /\ inline.pc = "inline" /\ inline.offset = zero /\ inline.pages = nil
            /\ inline.due = hit /\ inline.flag = hit
        BY <2>3, <2>4, <2>6, <2>p, ReaderFields
      <3>2. inline.offset = 0 /\ inline.pages = <<>> /\ inline.flag = inline.due /\ inline.pc \notin PagedPcs
        BY <3>1, <2>z, <2>p
      <3>3. ReaderOk(inline)
        BY <3>1, <3>2, FreshReader
      <3>4. PICK me : me = inline
        OBVIOUS
      <3>5. Linked(me)'
        BY <3>2, <3>4 DEF Linked
      <3>6. Extends
        BY <2>8, SameExtends
      <3>7. ReadersInv' /\ BatchesInv'
        BY <1>1, <2>8, <3>3, <3>4, <3>5, <3>6, ReaderChanges, BatchesStay
      <3>8. CacheInv'
        BY <1>0, <1>1, <2>8 DEF CacheInv, StoreTyped, PartOf, Bounded, Lasts, Cursors, Weighs, Weight
      <3> QED BY <3>7, <3>8 DEF RcInv
    <2>9. CASE /\ ~(Bytes(text) <= budget)
               /\ reader' = [reader EXCEPT ![r] = paging] /\ store(text, key)
      <3>1. /\ paging \in Readers /\ paging.pc = "paging" /\ paging.offset = zero /\ paging.pages = nil
            /\ paging.due = hit /\ paging.flag = hit /\ paging.text = text /\ paging.cursor = rcCounter
        BY <2>3, <2>4, <2>7, <2>p, ReaderFields
      <3>2. paging.offset = 0 /\ paging.pages = <<>> /\ paging.flag = paging.due
        BY <3>1, <2>z
      <3>b. 0 < Bytes(text)
        <4>1. Bytes(text) \in Nat
          BY <2>3, TextSums
        <4> QED BY <4>1, <2>9, <2>4
      <3>3. ReaderOk(paging)
        <4>1. paging.pc = "paging" /\ 0 < Bytes(paging.text)
              /\ \A i \in 1 .. Len(paging.text) : paging.text[i] \in 1 .. DEFAULT_BUDGET_BYTES
          BY <3>1, <3>b, <2>3
        <4> QED BY <4>1, <3>1, <3>2, FreshReader
      <3>4. /\ CacheInv' /\ Extends /\ rcCounter \in Cursors'
            /\ rcStored'[rcCounter].text = text
        BY <1>0, <1>1, <2>3, <2>4, <2>9, StoreExtends
      <3>5. PICK me : me = paging
        OBVIOUS
      <3>6. Linked(me)'
        BY <3>1, <3>4, <3>5 DEF Linked
      <3>7. ReadersInv' /\ BatchesInv'
        BY <1>1, <2>9, <3>3, <3>4, <3>5, <3>6, ReaderChanges, BatchesStay
      <3> QED BY <3>4, <3>7 DEF RcInv
    <2> QED BY <2>2, <2>8, <2>9
  <1> QED BY <1>4, <1>5

LEMMA FetchStep ==
    ASSUME RcInv, NEW r \in CallReaders, fetch_result_meta_tool(r)
    PROVE  RcInv'
  <1>0. CacheInv /\ reader \in [CallReaders -> Readers]
    BY DEF RcInv, ReadersInv
  <1>1. PICK me : me = reader[r]
    OBVIOUS
  <1>2. PICK chunk : chunk = fetch(me.cursor, me.key, me.offset, DEFAULT_BUDGET_BYTES)
    OBVIOUS
  <1> DEFINE page == [text |-> chunk.text, owner |-> chunk.owner, from |-> chunk.from, to |-> chunk.to]
             more == [me EXCEPT !.pages = Append(@, page), !.offset = next_offset(chunk, @),
                                !.pc = IF chunk.has_more THEN @ ELSE "read"]
             gone == [me EXCEPT !.pc = "expired"]
  <1>3. me.pc = "paging" /\ reader' = [reader EXCEPT ![r] = IF chunk.found THEN more ELSE gone]
    BY <1>1, <1>2 DEF fetch_result_meta_tool
  <1>4. rcCache' = sweep(rcCache) /\ UNCHANGED <<rcCounter, rcNow, batch, rcStored>>
    BY DEF fetch_result_meta_tool
  <1>5. CacheInv' /\ Extends /\ Cursors' = Cursors
    BY <1>0, <1>4, SweepKeeps, SameExtends DEF Cursors
  <1>6. BatchesInv'
    BY <1>4, <1>5, BatchesStay
  <1>7. ReaderOk(me) /\ Linked(me) /\ me.pc \in PagedPcs /\ PageInv(me) /\ me \in Readers
    BY <1>1, <1>3 DEF RcInv, ReadersInv, ReaderOk, PagedPcs
  <1>8. /\ me.cursor \in Cursors /\ rcStored[me.cursor].text = me.text
        /\ me.offset \in Nat /\ me.text \in Seq(Nat)
    BY <1>7 DEF Linked, Readers
  <1>9. CASE chunk.found
    <2> DEFINE B == DEFAULT_BUDGET_BYTES
               end == ChunkEnd(me.text, me.offset, B)
    <2>b. B \in Nat
      BY ShapingAssumption
    <2>1. /\ me.offset \in Boundaries(me.text) /\ me.offset < Bytes(me.text)
          /\ \A i \in 1 .. Len(me.text) : me.text[i] \in 1 .. B
      BY <1>3, <1>7 DEF PageInv
    <2>2. /\ chunk.owner = me.key /\ chunk.text = rcStored[me.cursor].text
          /\ me.offset < Bytes(chunk.text) => chunk.from = floor_char_boundary(chunk.text, me.offset)
          /\ me.offset < Bytes(chunk.text) => chunk.to = ChunkEnd(chunk.text, me.offset, B)
          /\ me.offset < Bytes(chunk.text) =>
               IF chunk.to < Bytes(chunk.text) THEN chunk.has_more ELSE ~chunk.has_more
      <3>1. chunk # Gone
        BY <1>9 DEF Gone
      <3> QED BY <1>0, <1>2, <1>8, <2>b, <3>1, FetchIs
    <2>3. /\ chunk.text = me.text /\ chunk.from = floor_char_boundary(me.text, me.offset)
          /\ chunk.to = end /\ IF end < Bytes(me.text) THEN chunk.has_more ELSE ~chunk.has_more
      BY <1>8, <2>1, <2>2
    <2>4. PICK to : to = end
      OBVIOUS
    <2>5. /\ floor_char_boundary(me.text, me.offset) = me.offset
          /\ to \in Boundaries(me.text) /\ me.offset < to /\ to <= Bytes(me.text) /\ to \in Nat
      <3>1. to = floor_char_boundary(me.text, Min({Bytes(me.text), me.offset + B}))
        BY <2>4 DEF ChunkEnd
      <3> QED BY <1>8, <2>b, <2>1, <3>1, PageAdvances
    <2> HIDE DEF end
    <2>6. chunk.from = me.offset /\ chunk.to = to /\ next_offset(chunk, me.offset) = to
      BY <2>3, <2>4, <2>5, <1>8 DEF next_offset
    <2>7. PICK pc : pc = IF chunk.has_more THEN me.pc ELSE "read"
      OBVIOUS
    <2>8. (pc = "paging" /\ to < Bytes(me.text)) \/ (pc = "read" /\ to = Bytes(me.text))
      <3>1. Bytes(me.text) \in Nat
        BY <1>8, TextSums
      <3>2. CASE to < Bytes(me.text)
        <4>1. chunk.has_more
          BY <3>2, <2>3, <2>4
        <4>2. pc = "paging"
          BY <4>1, <2>7, <1>3
        <4> QED BY <4>2, <3>2
      <3>3. CASE ~(to < Bytes(me.text))
        <4>1. to = Bytes(me.text)
          BY <3>1, <3>3, <2>5
        <4>2. pc = "read"
          BY <3>3, <2>3, <2>4, <2>7
        <4> QED BY <4>1, <4>2
      <3> QED BY <3>2, <3>3
    <2>9. PICK p : p = [text |-> me.text, owner |-> me.key, from |-> me.offset, to |-> to]
      OBVIOUS
    <2>10. PICK next : next = [me EXCEPT !.pages = Append(me.pages, p), !.offset = to, !.pc = pc]
      OBVIOUS
    <2>m. more = next
      <3>1. page = p
        BY <2>2, <2>3, <2>6, <2>9
      <3> QED BY <2>6, <2>7, <2>10, <3>1, Zenon
    <2>11. ReaderOk(next) /\ next.text = me.text /\ next.cursor = me.cursor
      <3>1. PICK owner : owner = me.key
        OBVIOUS
      <3>2. p = [text |-> me.text, owner |-> owner, from |-> me.offset, to |-> to]
        BY <2>9, <3>1
      <3>3. p \in CachePages /\ pc \in ReaderPcs
        BY <1>7, <1>8, <2>5, <2>8, <2>9 DEF CachePages, Readers, ReaderPcs
      <3>4. PICK pages : pages = Append(me.pages, p)
        OBVIOUS
      <3>5. pages \in Seq(CachePages)
        BY <1>7, <3>3, <3>4 DEF Readers
      <3>6. next = [me EXCEPT !.pages = pages, !.offset = to, !.pc = pc]
        BY <2>10, <3>4
      <3>7. /\ next \in Readers /\ next.pages = pages /\ next.offset = to /\ next.pc = pc
            /\ next.text = me.text /\ next.key = me.key /\ next.due = me.due /\ next.flag = me.flag
            /\ next.cursor = me.cursor
        BY <1>7, <2>5, <3>3, <3>5, <3>6 DEF Readers
      <3>8. ReaderOk(next)
        BY <1>3, <1>7, <2>5, <2>8, <3>1, <3>2, <3>4, <3>7, PageJoins
      <3> QED BY <3>7, <3>8
    <2>12. Linked(next)'
      BY <1>4, <1>5, <1>8, <2>11 DEF Linked
    <2>13. reader' = [reader EXCEPT ![r] = next]
      BY <1>3, <1>9, <2>m
    <2>14. ReadersInv'
      BY <1>5, <2>11, <2>12, <2>13, ReaderChanges
    <2> QED BY <1>5, <1>6, <2>14 DEF RcInv
  <1>10. CASE ~chunk.found
    <2>1. PICK next : next = gone
      OBVIOUS
    <2>e. "expired" \in ReaderPcs
      BY DEF ReaderPcs
    <2>2. /\ next \in Readers /\ next.pc = "expired" /\ next.text = me.text /\ next.cursor = me.cursor
          /\ next.pages = me.pages /\ next.offset = me.offset /\ next.key = me.key
          /\ next.due = me.due /\ next.flag = me.flag
      BY <1>7, <2>1, <2>e DEF Readers
    <2>3. OwnPages(next) /\ next.flag = next.due
      BY <1>7, <2>2 DEF ReaderOk, OwnPages
    <2>4. PageInv(next)
      BY <1>7, <2>2 DEF PageInv, PagesJoin
    <2>5. ReaderOk(next)
      BY <2>2, <2>3, <2>4 DEF ReaderOk
    <2>6. Linked(next)'
      BY <1>4, <1>5, <1>8, <2>2 DEF Linked
    <2>7. reader' = [reader EXCEPT ![r] = next]
      BY <1>3, <1>10, <2>1
    <2>8. ReadersInv'
      BY <1>5, <2>5, <2>6, <2>7, ReaderChanges
    <2> QED BY <1>5, <1>6, <2>8 DEF RcInv
  <1> QED BY <1>9, <1>10

LEMMA GuessStep ==
    ASSUME RcInv, NEW r \in CallReaders, fetch_guessed(r)
    PROVE  RcInv'
  <1>0. CacheInv
    BY DEF RcInv
  <1>1. PICK key \in RcKeys, cursor \in 0 .. rcCounter - 1 :
          LET chunk == fetch(cursor, key, 0, DEFAULT_BUDGET_BYTES)
          IN  reader' = [reader EXCEPT ![r] =
                [IdleReader EXCEPT !.pc = "guessed", !.key = key, !.text = chunk.text,
                    !.pages = IF chunk.found THEN <<[text |-> chunk.text, owner |-> chunk.owner,
                                                     from |-> chunk.from, to |-> chunk.to]>> ELSE <<>>]]
    BY DEF fetch_guessed
  <1>2. PICK chunk : chunk = fetch(cursor, key, 0, DEFAULT_BUDGET_BYTES)
    OBVIOUS
  <1> DEFINE page == [text |-> chunk.text, owner |-> chunk.owner, from |-> chunk.from, to |-> chunk.to]
  <1>3. PICK pages : pages = IF chunk.found THEN <<page>> ELSE <<>>
    OBVIOUS
  <1>4. PICK me : me = [IdleReader EXCEPT !.pc = "guessed", !.key = key, !.text = chunk.text, !.pages = pages]
    OBVIOUS
  <1>5. reader' = [reader EXCEPT ![r] = me]
    BY <1>1, <1>2, <1>3, <1>4
  <1>6. rcCache' = sweep(rcCache) /\ UNCHANGED <<rcCounter, rcNow, batch, rcStored>>
    BY DEF fetch_guessed
  <1>7. CacheInv' /\ Extends
    BY <1>0, <1>6, SweepKeeps, SameExtends
  <1>8. BatchesInv'
    BY <1>6, <1>7, BatchesStay
  <1>k. key \in KeyNames
    BY DEF KeyNames
  <1>9. chunk.text \in Seq(Nat) /\ pages \in Seq(CachePages) /\ \A i \in 1 .. Len(pages) : pages[i].owner = key
    <2>1. CASE chunk.found
      <3>1. DEFAULT_BUDGET_BYTES \in Nat /\ 0 \in Nat
        BY ShapingAssumption
      <3>2. chunk.owner = key /\ chunk.text \in Seq(Nat) /\ chunk.from \in Nat /\ chunk.to \in Nat
        <4>1. chunk # Gone
          BY <2>1 DEF Gone
        <4> QED BY <1>0, <1>2, <3>1, <4>1, FetchIs
      <3>3. page \in CachePages /\ page.owner = key
        BY <1>k, <3>2 DEF CachePages
      <3> HIDE DEF page
      <3>4. pages = <<page>>
        BY <1>3, <2>1
      <3>5. pages \in Seq(CachePages) /\ Len(pages) = 1 /\ pages[1] = page
        BY <3>3, <3>4
      <3> QED BY <3>2, <3>3, <3>5
    <2>2. CASE ~chunk.found
      <3>1. chunk.text = <<>>
        <4>1. chunk = Gone
          <5>1. chunk = fetch(cursor, key, 0, DEFAULT_BUDGET_BYTES)
            BY <1>2
          <5> QED BY <5>1, <2>2 DEF fetch
        <4> QED BY <4>1 DEF Gone
      <3>2. pages = <<>>
        BY <1>3, <2>2
      <3> QED BY <3>1, <3>2
    <2> QED BY <2>1, <2>2
  <1>10. PICK none \in Int, no \in BOOLEAN :
           /\ no = FALSE
           /\ IdleReader = [pc |-> "idle", key |-> Unset, cursor |-> none, offset |-> 0, text |-> <<>>,
                            pages |-> <<>>, due |-> no, flag |-> no]
    BY IdleReaderIs
  <1>11. PICK zero \in Nat : zero = 0
    OBVIOUS
  <1>12. PICK text : text = chunk.text
    OBVIOUS
  <1>13. me = [pc |-> "guessed", key |-> key, cursor |-> none, offset |-> zero, text |-> text,
               pages |-> pages, due |-> no, flag |-> no]
    <2>0. PICK nil : nil = <<>>
      OBVIOUS
    <2>1. PICK idle : idle = IdleReader
      OBVIOUS
    <2>2. idle = [pc |-> "idle", key |-> Unset, cursor |-> none, offset |-> zero, text |-> nil,
                  pages |-> nil, due |-> no, flag |-> no]
      BY <1>10, <1>11, <2>0, <2>1, Zenon
    <2>3. me = [idle EXCEPT !.pc = "guessed", !.key = key, !.text = text, !.pages = pages]
      BY <1>4, <1>12, <2>1, Zenon
    <2> QED BY <2>2, <2>3, RecordGuessed
  <1>14. "guessed" \in ReaderPcs /\ "guessed" \notin PagedPcs /\ text \in Seq(Nat)
    BY <1>9, <1>12 DEF ReaderPcs, PagedPcs
  <1>15. /\ me \in Readers /\ me.pc = "guessed" /\ me.key = key /\ me.pages = pages
         /\ me.due = no /\ me.flag = no
    BY <1>9, <1>13, <1>14, <1>k, ReaderFields
  <1>16. ReaderOk(me) /\ me.pc \notin PagedPcs
    BY <1>9, <1>14, <1>15 DEF ReaderOk, OwnPages
  <1>17. Linked(me)'
    BY <1>16 DEF Linked
  <1>18. ReadersInv'
    BY <1>5, <1>7, <1>16, <1>17, ReaderChanges
  <1> QED BY <1>7, <1>8, <1>18 DEF RcInv

LEMMA CacheStays ==
    ASSUME CacheInv, UNCHANGED <<rcCache, rcCounter, rcNow, rcStored>>
    PROVE  CacheInv'
  BY DEF CacheInv, StoreTyped, PartOf, Bounded, Lasts, Cursors, Weighs, Weight

LEMMA CallToolsStep ==
    ASSUME RcInv, NEW r \in CallReaders, call_tools(r)
    PROVE  RcInv'
  <1>1. PICK items \in Batches, key \in RcKeys :
          batch' = [batch EXCEPT ![r] = [pc |-> "fitting", key |-> key, items |-> items, moved |-> <<>>]]
    BY DEF call_tools
  <1>2. UNCHANGED <<rcCache, rcCounter, rcNow, reader, rcStored>>
    BY DEF call_tools
  <1>3. PICK nil : nil = <<>>
    OBVIOUS
  <1>4. PICK b : b = [pc |-> "fitting", key |-> key, items |-> items, moved |-> nil]
    OBVIOUS
  <1>5. DOMAIN nil = {}
    BY <1>3
  <1>6. items \in Seq(BatchItems) /\ key \in KeyNames
    BY ShapingAssumption DEF BatchItems, KeyNames
  <1>7. b.pc = "fitting" /\ b.key = key /\ b.items = items /\ b.moved = nil
    BY <1>4
  <1>8. LargestOut(b) /\ Needed(b) /\ DOMAIN b.moved \in SUBSET DOMAIN b.items
    BY <1>5, <1>7 DEF LargestOut, Needed
  <1>9. BatchOk(b)
    BY <1>4, <1>6, <1>7, <1>8 DEF BatchOk, BatchPcs
  <1>10. BatchLinked(b)'
    BY <1>5, <1>7 DEF BatchLinked
  <1>11. Extends
    BY <1>2, SameExtends
  <1>12. BatchesInv'
    BY <1>1, <1>3, <1>4, <1>9, <1>10, <1>11, BatchChanges
  <1>13. ReadersInv'
    BY <1>2, <1>11, ReadersStay
  <1>14. CacheInv'
    BY <1>2, CacheStays DEF RcInv
  <1> QED BY <1>12, <1>13, <1>14 DEF RcInv

LEMMA JsonText ==
    ASSUME NEW item \in BatchItems
    PROVE  json(item) \in Seq(Nat)
  <1>1. item.size \in Nat
    BY DEF BatchItems
  <1> QED BY <1>1 DEF json

LEMMA MoveStep ==
    ASSUME RcInv, NEW r \in CallReaders, MoveItem(r)
    PROVE  RcInv'
  <1>0. CacheInv
    BY DEF RcInv
  <1>1. PICK b : b = batch[r]
    OBVIOUS
  <1>2. PICK left : left = DOMAIN b.items \ DOMAIN b.moved
    OBVIOUS
  <1>3. PICK i : i = largest(b.items, left)
    OBVIOUS
  <1>4. PICK c : c = rcCounter
    OBVIOUS
  <1>5. /\ b.pc = "fitting" /\ over_budget(b.items, DOMAIN b.moved) /\ left # {}
        /\ store(json(b.items[i]), b.key)
        /\ batch' = [batch EXCEPT ![r].moved = Put(@, i, rcCounter)]
        /\ rcNow' = rcNow /\ reader' = reader
    BY <1>1, <1>2, <1>3 DEF MoveItem
  <1>6. BatchOk(b) /\ BatchLinked(b) /\ batch = [s \in CallReaders |-> batch[s]]
    BY <1>1 DEF RcInv, BatchesInv
  <1>7. PICK now : now = Put(b.moved, i, c)
    OBVIOUS
  <1>n. PICK next : next = [pc |-> b.pc, key |-> b.key, items |-> b.items, moved |-> now]
    OBVIOUS
  <1>8. batch' = [batch EXCEPT ![r] = next]
    <2>1. b = [pc |-> b.pc, key |-> b.key, items |-> b.items, moved |-> b.moved]
      BY <1>6 DEF BatchOk
    <2>2. next = [b EXCEPT !.moved = now]
      BY <2>1, <1>n
    <2>3. batch' = [batch EXCEPT ![r].moved = Put(@, i, c)]
      BY <1>4, <1>5
    <2> QED BY <2>2, <2>3, <1>1, <1>6, <1>7
  <1>9. c \in Nat /\ Below(b.moved, c)
    <2>1. rcCounter \in Nat
      BY <1>0 DEF CacheInv, StoreTyped
    <2> QED BY <2>1, <1>4, <1>6 DEF BatchLinked, Cursors, Below
  <1>10. /\ BatchOk(next) /\ next.items = b.items /\ next.key = b.key /\ i \in DOMAIN b.items
         /\ DOMAIN next.moved = DOMAIN b.moved \cup {i} /\ next.moved[i] = c
         /\ \A j \in DOMAIN b.moved : j # i /\ next.moved[j] = b.moved[j]
    <2>1. next.items = b.items /\ next.key = b.key /\ next.moved = now
      BY <1>n
    <2>2. BatchOk(next) /\ OneMoreOut(b, i, c, now)
      <3>1. b.pc = "fitting" /\ over_budget(b.items, DOMAIN b.moved) /\ left # {}
        BY <1>5
      <3>2. BatchOk(b)
        BY <1>6
      <3> QED BY <3>1, <3>2, <1>2, <1>3, <1>7, <1>n, <1>9, ItemMoved
    <2> QED BY <2>1, <2>2 DEF OneMoreOut
  <1>11. json(b.items[i]) \in Seq(Nat) /\ b.key \in KeyNames
    <2>1. b.items \in Seq(BatchItems) /\ b.key \in KeyNames
      BY <1>6 DEF BatchOk
    <2>2. b.items[i] \in BatchItems
      BY <2>1, <1>10
    <2> QED BY <2>1, <2>2, JsonText
  <1>12. /\ CacheInv' /\ Extends /\ rcCounter \in Cursors'
         /\ rcStored'[rcCounter].text = json(b.items[i]) /\ rcStored'[rcCounter].key = b.key
    BY <1>0, <1>5, <1>11, StoreExtends
  <1>13. BatchLinked(next)'
    <2> SUFFICES ASSUME NEW j \in DOMAIN next.moved
                 PROVE  /\ next.moved[j] \in Cursors'
                        /\ rcStored'[next.moved[j]].text = json(next.items[j])
                        /\ rcStored'[next.moved[j]].key = next.key
      BY DEF BatchLinked
    <2>1. CASE j = i
      BY <2>1, <1>4, <1>10, <1>12
    <2>2. CASE j \in DOMAIN b.moved
      <3>1. next.moved[j] = b.moved[j]
        BY <2>2, <1>10
      <3>2. /\ b.moved[j] \in Cursors /\ rcStored[b.moved[j]].text = json(b.items[j])
            /\ rcStored[b.moved[j]].key = b.key
        BY <2>2, <1>6 DEF BatchLinked
      <3>3. b.moved[j] \in Cursors' /\ rcStored'[b.moved[j]] = rcStored[b.moved[j]]
        BY <3>2, <1>12 DEF Extends
      <3> QED BY <3>1, <3>2, <3>3, <1>10
    <2> QED BY <2>1, <2>2, <1>10
  <1>14. BatchesInv'
    BY <1>8, <1>10, <1>12, <1>13, BatchChanges
  <1>15. ReadersInv'
    BY <1>5, <1>12, ReadersStay
  <1> QED BY <1>12, <1>14, <1>15 DEF RcInv

LEMMA EndStep ==
    ASSUME RcInv, NEW r \in CallReaders, EndBatch(r)
    PROVE  RcInv'
  <1>1. PICK b : b = batch[r]
    OBVIOUS
  <1>2. PICK pc : pc = IF over_budget(b.items, DOMAIN b.moved) THEN "refused" ELSE "given"
    OBVIOUS
  <1>3. /\ over_budget(b.items, DOMAIN b.moved) => DOMAIN b.moved = DOMAIN b.items
        /\ batch' = [batch EXCEPT ![r].pc = pc]
        /\ UNCHANGED <<rcCache, rcCounter, rcNow, reader, rcStored>>
    BY <1>1, <1>2 DEF EndBatch
  <1>4. BatchOk(b) /\ BatchLinked(b) /\ batch = [s \in CallReaders |-> batch[s]]
    BY <1>1 DEF RcInv, BatchesInv
  <1>5. PICK next : next = [b EXCEPT !.pc = pc]
    OBVIOUS
  <1>6. batch' = [batch EXCEPT ![r] = next]
    BY <1>1, <1>3, <1>4, <1>5
  <1>7. b = [pc |-> b.pc, key |-> b.key, items |-> b.items, moved |-> b.moved]
    BY <1>4 DEF BatchOk
  <1>8. next = [pc |-> pc, key |-> b.key, items |-> b.items, moved |-> b.moved]
    BY <1>5, <1>7
  <1>9. next.pc = pc /\ next.key = b.key /\ next.items = b.items /\ next.moved = b.moved
    BY <1>8
  <1>10. /\ pc \in BatchPcs
         /\ pc = "given" => ~over_budget(b.items, DOMAIN b.moved)
         /\ pc = "refused" => over_budget(b.items, DOMAIN b.items)
    BY <1>2, <1>3 DEF BatchPcs
  <1>11. LargestOut(next) /\ Needed(next)
    BY <1>4, <1>9 DEF BatchOk, LargestOut, Needed
  <1>12. BatchOk(next)
    BY <1>4, <1>8, <1>9, <1>10, <1>11 DEF BatchOk
  <1>13. BatchLinked(next)'
    BY <1>3, <1>4, <1>9 DEF BatchLinked, Cursors
  <1>14. Extends
    BY <1>3, SameExtends
  <1>15. BatchesInv' /\ ReadersInv' /\ CacheInv'
    BY <1>3, <1>6, <1>12, <1>13, <1>14, BatchChanges, ReadersStay, CacheStays DEF RcInv
  <1> QED BY <1>15 DEF RcInv

LEMMA RcStart == RcInit => RcInv
  <1> SUFFICES ASSUME RcInit PROVE RcInv
    OBVIOUS
  <1>1. /\ rcCache = <<>> /\ rcStored = <<>> /\ rcCounter = 0 /\ rcNow = 0
        /\ reader = [r \in CallReaders |-> IdleReader] /\ batch = [r \in CallReaders |-> NoBatch]
    BY DEF RcInit
  <1>2. Cursors = {}
    BY <1>1 DEF Cursors
  <1>3. StoreTyped
    BY <1>1, <1>2 DEF StoreTyped
  <1>4. PartOf(rcCache)
    BY <1>1, <1>2 DEF PartOf
  <1>5. Bounded
    <2>1. DOMAIN rcCache = {}
      BY <1>1
    <2>2. Cardinality({}) = 0
      BY FS_EmptySet
    <2> QED BY <2>1, <2>2, ShapingAssumption DEF Bounded
  <1>6. ReadersInv
    <2>1. PICK me : me = [IdleReader EXCEPT !.pc = "idle"]
      OBVIOUS
    <2>2. ReaderOk(me) /\ me.pc \notin PagedPcs
      <3>1. "idle" \in {"idle", "inline"}
        OBVIOUS
      <3> QED BY <2>1, <3>1, IdleReaderOk
    <2>3. me = IdleReader
      BY <2>1 DEF IdleReader
    <2>4. reader = [r \in CallReaders |-> me]
      BY <1>1, <2>3
    <2>5. me \in Readers /\ Linked(me)
      BY <2>2 DEF ReaderOk, Linked
    <2> QED BY <2>2, <2>4, <2>5 DEF ReadersInv
  <1>7. BatchesInv
    <2>1. PICK nil : nil = <<>>
      OBVIOUS
    <2>2. PICK b : b = NoBatch
      OBVIOUS
    <2>3. b = [pc |-> "idle", key |-> Unset, items |-> nil, moved |-> nil]
      BY <2>1, <2>2 DEF NoBatch
    <2>4. b.pc = "idle" /\ b.key = Unset /\ b.items = nil /\ b.moved = nil
      BY <2>3
    <2>5. DOMAIN nil = {} /\ nil \in Seq(BatchItems) /\ Unset \in KeyNames
      BY <2>1 DEF KeyNames
    <2>6. LargestOut(b) /\ Needed(b) /\ DOMAIN b.moved \in SUBSET DOMAIN b.items
      BY <2>4, <2>5 DEF LargestOut, Needed
    <2>7. BatchOk(b)
      BY <2>3, <2>4, <2>5, <2>6 DEF BatchOk, BatchPcs
    <2>8. BatchLinked(b)
      BY <2>4, <2>5 DEF BatchLinked
    <2> QED BY <1>1, <2>2, <2>7, <2>8 DEF BatchesInv
  <1> QED BY <1>2, <1>3, <1>4, <1>5, <1>6, <1>7 DEF RcInv, CacheInv

LEMMA RcStep == RcInv /\ [RcNext]_rcVars => RcInv'
  <1> SUFFICES ASSUME RcInv, [RcNext]_rcVars PROVE RcInv'
    OBVIOUS
  <1>1. ASSUME UNCHANGED rcVars PROVE RcInv'
    <2>1. UNCHANGED <<rcCache, rcCounter, rcNow, reader, batch, rcStored>>
      BY <1>1 DEF rcVars
    <2>2. Extends
      BY <2>1, SameExtends
    <2>3. CacheInv' /\ ReadersInv' /\ BatchesInv'
      BY <2>1, <2>2, CacheStays, ReadersStay, BatchesStay DEF RcInv
    <2> QED BY <2>3 DEF RcInv
  <1>2. ASSUME RcTick PROVE RcInv'
    <2>1. UNCHANGED <<rcCounter, reader, batch, rcStored>>
      BY <1>2 DEF RcTick
    <2>2. Extends
      BY <2>1, SameExtends
    <2>3. CacheInv' /\ ReadersInv' /\ BatchesInv'
      BY <1>2, <2>1, <2>2, TickKeeps, ReadersStay, BatchesStay DEF RcInv
    <2> QED BY <2>3 DEF RcInv
  <1>3. ASSUME NEW r \in CallReaders, fit_batch_budget(r) PROVE RcInv'
    BY <1>3, MoveStep, EndStep DEF fit_batch_budget
  <1> QED BY <1>1, <1>2, <1>3, AnswerStep, FetchStep, GuessStep, CallToolsStep DEF RcNext

LEMMA ReadsOk == RcInv => ReadsWhole /\ OwnResults /\ FlagCoversTail
  <1> SUFFICES ASSUME RcInv PROVE ReadsWhole /\ OwnResults /\ FlagCoversTail
    OBVIOUS
  <1>1. \A r \in CallReaders : ReaderOk(reader[r])
    BY DEF RcInv, ReadersInv
  <1>2. ASSUME NEW r \in CallReaders
        PROVE  LET me == reader[r]  p == me.pages
               IN  /\ DOMAIN p = 1 .. Len(p) /\ Len(p) \in Nat
                   /\ me.flag = me.due /\ (\A i \in DOMAIN p : p[i].owner = me.key)
                   /\ me.pc \in PagedPcs => PageInv(me)
    <2>1. reader[r].pages \in Seq(CachePages)
      BY <1>1 DEF ReaderOk, Readers
    <2>2. DOMAIN reader[r].pages = 1 .. Len(reader[r].pages) /\ Len(reader[r].pages) \in Nat
      BY <2>1
    <2> QED BY <2>2, <1>1 DEF ReaderOk, OwnPages
  <1>3. OwnResults /\ FlagCoversTail
    BY <1>2 DEF OwnResults, FlagCoversTail
  <1>4. ASSUME NEW r \in CallReaders, Paged(r)
        PROVE  LET me == reader[r]  p == me.pages
               IN  /\ \A i \in DOMAIN p :
                        /\ p[i].text = me.text
                        /\ p[i].from = IF i = 1 THEN 0 ELSE p[i - 1].to
                        /\ p[i].from < p[i].to
                        /\ p[i].to \in Boundaries(me.text)
                   /\ me.pc = "read" => p[Len(p)].to = Bytes(me.text)
    <2> DEFINE me == reader[r]
               p == me.pages
    <2>1. PageInv(me) /\ DOMAIN p = 1 .. Len(p) /\ Len(p) \in Nat
      BY <1>2, <1>4 DEF Paged, PagedPcs
    <2>2. PagesJoin(me)
      BY <2>1 DEF PageInv
    <2>3. me.pc = "read" => p[Len(p)].to = Bytes(me.text)
      BY <2>1 DEF PageInv
    <2> QED BY <2>1, <2>2, <2>3 DEF PagesJoin
  <1>5. ReadsWhole
    BY <1>4 DEF ReadsWhole
  <1> QED BY <1>3, <1>5

LEMMA CacheOk == RcInv => CacheBounded /\ CursorsLast
  <1> SUFFICES ASSUME RcInv PROVE CacheBounded /\ CursorsLast
    OBVIOUS
  <1>1. StoreTyped /\ PartOf(rcCache) /\ Bounded /\ \A c \in Cursors : Lasts(c)
    BY DEF RcInv, CacheInv
  <1>2. IsFiniteSet(Cursors) /\ Weight \in [Cursors -> Nat]
        /\ \A c \in Cursors : Weight[c] = Bytes(rcStored[c].text) /\ c \in Nat /\ c < rcCounter
    BY <1>1, WeightTyped
  <1>3. rcCounter \in Nat /\ DOMAIN rcStored = Cursors
    BY <1>1 DEF StoreTyped
  <1>4. /\ DOMAIN rcCache \in SUBSET Cursors /\ \A c \in DOMAIN rcCache : rcCache[c] = rcStored[c]
    BY <1>1 DEF PartOf
  <1>5. ASSUME DOMAIN rcCache # {}
        PROVE  total_bytes_inner(rcCache) - Bytes(rcCache[Max(DOMAIN rcCache)].text) < MAX_CACHE_BYTES
    <2> DEFINE D == DOMAIN rcCache
    <2>1. D \in SUBSET (0 .. rcCounter) /\ D # {}
      BY <1>2, <1>3, <1>4, <1>5
    <2>2. PICK m : m = Max(D)
      OBVIOUS
    <2>t. total_bytes_inner(rcCache) = SumFunctionOnSet(Weight, D)
      BY <1>1, TotalIs
    <2>d. D \in SUBSET Cursors
      BY <1>4
    <2>b. \A k \in D : (\A c \in D : c <= k) => Weighs(D \ {k}) < MAX_CACHE_BYTES
      BY <1>1 DEF Bounded
    <2>c. \A c \in D : rcCache[c] = rcStored[c]
      BY <1>4
    <2> HIDE DEF D
    <2>3. m \in D /\ \A c \in D : c <= m
      BY <1>3, <2>1, <2>2, MaxOf
    <2>4. Weighs(D \ {m}) < MAX_CACHE_BYTES
      BY <2>b, <2>3
    <2>5. SumFunctionOnSet(Weight, D) = Weight[m] + SumFunctionOnSet(Weight, D \ {m})
      BY <1>2, <2>d, <2>3, SumRemove
    <2>6. Weight[m] = Bytes(rcCache[m].text)
      BY <1>2, <2>c, <2>d, <2>3
    <2>7. D \ {m} \in SUBSET D
      OBVIOUS
    <2>8. Weighs(D \ {m}) \in Nat
      BY <1>1, <2>d, <2>7, WeighsMore
    <2>9. Weight[m] \in Nat
      BY <1>2, <2>d, <2>3
    <2>10. total_bytes_inner(rcCache) - Bytes(rcCache[m].text) = Weighs(D \ {m})
      BY <2>t, <2>5, <2>6, <2>8, <2>9 DEF Weighs
    <2> QED BY <2>2, <2>4, <2>10 DEF D
  <1>6. CacheBounded
    BY <1>1, <1>5 DEF CacheBounded, Bounded
  <1>7. ASSUME NEW c \in Cursors
        PROVE  \/ c \in DOMAIN rcCache /\ rcCache[c] = rcStored[c]
               \/ rcNow - rcStored[c].created >= CACHE_TTL_SECS
               \/ Cardinality(c .. rcCounter - 2) >= MAX_CACHE_ENTRIES
               \/ SumFunctionOnSet(Weight, c .. rcCounter - 2) >= MAX_CACHE_BYTES
    <2>1. Lasts(c) /\ c \in Nat /\ c < rcCounter
      BY <1>1, <1>2
    <2>2. c \in Int /\ rcCounter - 2 \in Int
      BY <2>1, <1>3
    <2>3. Cardinality(c .. rcCounter - 2) = IF c > rcCounter - 2 THEN 0 ELSE (rcCounter - 2) - c + 1
      BY <2>2, FS_Interval
    <2>4. Cardinality(c .. rcCounter - 2) = rcCounter - 1 - c
      BY <2>1, <2>3, <1>3
    <2> QED BY <2>1, <2>4, <1>4 DEF Lasts, Weighs
  <1>8. Weight = [d \in DOMAIN rcStored |-> Bytes(rcStored[d].text)]
    BY <1>3 DEF Weight, WeightOf, Cursors
  <1>9. CursorsLast
    BY <1>3, <1>7, <1>8 DEF CursorsLast
  <1> QED BY <1>6, <1>9

LEMMA BatchesOk == RcInv => BatchFits
  BY DEF RcInv, BatchesInv, BatchOk, BatchLinked, LargestOut, Needed, BatchFits

(* What an upstream answered reaches the caller whole (shaping.rs, the end of  *)
(* proxy/post.rs, fit_batch_budget): pages join and end on character           *)
(* boundaries, no other key reads them, the cache stays within its bounds and  *)
(* keeps every cursor until its time or its turn, and batches are moved        *)
(* largest first, however many clients call, page and batch at once.           *)
THEOREM AnswersAlwaysWhole == RcSpec => []AnswersWhole
  <1>1. RcInv => AnswersWhole
    BY ReadsOk, CacheOk, BatchesOk DEF AnswersWhole
  <1> QED BY <1>1, RcStart, RcStep, PTL DEF RcSpec
=============================================================================
