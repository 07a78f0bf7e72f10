-------------------------- MODULE InvocationProofs --------------------------
(* What Invocation guarantees for every number of requests, keys, tools,       *)
(* versions of the configuration and changes of the registry.  The invariant   *)
(* is one predicate per request over what the request has read so far, kept by *)
(* its own steps and by every change that comes between them, and the sum over *)
(* all requests that makes the quota of a key.                                 *)
EXTENDS Invocation, FiniteSetTheorems, SequenceTheorems, WellFoundedInduction, TLAPS

Caller == Keys \cup {NoKey}
Outs == {"none", "success", "failed", "tool_error", "input", "limited"}
Paths == {"http", "mcp", "peer"}
Quotas == {"none", "held", "committed"}
Vs == 1..Len(Versions)
CallRec ==
    [pc : Steps, door : Doors, cred : Caller, names : Seq(Names), cfg : Vs, key : Caller,
     keyV : Vs, bound : BOOLEAN, cat : SUBSET Tools, canonical : Tools \cup {None},
     remote : BOOLEAN, path : Paths, quota : Quotas, out : Outs, results : Seq(Results),
     shown : SUBSET Tools, since : Vs, stillQ : SUBSET Tools, cut : BOOLEAN]
Statuses == {"Limited", "Failed", "Success"}
Writes == {"open", "row", "failed", "cut"}
Event == [tool : Tools \cup {None}, status : Statuses, saved : Writes]

Typed ==
    /\ cfgV \in Vs /\ catV \in 1..cfgV /\ authV \in 1..catV
    /\ catMcp \subseteq McpTools /\ registry \subseteq McpTools /\ quarantined \subseteq Tools
    /\ call \in [Calls -> CallRec]
    /\ events \in [Calls -> Seq(Event)] /\ sent \in [Calls -> SUBSET Tools]

\* A request is on the way of its door.
On(d, p) == \E i \in DOMAIN Route[d] : Route[d][i] = p
WaySteps == {"gate", "config", "auth", "lookup", "config2", "snap", "resolve", "peer",
             "list", "search", "surface", "summary"}
Unread == {"idle", "gate", "config"}
Unkeyed == {"idle", "gate", "config", "auth"}
Checked == {"branch", "admit", "secret", "upstream"}
Allowed == {"admit", "secret", "upstream"}
OnWay(r) == r.pc \in WaySteps => On(r.door, r.pc)

\* What version v lets the sender of r do with t.
May(v, r, t) ==
    IF r.key = DefaultKey THEN ~mcp_auth_required(v)
    ELSE r.key = r.cred /\ r.key \in keys(v) /\ t \in Versions[v].scope[r.key]

\* The snapshot and the key were read after the request arrived; what the request
\* may call, has called and was shown is covered by what it read.
Bound(r, sn) ==
    /\ r.since <= authV
    /\ r.key \in Keys => r.key \in keys(r.keyV)
    /\ r.pc \in Unkeyed => sn = {} /\ r.shown = {}
    /\ r.pc \notin Unread \cup {"done"} => r.since <= r.cfg /\ r.cfg <= cfgV
    /\ r.pc \notin Unkeyed \cup {"done"} =>
          /\ r.since <= r.keyV /\ r.keyV <= cfgV
          /\ r.key \in Keys => r.key = r.cred
          /\ r.key = NoKey => \E v \in r.since..cfgV : ~mcp_auth_required(v)
    /\ r.pc \in Allowed =>
          r.canonical \in Tools /\ key_can_use_tool(r.keyV, r.key, r.canonical)
    /\ \A t \in sn \cup r.shown : \E v \in r.since..cfgV : May(v, r, t)

\* What has been quarantined all along is past no check and was not called.
Quarantined(r, sn) ==
    /\ r.stillQ \subseteq quarantined
    /\ r.door # "mcp_prompt" =>
          /\ r.pc \in Checked => r.canonical \notin r.stillQ
          /\ sn \cap r.stillQ = {}
    /\ r.pc = "idle" => sn = {}

\* Events follow the answers; an upstream's answer is recorded one step ahead.
Flat(rs) == FlattenSeq([i \in DOMAIN rs |-> EventOf(rs[i])])
Status(ev) == [i \in DOMAIN ev |-> ev[i].status]
Books(r, ev) ==
    /\ r.pc \in Unkeyed => r.results = <<>> /\ ev = <<>>
    /\ (r.pc \notin {"idle", "done"} /\ r.door \notin Reading) =>
          /\ Len(r.results) < Len(r.names)
          /\ r.door \notin Batch => Len(r.names) = 1
    /\ r.pc \notin {"done", "persist", "post"} => Status(ev) = Flat(r.results)
    /\ r.pc = "persist" => Status(ev) = Flat(r.results) \o EventOf(r.out)
    /\ r.pc = "post" => Status(ev) = Flat(r.results) \o <<"Success">>
    /\ (r.pc = "done" /\ ~r.cut /\ r.door \notin Reading) =>
          /\ Status(ev) = Flat(r.results)
          /\ r.results = <<"refused">> \/ Len(r.results) = Len(r.names)
    /\ r.quota = "held" <=> \/ r.pc \in {"secret", "upstream", "finish"}
                            \/ r.pc = "persist" /\ r.out = "failed"
    /\ r.pc = "post" => r.out \in {"success", "tool_error", "input"}
    /\ r.pc = "finish" => r.out \notin {"none", "limited"}
    /\ r.pc = "persist" => r.out # "none"

\* What became of the rows of the events: every write has ended, all but the last
\* one has; a request is without a row where RowsFollow says.
Settled(ev) == \A i \in DOMAIN ev : ev[i].saved \in {"row", "failed"}
SettledBut(ev, st) ==
    \A i \in DOMAIN ev : \/ ev[i].saved \in {"row", "failed"}
                         \/ ev[i].saved = st /\ i = Len(ev)
Stored(r, ev) ==
    /\ r.pc # "done" => ~r.cut
    /\ \/ Settled(ev)
       \/ r.pc = "persist" /\ SettledBut(ev, "open")
       \/ r.cut /\ SettledBut(ev, "cut")

Good(r, ev, sn) ==
    OnWay(r) /\ Bound(r, sn) /\ Quarantined(r, sn) /\ Books(r, ev) /\ Stored(r, ev)

\* The success events of the requests of a key, and the requests that hold one of
\* its calls, for requests f with events g.
Successful(f, g, k) ==
    {p \in UNION {{c} \X DOMAIN g[c] : c \in Calls} :
        f[p[1]].key = k /\ g[p[1]][p[2]].status = "Success"}
Holding(f, k) == {c \in Calls : f[c].key = k /\ f[c].quota = "held"}
Count(f, g, k) == Cardinality(Successful(f, g, k)) + Cardinality(Holding(f, k))
Charged ==
    /\ used = [k \in Caller |-> Count(call, events, k)]
    /\ \A k \in Caller : IsFiniteSet(Successful(call, events, k))

EachGood == \A c \in Calls : Good(call[c], events[c], sent[c])
IInv == Typed /\ EachGood /\ Charged

----------------------------------------------------------------------------
(* Sequences of events.                                                       *)

\* Induction by the least counterexample.
LEMMA LeastNat == \A T \in SUBSET Nat : T # {} => \E n \in T : \A m \in T : ~(m < n)
  <1> DEFINE R == {p \in Nat \X Nat : p[1] < p[2]}
  <1>1. IsWellFoundedOn(R, Nat)
    BY NatLessThanWellFounded DEF OpToRel
  <1>2. \A n, m \in Nat : <<m, n>> \in R <=> m < n
    OBVIOUS
  <1> HIDE DEF R
  <1> QED BY <1>1, <1>2, WFMin

\* The function behind FlattenSeq: what the first sequences make.
Flattened(s) ==
    CHOOSE f : f = [i \in 1..Len(s) |-> IF i = 1 THEN s[i] ELSE f[i - 1] \o s[i]]

LEMMA FlattenedExists ==
    ASSUME NEW E, NEW s \in Seq(Seq(E))
    PROVE  \E f \in [1..Len(s) -> Seq(E)] :
              f = [i \in 1..Len(s) |-> IF i = 1 THEN s[i] ELSE f[i - 1] \o s[i]]
  <1> DEFINE P(n) == \E f \in [1..n -> Seq(E)] :
                        \A i \in 1..n : f[i] = IF i = 1 THEN s[i] ELSE f[i - 1] \o s[i]
             T == {n \in 0..Len(s) : ~P(n)}
  <1>1. Len(s) \in Nat /\ \A i \in 1..Len(s) : s[i] \in Seq(E)
    BY ElementOfSeq, LenProperties
  <1>2. P(0)
    <2>1. 1..0 = {}
      OBVIOUS
    <2> DEFINE f == [i \in 1..0 |-> <<>>]
    <2>2. f \in [1..0 -> Seq(E)]
      BY <2>1
    <2> QED BY <2>1, <2>2
  <1>3. ASSUME NEW n \in 1..Len(s), P(n - 1) PROVE P(n)
    <2>1. PICK f \in [1..(n - 1) -> Seq(E)] :
             \A i \in 1..(n - 1) : f[i] = IF i = 1 THEN s[i] ELSE f[i - 1] \o s[i]
      BY <1>3
    <2> DEFINE g == [i \in 1..n |-> IF i < n THEN f[i]
                                    ELSE IF n = 1 THEN s[n] ELSE f[n - 1] \o s[n]]
    <2>2. n = 1 \/ f[n - 1] \o s[n] \in Seq(E)
      <3>1. n = 1 \/ f[n - 1] \in Seq(E)
        BY <1>1, <2>1
      <3> QED BY <1>1, <3>1, ConcatProperties
    <2>3. g \in [1..n -> Seq(E)]
      BY <1>1, <2>1, <2>2
    <2>4. ASSUME NEW i \in 1..n PROVE g[i] = IF i = 1 THEN s[i] ELSE g[i - 1] \o s[i]
      <3>1. i \in Nat /\ n \in Nat /\ i <= n
        BY <1>1
      <3>2. \A j \in 1..n : g[j] = IF j < n THEN f[j]
                                 ELSE IF n = 1 THEN s[n] ELSE f[n - 1] \o s[n]
        OBVIOUS
      <3> HIDE DEF g
      <3>3. i # 1 => g[i - 1] = f[i - 1]
        <4>1. i # 1 => i - 1 \in 1..n /\ i - 1 < n
          BY <3>1
        <4> QED BY <3>2, <4>1
      <3>4. CASE i < n
        <4>1. i \in 1..(n - 1) /\ g[i] = f[i]
          BY <3>1, <3>2, <3>4
        <4>2. f[i] = IF i = 1 THEN s[i] ELSE f[i - 1] \o s[i]
          BY <2>1, <4>1
        <4> QED BY <3>3, <4>1, <4>2
      <3>5. CASE i = n
        BY <3>2, <3>3, <3>5
      <3> QED BY <3>1, <3>4, <3>5
    <2> HIDE DEF g
    <2> QED BY <2>3, <2>4
  <1> HIDE DEF P
  <1>4. T = {}
    <2> SUFFICES ASSUME T # {} PROVE FALSE
      OBVIOUS
    <2>1. PICK n \in T : \A m \in T : ~(m < n)
      <3>1. T \in SUBSET Nat
        BY <1>1
      <3> HIDE DEF T
      <3> QED BY <3>1, LeastNat
    <2>2. n # 0 /\ n \in 1..Len(s) /\ n - 1 \in 0..Len(s) /\ n - 1 < n
      BY <1>1, <1>2, <2>1
    <2>3. P(n - 1)
      BY <2>1, <2>2
    <2> QED BY <1>3, <2>1, <2>2, <2>3
  <1>5. P(Len(s))
    BY <1>1, <1>4
  <1>6. PICK f \in [1..Len(s) -> Seq(E)] :
           \A i \in 1..Len(s) : f[i] = IF i = 1 THEN s[i] ELSE f[i - 1] \o s[i]
    BY <1>5 DEF P
  <1> QED BY <1>6

LEMMA FlattenedRec ==
    ASSUME NEW E, NEW s \in Seq(Seq(E))
    PROVE  /\ \A i \in 1..Len(s) : Flattened(s)[i] \in Seq(E)
           /\ \A i \in 1..Len(s) :
                 Flattened(s)[i] = IF i = 1 THEN s[i] ELSE Flattened(s)[i - 1] \o s[i]
  <1> DEFINE F == Flattened(s)
             T == {n \in 1..Len(s) : F[n] \notin Seq(E)}
  <1>1. F = [i \in 1..Len(s) |-> IF i = 1 THEN s[i] ELSE F[i - 1] \o s[i]]
    <2>1. PICK g \in [1..Len(s) -> Seq(E)] :
             g = [i \in 1..Len(s) |-> IF i = 1 THEN s[i] ELSE g[i - 1] \o s[i]]
      BY FlattenedExists
    <2> QED BY <2>1 DEF Flattened
  <1> HIDE DEF F
  <1>2. \A i \in 1..Len(s) : F[i] = IF i = 1 THEN s[i] ELSE F[i - 1] \o s[i]
    BY <1>1
  <1>3. Len(s) \in Nat /\ \A i \in 1..Len(s) : s[i] \in Seq(E)
    BY ElementOfSeq, LenProperties
  <1>4. T = {}
    <2> SUFFICES ASSUME T # {} PROVE FALSE
      OBVIOUS
    <2>1. PICK n \in T : \A m \in T : ~(m < n)
      <3>1. T \in SUBSET Nat
        BY <1>3
      <3> HIDE DEF T
      <3> QED BY <3>1, LeastNat
    <2>2. n # 1 /\ n - 1 \in 1..Len(s) /\ n - 1 < n /\ n \in 1..Len(s)
      BY <1>2, <1>3, <2>1
    <2>3. F[n - 1] \in Seq(E) /\ F[n] = F[n - 1] \o s[n]
      BY <1>2, <2>1, <2>2
    <2> QED BY <1>3, <2>1, <2>2, <2>3, ConcatProperties
  <1> QED BY <1>2, <1>4 DEF F

LEMMA FlattenAppend ==
    ASSUME NEW E, NEW s \in Seq(Seq(E)), NEW x \in Seq(E)
    PROVE  FlattenSeq(Append(s, x)) = FlattenSeq(s) \o x
  <1> DEFINE t == Append(s, x)
             F == Flattened(s)
             G == Flattened(t)
             T == {n \in 1..Len(s) : F[n] # G[n]}
  <1>1. /\ t \in Seq(Seq(E)) /\ Len(t) = Len(s) + 1 /\ Len(s) \in Nat
        /\ \A i \in 1..Len(s) : t[i] = s[i]
        /\ t[Len(s) + 1] = x
    BY AppendProperties, LenProperties
  <1> HIDE DEF t
  <1>2. \A i \in 1..Len(s) : F[i] = IF i = 1 THEN s[i] ELSE F[i - 1] \o s[i]
    BY FlattenedRec
  <1>3. \A i \in 1..Len(t) : G[i] = IF i = 1 THEN t[i] ELSE G[i - 1] \o t[i]
    BY <1>1, FlattenedRec
  <1>4. FlattenSeq(t) = G[Len(t)]
    BY <1>1 DEF FlattenSeq, Flattened
  <1>5. Len(s) # 0 => FlattenSeq(s) = F[Len(s)]
    BY DEF FlattenSeq, Flattened
  <1>6. Len(s) = 0 => FlattenSeq(s) = <<>>
    BY EmptySeq DEF FlattenSeq
  <1> HIDE DEF F, G
  <1>7. T = {}
    <2> SUFFICES ASSUME T # {} PROVE FALSE
      OBVIOUS
    <2>1. PICK n \in T : \A m \in T : ~(m < n)
      <3>1. T \in SUBSET Nat
        BY <1>1
      <3> HIDE DEF T
      <3> QED BY <3>1, LeastNat
    <2>2. n \in 1..Len(s) /\ n \in 1..Len(t)
      BY <1>1, <2>1
    <2>3. n # 1 /\ n - 1 \in 1..Len(s) /\ n - 1 < n
      BY <1>1, <1>2, <1>3, <2>1, <2>2
    <2>4. F[n - 1] = G[n - 1]
      BY <2>1, <2>3
    <2> QED BY <1>1, <1>2, <1>3, <2>1, <2>2, <2>3, <2>4
  <1>8. CASE Len(s) = 0
    BY <1>1, <1>3, <1>4, <1>6, <1>8, ConcatEmptySeq DEF t
  <1>9. CASE Len(s) # 0
    <2>1. G[Len(t)] = G[Len(s)] \o x
      <3>1. Len(t) \in 1..Len(t) /\ Len(t) # 1 /\ Len(t) - 1 = Len(s)
        BY <1>1, <1>9
      <3>2. G[Len(t)] = G[Len(t) - 1] \o t[Len(t)]
        BY <1>3, <3>1
      <3> QED BY <1>1, <3>1, <3>2
    <2>2. G[Len(s)] = F[Len(s)]
      <3>1. Len(s) \in 1..Len(s)
        BY <1>1, <1>9
      <3> QED BY <1>7, <3>1
    <2> QED BY <1>4, <1>5, <1>9, <2>1, <2>2 DEF t
  <1> QED BY <1>8, <1>9

\* One more answer leaves its event behind.
LEMMA FlatAppend ==
    ASSUME NEW rs \in Seq(Results), NEW r \in Results
    PROVE  Flat(Append(rs, r)) = Flat(rs) \o EventOf(r)
  <1> DEFINE es == [i \in DOMAIN rs |-> EventOf(rs[i])]
             x == EventOf(r)
             as == Append(rs, r)
  <1>1. \A a \in Results : EventOf(a) \in Seq(Statuses)
    <2>1. <<>> \in Seq(Statuses) /\ \A w \in Statuses : <<w>> \in Seq(Statuses)
      OBVIOUS
    <2> QED BY <2>1 DEF EventOf, Results, Statuses
  <1>2. Len(rs) \in Nat /\ DOMAIN rs = 1..Len(rs) /\ \A i \in 1..Len(rs) : rs[i] \in Results
    BY ElementOfSeq, LenProperties
  <1>3. es \in Seq(Seq(Statuses)) /\ Len(es) = Len(rs) /\ x \in Seq(Statuses)
    <2>1. es = [i \in 1..Len(rs) |-> EventOf(rs[i])]
      BY <1>2
    <2>2. \A i \in 1..Len(rs) : EventOf(rs[i]) \in Seq(Statuses)
      BY <1>1, <1>2
    <2> QED BY <1>1, <1>2, <2>1, <2>2, IsASeq
  <1>4. /\ as \in Seq(Results) /\ Len(as) = Len(rs) + 1
        /\ DOMAIN as = 1..(Len(rs) + 1)
        /\ \A i \in 1..Len(rs) : as[i] = rs[i]
        /\ as[Len(rs) + 1] = r
    BY <1>2, AppendProperties, LenProperties
  <1>5. [i \in DOMAIN as |-> EventOf(as[i])] = Append(es, x)
    <2> HIDE DEF as
    <2>1. /\ DOMAIN Append(es, x) = 1..(Len(rs) + 1)
          /\ \A i \in 1..Len(rs) : Append(es, x)[i] = EventOf(rs[i])
          /\ Append(es, x)[Len(rs) + 1] = x
          /\ Append(es, x) \in Seq(Seq(Statuses))
      <3>1. \A i \in 1..Len(rs) : es[i] = EventOf(rs[i])
        BY <1>2
      <3> HIDE DEF es, x
      <3> DEFINE ap == Append(es, x)
      <3>2. /\ ap \in Seq(Seq(Statuses)) /\ Len(ap) = Len(es) + 1
            /\ \A i \in 1..Len(es) : ap[i] = es[i]
            /\ ap[Len(es) + 1] = x
        BY <1>3, AppendProperties
      <3>3. DOMAIN ap = 1..Len(ap)
        BY <3>2, LenProperties
      <3> HIDE DEF ap
      <3>4. DOMAIN ap = 1..(Len(rs) + 1) /\ (\A i \in 1..Len(rs) : ap[i] = EventOf(rs[i]))
        BY <1>3, <3>1, <3>2, <3>3
      <3> QED BY <1>3, <3>2, <3>4 DEF ap
    <2>2. Append(es, x) = [i \in 1..(Len(rs) + 1) |-> Append(es, x)[i]]
      <3> HIDE DEF es, x
      <3> QED BY <2>1, LenProperties
    <2>3. \A i \in 1..(Len(rs) + 1) : EventOf(as[i]) = Append(es, x)[i]
      <3> HIDE DEF es
      <3>1. ASSUME NEW i \in 1..(Len(rs) + 1) PROVE i \in 1..Len(rs) \/ i = Len(rs) + 1
        BY <1>2
      <3> QED BY <1>4, <2>1, <3>1
    <2> HIDE DEF es, x
    <2> QED BY <1>4, <2>2, <2>3
  <1> HIDE DEF es, x
  <1>6. FlattenSeq(Append(es, x)) = FlattenSeq(es) \o x
    BY <1>3, FlattenAppend
  <1> QED BY <1>5, <1>6 DEF Flat, es, x, as

LEMMA FlatEmpty == Flat(<<>>) = <<>>
  <1>1. [i \in DOMAIN <<>> |-> EventOf(<<>>[i])] = <<>>
    BY EmptySeq
  <1>2. FlattenSeq(<<>>) = <<>>
    BY EmptySeq DEF FlattenSeq
  <1> QED BY <1>1, <1>2 DEF Flat

----------------------------------------------------------------------------
(* The way of a door.                                                         *)

Asking == {"gate", "config", "auth", "lookup", "config2", "snap"}
NextStep(d, p) == LET r == Route[d] IN r[1 + CHOOSE i \in DOMAIN r : r[i] = p]

\* What a way w of door d has to be like.
Passable(d, w) ==
    /\ DOMAIN w = 1..Len(w) /\ Len(w) \in Nat \ {0}
    /\ \A i, j \in 1..Len(w) : w[i] = w[j] => i = j
    /\ w[1] \in {"gate", "config"}
    /\ \A i \in 1..Len(w) :
          /\ w[i] \in WaySteps
          /\ w[i] \in Asking =>
                /\ i + 1 \in 1..Len(w)
                /\ w[i] = "gate" => w[i + 1] = "config"
                /\ w[i] = "config" => w[i + 1] = "auth"
                /\ w[i] \notin {"gate", "config"} => w[i + 1] \notin Unkeyed
          /\ w[i] = "peer" => d = "mcp_prompt"
          /\ w[i] \in {"list", "search", "surface", "summary"} => d \in Reading
    /\ d \in Batch => \E i \in 1..Len(w) : w[i] = "lookup"

LEMMA Routes == \A d \in Doors : Passable(d, Route[d])
  <1> USE DEF Passable, WaySteps, Asking, Unkeyed, Reading, Batch
  <1>1. Passable("rest", Route["rest"])
    <2>1. Route["rest"] = <<"config", "auth", "snap", "resolve">>
      BY DEF Route
    <2> QED BY <2>1
  <1>2. Passable("rest_call", Route["rest_call"])
    <2>1. Route["rest_call"] = <<"config", "auth", "lookup", "config2", "snap", "resolve">>
      BY DEF Route
    <2> QED BY <2>1
  <1>3. Passable("rest_batch", Route["rest_batch"])
    <2>1. Route["rest_batch"] = <<"config", "auth", "config2", "snap", "lookup", "resolve">>
      BY DEF Route
    <2> QED BY <2>1
  <1>4. Passable("rest_list", Route["rest_list"])
    <2>1. Route["rest_list"] = <<"config", "auth", "list">>
      BY DEF Route
    <2> QED BY <2>1
  <1>5. Passable("rest_search", Route["rest_search"])
    <2>1. Route["rest_search"] = <<"config", "auth", "config2", "snap", "search">>
      BY DEF Route
    <2> QED BY <2>1
  <1>6. Passable("rest_config", Route["rest_config"])
    <2>1. Route["rest_config"] = <<"config", "auth", "summary">>
      BY DEF Route
    <2> QED BY <2>1
  <1>7. Passable("mcp", Route["mcp"])
    <2>1. Route["mcp"] = <<"gate", "config", "auth", "snap", "lookup", "resolve">>
      BY DEF Route
    <2> QED BY <2>1
  <1>8. Passable("mcp_call", Route["mcp_call"])
    <2>1. Route["mcp_call"] = <<"gate", "config", "auth", "config2", "snap", "lookup", "resolve">>
      BY DEF Route
    <2> QED BY <2>1
  <1>9. Passable("mcp_batch", Route["mcp_batch"])
    <2>1. Route["mcp_batch"] = <<"gate", "config", "auth", "config2", "snap", "lookup", "resolve">>
      BY DEF Route
    <2> QED BY <2>1
  <1>10. Passable("mcp_list", Route["mcp_list"])
    <2>1. Route["mcp_list"] = <<"gate", "config", "auth", "list">>
      BY DEF Route
    <2> QED BY <2>1
  <1>11. Passable("mcp_search", Route["mcp_search"])
    <2>1. Route["mcp_search"] = <<"gate", "config", "auth", "snap", "search">>
      BY DEF Route
    <2> QED BY <2>1
  <1>12. Passable("mcp_prompt", Route["mcp_prompt"])
    <2>1. Route["mcp_prompt"] = <<"gate", "config", "auth", "peer">>
      BY DEF Route
    <2> QED BY <2>1
  <1>13. Passable("mcp_surface", Route["mcp_surface"])
    <2>1. Route["mcp_surface"] = <<"gate", "config", "auth", "surface">>
      BY DEF Route
    <2> QED BY <2>1
  <1> HIDE DEF Passable
  <1> QED BY <1>1, <1>2, <1>3, <1>4, <1>5, <1>6, <1>7, <1>8, <1>9, <1>10, <1>11, <1>12, <1>13 DEF Doors

LEMMA Forward ==
    ASSUME NEW d \in Doors, NEW p \in Asking, On(d, p)
    PROVE  /\ NextStep(d, p) \in WaySteps /\ On(d, NextStep(d, p))
           /\ p = "gate" => NextStep(d, p) = "config"
           /\ p = "config" => NextStep(d, p) = "auth"
           /\ p \notin {"gate", "config"} => NextStep(d, p) \notin Unkeyed
  <1> DEFINE w == Route[d]
  <1>1. Passable(d, w)
    BY Routes
  <1>2. PICK n \in DOMAIN w : w[n] = p
    BY DEF On
  <1>3. (CHOOSE i \in DOMAIN w : w[i] = p) = n
    BY <1>1, <1>2 DEF Passable
  <1>4. NextStep(d, p) = w[1 + n]
    BY <1>3 DEF NextStep
  <1>5. n \in Nat /\ 1 + n = n + 1
    BY <1>1, <1>2 DEF Passable
  <1> HIDE DEF w
  <1>6. n + 1 \in DOMAIN w /\ w[n] = p /\ NextStep(d, p) = w[n + 1]
    BY <1>1, <1>2, <1>4, <1>5 DEF Passable
  <1>7. On(d, NextStep(d, p))
    BY <1>6 DEF On, w
  <1> QED BY <1>1, <1>2, <1>6, <1>7 DEF Passable

LEMMA Places ==
    ASSUME NEW d \in Doors
    PROVE  /\ Head(Route[d]) \in {"gate", "config"} /\ On(d, Head(Route[d]))
           /\ On(d, "peer") => d = "mcp_prompt"
           /\ \A p \in {"list", "search", "surface", "summary"} : On(d, p) => d \in Reading
           /\ d \in Batch => On(d, "lookup")
  <1> DEFINE w == Route[d]
  <1>1. Passable(d, w)
    BY Routes
  <1>2. Head(w) = w[1]
    OBVIOUS
  <1> HIDE DEF w
  <1>3. 1 \in DOMAIN w
    BY <1>1 DEF Passable
  <1> QED BY <1>1, <1>2, <1>3 DEF Passable, On, w

----------------------------------------------------------------------------
(* What keeps a request good, by the kind of step it takes.                   *)

Kept(q, r) ==
    /\ q.door = r.door /\ q.cred = r.cred /\ q.names = r.names
    /\ q.since = r.since /\ q.stillQ = r.stillQ
SameKey(q, r) == q.key = r.key /\ q.keyV = r.keyV
SameAnswer(q, r) == q.results = r.results /\ q.shown = r.shown /\ q.cut = r.cut

LEMMA MaySame ==
    ASSUME NEW q, NEW r, NEW v, NEW t, q.key = r.key, q.cred = r.cred
    PROVE  May(v, q, t) <=> May(v, r, t)
  BY DEF May

\* A step on the way, or in the pipeline, that gives no answer.
LEMMA Advance ==
    ASSUME Typed, NEW r \in CallRec, NEW q \in CallRec, NEW ev, NEW sn,
           Good(r, ev, sn), Kept(q, r), SameKey(q, r), SameAnswer(q, r),
           r.pc \notin {"idle", "done", "persist", "post"},
           q.pc \notin {"idle", "done", "persist", "post"},
           OnWay(q),
           q.pc \in Unkeyed <=> r.pc \in Unkeyed,
           q.cfg = cfgV \/ (q.cfg = r.cfg /\ (q.pc \in Unread \/ r.pc \notin Unread)),
           q.quota = "held" <=> q.pc \in {"secret", "upstream", "finish"},
           q.pc = "finish" => q.out \notin {"none", "limited"},
           q.pc \in Allowed =>
              q.canonical \in Tools /\ key_can_use_tool(q.keyV, q.key, q.canonical),
           (q.door # "mcp_prompt" /\ q.pc \in Checked) => q.canonical \notin q.stillQ
    PROVE  Good(q, ev, sn)
  <1>1. Bound(q, sn)
    <2>1. q.since <= cfgV
      BY DEF Typed, Good, Bound, Kept, CallRec, Vs
    <2>2. \A v, t : May(v, q, t) <=> May(v, r, t)
      BY MaySame DEF Kept, SameKey
    <2> QED BY <2>1, <2>2 DEF Good, Bound, Kept, SameKey, SameAnswer, Typed, CallRec, Vs, Unread, Unkeyed
  <1>2. Quarantined(q, sn)
    BY DEF Good, Quarantined, Kept
  <1>3. Books(q, ev)
    BY DEF Good, Books, Kept, SameAnswer
  <1>4. Stored(q, ev)
    BY DEF Good, Stored, SameAnswer
  <1> QED BY <1>1, <1>2, <1>3, <1>4 DEF Good

\* The key is found.
LEMMA Keyed ==
    ASSUME Typed, NEW r \in CallRec, NEW q \in CallRec, NEW ev, NEW sn,
           Good(r, ev, sn), Kept(q, r), SameAnswer(q, r), r.pc = "auth",
           q.pc \in WaySteps \ Unkeyed, OnWay(q), q.cfg = r.cfg, q.keyV = r.cfg,
           q.quota = r.quota,
           \/ q.key = r.cred /\ q.key \in keys(r.cfg)
           \/ q.key = NoKey /\ ~mcp_auth_required(authV)
    PROVE  Good(q, ev, sn)
  <1>1. r.since <= authV /\ r.since <= r.cfg /\ r.cfg <= cfgV /\ sn = {} /\ r.shown = {}
    BY DEF Good, Bound, Unread, Unkeyed
  <1>2. /\ authV \in r.since..cfgV /\ r.since \in Nat
        /\ NoKey \notin Keys /\ keys(r.cfg) \subseteq Keys
    BY <1>1, InvocationAssumption DEF Typed, Vs, CallRec, keys
  <1>3. Bound(q, sn)
    BY <1>1, <1>2 DEF Bound, Kept, SameAnswer, WaySteps, Unkeyed, Unread, Allowed
  <1>4. Quarantined(q, sn)
    BY <1>1 DEF Good, Quarantined, Kept, WaySteps, Checked
  <1>5. Books(q, ev)
    BY DEF Good, Books, Kept, SameAnswer, WaySteps, Unkeyed
  <1>6. Stored(q, ev)
    BY DEF Good, Stored, SameAnswer
  <1> QED BY <1>3, <1>4, <1>5, <1>6 DEF Good

\* The handler ends.
LEMMA Finished ==
    ASSUME Typed, NEW r \in CallRec, NEW q \in CallRec, NEW e0, NEW ev, NEW sn,
           Good(r, e0, sn), Kept(q, r), SameKey(q, r), q.pc = "done", q.quota = "none",
           r.pc # "idle", Settled(ev) \/ Stored(q, ev),
           (~q.cut /\ q.door \notin Reading) =>
              /\ Status(ev) = Flat(q.results)
              /\ q.results = <<"refused">> \/ Len(q.results) = Len(q.names),
           q.shown = r.shown \/ \A t \in q.shown : \E v \in r.since..cfgV : May(v, r, t)
    PROVE  Good(q, ev, sn)
  <1>1. Bound(q, sn)
    <2>2. \A v, t : May(v, q, t) <=> May(v, r, t)
      BY MaySame DEF Kept, SameKey
    <2> QED BY <2>2 DEF Good, Bound, Kept, SameKey, Unread, Unkeyed, Allowed
  <1>2. Quarantined(q, sn)
    BY DEF Good, Quarantined, Kept, Checked
  <1>3. Books(q, ev)
    BY DEF Books, Kept, Unkeyed
  <1>4. Stored(q, ev)
    BY DEF Stored
  <1> QED BY <1>1, <1>2, <1>3, <1>4 DEF Good, OnWay, WaySteps

\* A batch goes on.
LEMMA NextItem ==
    ASSUME Typed, NEW r \in CallRec, NEW q \in CallRec, NEW e0, NEW ev, NEW sn,
           Good(r, e0, sn), Kept(q, r), SameKey(q, r), q.shown = r.shown, q.cfg = r.cfg,
           q.cut = r.cut, Settled(ev), q.pc = "lookup", q.quota = "none", r.pc \notin Unkeyed \cup {"done"},
           r.door \in Batch, Len(q.results) < Len(q.names), Status(ev) = Flat(q.results)
    PROVE  Good(q, ev, sn)
  <1>1. Bound(q, sn)
    <2>2. \A v, t : May(v, q, t) <=> May(v, r, t)
      BY MaySame DEF Kept, SameKey
    <2> QED BY <2>2 DEF Good, Bound, Kept, SameKey, Unread, Unkeyed, Allowed
  <1>2. Quarantined(q, sn)
    BY DEF Good, Quarantined, Kept, Checked
  <1>3. Books(q, ev)
    BY DEF Books, Kept, Unkeyed
  <1>4. OnWay(q)
    BY Places DEF OnWay, Kept, CallRec
  <1>5. Stored(q, ev)
    BY DEF Good, Stored
  <1> QED BY <1>1, <1>2, <1>3, <1>4, <1>5 DEF Good

LEMMA SettledNow ==
    ASSUME NEW r, NEW ev, NEW sn, Good(r, ev, sn), r.pc \notin {"persist", "done"}
    PROVE  Settled(ev)
  BY DEF Good, Stored

----------------------------------------------------------------------------
(* The records the steps make.                                                *)

LEMMA NoCallTyped ==
    /\ NoCall \in CallRec
    /\ NoCall.pc = "idle" /\ NoCall.key = NoKey /\ NoCall.keyV = 1 /\ NoCall.quota = "none"
    /\ NoCall.results = <<>> /\ NoCall.shown = {} /\ NoCall.since = 1 /\ NoCall.stillQ = {}
    /\ NoCall.cut = FALSE /\ NoCall.cfg = 1 /\ NoCall.door = "rest"
  <1>1. Len(Versions) \in Nat /\ Len(Versions) >= 1
    BY InvocationAssumption
  <1> QED BY <1>1 DEF NoCall, CallRec, Steps, Doors, Caller, Vs, Paths, Quotas, Outs

LEMMA EndedFields ==
    ASSUME NEW r \in CallRec
    PROVE  /\ Ended(r) \in CallRec /\ Kept(Ended(r), r) /\ SameKey(Ended(r), r)
           /\ SameAnswer(Ended(r), r)
           /\ Ended(r).pc = "done" /\ Ended(r).quota = "none"
  <1> DEFINE done == "done"
             one == 1
             no == FALSE
             empty == {}
             http == "http"
             none == "none"
             q == [r EXCEPT !.pc = done, !.cfg = one, !.bound = no, !.cat = empty,
                            !.canonical = None, !.remote = no, !.path = http,
                            !.quota = none]
  <1>1. /\ done \in Steps /\ one \in Vs /\ no \in BOOLEAN /\ empty \in SUBSET Tools
        /\ http \in Paths /\ none \in Quotas /\ None \in Tools \cup {None}
    BY NoCallTyped DEF Steps, Paths, Quotas, NoCall, CallRec
  <1>2. Ended(r) = q
    BY DEF Ended
  <1> HIDE DEF done, one, no, empty, http, none
  <1>3. /\ q \in CallRec /\ q.pc = done /\ q.quota = none
        /\ q.door = r.door /\ q.cred = r.cred /\ q.names = r.names /\ q.key = r.key
        /\ q.keyV = r.keyV /\ q.results = r.results /\ q.shown = r.shown
        /\ q.since = r.since /\ q.stillQ = r.stillQ /\ q.cut = r.cut
    BY <1>1 DEF CallRec
  <1> HIDE DEF q
  <1> QED BY <1>2, <1>3 DEF Kept, SameKey, SameAnswer, done, none

\* The handler ends with answers rs.
LEMMA EndedWith ==
    ASSUME NEW r \in CallRec, NEW rs \in Seq(Results)
    PROVE  LET q == [Ended(r) EXCEPT !.results = rs]
           IN  /\ q \in CallRec /\ Kept(q, r) /\ SameKey(q, r)
               /\ q.results = rs /\ q.shown = r.shown /\ q.cut = r.cut
               /\ q.pc = "done" /\ q.quota = "none"
  <1> DEFINE e == Ended(r)
             q == [e EXCEPT !.results = rs]
  <1>1. /\ e \in CallRec /\ Kept(e, r) /\ SameKey(e, r) /\ SameAnswer(e, r)
        /\ e.pc = "done" /\ e.quota = "none"
    BY EndedFields
  <1> HIDE DEF e
  <1>2. /\ q \in CallRec /\ q.results = rs /\ q.pc = e.pc /\ q.quota = e.quota
        /\ q.door = e.door /\ q.cred = e.cred /\ q.names = e.names /\ q.key = e.key
        /\ q.keyV = e.keyV /\ q.shown = e.shown
        /\ q.since = e.since /\ q.stillQ = e.stillQ /\ q.cut = e.cut
    BY <1>1 DEF CallRec
  <1> HIDE DEF q
  <1>3. /\ q \in CallRec /\ Kept(q, r) /\ SameKey(q, r)
        /\ q.results = rs /\ q.shown = r.shown /\ q.cut = r.cut
        /\ q.pc = "done" /\ q.quota = "none"
    BY <1>1, <1>2 DEF Kept, SameKey, SameAnswer
  <1> QED BY <1>3 DEF q, e

\* An item is answered; the event of the answer has been recorded and written.
LEMMA Answered ==
    ASSUME Typed, NEW r \in CallRec, NEW e0, NEW ev, NEW sn, Good(r, e0, sn),
           NEW a \in Results, r.pc \notin Unkeyed \cup {"done"},
           Status(ev) = Flat(r.results) \o EventOf(a), Settled(ev)
    PROVE  /\ Answer(a, r) \in CallRec /\ Good(Answer(a, r), ev, sn)
           /\ SameKey(Answer(a, r), r) /\ Answer(a, r).quota = "none"
  <1> DEFINE rs == Append(r.results, a)
             more == r.door \in Batch /\ Len(rs) < Len(r.names)
  <1>1. /\ r.results \in Seq(Results) /\ r.names \in Seq(Names) /\ r.door \in Doors
        /\ Len(r.results) \in Nat /\ Len(r.names) \in Nat
    BY DEF CallRec
  <1>2. rs \in Seq(Results) /\ Len(rs) = Len(r.results) + 1
    BY <1>1, AppendProperties
  <1>3. Status(ev) = Flat(rs)
    BY <1>1, FlatAppend
  <1> HIDE DEF rs
  <1>4. CASE more
    <2> DEFINE none == "none"
               at == "lookup"
               q == [r EXCEPT !.results = rs, !.quota = none, !.pc = at]
    <2>1. none \in Quotas /\ at \in Steps
      BY DEF Quotas, Steps
    <2> HIDE DEF none, at
    <2>2. /\ q \in CallRec /\ q.results = rs /\ q.quota = none /\ q.pc = at
          /\ q.door = r.door /\ q.cred = r.cred /\ q.names = r.names /\ q.key = r.key
          /\ q.keyV = r.keyV /\ q.shown = r.shown /\ q.cfg = r.cfg
          /\ q.since = r.since /\ q.stillQ = r.stillQ /\ q.cut = r.cut
      BY <1>2, <2>1 DEF CallRec
    <2>3. Answer(a, r) = q
      BY <1>4 DEF Answer, rs, none, at
    <2> HIDE DEF q
    <2>4. Kept(q, r) /\ SameKey(q, r) /\ q.pc = "lookup" /\ q.quota = "none"
      BY <2>2 DEF Kept, SameKey, none, at
    <2>5. Good(q, ev, sn)
      BY <1>3, <1>4, <2>2, <2>4, NextItem
    <2> QED BY <2>2, <2>3, <2>4, <2>5
  <1>5. CASE ~more
    <2> DEFINE q == [Ended(r) EXCEPT !.results = rs]
    <2>1. /\ q \in CallRec /\ Kept(q, r) /\ SameKey(q, r)
          /\ q.results = rs /\ q.shown = r.shown /\ q.cut = r.cut
          /\ q.pc = "done" /\ q.quota = "none"
      BY <1>2, EndedWith
    <2>2. Answer(a, r) = q
      BY <1>5 DEF Answer, rs
    <2> HIDE DEF q
    <2>3. r.door \notin Reading => Len(rs) = Len(r.names)
      <3>1. r.door \notin Reading =>
               Len(r.results) < Len(r.names) /\ (r.door \notin Batch => Len(r.names) = 1)
        BY DEF Good, Books, Unkeyed
      <3> DEFINE m == Len(r.results)
                 n == Len(r.names)
                 k == Len(rs)
      <3>2. m \in Nat /\ n \in Nat /\ k = m + 1
        BY <1>1, <1>2
      <3>3. r.door \notin Batch \/ ~(k < n)
        BY <1>5
      <3>4. r.door \notin Reading => m < n /\ (r.door \notin Batch => n = 1)
        BY <3>1
      <3> HIDE DEF m, n, k
      <3>5. r.door \notin Reading => k = n
        BY <3>2, <3>3, <3>4
      <3> QED BY <3>5 DEF k, n
    <2>4. r.pc # "idle"
      BY DEF Unkeyed
    <2>5. q.door \notin Reading => Len(q.results) = Len(q.names)
      BY <2>1, <2>3 DEF Kept
    <2>6. Good(q, ev, sn)
      BY <1>3, <2>1, <2>4, <2>5, Finished
    <2> QED BY <2>1, <2>2, <2>6
  <1> QED BY <1>4, <1>5

----------------------------------------------------------------------------
(* A step of one request, and a change under all of them.                     *)

\* The running state moves on; what a request has read stays read.
LEMMA StillGood ==
    ASSUME Typed, NEW r \in CallRec, NEW ev, NEW sn, Good(r, ev, sn),
           cfgV' \in Vs, authV' \in Vs, cfgV <= cfgV', authV <= authV',
           quarantined \subseteq quarantined'
    PROVE  Good(r, ev, sn)'
  <1> DEFINE a == cfgV
             b == cfgV'
  <1>1. /\ a \in Nat /\ b \in Nat /\ a <= b /\ r.since \in Nat /\ r.cfg \in Nat
        /\ r.keyV \in Nat /\ authV \in Nat /\ authV' \in Nat
    BY DEF Typed, CallRec, Vs
  <1>2. r.since..a \subseteq r.since..b
    BY <1>1
  <1>3. Bound(r, sn)'
    BY <1>1, <1>2 DEF Good, Bound, May
  <1>4. Quarantined(r, sn)'
    BY DEF Good, Quarantined
  <1> QED BY <1>3, <1>4 DEF Good, OnWay, Books, Stored, Settled, SettledBut

\* One request moves, with its events and what it has called.
LEMMA OneCall ==
    ASSUME Typed, EachGood, NEW c \in Calls,
           NEW q \in CallRec, NEW ev \in Seq(Event), NEW sn \in SUBSET Tools,
           Good(q, ev, sn), UNCHANGED shared,
           call' = [call EXCEPT ![c] = q], events' = [events EXCEPT ![c] = ev],
           sent' = [sent EXCEPT ![c] = sn]
    PROVE  Typed' /\ EachGood'
  <1>1. Typed'
    BY DEF Typed, shared
  <1>2. cfgV' \in Vs /\ authV' \in Vs /\ cfgV <= cfgV' /\ authV <= authV'
    BY DEF Typed, shared, Vs
  <1>3. ASSUME NEW d \in Calls PROVE Good(call[d], events[d], sent[d])'
    <2> DEFINE r == call'[d]
               e == events'[d]
               s == sent'[d]
    <2>1. r \in CallRec /\ Good(r, e, s)
      BY DEF Typed, EachGood
    <2> QED BY <1>2, <2>1, StillGood DEF shared
  <1> QED BY <1>1, <1>3 DEF EachGood

----------------------------------------------------------------------------
(* The quota of a key.                                                        *)

Wins(ev) == {i \in DOMAIN ev : ev[i].status = "Success"}

LEMMA WinsAppend ==
    ASSUME NEW ev \in Seq(Event), NEW e \in Event
    PROVE  /\ Append(ev, e) \in Seq(Event)
           /\ Status(Append(ev, e)) = Append(Status(ev), e.status)
           /\ Len(ev) + 1 \notin Wins(ev)
           /\ Wins(Append(ev, e)) =
                 IF e.status = "Success" THEN Wins(ev) \cup {Len(ev) + 1} ELSE Wins(ev)
  <1> DEFINE n == Len(ev)
             x == Append(ev, e)
  <1>1. n \in Nat /\ DOMAIN ev = 1..n /\ \A i \in 1..n : ev[i] \in Event
    BY LenProperties, ElementOfSeq
  <1>2. /\ x \in Seq(Event) /\ Len(x) = n + 1 /\ DOMAIN x = 1..(n + 1)
        /\ \A i \in 1..n : x[i] = ev[i]
        /\ x[n + 1] = e
    BY <1>1, AppendProperties, LenProperties
  <1>3. Status(ev) = [i \in 1..n |-> ev[i].status] /\ Status(x) = [i \in 1..(n + 1) |-> x[i].status]
    BY <1>1, <1>2 DEF Status
  <1>4. \A i \in 1..(n + 1) : i \in 1..n \/ i = n + 1
    BY <1>1
  <1>5. n + 1 \notin 1..n /\ n + 1 \in 1..(n + 1) /\ \A i \in 1..n : i \in 1..(n + 1)
    BY <1>1
  <1>6. Status(x) = Append(Status(ev), e.status)
    <2>1. \A i \in 1..n : ev[i].status \in Statuses
      BY <1>1 DEF Event
    <2>2. Status(ev) \in Seq(Statuses) /\ Len(Status(ev)) = n
      BY <1>1, <1>3, <2>1, IsASeq
    <2> DEFINE y == Append(Status(ev), e.status)
    <2>3. e.status \in Statuses
      BY DEF Event
    <2>4. /\ y \in Seq(Statuses) /\ Len(y) = n + 1 
          /\ \A i \in 1..n : y[i] = Status(ev)[i]
          /\ y[n + 1] = e.status
      BY <2>2, <2>3, AppendProperties
    <2>5. y = [i \in 1..(n + 1) |-> y[i]]
      BY <2>4, LenProperties
    <2> HIDE DEF y, x, n
    <2>6. \A i \in 1..(n + 1) : y[i] = x[i].status
      BY <1>2, <1>3, <1>4, <2>4
    <2> QED BY <1>3, <2>5, <2>6 DEF y
  <1> HIDE DEF x, n
  <1>7. Wins(x) = IF e.status = "Success" THEN Wins(ev) \cup {n + 1} ELSE Wins(ev)
    BY <1>1, <1>2, <1>4, <1>5 DEF Wins
  <1>8. n + 1 \notin Wins(ev)
    BY <1>1, <1>5 DEF Wins
  <1> QED BY <1>2, <1>6, <1>7, <1>8 DEF x, n

LEMMA SuccessfulPairs ==
    ASSUME NEW f, NEW g, NEW k, NEW p
    PROVE  p \in Successful(f, g, k) <=>
              \E d \in Calls : \E i \in Wins(g[d]) : p = <<d, i>> /\ f[d].key = k
  <1>1. ASSUME p \in Successful(f, g, k)
        PROVE  \E d \in Calls : \E i \in Wins(g[d]) : p = <<d, i>> /\ f[d].key = k
    BY <1>1 DEF Successful, Wins
  <1>2. ASSUME NEW d \in Calls, NEW i \in Wins(g[d]), p = <<d, i>>, f[d].key = k
        PROVE  p \in Successful(f, g, k)
    BY <1>2 DEF Successful, Wins
  <1> QED BY <1>1, <1>2

\* All but request c are as before.
OnlyMoved(c, f, f2) == \A d \in Calls : d # c => f2[d] = f[d]

LEMMA SuccessfulSame ==
    ASSUME NEW f, NEW g, NEW f2, NEW g2, NEW c \in Calls, NEW k,
           OnlyMoved(c, f, f2), OnlyMoved(c, g, g2), Wins(g2[c]) = Wins(g[c]),
           f2[c].key = f[c].key \/ Wins(g[c]) = {}
    PROVE  Successful(f2, g2, k) = Successful(f, g, k)
  <1>1. \A d \in Calls : Wins(g2[d]) = Wins(g[d]) /\ (f2[d].key = f[d].key \/ Wins(g[d]) = {})
    BY DEF OnlyMoved
  <1>2. ASSUME NEW p PROVE p \in Successful(f2, g2, k) <=> p \in Successful(f, g, k)
    <2>1. p \in Successful(f2, g2, k) <=>
             \E d \in Calls : \E i \in Wins(g2[d]) : p = <<d, i>> /\ f2[d].key = k
      BY SuccessfulPairs
    <2>2. p \in Successful(f, g, k) <=>
             \E d \in Calls : \E i \in Wins(g[d]) : p = <<d, i>> /\ f[d].key = k
      BY SuccessfulPairs
    <2> QED BY <1>1, <2>1, <2>2
  <1> QED BY <1>2 DEF Successful

LEMMA SuccessfulMore ==
    ASSUME NEW f, NEW g, NEW f2, NEW g2, NEW c \in Calls, NEW k, NEW n,
           OnlyMoved(c, f, f2), OnlyMoved(c, g, g2), f2[c].key = f[c].key,
           n \notin Wins(g[c]), Wins(g2[c]) = Wins(g[c]) \cup {n}
    PROVE  /\ <<c, n>> \notin Successful(f, g, k)
           /\ Successful(f2, g2, k) = IF k = f[c].key THEN Successful(f, g, k) \cup {<<c, n>>}
                                      ELSE Successful(f, g, k)
  <1>1. \A d \in Calls : /\ f2[d].key = f[d].key
                         /\ d # c => Wins(g2[d]) = Wins(g[d])
                         /\ d = c => Wins(g2[d]) = Wins(g[d]) \cup {n}
    BY DEF OnlyMoved
  <1>2. <<c, n>> \notin Successful(f, g, k)
    BY SuccessfulPairs
  <1>3. ASSUME NEW p
        PROVE  p \in Successful(f2, g2, k) <=>
                  p \in Successful(f, g, k) \/ (p = <<c, n>> /\ f[c].key = k)
    <2>1. p \in Successful(f2, g2, k) <=>
             \E d \in Calls : \E i \in Wins(g2[d]) : p = <<d, i>> /\ f2[d].key = k
      BY SuccessfulPairs
    <2>2. p \in Successful(f, g, k) <=>
             \E d \in Calls : \E i \in Wins(g[d]) : p = <<d, i>> /\ f[d].key = k
      BY SuccessfulPairs
    <2> QED BY <1>1, <2>1, <2>2
  <1> QED BY <1>2, <1>3 DEF Successful

LEMMA HoldingFinite == ASSUME NEW f, NEW k PROVE IsFiniteSet(Holding(f, k))
  <1>1. IsFiniteSet(Calls)
    BY InvocationAssumption
  <1>2. Holding(f, k) \in SUBSET Calls
    BY DEF Holding
  <1> HIDE DEF Holding
  <1> QED BY <1>1, <1>2, FS_Subset

LEMMA HoldingSame ==
    ASSUME NEW f, NEW f2, NEW c \in Calls, NEW k, OnlyMoved(c, f, f2),
           f2[c].quota = "held" <=> f[c].quota = "held",
           f2[c].key = f[c].key \/ f[c].quota # "held"
    PROVE  Holding(f2, k) = Holding(f, k)
  BY DEF Holding, OnlyMoved

LEMMA HoldingMore ==
    ASSUME NEW f, NEW f2, NEW c \in Calls, NEW k, OnlyMoved(c, f, f2),
           f2[c].quota = "held", f[c].quota # "held", f2[c].key = f[c].key
    PROVE  /\ Holding(f2, k) = IF k = f[c].key THEN Holding(f, k) \cup {c} ELSE Holding(f, k)
           /\ c \notin Holding(f, k)
  BY DEF Holding, OnlyMoved

LEMMA HoldingLess ==
    ASSUME NEW f, NEW f2, NEW c \in Calls, NEW k, OnlyMoved(c, f, f2),
           f2[c].quota # "held", f2[c].key = f[c].key
    PROVE  /\ Holding(f2, k) = IF k = f[c].key THEN Holding(f, k) \ {c} ELSE Holding(f, k)
           /\ c \in Holding(f, k) <=> k = f[c].key /\ f[c].quota = "held"
  BY DEF Holding, OnlyMoved

\* A step that neither charges nor gives back.
LEMMA ChargeSame ==
    ASSUME Typed, Charged, NEW c \in Calls, NEW q \in CallRec, NEW ev,
           call' = [call EXCEPT ![c] = q], events' = [events EXCEPT ![c] = ev], used' = used,
           Wins(ev) = Wins(events[c]), q.quota = "held" <=> call[c].quota = "held",
           q.key = call[c].key \/ (Wins(ev) = {} /\ q.quota # "held")
    PROVE  Charged'
  <1> DEFINE f == call
             f2 == call'
             g == events
             g2 == events'
             u == used
             u2 == used'
  <1>0. /\ OnlyMoved(c, f, f2) /\ OnlyMoved(c, g, g2) /\ f[c].key \in Caller
        /\ Wins(g2[c]) = Wins(g[c]) /\ (f2[c].quota = "held" <=> f[c].quota = "held")
        /\ f2[c].key = f[c].key \/ (Wins(g[c]) = {} /\ f[c].quota # "held")
        /\ u2 = u
        /\ u = [k \in Caller |-> Count(f, g, k)]
        /\ \A k \in Caller : IsFiniteSet(Successful(f, g, k))
    BY DEF Typed, OnlyMoved, CallRec, Charged, Dropped
  <1> HIDE DEF f, f2, g, g2, u, u2
  <1>1. \A k \in Caller : Successful(f2, g2, k) = Successful(f, g, k)
    BY <1>0, SuccessfulSame
  <1>2. \A k \in Caller : Holding(f2, k) = Holding(f, k)
    BY <1>0, HoldingSame
  <1>3. u2 = [k \in Caller |-> Count(f2, g2, k)] /\ \A k \in Caller : IsFiniteSet(Successful(f2, g2, k))
    BY <1>0, <1>1, <1>2 DEF Count
  <1> QED BY <1>3 DEF Charged, f2, g2, u2

\* The call is admitted.
LEMMA ChargeMore ==
    ASSUME Typed, Charged, NEW c \in Calls, NEW q \in CallRec,
           call' = [call EXCEPT ![c] = q], events' = events,
           used' = [used EXCEPT ![call[c].key] = @ + 1],
           q.quota = "held", call[c].quota # "held", q.key = call[c].key
    PROVE  Charged'
  <1> DEFINE f == call
             f2 == call'
             g == events
             g2 == events'
             u == used
             u2 == used'
  <1>0. /\ OnlyMoved(c, f, f2) /\ OnlyMoved(c, g, g2) /\ f[c].key \in Caller
        /\ Wins(g2[c]) = Wins(g[c]) /\ f2[c].key = f[c].key /\ f2[c].quota = "held"
        /\ f[c].quota # "held"
        /\ u2 = [u EXCEPT ![f[c].key] = @ + 1]
        /\ u = [k \in Caller |-> Count(f, g, k)]
        /\ \A k \in Caller : IsFiniteSet(Successful(f, g, k))
    BY DEF Typed, OnlyMoved, CallRec, Charged, Dropped
  <1> HIDE DEF f, f2, g, g2, u, u2
  <1>1. ASSUME NEW k PROVE Successful(f2, g2, k) = Successful(f, g, k)
    BY <1>0, SuccessfulSame
  <1>2. ASSUME NEW k \in Caller
        PROVE  Count(f2, g2, k) = IF k = f[c].key THEN Count(f, g, k) + 1
                                          ELSE Count(f, g, k)
    <2> DEFINE H == Holding(f, k)
               H2 == Holding(f2, k)
    <2>1. H2 = (IF k = f[c].key THEN H \cup {c} ELSE H) /\ c \notin H
      BY <1>0, HoldingMore
    <2>2. IsFiniteSet(H)
      BY HoldingFinite
    <2> HIDE DEF H, H2
    <2>3. Cardinality(H) \in Nat /\ Cardinality(H \cup {c}) = Cardinality(H) + 1
      BY <2>1, <2>2, FS_AddElement, FS_CardinalityType
    <2>4. Cardinality(Successful(f, g, k)) \in Nat
      BY <1>0, FS_CardinalityType
    <2> DEFINE h == Cardinality(H)
               s == Cardinality(Successful(f, g, k))
    <2> HIDE DEF h, s
    <2>5. Count(f, g, k) = s + h /\ Count(f2, g2, k) = s + Cardinality(H2)
      BY <1>1 DEF Count, H, H2, h, s
    <2>6. h \in Nat /\ s \in Nat
      BY <2>3, <2>4 DEF h, s
    <2> QED BY <1>0, <2>1, <2>3, <2>5, <2>6 DEF h
  <1>3. u2 = [k \in Caller |-> Count(f2, g2, k)] /\ \A k \in Caller : IsFiniteSet(Successful(f2, g2, k))
    BY <1>0, <1>1, <1>2
  <1> QED BY <1>3 DEF Charged, f2, g2, u2

\* The guard of the quota is dropped.
LEMMA ChargeLess ==
    ASSUME Typed, Charged, NEW c \in Calls, NEW q \in CallRec, NEW ev,
           call' = [call EXCEPT ![c] = q], events' = [events EXCEPT ![c] = ev], Dropped(c),
           Wins(ev) = Wins(events[c]), q.quota # "held", q.key = call[c].key
    PROVE  Charged'
  <1> DEFINE f == call
             f2 == call'
             g == events
             g2 == events'
             u == used
             u2 == used'
  <1>0. /\ OnlyMoved(c, f, f2) /\ OnlyMoved(c, g, g2) /\ f[c].key \in Caller
        /\ Wins(g2[c]) = Wins(g[c]) /\ f2[c].key = f[c].key /\ f2[c].quota # "held"
        /\ u2 = [u EXCEPT ![f[c].key] = IF f[c].quota = "held" THEN @ - 1 ELSE @]
        /\ u = [k \in Caller |-> Count(f, g, k)]
        /\ \A k \in Caller : IsFiniteSet(Successful(f, g, k))
    BY DEF Typed, OnlyMoved, CallRec, Charged, Dropped
  <1> HIDE DEF f, f2, g, g2, u, u2
  <1>1. ASSUME NEW k PROVE Successful(f2, g2, k) = Successful(f, g, k)
    BY <1>0, SuccessfulSame
  <1>2. ASSUME NEW k \in Caller
        PROVE  Count(f2, g2, k) = IF k = f[c].key /\ f[c].quota = "held"
                                          THEN Count(f, g, k) - 1
                                          ELSE Count(f, g, k)
    <2> DEFINE H == Holding(f, k)
               H2 == Holding(f2, k)
    <2>1. H2 = (IF k = f[c].key THEN H \ {c} ELSE H)
          /\ (c \in H <=> k = f[c].key /\ f[c].quota = "held")
      BY <1>0, HoldingLess
    <2>2. IsFiniteSet(H)
      BY HoldingFinite
    <2> HIDE DEF H, H2
    <2>3. /\ Cardinality(H) \in Nat
          /\ Cardinality(H \ {c}) = IF c \in H THEN Cardinality(H) - 1 ELSE Cardinality(H)
      BY <2>2, FS_RemoveElement, FS_CardinalityType
    <2>4. Cardinality(Successful(f, g, k)) \in Nat
      BY <1>0, FS_CardinalityType
    <2> DEFINE h == Cardinality(H)
               s == Cardinality(Successful(f, g, k))
    <2> HIDE DEF h, s
    <2>5. Count(f, g, k) = s + h /\ Count(f2, g2, k) = s + Cardinality(H2)
      BY <1>1 DEF Count, H, H2, h, s
    <2>6. h \in Nat /\ s \in Nat
      BY <2>3, <2>4 DEF h, s
    <2> QED BY <1>0, <2>1, <2>3, <2>5, <2>6 DEF h
  <1>3. u2 = [k \in Caller |-> Count(f2, g2, k)] /\ \A k \in Caller : IsFiniteSet(Successful(f2, g2, k))
    BY <1>0, <1>1, <1>2
  <1> QED BY <1>3 DEF Charged, f2, g2, u2

\* The call is charged for good and its event recorded.
LEMMA ChargeWon ==
    ASSUME Typed, Charged, NEW c \in Calls, NEW q \in CallRec, NEW ev, NEW n,
           call' = [call EXCEPT ![c] = q], events' = [events EXCEPT ![c] = ev], used' = used,
           n \notin Wins(events[c]), Wins(ev) = Wins(events[c]) \cup {n},
           q.quota # "held", call[c].quota = "held", q.key = call[c].key
    PROVE  Charged'
  <1> DEFINE f == call
             f2 == call'
             g == events
             g2 == events'
             u == used
             u2 == used'
  <1>0. /\ OnlyMoved(c, f, f2) /\ OnlyMoved(c, g, g2) /\ f[c].key \in Caller
        /\ Wins(g2[c]) = Wins(g[c]) \cup {n} /\ n \notin Wins(g[c]) /\ f2[c].key = f[c].key
        /\ f2[c].quota # "held" /\ f[c].quota = "held"
        /\ u2 = u
        /\ u = [k \in Caller |-> Count(f, g, k)]
        /\ \A k \in Caller : IsFiniteSet(Successful(f, g, k))
    BY DEF Typed, OnlyMoved, CallRec, Charged, Dropped
  <1> HIDE DEF f, f2, g, g2, u, u2
  <1>1. ASSUME NEW k \in Caller
        PROVE  /\ Count(f2, g2, k) = Count(f, g, k)
               /\ IsFiniteSet(Successful(f2, g2, k))
    <2> DEFINE H == Holding(f, k)
               H2 == Holding(f2, k)
               S == Successful(f, g, k)
               S2 == Successful(f2, g2, k)
               p == <<c, n>>
    <2>1. H2 = (IF k = f[c].key THEN H \ {c} ELSE H) /\ (c \in H <=> k = f[c].key)
      BY <1>0, HoldingLess
    <2>2. p \notin S /\ S2 = IF k = f[c].key THEN S \cup {p} ELSE S
      BY <1>0, SuccessfulMore
    <2>3. IsFiniteSet(H) /\ IsFiniteSet(S)
      BY <1>0, HoldingFinite
    <2> HIDE DEF H, H2, S, S2, p
    <2>4. /\ Cardinality(H) \in Nat
          /\ Cardinality(H \ {c}) = IF c \in H THEN Cardinality(H) - 1 ELSE Cardinality(H)
      BY <2>3, FS_RemoveElement, FS_CardinalityType
    <2>5. /\ Cardinality(S) \in Nat /\ IsFiniteSet(S \cup {p})
          /\ Cardinality(S \cup {p}) = Cardinality(S) + 1
      BY <2>2, <2>3, FS_AddElement, FS_CardinalityType
    <2>6. IsFiniteSet(S2)
      BY <2>2, <2>3, <2>5
    <2>7. Cardinality(S2) + Cardinality(H2) = Cardinality(S) + Cardinality(H)
      BY <2>1, <2>2, <2>4, <2>5
    <2> QED BY <2>6, <2>7 DEF Count, H, H2, S, S2
  <1>3. u2 = [k \in Caller |-> Count(f2, g2, k)] /\ \A k \in Caller : IsFiniteSet(Successful(f2, g2, k))
    BY <1>0, <1>1
  <1> QED BY <1>3 DEF Charged, f2, g2, u2

----------------------------------------------------------------------------
(* The steps on the way to the pipeline.                                      *)

LEMMA RequestGood ==
    ASSUME IInv, NEW c \in Calls
    PROVE  /\ call[c] \in CallRec /\ Good(call[c], events[c], sent[c])
           /\ events[c] \in Seq(Event) /\ sent[c] \in SUBSET Tools
  BY DEF IInv, Typed, EachGood

\* A step of one request that leaves its events and what it has called alone.
LEMMA Quiet ==
    ASSUME IInv, NEW c \in Calls, NEW q \in CallRec, Good(q, events[c], sent[c]),
           call' = [call EXCEPT ![c] = q], Local,
           q.quota = "held" <=> call[c].quota = "held",
           q.key = call[c].key \/ (events[c] = <<>> /\ q.quota # "held")
    PROVE  IInv'
  <1>1. Typed /\ EachGood /\ Charged
    BY DEF IInv
  <1>2. /\ events[c] \in Seq(Event) /\ sent[c] \in SUBSET Tools
        /\ events' = [events EXCEPT ![c] = events[c]] /\ sent' = [sent EXCEPT ![c] = sent[c]]
        /\ used' = used /\ UNCHANGED shared
    BY <1>1 DEF Local, Typed
  <1>3. events[c] = <<>> => Wins(events[c]) = {}
    BY DEF Wins
  <1>4. Typed' /\ EachGood'
    BY <1>1, <1>2, OneCall
  <1>5. Charged'
    BY <1>1, <1>2, <1>3, ChargeSame
  <1> QED BY <1>4, <1>5 DEF IInv

\* A request that is refused as a whole has left no event.
LEMMA Refused ==
    ASSUME Typed, NEW r \in CallRec, NEW ev, NEW sn, Good(r, ev, sn), r.pc # "idle",
           Settled(ev), r.door \notin Reading => Status(ev) = <<>>
    PROVE  LET q == [Ended(r) EXCEPT !.results = <<"refused">>]
           IN  q \in CallRec /\ Good(q, ev, sn) /\ SameKey(q, r) /\ q.quota = "none"
  <1> DEFINE rs == <<"refused">>
             q == [Ended(r) EXCEPT !.results = rs]
  <1>1. rs \in Seq(Results)
    BY DEF Results
  <1>2. Flat(rs) = <<>>
    <2>1. rs = Append(<<>>, "refused") /\ "refused" \in Results /\ <<>> \in Seq(Results)
      BY DEF Results
    <2>2. Flat(rs) = Flat(<<>>) \o EventOf("refused")
      BY <2>1, FlatAppend
    <2> QED BY <2>2, FlatEmpty DEF EventOf
  <1>3. /\ q \in CallRec /\ Kept(q, r) /\ SameKey(q, r)
        /\ q.results = rs /\ q.shown = r.shown /\ q.pc = "done" /\ q.quota = "none"
    BY <1>1, EndedWith
  <1> HIDE DEF q
  <1>4. Good(q, ev, sn)
    BY <1>2, <1>3, Finished DEF Kept
  <1> QED BY <1>3, <1>4 DEF q

LEMMA NothingYet ==
    ASSUME NEW r \in CallRec, NEW ev, NEW sn, Good(r, ev, sn), r.pc \in Unkeyed \cup {"peer", "list"}
    PROVE  r.door \notin Reading => Status(ev) = <<>>
  <1>1. CASE r.pc \in Unkeyed
    <2>1. ev = <<>>
      BY <1>1 DEF Good, Books
    <2> QED BY <2>1 DEF Status
  <1>2. CASE r.pc = "list"
    BY <1>2, Places DEF Good, OnWay, WaySteps, CallRec
  <1>3. CASE r.pc = "peer"
    <2>1. r.door = "mcp_prompt"
      BY <1>3, Places DEF Good, OnWay, WaySteps, CallRec
    <2>2. r.results \in Seq(Results) /\ Len(r.results) < 1 /\ Status(ev) = Flat(r.results)
      BY <1>3, <2>1 DEF Good, Books, Batch, Reading, CallRec
    <2>3. r.results = <<>>
      BY <2>2, EmptySeq, LenProperties
    <2> QED BY <2>2, <2>3, FlatEmpty
  <1> QED BY <1>1, <1>2, <1>3

LEMMA RefuseStep ==
    ASSUME IInv, NEW c \in Calls, call[c].pc \in {"gate", "auth", "peer", "list"},
           Set(c, Refuse(c)), Local
    PROVE  IInv'
  <1> DEFINE r == call[c]
             q == [Ended(r) EXCEPT !.results = <<"refused">>]
  <1>1. r \in CallRec /\ Good(r, events[c], sent[c]) /\ Typed
    BY RequestGood DEF IInv
  <1>2. Settled(events[c]) /\ (r.door \notin Reading => Status(events[c]) = <<>>)
    BY <1>1, NothingYet, SettledNow DEF Unkeyed
  <1>3. q \in CallRec /\ Good(q, events[c], sent[c]) /\ SameKey(q, r) /\ q.quota = "none"
    BY <1>1, <1>2, Refused
  <1>4. call' = [call EXCEPT ![c] = q]
    BY DEF Set, Refuse
  <1>5. r.quota # "held"
    BY <1>1 DEF Good, Books
  <1> HIDE DEF q
  <1> QED BY <1>3, <1>4, <1>5, Quiet DEF SameKey

LEMMA AfterIs ==
    ASSUME IInv, NEW c \in Calls, call[c].pc \in Asking
    PROVE  /\ After(c) \in WaySteps /\ After(c) \in Steps /\ On(call[c].door, After(c))
           /\ call[c].pc = "gate" => After(c) = "config"
           /\ call[c].pc = "config" => After(c) = "auth"
           /\ call[c].pc \notin {"gate", "config"} => After(c) \notin Unkeyed
  <1>1. call[c].door \in Doors /\ On(call[c].door, call[c].pc)
    BY RequestGood DEF Good, OnWay, Asking, WaySteps, CallRec
  <1>2. After(c) = NextStep(call[c].door, call[c].pc)
    BY DEF After, NextStep
  <1>3. WaySteps \subseteq Steps
    BY DEF WaySteps, Steps
  <1> QED BY <1>1, <1>2, <1>3, Forward

LEMMA gateStep == ASSUME IInv, NEW c \in Calls, require_mcp_auth(c) PROVE IInv'
  <1> DEFINE r == call[c]
             p == After(c)
             yes == TRUE
             q1 == [r EXCEPT !.pc = p]
             q2 == [r EXCEPT !.pc = p, !.bound = yes]
  <1>1. r \in CallRec /\ Good(r, events[c], sent[c]) /\ Typed /\ r.pc = "gate"
    BY RequestGood DEF IInv, require_mcp_auth
  <1>2. p = "config" /\ p \in Steps /\ On(r.door, p) /\ yes \in BOOLEAN
    BY <1>1, AfterIs DEF Asking
  <1>3. \/ call' = [call EXCEPT ![c] = q1]
        \/ call' = [call EXCEPT ![c] = q2]
        \/ Set(c, Refuse(c))
    BY DEF require_mcp_auth, Set
  <1>4. Local
    BY DEF require_mcp_auth
  <1> HIDE DEF r, p, yes
  <1>5. ASSUME NEW q \in CallRec, Kept(q, r), SameKey(q, r), SameAnswer(q, r),
               q.cfg = r.cfg, q.quota = r.quota, q.pc = p
        PROVE  Good(q, events[c], sent[c]) /\ q.key = r.key /\ q.quota = r.quota
    <2>1. OnWay(q) /\ r.quota # "held"
      BY <1>1, <1>2, <1>5 DEF Kept, OnWay, Good, Books
    <2>2. Good(q, events[c], sent[c])
      BY <1>1, <1>2, <1>5, <2>1, Advance DEF Unkeyed, Unread, Allowed, Checked
    <2> QED BY <1>5, <2>2 DEF SameKey
  <1>6. ASSUME NEW q \in {q1, q2}
        PROVE  /\ q \in CallRec /\ q.cfg = r.cfg /\ q.quota = r.quota /\ q.pc = p
               /\ Kept(q, r) /\ SameKey(q, r) /\ SameAnswer(q, r)
    <2>1. CASE q = q1
      BY <1>1, <1>2, <2>1 DEF CallRec, Kept, SameKey, SameAnswer
    <2>2. CASE q = q2
      BY <1>1, <1>2, <2>2 DEF CallRec, Kept, SameKey, SameAnswer
    <2> QED BY <2>1, <2>2
  <1> HIDE DEF q1, q2
  <1>7. ASSUME NEW q \in {q1, q2}, call' = [call EXCEPT ![c] = q] PROVE IInv'
    BY <1>4, <1>5, <1>6, <1>7, Quiet DEF r
  <1>8. CASE Set(c, Refuse(c))
    BY <1>1, <1>4, <1>8, RefuseStep DEF r
  <1> QED BY <1>3, <1>7, <1>8

LEMMA configStep == ASSUME IInv, NEW c \in Calls, config_snapshot(c) PROVE IInv'
  <1> DEFINE r == call[c]
             v == cfgV
             p == After(c)
             q == [r EXCEPT !.cfg = v, !.pc = p]
  <1>1. r \in CallRec /\ Good(r, events[c], sent[c]) /\ Typed /\ r.pc = "config"
    BY RequestGood DEF IInv, config_snapshot
  <1>2. p = "auth" /\ p \in WaySteps /\ p \in Steps /\ On(r.door, p) /\ v \in Vs /\ v = cfgV
    BY <1>1, AfterIs DEF Asking, Typed
  <1>3. call' = [call EXCEPT ![c] = q] /\ Local
    BY DEF config_snapshot, Set
  <1> HIDE DEF r, v, p
  <1>5. /\ q \in CallRec /\ q.door = r.door /\ q.cred = r.cred /\ q.names = r.names
        /\ q.cfg = v /\ q.key = r.key /\ q.keyV = r.keyV /\ q.canonical = r.canonical
        /\ q.quota = r.quota /\ q.out = r.out /\ q.results = r.results
        /\ q.shown = r.shown /\ q.since = r.since /\ q.stillQ = r.stillQ /\ q.cut = r.cut
        /\ q.pc = p
    BY <1>1, <1>2 DEF CallRec
  <1> HIDE DEF q
  <1>6. Kept(q, r) /\ SameKey(q, r) /\ SameAnswer(q, r) /\ OnWay(q) /\ r.quota # "held"
    BY <1>1, <1>2, <1>5 DEF Kept, SameKey, SameAnswer, OnWay, Good, Books, WaySteps
  <1>7. Good(q, events[c], sent[c])
    BY <1>1, <1>2, <1>5, <1>6, Advance DEF Unkeyed, Unread, Allowed, Checked, WaySteps
  <1> QED BY <1>3, <1>5, <1>6, <1>7, Quiet DEF r

LEMMA config2Step == ASSUME IInv, NEW c \in Calls, fresh_config(c) PROVE IInv'
  <1> DEFINE r == call[c]
             v == cfgV
             p == After(c)
             q == [r EXCEPT !.cfg = v, !.pc = p]
  <1>1. r \in CallRec /\ Good(r, events[c], sent[c]) /\ Typed /\ r.pc = "config2"
    BY RequestGood DEF IInv, fresh_config
  <1>2. p \notin Unkeyed /\ p \in WaySteps /\ p \in Steps /\ On(r.door, p) /\ v \in Vs /\ v = cfgV
    BY <1>1, AfterIs DEF Asking, Typed
  <1>3. call' = [call EXCEPT ![c] = q] /\ Local
    BY DEF fresh_config, Set
  <1> HIDE DEF r, v, p
  <1>5. /\ q \in CallRec /\ q.door = r.door /\ q.cred = r.cred /\ q.names = r.names
        /\ q.cfg = v /\ q.key = r.key /\ q.keyV = r.keyV /\ q.canonical = r.canonical
        /\ q.quota = r.quota /\ q.out = r.out /\ q.results = r.results
        /\ q.shown = r.shown /\ q.since = r.since /\ q.stillQ = r.stillQ /\ q.cut = r.cut
        /\ q.pc = p
    BY <1>1, <1>2 DEF CallRec
  <1> HIDE DEF q
  <1>6. Kept(q, r) /\ SameKey(q, r) /\ SameAnswer(q, r) /\ OnWay(q) /\ r.quota # "held"
    BY <1>1, <1>2, <1>5 DEF Kept, SameKey, SameAnswer, OnWay, Good, Books, WaySteps
  <1>7. Good(q, events[c], sent[c])
    BY <1>1, <1>2, <1>5, <1>6, Advance DEF Unkeyed, Unread, Allowed, Checked, WaySteps
  <1> QED BY <1>3, <1>5, <1>6, <1>7, Quiet DEF r

LEMMA VersionTyped ==
    ASSUME NEW v \in Vs
    PROVE  /\ Versions[v].resources \subseteq HttpTools
           /\ Versions[v].scope \in [Keys -> SUBSET Tools \cup {None}]
           /\ keys(v) \subseteq Keys
  <1>1. Versions[v] \in Config
    BY InvocationAssumption, ElementOfSeq DEF Vs
  <1> QED BY <1>1 DEF Config, keys

LEMMA CatalogTools == Typed => catalog \subseteq Tools
  <1> SUFFICES ASSUME Typed PROVE catalog \subseteq Tools
    OBVIOUS
  <1>1. catV \in Vs
    BY DEF Typed, Vs
  <1>2. Versions[catV].resources \subseteq HttpTools
    BY <1>1, VersionTyped
  <1> QED BY <1>2 DEF catalog, Typed, Tools

LEMMA snapStep == ASSUME IInv, NEW c \in Calls, Snapshot(c) PROVE IInv'
  <1> DEFINE r == call[c]
             s == catalog
             p == After(c)
             q == [r EXCEPT !.cat = s, !.pc = p]
  <1>1. r \in CallRec /\ Good(r, events[c], sent[c]) /\ Typed /\ r.pc = "snap"
    BY RequestGood DEF IInv, Snapshot
  <1>2. p \notin Unkeyed /\ p \in WaySteps /\ p \in Steps /\ On(r.door, p) /\ s \in SUBSET Tools
    BY <1>1, AfterIs, CatalogTools DEF Asking
  <1>3. call' = [call EXCEPT ![c] = q] /\ Local
    BY DEF Snapshot, Set
  <1> HIDE DEF r, s, p
  <1>5. /\ q \in CallRec /\ q.door = r.door /\ q.cred = r.cred /\ q.names = r.names
        /\ q.cfg = r.cfg /\ q.key = r.key /\ q.keyV = r.keyV /\ q.canonical = r.canonical
        /\ q.quota = r.quota /\ q.out = r.out /\ q.results = r.results
        /\ q.shown = r.shown /\ q.since = r.since /\ q.stillQ = r.stillQ /\ q.cut = r.cut
        /\ q.pc = p
    BY <1>1, <1>2 DEF CallRec
  <1> HIDE DEF q
  <1>6. Kept(q, r) /\ SameKey(q, r) /\ SameAnswer(q, r) /\ OnWay(q) /\ r.quota # "held"
    BY <1>1, <1>2, <1>5 DEF Kept, SameKey, SameAnswer, OnWay, Good, Books, WaySteps
  <1>7. Good(q, events[c], sent[c])
    BY <1>1, <1>2, <1>5, <1>6, Advance DEF Unkeyed, Unread, Allowed, Checked, WaySteps
  <1> QED BY <1>3, <1>5, <1>6, <1>7, Quiet DEF r


WithKey(r, k, p) == [r EXCEPT !.key = k, !.keyV = r.cfg, !.pc = p]
Showing(r, a, S) == [Ended(r) EXCEPT !.results = <<a>>, !.shown = S]

\* The key is taken from the credential, or is the one of the open mode.
LEMMA KeyStep ==
    ASSUME IInv, NEW c \in Calls, call[c].pc = "auth", Local, NEW k \in Caller,
           call' = [call EXCEPT ![c] = WithKey(call[c], k, After(c))],
           \/ k = call[c].cred /\ k \in keys(call[c].cfg)
           \/ k = NoKey /\ ~mcp_auth_required(authV)
    PROVE  IInv'
  <1> DEFINE r == call[c]
             v == r.cfg
             p == After(c)
             q == [r EXCEPT !.key = k, !.keyV = v, !.pc = p]
  <1>1. r \in CallRec /\ Good(r, events[c], sent[c]) /\ Typed /\ r.pc = "auth"
    BY RequestGood DEF IInv
  <1>2. p \notin Unkeyed /\ p \in WaySteps /\ p \in Steps /\ On(r.door, p) /\ v \in Vs /\ v = r.cfg
    BY <1>1, AfterIs DEF Asking, CallRec
  <1>3. /\ call' = [call EXCEPT ![c] = q]
        /\ (k = r.cred /\ k \in keys(r.cfg)) \/ (k = NoKey /\ ~mcp_auth_required(authV))
    BY DEF WithKey
  <1> HIDE DEF r, v, p
  <1>4. /\ q \in CallRec /\ q.door = r.door /\ q.cred = r.cred /\ q.names = r.names
        /\ q.cfg = r.cfg /\ q.key = k /\ q.keyV = v /\ q.canonical = r.canonical
        /\ q.quota = r.quota /\ q.out = r.out /\ q.results = r.results
        /\ q.shown = r.shown /\ q.since = r.since /\ q.stillQ = r.stillQ /\ q.cut = r.cut
        /\ q.pc = p
    BY <1>1, <1>2 DEF CallRec
  <1> HIDE DEF q
  <1>5. Kept(q, r) /\ SameAnswer(q, r) /\ OnWay(q) /\ r.quota # "held" /\ events[c] = <<>>
    BY <1>1, <1>2, <1>4 DEF Kept, SameAnswer, OnWay, Good, Books, Unkeyed
  <1>6. Good(q, events[c], sent[c])
    BY <1>1, <1>2, <1>3, <1>4, <1>5, Keyed
  <1> QED BY <1>3, <1>4, <1>5, <1>6, Quiet DEF r

LEMMA authStep ==
    ASSUME IInv, NEW c \in Calls, proxy_key_for(c) \/ resolve_proxy_key(c)
    PROVE  IInv'
  <1>1. Local /\ call[c].pc = "auth" /\ call[c].cred \in Caller /\ NoKey \in Caller
    BY RequestGood DEF proxy_key_for, resolve_proxy_key, CallRec, Caller
  <1> DEFINE q(k) == WithKey(call[c], k, After(c))
  <1>2. \/ Set(c, Refuse(c))
        \/ Set(c, q(call[c].cred)) /\ call[c].cred \in keys(call[c].cfg)
        \/ Set(c, q(NoKey)) /\ ~mcp_auth_required(authV)
    BY DEF proxy_key_for, resolve_proxy_key, DefaultKey, WithKey
  <1>3. CASE Set(c, Refuse(c))
    BY <1>1, <1>3, RefuseStep
  <1>4. CASE Set(c, q(call[c].cred)) /\ call[c].cred \in keys(call[c].cfg)
    BY <1>1, <1>4, KeyStep DEF Set
  <1>5. CASE Set(c, q(NoKey)) /\ ~mcp_auth_required(authV)
    BY <1>1, <1>5, KeyStep DEF Set
  <1> QED BY <1>2, <1>3, <1>4, <1>5

\* What a key may use, some version since the arrival of its request lets it use.
LEMMA Covered ==
    ASSUME Typed, NEW r \in CallRec, NEW ev, NEW sn, Good(r, ev, sn),
           r.pc \notin Unkeyed \cup {"done"}, NEW t, key_can_use_tool(r.keyV, r.key, t)
    PROVE  \E v \in r.since..cfgV : May(v, r, t)
  <1>1. /\ r.key = NoKey => \E v \in r.since..cfgV : ~mcp_auth_required(v)
        /\ r.key \in Keys => r.key = r.cred /\ r.key \in keys(r.keyV)
        /\ r.since <= r.keyV /\ r.keyV <= cfgV
    BY DEF Good, Bound
  <1>2. r.key \in Caller /\ r.keyV \in r.since..cfgV
    BY <1>1 DEF CallRec, Vs, Typed
  <1>3. CASE r.key = NoKey
    BY <1>1, <1>3 DEF May, DefaultKey
  <1>4. CASE r.key # NoKey
    BY <1>1, <1>2, <1>4 DEF May, DefaultKey, key_can_use_tool, Caller
  <1> QED BY <1>3, <1>4

\* An answer to a question about the tools.
LEMMA ShowStep ==
    ASSUME IInv, NEW c \in Calls, call[c].pc \in {"list", "search", "surface", "summary"}, Local,
           NEW a \in Results, NEW S \in SUBSET Tools,
           \A t \in S : key_can_use_tool(call[c].keyV, call[c].key, t),
           call' = [call EXCEPT ![c] = Showing(call[c], a, S)]
    PROVE  IInv'
  <1> DEFINE r == call[c]
             e == Ended(r)
             rs == <<a>>
             q == [e EXCEPT !.results = rs, !.shown = S]
  <1>1. r \in CallRec /\ Good(r, events[c], sent[c]) /\ Typed
    BY RequestGood DEF IInv
  <1>2. /\ e \in CallRec /\ Kept(e, r) /\ SameKey(e, r) /\ e.pc = "done" /\ e.quota = "none"
        /\ rs \in Seq(Results) /\ call' = [call EXCEPT ![c] = q]
    BY <1>1, EndedFields DEF Showing
  <1>3. /\ r.pc \in {"list", "search", "surface", "summary"}
        /\ \A t \in S : key_can_use_tool(r.keyV, r.key, t)
    OBVIOUS
  <1> HIDE DEF e, rs, r
  <1>4. /\ q \in CallRec /\ q.pc = e.pc /\ q.quota = e.quota /\ q.shown = S
        /\ q.door = e.door /\ q.cred = e.cred /\ q.names = e.names /\ q.since = e.since
        /\ q.stillQ = e.stillQ /\ q.key = e.key /\ q.keyV = e.keyV
    BY <1>2 DEF CallRec
  <1> HIDE DEF q
  <1>5. Kept(q, r) /\ SameKey(q, r) /\ q.pc = "done" /\ q.quota = "none"
    BY <1>2, <1>4 DEF Kept, SameKey
  <1>6. q.door \in Reading /\ r.quota # "held"
    BY <1>1, <1>3, <1>5, Places DEF Good, OnWay, WaySteps, CallRec, Kept, Books
  <1>7. \A t \in q.shown : \E v \in r.since..cfgV : May(v, r, t)
    BY <1>1, <1>3, <1>4, Covered DEF Unkeyed
  <1>9. Settled(events[c])
    BY <1>1, <1>3, SettledNow
  <1>8. Good(q, events[c], sent[c])
    BY <1>1, <1>3, <1>4, <1>5, <1>6, <1>7, <1>9, Finished
  <1> QED BY <1>2, <1>4, <1>5, <1>6, <1>8, Quiet DEF r, SameKey

LEMMA listStep == ASSUME IInv, NEW c \in Calls, list_tools(c) PROVE IInv'
  <1> DEFINE S == IF is_lazy(c) THEN {} ELSE Visible(c, catalog)
  <1>1. call[c].pc = "list" /\ Local /\ "success" \in Results
    BY DEF list_tools, Results
  <1>2. \/ Set(c, Refuse(c))
        \/ call' = [call EXCEPT ![c] = Showing(call[c], "success", S)]
    BY DEF list_tools, Set, Showing
  <1>3. S \in SUBSET Tools /\ \A t \in S : key_can_use_tool(call[c].keyV, call[c].key, t)
    BY CatalogTools DEF IInv, Visible
  <1> HIDE DEF S
  <1>4. CASE Set(c, Refuse(c))
    BY <1>1, <1>4, RefuseStep
  <1>5. CASE call' = [call EXCEPT ![c] = Showing(call[c], "success", S)]
    BY <1>1, <1>3, <1>5, ShowStep
  <1> QED BY <1>2, <1>4, <1>5

LEMMA searchStep ==
    ASSUME IInv, NEW c \in Calls, meta_discovery(c) \/ list_prompts_for(c) PROVE IInv'
  <1> DEFINE S == IF call[c].pc = "search" THEN Visible(c, call[c].cat) ELSE Visible(c, registry)
  <1>1. call[c].pc \in {"search", "surface"} /\ Local /\ "success" \in Results
    BY DEF meta_discovery, list_prompts_for, Results
  <1>2. call' = [call EXCEPT ![c] = Showing(call[c], "success", S)]
    BY DEF meta_discovery, list_prompts_for, Set, Showing
  <1>3. call[c].cat \subseteq Tools /\ registry \subseteq Tools
    BY RequestGood DEF IInv, Typed, CallRec, Tools
  <1>4. S \in SUBSET Tools /\ \A t \in S : key_can_use_tool(call[c].keyV, call[c].key, t)
    BY <1>3 DEF Visible
  <1> HIDE DEF S
  <1> QED BY <1>1, <1>2, <1>4, ShowStep

LEMMA summaryStep == ASSUME IInv, NEW c \in Calls, get_config(c) PROVE IInv'
  <1> DEFINE r == call[c]
  <1>1. /\ r \in CallRec /\ Good(r, events[c], sent[c]) /\ Typed /\ r.pc = "summary" /\ Local
    BY RequestGood DEF IInv, get_config
  <1>2. PICK a \in Results : call' = [call EXCEPT ![c] = [Ended(r) EXCEPT !.results = <<a>>]]
    BY DEF get_config, Set, Results
  <1> DEFINE q == [Ended(r) EXCEPT !.results = <<a>>]
  <1>3. /\ q \in CallRec /\ Kept(q, r) /\ SameKey(q, r) /\ q.shown = r.shown
        /\ q.pc = "done" /\ q.quota = "none"
    <2>1. <<a>> \in Seq(Results)
      OBVIOUS
    <2> QED BY <1>1, <2>1, EndedWith
  <1>4. call' = [call EXCEPT ![c] = q]
    BY <1>2
  <1> HIDE DEF q
  <1>5. q.door \in Reading /\ r.quota # "held"
    BY <1>1, <1>3, Places DEF Good, OnWay, WaySteps, CallRec, Kept, Books
  <1>6. Settled(events[c])
    BY <1>1, SettledNow
  <1>7. Good(q, events[c], sent[c])
    BY <1>1, <1>3, <1>5, <1>6, Finished
  <1> QED BY <1>1, <1>3, <1>4, <1>5, <1>7, Quiet DEF SameKey

----------------------------------------------------------------------------
(* The steps of the pipeline.                                                 *)

LEMMA StatusSeq == ASSUME NEW ev \in Seq(Event) PROVE Status(ev) \in Seq(Statuses)
  <1>1. Len(ev) \in Nat /\ DOMAIN ev = 1..Len(ev) /\ \A i \in 1..Len(ev) : ev[i] \in Event
    BY LenProperties, ElementOfSeq
  <1>2. \A i \in 1..Len(ev) : ev[i].status \in Statuses
    BY <1>1 DEF Event
  <1>3. Status(ev) = [i \in 1..Len(ev) |-> ev[i].status]
    BY <1>1 DEF Status
  <1> QED BY <1>1, <1>2, <1>3, IsASeq

\* An item is refused before it costs anything.
LEMMA RefuseItem ==
    ASSUME IInv, NEW c \in Calls, call[c].pc \in {"lookup", "resolve", "quarantine", "branch"},
           Set(c, Answer("refused", call[c])), Local
    PROVE  IInv'
  <1> DEFINE r == call[c]
             q == Answer("refused", r)
  <1>1. /\ r \in CallRec /\ Good(r, events[c], sent[c]) /\ Typed /\ events[c] \in Seq(Event)
        /\ call' = [call EXCEPT ![c] = q] /\ "refused" \in Results
    BY RequestGood DEF IInv, Set, Results
  <1>2. Status(events[c]) = Flat(r.results) /\ r.quota # "held" /\ Settled(events[c])
    BY <1>1, SettledNow DEF Good, Books
  <1>3. Flat(r.results) \o EventOf("refused") = Flat(r.results)
    BY <1>1, <1>2, StatusSeq, ConcatEmptySeq DEF EventOf
  <1>4. q \in CallRec /\ Good(q, events[c], sent[c]) /\ SameKey(q, r) /\ q.quota = "none"
    BY <1>1, <1>2, <1>3, Answered DEF Unkeyed
  <1> HIDE DEF q
  <1> QED BY <1>1, <1>2, <1>4, Quiet DEF SameKey

LEMMA Resolved ==
    ASSUME NEW tools \in SUBSET Tools, NEW n, NEW v, NEW k
    PROVE  resolve_for_key(tools, n, v, k) \in Tools \cup {None}
  <1> DEFINE hits == {t \in tools : ShortOf[t] = n /\ key_can_use_tool(v, k, t)}
  <1>1. Cardinality(hits) = 1 => hits # {}
    BY FS_EmptySet
  <1>2. Cardinality(hits) = 1 => (CHOOSE t \in hits : TRUE) \in Tools
    BY <1>1
  <1> QED BY <1>2 DEF resolve_for_key

LEMMA lookupStep == ASSUME IInv, NEW c \in Calls, Lookup(c) PROVE IInv'
  <1> DEFINE r == call[c]
             t == resolve_for_key(meta_call(c), Item(c), call[c].keyV, call[c].key)
             p == After(c)
             m == t \in registry
             q == [r EXCEPT !.canonical = t, !.remote = m, !.pc = p]
  <1>1. r \in CallRec /\ Good(r, events[c], sent[c]) /\ Typed /\ r.pc = "lookup" /\ Local
    BY RequestGood DEF IInv, Lookup
  <1>2. t \in Tools \cup {None}
    <2>1. meta_call(c) \in SUBSET Tools
      BY <1>1, CatalogTools DEF meta_call, CallRec
    <2> QED BY <2>1, Resolved
  <1>3. /\ p \notin Unkeyed /\ p \in WaySteps /\ p \in Steps /\ On(r.door, p) /\ m \in BOOLEAN
    BY <1>1, AfterIs DEF Asking
  <1>4. Set(c, Answer("refused", call[c])) \/ call' = [call EXCEPT ![c] = q]
    BY DEF Lookup, Set
  <1>5. CASE Set(c, Answer("refused", call[c]))
    BY <1>1, <1>5, RefuseItem
  <1>6. CASE call' = [call EXCEPT ![c] = q]
    <2> HIDE DEF r, t, p, m
    <2>1. /\ q \in CallRec /\ q.door = r.door /\ q.cred = r.cred /\ q.names = r.names
          /\ q.cfg = r.cfg /\ q.key = r.key /\ q.keyV = r.keyV /\ q.canonical = t
          /\ q.quota = r.quota /\ q.out = r.out /\ q.results = r.results
          /\ q.shown = r.shown /\ q.since = r.since /\ q.stillQ = r.stillQ /\ q.cut = r.cut
          /\ q.pc = p
      BY <1>1, <1>2, <1>3 DEF CallRec
    <2> HIDE DEF q
    <2>2. Kept(q, r) /\ SameKey(q, r) /\ SameAnswer(q, r) /\ OnWay(q) /\ r.quota # "held"
      BY <1>1, <1>3, <2>1 DEF Kept, SameKey, SameAnswer, OnWay, Good, Books
    <2>3. Good(q, events[c], sent[c])
      BY <1>1, <1>3, <2>1, <2>2, Advance DEF Unkeyed, Unread, Allowed, Checked, WaySteps
    <2> QED BY <1>1, <1>6, <2>1, <2>2, <2>3, Quiet DEF r
  <1> QED BY <1>4, <1>5, <1>6

LEMMA resolveStep == ASSUME IInv, NEW c \in Calls, resolve_call(c) PROVE IInv'
  <1> DEFINE r == call[c]
             n == IF call[c].door = "rest" THEN Item(c) ELSE call[c].canonical
             t == resolve_for_key(call[c].cat, n, call[c].keyV, call[c].key)
             p == "quarantine"
             q == [r EXCEPT !.canonical = t, !.pc = p]
  <1>1. r \in CallRec /\ Good(r, events[c], sent[c]) /\ Typed /\ r.pc = "resolve" /\ Local
    BY RequestGood DEF IInv, resolve_call
  <1>2. t \in Tools \cup {None}
    BY <1>1, Resolved DEF CallRec
  <1>3. p = "quarantine" /\ p \in Steps
    BY DEF Steps
  <1>4. Set(c, Answer("refused", call[c])) \/ call' = [call EXCEPT ![c] = q]
    BY DEF resolve_call, Set
  <1>5. CASE Set(c, Answer("refused", call[c]))
    BY <1>1, <1>5, RefuseItem
  <1>6. CASE call' = [call EXCEPT ![c] = q]
    <2> HIDE DEF r, t, p, n
    <2>1. /\ q \in CallRec /\ q.door = r.door /\ q.cred = r.cred /\ q.names = r.names
          /\ q.cfg = r.cfg /\ q.key = r.key /\ q.keyV = r.keyV /\ q.canonical = t
          /\ q.quota = r.quota /\ q.out = r.out /\ q.results = r.results
          /\ q.shown = r.shown /\ q.since = r.since /\ q.stillQ = r.stillQ /\ q.cut = r.cut
          /\ q.pc = p
      BY <1>1, <1>2, <1>3 DEF CallRec
    <2> HIDE DEF q
    <2>2. Kept(q, r) /\ SameKey(q, r) /\ SameAnswer(q, r) /\ OnWay(q) /\ r.quota # "held"
      BY <1>1, <1>3, <2>1 DEF Kept, SameKey, SameAnswer, OnWay, Good, Books, WaySteps
    <2>3. Good(q, events[c], sent[c])
      BY <1>1, <1>3, <2>1, <2>2, Advance DEF Unkeyed, Unread, Allowed, Checked
    <2> QED BY <1>1, <1>6, <2>1, <2>2, <2>3, Quiet DEF r
  <1> QED BY <1>4, <1>5, <1>6

LEMMA quarantineStep == ASSUME IInv, NEW c \in Calls, check_quarantine(c) PROVE IInv'
  <1> DEFINE r == call[c]
             p == "branch"
             q == [r EXCEPT !.pc = p]
  <1>1. r \in CallRec /\ Good(r, events[c], sent[c]) /\ Typed /\ r.pc = "quarantine" /\ Local
    BY RequestGood DEF IInv, check_quarantine
  <1>2. p = "branch" /\ p \in Steps
    BY DEF Steps
  <1>3. \/ Set(c, Answer("refused", call[c]))
        \/ call' = [call EXCEPT ![c] = q] /\ r.canonical \notin quarantined
    BY DEF check_quarantine, Set
  <1>4. CASE Set(c, Answer("refused", call[c]))
    BY <1>1, <1>4, RefuseItem
  <1>5. CASE call' = [call EXCEPT ![c] = q] /\ r.canonical \notin quarantined
    <2> HIDE DEF r, p
    <2>1. /\ q \in CallRec /\ q.door = r.door /\ q.cred = r.cred /\ q.names = r.names
          /\ q.cfg = r.cfg /\ q.key = r.key /\ q.keyV = r.keyV /\ q.canonical = r.canonical
          /\ q.quota = r.quota /\ q.out = r.out /\ q.results = r.results
          /\ q.shown = r.shown /\ q.since = r.since /\ q.stillQ = r.stillQ /\ q.cut = r.cut
          /\ q.pc = p
      BY <1>1, <1>2 DEF CallRec
    <2> HIDE DEF q
    <2>2. Kept(q, r) /\ SameKey(q, r) /\ SameAnswer(q, r) /\ OnWay(q) /\ r.quota # "held"
      BY <1>1, <1>2, <2>1 DEF Kept, SameKey, SameAnswer, OnWay, Good, Books, WaySteps
    <2>3. r.canonical \notin r.stillQ
      BY <1>1, <1>5 DEF Good, Quarantined
    <2>4. Good(q, events[c], sent[c])
      BY <1>1, <1>2, <2>1, <2>2, <2>3, Advance DEF Unkeyed, Unread, Allowed, Checked
    <2> QED BY <1>1, <1>5, <2>1, <2>2, <2>4, Quiet DEF r
  <1> QED BY <1>3, <1>4, <1>5

LEMMA branchStep == ASSUME IInv, NEW c \in Calls, invoke_call(c) PROVE IInv'
  <1> DEFINE r == call[c]
             w == IF call[c].canonical \in registry THEN "mcp" ELSE "http"
             p == "admit"
             q == [r EXCEPT !.path = w, !.pc = p]
  <1>1. r \in CallRec /\ Good(r, events[c], sent[c]) /\ Typed /\ r.pc = "branch" /\ Local
    BY RequestGood DEF IInv, invoke_call
  <1>2. p = "admit" /\ p \in Steps /\ w \in Paths
    BY DEF Steps, Paths
  <1>3. \/ Set(c, Answer("refused", call[c]))
        \/ /\ call' = [call EXCEPT ![c] = q] /\ key_can_use_tool(r.keyV, r.key, r.canonical)
           /\ r.canonical \in registry \/ r.canonical \in Versions[r.cfg].resources
    BY DEF invoke_call, invoke_remote_mcp, invoke_http, ensure_allowed, Set
  <1>4. CASE Set(c, Answer("refused", call[c]))
    BY <1>1, <1>4, RefuseItem
  <1>5. CASE /\ call' = [call EXCEPT ![c] = q] /\ key_can_use_tool(r.keyV, r.key, r.canonical)
             /\ r.canonical \in registry \/ r.canonical \in Versions[r.cfg].resources
    <2> HIDE DEF r, p, w
    <2>1. r.canonical \in Tools
      <3>1. r.cfg \in Vs
        BY <1>1 DEF CallRec
      <3> QED BY <1>1, <1>5, <3>1, VersionTyped DEF Typed, Tools
    <2>2. /\ q \in CallRec /\ q.door = r.door /\ q.cred = r.cred /\ q.names = r.names
          /\ q.cfg = r.cfg /\ q.key = r.key /\ q.keyV = r.keyV /\ q.canonical = r.canonical
          /\ q.quota = r.quota /\ q.out = r.out /\ q.results = r.results
          /\ q.shown = r.shown /\ q.since = r.since /\ q.stillQ = r.stillQ /\ q.cut = r.cut
          /\ q.pc = p
      BY <1>1, <1>2 DEF CallRec
    <2> HIDE DEF q
    <2>3. Kept(q, r) /\ SameKey(q, r) /\ SameAnswer(q, r) /\ OnWay(q) /\ r.quota # "held"
      BY <1>1, <1>2, <2>2 DEF Kept, SameKey, SameAnswer, OnWay, Good, Books, WaySteps
    <2>4. r.door # "mcp_prompt" => r.canonical \notin r.stillQ
      BY <1>1 DEF Good, Quarantined, Checked
    <2>5. Good(q, events[c], sent[c])
      BY <1>1, <1>2, <1>5, <2>1, <2>2, <2>3, <2>4, Advance DEF Unkeyed, Unread, Kept
    <2> QED BY <1>1, <1>5, <2>2, <2>3, <2>5, Quiet DEF r
  <1> QED BY <1>3, <1>4, <1>5

LEMMA peerStep == ASSUME IInv, NEW c \in Calls, get_prompt_for(c) PROVE IInv'
  <1> DEFINE r == call[c]
             t == Item(c)
             w == "peer"
             p == "admit"
             q == [r EXCEPT !.canonical = t, !.path = w, !.pc = p]
  <1>1. r \in CallRec /\ Good(r, events[c], sent[c]) /\ Typed /\ r.pc = "peer" /\ Local
    BY RequestGood DEF IInv, get_prompt_for
  <1>2. p = "admit" /\ p \in Steps /\ w \in Paths
    BY DEF Steps, Paths
  <1>3. \/ Set(c, Refuse(c))
        \/ /\ call' = [call EXCEPT ![c] = q] /\ key_can_use_tool(r.keyV, r.key, t)
           /\ t \in registry
    BY DEF get_prompt_for, resolve_prompt, Set
  <1>4. CASE Set(c, Refuse(c))
    BY <1>1, <1>4, RefuseStep
  <1>5. CASE /\ call' = [call EXCEPT ![c] = q] /\ key_can_use_tool(r.keyV, r.key, t)
             /\ t \in registry
    <2> HIDE DEF r, t, p, w
    <2>1. t \in Tools
      BY <1>1, <1>5 DEF Typed, Tools
    <2>2. /\ q \in CallRec /\ q.door = r.door /\ q.cred = r.cred /\ q.names = r.names
          /\ q.cfg = r.cfg /\ q.key = r.key /\ q.keyV = r.keyV /\ q.canonical = t
          /\ q.quota = r.quota /\ q.out = r.out /\ q.results = r.results
          /\ q.shown = r.shown /\ q.since = r.since /\ q.stillQ = r.stillQ /\ q.cut = r.cut
          /\ q.pc = p
      BY <1>1, <1>2, <2>1 DEF CallRec
    <2> HIDE DEF q
    <2>3. Kept(q, r) /\ SameKey(q, r) /\ SameAnswer(q, r) /\ OnWay(q) /\ r.quota # "held"
      BY <1>1, <1>2, <2>2 DEF Kept, SameKey, SameAnswer, OnWay, Good, Books, WaySteps
    <2>4. r.door = "mcp_prompt"
      BY <1>1, Places DEF Good, OnWay, WaySteps, CallRec
    <2>5. Good(q, events[c], sent[c])
      BY <1>1, <1>2, <1>5, <2>1, <2>2, <2>3, <2>4, Advance DEF Unkeyed, Unread, Kept
    <2> QED BY <1>1, <1>5, <2>2, <2>3, <2>5, Quiet DEF r
  <1> QED BY <1>3, <1>4, <1>5

\* A new event has no row yet.
LEMMA OpenAppend ==
    ASSUME NEW ev \in Seq(Event), NEW e \in Event, e.saved = "open", Settled(ev)
    PROVE  SettledBut(Append(ev, e), "open")
  <1> DEFINE n == Len(ev)
             x == Append(ev, e)
  <1>1. n \in Nat /\ DOMAIN ev = 1..n
    BY LenProperties
  <1>2. /\ Len(x) = n + 1 /\ DOMAIN x = 1..(n + 1)
        /\ \A i \in 1..n : x[i] = ev[i]
        /\ x[n + 1] = e
    BY <1>1, AppendProperties, LenProperties
  <1>3. \A i \in 1..(n + 1) : i \in 1..n \/ i = n + 1
    BY <1>1
  <1> HIDE DEF n, x
  <1>4. SettledBut(x, "open")
    BY <1>1, <1>2, <1>3 DEF Settled, SettledBut
  <1> QED BY <1>4 DEF x

\* The write of the last row ends.
LEMMA SavedAs ==
    ASSUME NEW ev \in Seq(Event), NEW st \in Writes
    PROVE  /\ Saved(ev, st) \in Seq(Event)
           /\ Status(Saved(ev, st)) = Status(ev) /\ Wins(Saved(ev, st)) = Wins(ev)
           /\ SettledBut(ev, "open") => SettledBut(Saved(ev, st), st)
           /\ (SettledBut(ev, "open") /\ st \in {"row", "failed"}) => Settled(Saved(ev, st))
  <1> DEFINE n == Len(ev)
             x == Saved(ev, st)
  <1>1. n \in Nat /\ DOMAIN ev = 1..n /\ \A i \in 1..n : ev[i] \in Event
    BY LenProperties, ElementOfSeq
  <1>2. ASSUME NEW i \in 1..n
        PROVE  LET y == [ev[i] EXCEPT !.saved = st]
               IN  y \in Event /\ y.status = ev[i].status /\ y.saved = st
    BY <1>1 DEF Event
  <1>3. DOMAIN x = 1..n /\ \A i \in 1..n : x[i] = IF i = n THEN [ev[i] EXCEPT !.saved = st] ELSE ev[i]
    BY <1>1 DEF Saved
  <1>4. \A i \in 1..n : /\ x[i] \in Event /\ x[i].status = ev[i].status
                        /\ x[i].saved = IF i = n THEN st ELSE ev[i].saved
    BY <1>1, <1>2, <1>3
  <1>5. x = [i \in 1..n |-> x[i]]
    BY <1>1, <1>3 DEF Saved
  <1>6. x \in Seq(Event) /\ Len(x) = n
    BY <1>1, <1>4, <1>5, IsASeq
  <1> HIDE DEF n, x
  <1>7. Status(x) = Status(ev) /\ Wins(x) = Wins(ev)
    BY <1>1, <1>3, <1>4 DEF Status, Wins
  <1>8. SettledBut(ev, "open") => SettledBut(x, st)
    BY <1>1, <1>3, <1>4, <1>6 DEF SettledBut, n
  <1>9. (SettledBut(ev, "open") /\ st \in {"row", "failed"}) => Settled(x)
    BY <1>8 DEF SettledBut, Settled
  <1> QED BY <1>6, <1>7, <1>8, <1>9 DEF x

\* The event of an answer is appended to the events of the request.
LEMMA Recorded ==
    ASSUME IInv, NEW c \in Calls, NEW st \in Statuses, Record(c, st)
    PROVE  \E ev \in Seq(Event) :
              /\ events' = [events EXCEPT ![c] = ev]
              /\ Status(ev) = Status(events[c]) \o <<st>>
              /\ Len(events[c]) + 1 \notin Wins(events[c])
              /\ Wins(ev) = IF st = "Success" THEN Wins(events[c]) \cup {Len(events[c]) + 1}
                            ELSE Wins(events[c])
              /\ Settled(events[c]) => SettledBut(ev, "open")
  <1> DEFINE e == [tool |-> call[c].canonical, status |-> st, saved |-> "open"]
             ev == Append(events[c], e)
  <1>1. /\ call[c].canonical \in Tools \cup {None} /\ events[c] \in Seq(Event)
        /\ events \in [Calls -> Seq(Event)]
    BY RequestGood DEF CallRec, IInv, Typed
  <1>2. e \in Event /\ e.status = st /\ e.saved = "open"
    BY <1>1 DEF Event, Writes
  <1>3. events' = [events EXCEPT ![c] = ev]
    BY <1>1 DEF Record
  <1> HIDE DEF e
  <1>4. /\ ev \in Seq(Event) /\ Status(ev) = Append(Status(events[c]), st)
        /\ Len(events[c]) + 1 \notin Wins(events[c])
        /\ Wins(ev) = IF st = "Success" THEN Wins(events[c]) \cup {Len(events[c]) + 1}
                      ELSE Wins(events[c])
    BY <1>1, <1>2, WinsAppend
  <1>5. Append(Status(events[c]), st) = Status(events[c]) \o <<st>>
    BY <1>1, StatusSeq, AppendIsConcat
  <1>6. Settled(events[c]) => SettledBut(ev, "open")
    BY <1>1, <1>2, OpenAppend
  <1> HIDE DEF ev
  <1> QED BY <1>3, <1>4, <1>5, <1>6

\* The guard is dropped with an answer and perhaps an event.
LEMMA DropStep ==
    ASSUME IInv, NEW c \in Calls, NEW q \in CallRec, NEW ev \in Seq(Event),
           Good(q, ev, sent[c]), call' = [call EXCEPT ![c] = q],
           events' = [events EXCEPT ![c] = ev], Wins(ev) = Wins(events[c]),
           q.key = call[c].key, q.quota # "held", Dropped(c), UNCHANGED <<shared, sent>>
    PROVE  IInv'
  <1>1. Typed /\ EachGood /\ Charged
    BY DEF IInv
  <1>2. sent[c] \in SUBSET Tools /\ sent' = [sent EXCEPT ![c] = sent[c]] /\ UNCHANGED shared
    BY <1>1 DEF Typed
  <1>3. Typed' /\ EachGood'
    BY <1>1, <1>2, OneCall
  <1>4. Charged'
    BY <1>1, ChargeLess
  <1> QED BY <1>3, <1>4 DEF IInv

\* The event of an outcome is counted and its row is still to be written.
LEMMA Noted ==
    ASSUME Typed, NEW r \in CallRec, NEW q \in CallRec, NEW e0, NEW ev, NEW sn,
           Good(r, e0, sn), Kept(q, r), SameKey(q, r), SameAnswer(q, r),
           r.pc \in {"admit", "finish"}, q.pc = "persist", q.cfg = r.cfg, q.out # "none",
           q.quota = "held" <=> q.out = "failed",
           Status(ev) = Status(e0) \o EventOf(q.out),
           Settled(e0) => SettledBut(ev, "open")
    PROVE  Good(q, ev, sn)
  <1>1. Bound(q, sn)
    <2>1. \A v, t : May(v, q, t) <=> May(v, r, t)
      BY MaySame DEF Kept, SameKey
    <2> QED BY <2>1 DEF Good, Bound, Kept, SameKey, SameAnswer, Unread, Unkeyed, Allowed
  <1>2. Quarantined(q, sn)
    BY DEF Good, Quarantined, Kept, Checked
  <1>3. Books(q, ev)
    BY DEF Good, Books, Kept, SameAnswer, Unkeyed
  <1>4. Stored(q, ev)
    BY SettledNow DEF Good, Stored, SameAnswer
  <1> QED BY <1>1, <1>2, <1>3, <1>4 DEF Good, OnWay, WaySteps

LEMMA admitStep == ASSUME IInv, NEW c \in Calls, admit(c) PROVE IInv'
  <1> DEFINE r == call[c]
             h == "held"
             p == IF call[c].path = "http" THEN "secret" ELSE "upstream"
             q == [r EXCEPT !.quota = h, !.pc = p]
  <1>1. /\ r \in CallRec /\ Good(r, events[c], sent[c]) /\ Typed /\ r.pc = "admit"
        /\ EachGood /\ Charged /\ UNCHANGED <<shared, sent>> /\ r.quota # "held"
    BY RequestGood DEF IInv, admit, Good, Books
  <1>2. CASE call' = [call EXCEPT ![c] = q] /\ used' = [used EXCEPT ![r.key] = @ + 1] /\ events' = events
    <2>1. h \in Quotas /\ h = "held" /\ p \in Steps /\ p \in {"secret", "upstream"}
      BY DEF Quotas, Steps
    <2> DEFINE k == r.key
    <2>2. call' = [call EXCEPT ![c] = q] /\ used' = [used EXCEPT ![call[c].key] = @ + 1]
      BY <1>2
    <2> HIDE DEF r, h, p
    <2>3. /\ q \in CallRec /\ q.door = r.door /\ q.cred = r.cred /\ q.names = r.names
          /\ q.cfg = r.cfg /\ q.key = r.key /\ q.keyV = r.keyV /\ q.canonical = r.canonical
          /\ q.quota = h /\ q.out = r.out /\ q.results = r.results /\ q.shown = r.shown
          /\ q.since = r.since /\ q.stillQ = r.stillQ /\ q.cut = r.cut /\ q.pc = p
      BY <1>1, <2>1 DEF CallRec
    <2> HIDE DEF q
    <2>4. Kept(q, r) /\ SameKey(q, r) /\ SameAnswer(q, r) /\ OnWay(q)
      BY <1>1, <2>1, <2>3 DEF Kept, SameKey, SameAnswer, OnWay, WaySteps
    <2>5. /\ r.canonical \in Tools /\ key_can_use_tool(r.keyV, r.key, r.canonical)
          /\ r.door # "mcp_prompt" => r.canonical \notin r.stillQ
      BY <1>1 DEF Good, Bound, Quarantined, Allowed, Checked
    <2>6. Good(q, events[c], sent[c])
      BY <1>1, <2>1, <2>3, <2>4, <2>5, Advance DEF Unkeyed, Unread
    <2>7. Charged'
      BY <1>1, <1>2, <2>1, <2>2, <2>3, ChargeMore DEF r
    <2>8. /\ events[c] \in Seq(Event) /\ sent[c] \in SUBSET Tools
          /\ events' = [events EXCEPT ![c] = events[c]] /\ sent' = [sent EXCEPT ![c] = sent[c]]
          /\ UNCHANGED shared
      BY <1>1, <1>2 DEF Typed
    <2>9. Typed' /\ EachGood'
      BY <1>1, <2>2, <2>3, <2>6, <2>8, OneCall
    <2> QED BY <2>7, <2>9 DEF IInv
  <1>3. CASE /\ Record(c, "Limited") /\ UNCHANGED used
             /\ call' = [call EXCEPT ![c] = [r EXCEPT !.out = "limited", !.pc = "persist"]]
    <2> DEFINE o == "limited"
               at == "persist"
               k == r.quota
               z == [r EXCEPT !.out = o, !.pc = at]
    <2>1. /\ "Limited" \in Statuses /\ o \in Outs /\ at \in Steps /\ o = "limited"
          /\ at = "persist" /\ EventOf(o) = <<"Limited">>
      BY DEF Statuses, Outs, Steps, EventOf
    <2>2. PICK ev \in Seq(Event) :
              /\ events' = [events EXCEPT ![c] = ev]
              /\ Status(ev) = Status(events[c]) \o <<"Limited">>
              /\ Wins(ev) = Wins(events[c])
              /\ Settled(events[c]) => SettledBut(ev, "open")
      BY <1>3, <2>1, Recorded
    <2>3. call' = [call EXCEPT ![c] = z]
      BY <1>3
    <2> HIDE DEF r, o, at
    <2>4. /\ z \in CallRec /\ z.door = r.door /\ z.cred = r.cred /\ z.names = r.names
          /\ z.cfg = r.cfg /\ z.key = r.key /\ z.keyV = r.keyV /\ z.canonical = r.canonical
          /\ z.quota = r.quota /\ z.out = o /\ z.results = r.results /\ z.shown = r.shown
          /\ z.since = r.since /\ z.stillQ = r.stillQ /\ z.cut = r.cut /\ z.pc = at
      BY <1>1, <2>1 DEF CallRec
    <2> HIDE DEF z
    <2>5. Kept(z, r) /\ SameKey(z, r) /\ SameAnswer(z, r)
      BY <2>4 DEF Kept, SameKey, SameAnswer
    <2>6. Good(z, ev, sent[c])
      BY <1>1, <2>1, <2>2, <2>4, <2>5, Noted
    <2>7. UNCHANGED shared /\ sent' = [sent EXCEPT ![c] = sent[c]] /\ sent[c] \in SUBSET Tools
      BY <1>1 DEF Typed
    <2>8. Typed' /\ EachGood'
      BY <1>1, <2>2, <2>3, <2>4, <2>6, <2>7, OneCall
    <2>9. Charged'
      BY <1>1, <1>3, <2>2, <2>3, <2>4, ChargeSame DEF r
    <2> QED BY <2>8, <2>9 DEF IInv
  <1> QED BY <1>2, <1>3 DEF admit, Set

LEMMA secretStep == ASSUME IInv, NEW c \in Calls, resolve_upstream_secret(c) PROVE IInv'
  <1> DEFINE r == call[c]
             p == "upstream"
             q == [r EXCEPT !.pc = p]
  <1>1. /\ r \in CallRec /\ Good(r, events[c], sent[c]) /\ Typed /\ r.pc = "secret"
        /\ events[c] \in Seq(Event) /\ UNCHANGED <<shared, events, sent>>
    BY RequestGood DEF IInv, resolve_upstream_secret
  <1>2. CASE call' = [call EXCEPT ![c] = q] /\ UNCHANGED used
    <2>1. p = "upstream" /\ p \in Steps
      BY DEF Steps
    <2>2. Local
      BY <1>1, <1>2 DEF Local
    <2> HIDE DEF r, p
    <2>3. /\ q \in CallRec /\ q.door = r.door /\ q.cred = r.cred /\ q.names = r.names
          /\ q.cfg = r.cfg /\ q.key = r.key /\ q.keyV = r.keyV /\ q.canonical = r.canonical
          /\ q.quota = r.quota /\ q.out = r.out /\ q.results = r.results
          /\ q.shown = r.shown /\ q.since = r.since /\ q.stillQ = r.stillQ /\ q.cut = r.cut
          /\ q.pc = p
      BY <1>1, <2>1 DEF CallRec
    <2> HIDE DEF q
    <2>4. Kept(q, r) /\ SameKey(q, r) /\ SameAnswer(q, r) /\ OnWay(q) /\ r.quota = "held"
      BY <1>1, <2>1, <2>3 DEF Kept, SameKey, SameAnswer, OnWay, WaySteps, Good, Books
    <2>5. /\ r.canonical \in Tools /\ key_can_use_tool(r.keyV, r.key, r.canonical)
          /\ r.door # "mcp_prompt" => r.canonical \notin r.stillQ
      BY <1>1 DEF Good, Bound, Quarantined, Allowed, Checked
    <2>6. Good(q, events[c], sent[c])
      BY <1>1, <2>1, <2>3, <2>4, <2>5, Advance DEF Unkeyed, Unread
    <2> QED BY <1>2, <2>2, <2>3, <2>4, <2>6, Quiet DEF r
  <1>3. CASE Set(c, Answer("refused", r)) /\ Dropped(c)
    <2> DEFINE a == Answer("refused", r)
    <2>1. Status(events[c]) = Flat(r.results) /\ "refused" \in Results /\ Settled(events[c])
      BY <1>1, SettledNow DEF Good, Books, Results
    <2>2. Flat(r.results) \o EventOf("refused") = Flat(r.results)
      BY <1>1, <2>1, StatusSeq, ConcatEmptySeq DEF EventOf
    <2>3. a \in CallRec /\ Good(a, events[c], sent[c]) /\ SameKey(a, r) /\ a.quota = "none"
      BY <1>1, <2>1, <2>2, Answered DEF Unkeyed
    <2>4. call' = [call EXCEPT ![c] = a] /\ events' = [events EXCEPT ![c] = events[c]]
      BY <1>1, <1>3 DEF Set, Typed
    <2> HIDE DEF a
    <2> QED BY <1>1, <1>3, <2>3, <2>4, DropStep DEF SameKey
  <1> QED BY <1>2, <1>3 DEF resolve_upstream_secret, Set

\* The tool is called upstream.
LEMMA Sent ==
    ASSUME NEW r \in CallRec, NEW ev, NEW sn, Good(r, ev, sn), NEW t,
           \E v \in r.since..cfgV : May(v, r, t), r.pc \notin Unkeyed,
           r.door # "mcp_prompt" => t \notin r.stillQ
    PROVE  Good(r, ev, sn \cup {t})
  <1>1. Bound(r, sn \cup {t})
    BY DEF Good, Bound
  <1>2. Quarantined(r, sn \cup {t})
    BY DEF Good, Quarantined, Unkeyed
  <1> QED BY <1>1, <1>2 DEF Good

LEMMA upstreamStep == ASSUME IInv, NEW c \in Calls, Upstream(c) PROVE IInv'
  <1> DEFINE r == call[c]
             t == call[c].canonical
             p == "finish"
  <1>1. /\ r \in CallRec /\ Good(r, events[c], sent[c]) /\ Typed /\ r.pc = "upstream"
        /\ EachGood /\ Charged /\ UNCHANGED <<shared, used, events>>
        /\ events[c] \in Seq(Event) /\ sent[c] \in SUBSET Tools
    <2>1. r.pc = "upstream" /\ UNCHANGED <<shared, used, events>>
      BY DEF Upstream, Set
    <2> QED BY <2>1, RequestGood DEF IInv
  <1>2. PICK o \in {"success", "failed", "tool_error", "input"}, sn \in {sent[c], sent[c] \cup {t}} :
           call' = [call EXCEPT ![c] = [r EXCEPT !.pc = p, !.out = o]]
           /\ sent' = [sent EXCEPT ![c] = sn]
    <2>1. CASE /\ Set(c, [call[c] EXCEPT !.pc = "finish", !.out = "failed"])
               /\ UNCHANGED sent
      <3>1. sent' = [sent EXCEPT ![c] = sent[c]]
        BY <1>1, <2>1 DEF Typed
      <3> QED BY <2>1, <3>1 DEF Set
    <2>2. CASE /\ \E o \in Outcomes(c) :
                     call' = [call EXCEPT ![c] = [call[c] EXCEPT !.pc = "finish", !.out = o]]
               /\ sent' = [sent EXCEPT ![c] = @ \cup {call[c].canonical}]
      <3>1. PICK o \in Outcomes(c) :
                     call' = [call EXCEPT ![c] = [call[c] EXCEPT !.pc = "finish", !.out = o]]
        BY <2>2
      <3>2. o \in {"success", "failed", "tool_error", "input"}
        BY DEF Outcomes
      <3>3. sent' = [sent EXCEPT ![c] = sent[c] \cup {t}]
        BY <1>1, <2>2 DEF Typed
      <3> QED BY <3>1, <3>2, <3>3
    <2> QED BY <2>1, <2>2 DEF Upstream, Set
  <1> DEFINE q == [r EXCEPT !.pc = p, !.out = o]
  <1>3. p = "finish" /\ p \in Steps /\ o \in Outs /\ o \notin {"none", "limited"}
    BY DEF Steps, Outs
  <1>4. call' = [call EXCEPT ![c] = q] /\ t = r.canonical
    BY <1>2
  <1> HIDE DEF r, p, t
  <1>5. /\ q \in CallRec /\ q.door = r.door /\ q.cred = r.cred /\ q.names = r.names
        /\ q.cfg = r.cfg /\ q.key = r.key /\ q.keyV = r.keyV /\ q.canonical = r.canonical
        /\ q.quota = r.quota /\ q.out = o /\ q.results = r.results /\ q.shown = r.shown
        /\ q.since = r.since /\ q.stillQ = r.stillQ /\ q.cut = r.cut /\ q.pc = p
    BY <1>1, <1>3 DEF CallRec
  <1> HIDE DEF q
  <1>6. Kept(q, r) /\ SameKey(q, r) /\ SameAnswer(q, r) /\ OnWay(q) /\ r.quota = "held"
    BY <1>1, <1>3, <1>5 DEF Kept, SameKey, SameAnswer, OnWay, WaySteps, Good, Books
  <1>7. /\ t \in Tools /\ key_can_use_tool(r.keyV, r.key, t)
        /\ r.door # "mcp_prompt" => t \notin r.stillQ
    BY <1>1, <1>4 DEF Good, Bound, Quarantined, Allowed, Checked
  <1>8. Good(q, events[c], sent[c])
    BY <1>1, <1>3, <1>5, <1>6, Advance DEF Unkeyed, Unread, Allowed, Checked
  <1>9. \E v \in q.since..cfgV : May(v, q, t)
    <2>1. PICK v \in r.since..cfgV : May(v, r, t)
      BY <1>1, <1>7, Covered DEF Unkeyed
    <2> QED BY <1>5, <2>1, MaySame
  <1>10. Good(q, events[c], sn)
    <2>1. q.pc \notin Unkeyed /\ (q.door # "mcp_prompt" => t \notin q.stillQ)
      BY <1>3, <1>5, <1>7 DEF Unkeyed
    <2>2. Good(q, events[c], sent[c] \cup {t})
      BY <1>5, <1>8, <1>9, <2>1, Sent
    <2> QED BY <1>2, <1>8, <2>2
  <1>11. events' = [events EXCEPT ![c] = events[c]] /\ sn \in SUBSET Tools
    BY <1>1, <1>2, <1>7 DEF Typed
  <1>12. Typed' /\ EachGood'
    BY <1>1, <1>2, <1>4, <1>5, <1>10, <1>11, OneCall
  <1>13. Charged'
    BY <1>1, <1>4, <1>5, <1>6, <1>11, ChargeSame DEF r
  <1> QED BY <1>12, <1>13 DEF IInv

LEMMA finishStep == ASSUME IInv, NEW c \in Calls, finish(c) PROVE IInv'
  <1> DEFINE r == call[c]
             k == IF r.out = "failed" THEN r.quota ELSE "committed"
             p == "persist"
             q == [r EXCEPT !.quota = k, !.pc = p]
             st == IF r.out = "failed" THEN "Failed" ELSE "Success"
  <1>1. /\ r \in CallRec /\ Good(r, events[c], sent[c]) /\ Typed /\ r.pc = "finish"
        /\ EachGood /\ Charged /\ UNCHANGED <<shared, used, sent>>
        /\ events[c] \in Seq(Event) /\ sent[c] \in SUBSET Tools
    <2>1. r.pc = "finish" /\ UNCHANGED <<shared, used, sent>>
      BY DEF finish
    <2> QED BY <2>1, RequestGood DEF IInv
  <1>2. /\ Status(events[c]) = Flat(r.results) /\ r.quota = "held" /\ r.out \in Outs
        /\ r.out \notin {"none", "limited"} /\ st \in Statuses
    BY <1>1 DEF Good, Books, Statuses, CallRec
  <1>3. Record(c, st) /\ call' = [call EXCEPT ![c] = q]
    <2>1. CASE r.out = "failed"
      <3>1. Record(c, "Failed") /\ call' = [call EXCEPT ![c] = [r EXCEPT !.pc = p]]
        BY <2>1 DEF finish, Set
      <3>2. [r EXCEPT !.pc = p] = [r EXCEPT !.quota = r.quota, !.pc = p]
        BY <1>1 DEF CallRec
      <3> QED BY <2>1, <3>1, <3>2
    <2>2. CASE r.out # "failed"
      BY <2>2 DEF finish, Set
    <2> QED BY <2>1, <2>2
  <1>4. PICK ev \in Seq(Event) :
            /\ events' = [events EXCEPT ![c] = ev]
            /\ Status(ev) = Status(events[c]) \o <<st>>
            /\ Len(events[c]) + 1 \notin Wins(events[c])
            /\ Wins(ev) = IF st = "Success" THEN Wins(events[c]) \cup {Len(events[c]) + 1}
                          ELSE Wins(events[c])
            /\ Settled(events[c]) => SettledBut(ev, "open")
    BY <1>2, <1>3, Recorded
  <1>5. /\ k \in Quotas /\ p = "persist" /\ p \in Steps /\ EventOf(r.out) = <<st>>
        /\ k = "held" <=> r.out = "failed"
        /\ st = "Success" <=> r.out # "failed"
    BY <1>1, <1>2 DEF Quotas, Steps, EventOf, CallRec, Outs
  <1> HIDE DEF r, k, p, st
  <1>6. /\ q \in CallRec /\ q.door = r.door /\ q.cred = r.cred /\ q.names = r.names
        /\ q.cfg = r.cfg /\ q.key = r.key /\ q.keyV = r.keyV /\ q.canonical = r.canonical
        /\ q.quota = k /\ q.out = r.out /\ q.results = r.results /\ q.shown = r.shown
        /\ q.since = r.since /\ q.stillQ = r.stillQ /\ q.cut = r.cut /\ q.pc = p
    BY <1>1, <1>5 DEF CallRec
  <1> HIDE DEF q
  <1>7. Kept(q, r) /\ SameKey(q, r) /\ SameAnswer(q, r)
    BY <1>6 DEF Kept, SameKey, SameAnswer
  <1>8. Good(q, ev, sent[c])
    BY <1>1, <1>2, <1>4, <1>5, <1>6, <1>7, Noted
  <1>9. UNCHANGED shared /\ sent' = [sent EXCEPT ![c] = sent[c]]
    BY <1>1 DEF Typed
  <1>10. Typed' /\ EachGood'
    BY <1>1, <1>3, <1>4, <1>6, <1>8, <1>9, OneCall
  <1>11. Charged'
    <2>1. CASE r.out = "failed"
      BY <1>1, <1>2, <1>3, <1>4, <1>5, <1>6, <2>1, ChargeSame DEF r
    <2>2. CASE r.out # "failed"
      BY <1>1, <1>2, <1>3, <1>4, <1>5, <1>6, <2>2, ChargeWon DEF r
    <2> QED BY <2>1, <2>2
  <1> QED BY <1>10, <1>11 DEF IInv

\* The row of a call that is charged is written.
LEMMA Written ==
    ASSUME Typed, NEW r \in CallRec, NEW q \in CallRec, NEW e0, NEW ev, NEW sn,
           Good(r, e0, sn), Kept(q, r), SameKey(q, r), SameAnswer(q, r), r.pc = "persist",
           q.pc = "post", q.quota = r.quota, q.cfg = r.cfg, q.out = r.out,
           r.out \in Outs, r.out \notin {"failed", "limited"}, Status(ev) = Status(e0),
           Settled(ev)
    PROVE  Good(q, ev, sn)
  <1>1. Bound(q, sn)
    <2>1. \A v, t : May(v, q, t) <=> May(v, r, t)
      BY MaySame DEF Kept, SameKey
    <2> QED BY <2>1 DEF Good, Bound, Kept, SameKey, SameAnswer, Unread, Unkeyed, Allowed
  <1>2. Quarantined(q, sn)
    BY DEF Good, Quarantined, Kept, Checked
  <1>3. EventOf(r.out) = <<"Success">> /\ r.out \in {"success", "tool_error", "input"}
    BY DEF Good, Books, EventOf, Outs
  <1>4. Books(q, ev)
    BY <1>3 DEF Good, Books, Kept, SameAnswer, Unkeyed
  <1>5. Stored(q, ev)
    BY DEF Good, Stored, SameAnswer
  <1> QED BY <1>1, <1>2, <1>4, <1>5 DEF Good, OnWay, WaySteps

LEMMA persistStep == ASSUME IInv, NEW c \in Calls, persist_request_event(c) PROVE IInv'
  <1> DEFINE r == call[c]
             p == "post"
             q == [r EXCEPT !.pc = p]
  <1>1. /\ r \in CallRec /\ Good(r, events[c], sent[c]) /\ Typed /\ r.pc = "persist"
        /\ EachGood /\ Charged /\ UNCHANGED <<shared, sent>>
        /\ events[c] \in Seq(Event) /\ sent[c] \in SUBSET Tools
    <2>1. r.pc = "persist" /\ UNCHANGED <<shared, sent>>
      BY DEF persist_request_event
    <2> QED BY <2>1, RequestGood DEF IInv
  <1>2. /\ Status(events[c]) = Flat(r.results) \o EventOf(r.out)
        /\ r.quota = "held" <=> r.out = "failed"
        /\ r.out \in Outs /\ SettledBut(events[c], "open")
    BY <1>1 DEF Good, Books, CallRec, Stored, Settled, SettledBut
  <1>3. PICK st \in {"row", "failed"} : events' = [events EXCEPT ![c] = Saved(events[c], st)]
    BY <1>1 DEF persist_request_event, Typed
  <1> DEFINE ev == Saved(events[c], st)
  <1>4. /\ ev \in Seq(Event) /\ Status(ev) = Status(events[c]) /\ Wins(ev) = Wins(events[c])
        /\ Settled(ev) /\ events' = [events EXCEPT ![c] = ev]
    BY <1>1, <1>2, <1>3, SavedAs DEF Writes
  <1> HIDE DEF ev
  <1>5. CASE r.out \in {"limited", "failed"} /\ Set(c, Answer(r.out, r)) /\ Dropped(c)
    <2> DEFINE o == r.out
               a == Answer(o, r)
    <2>1. o \in Results /\ Status(ev) = Flat(r.results) \o EventOf(o)
      BY <1>2, <1>4, <1>5 DEF Results
    <2>2. call' = [call EXCEPT ![c] = a]
      BY <1>5 DEF Set
    <2>3. a \in CallRec /\ Good(a, ev, sent[c]) /\ SameKey(a, r) /\ a.quota = "none"
      <3>1. r.pc \notin Unkeyed \cup {"done"}
        BY <1>1 DEF Unkeyed
      <3> HIDE DEF r, o
      <3> QED BY <1>1, <1>4, <2>1, <3>1, Answered
    <2> HIDE DEF a
    <2> QED BY <1>1, <1>4, <1>5, <2>2, <2>3, DropStep DEF SameKey
  <1>6. CASE /\ r.out \notin {"limited", "failed"} /\ call' = [call EXCEPT ![c] = q]
             /\ UNCHANGED used
    <2>1. p = "post" /\ p \in Steps
      BY DEF Steps
    <2> HIDE DEF r, p
    <2>2. /\ q \in CallRec /\ q.door = r.door /\ q.cred = r.cred /\ q.names = r.names
          /\ q.cfg = r.cfg /\ q.key = r.key /\ q.keyV = r.keyV /\ q.canonical = r.canonical
          /\ q.quota = r.quota /\ q.out = r.out /\ q.results = r.results /\ q.shown = r.shown
          /\ q.since = r.since /\ q.stillQ = r.stillQ /\ q.cut = r.cut /\ q.pc = p
      BY <1>1, <2>1 DEF CallRec
    <2> HIDE DEF q
    <2>3. Kept(q, r) /\ SameKey(q, r) /\ SameAnswer(q, r)
      BY <2>2 DEF Kept, SameKey, SameAnswer
    <2>4. Good(q, ev, sent[c])
      BY <1>1, <1>2, <1>4, <1>6, <2>1, <2>2, <2>3, Written
    <2>5. UNCHANGED shared /\ sent' = [sent EXCEPT ![c] = sent[c]]
      BY <1>1 DEF Typed
    <2>6. Typed' /\ EachGood'
      BY <1>1, <1>4, <1>6, <2>2, <2>4, <2>5, OneCall
    <2>7. Charged'
      BY <1>1, <1>4, <1>6, <2>2, ChargeSame DEF r
    <2> QED BY <2>6, <2>7 DEF IInv
  <1> QED BY <1>5, <1>6 DEF persist_request_event, Set

LEMMA postStep == ASSUME IInv, NEW c \in Calls, Post(c) PROVE IInv'
  <1> DEFINE r == call[c]
             a == invoke_result_to_mcp(c)
             q == Answer(a, r)
  <1>1. /\ r \in CallRec /\ Good(r, events[c], sent[c]) /\ Typed /\ r.pc = "post" /\ Local
        /\ call' = [call EXCEPT ![c] = q]
    BY RequestGood DEF IInv, Post, Set
  <1>2. a \in {"success", "tool_error", "input"}
    BY DEF invoke_result_to_mcp
  <1>3. a \in Results /\ EventOf(a) = <<"Success">>
    BY <1>2 DEF Results, EventOf
  <1> HIDE DEF a, r
  <1>4. /\ Status(events[c]) = Flat(r.results) \o EventOf(a) /\ r.quota # "held"
        /\ Settled(events[c])
    BY <1>1, <1>3, SettledNow DEF Good, Books
  <1>5. r.pc \notin Unkeyed \cup {"done"}
    BY <1>1 DEF Unkeyed
  <1>6. q \in CallRec /\ Good(q, events[c], sent[c]) /\ SameKey(q, r) /\ q.quota = "none"
    BY <1>1, <1>3, <1>4, <1>5, Answered
  <1> HIDE DEF q
  <1> QED BY <1>1, <1>4, <1>6, Quiet DEF SameKey, r

LEMMA cutStep == ASSUME IInv, NEW c \in Calls, Cut(c) PROVE IInv'
  <1> DEFINE r == call[c]
             e == Ended(r)
             yes == TRUE
             q == [e EXCEPT !.cut = yes]
  <1>1. /\ r \in CallRec /\ Good(r, events[c], sent[c]) /\ Typed /\ r.pc \notin {"idle", "done"}
        /\ UNCHANGED <<shared, sent>> /\ Dropped(c) /\ events[c] \in Seq(Event)
        /\ call' = [call EXCEPT ![c] = q] /\ yes \in BOOLEAN /\ yes = TRUE
    BY RequestGood DEF IInv, Cut, Set
  <1>2. /\ e \in CallRec /\ Kept(e, r) /\ SameKey(e, r) /\ SameAnswer(e, r)
        /\ e.pc = "done" /\ e.quota = "none"
    BY <1>1, EndedFields
  <1>6. PICK ev \in Seq(Event) :
           /\ events' = [events EXCEPT ![c] = ev] /\ Wins(ev) = Wins(events[c])
           /\ SettledBut(ev, "cut")
    <2>1. CASE r.pc = "persist"
      <3>1. PICK st \in {"row", "cut"} : events' = [events EXCEPT ![c] = Saved(events[c], st)]
        BY <1>1, <2>1 DEF Cut, Typed
      <3> DEFINE ev == Saved(events[c], st)
      <3>2. SettledBut(events[c], "open") /\ st \in Writes
        BY <1>1, <2>1 DEF Good, Stored, Settled, SettledBut, Writes
      <3>3. ev \in Seq(Event) /\ Wins(ev) = Wins(events[c]) /\ SettledBut(ev, st)
        BY <1>1, <3>2, SavedAs
      <3>4. SettledBut(ev, "cut")
        BY <3>3 DEF SettledBut
      <3> QED BY <3>1, <3>3, <3>4
    <2>2. CASE r.pc # "persist"
      <3>1. events' = [events EXCEPT ![c] = events[c]]
        BY <1>1, <2>2 DEF Cut, Typed
      <3>2. Settled(events[c])
        BY <1>1, <2>2, SettledNow
      <3> QED BY <1>1, <3>1, <3>2 DEF Settled, SettledBut
    <2> QED BY <2>1, <2>2
  <1> HIDE DEF r, e, yes
  <1>3. /\ q \in CallRec /\ q.cut = yes /\ q.pc = e.pc /\ q.quota = e.quota
        /\ q.door = e.door /\ q.cred = e.cred /\ q.names = e.names /\ q.key = e.key
        /\ q.keyV = e.keyV /\ q.shown = e.shown /\ q.since = e.since /\ q.stillQ = e.stillQ
    BY <1>1, <1>2 DEF CallRec
  <1> HIDE DEF q
  <1>4. Kept(q, r) /\ SameKey(q, r) /\ q.shown = r.shown /\ q.pc = "done" /\ q.quota = "none"
    BY <1>2, <1>3 DEF Kept, SameKey, SameAnswer
  <1>7. Stored(q, ev)
    BY <1>1, <1>3, <1>4, <1>6 DEF Stored
  <1>5. Good(q, ev, sent[c])
    BY <1>1, <1>3, <1>4, <1>7, Finished
  <1> QED BY <1>1, <1>3, <1>4, <1>5, <1>6, DropStep DEF SameKey, r

LEMMA arriveStep == ASSUME IInv, NEW c \in Calls, NEW d \in Doors, Arrive(c, d) PROVE IInv'
  <1> DEFINE r == call[c]
  <1>1. r \in CallRec /\ Good(r, events[c], sent[c]) /\ Typed /\ r.pc = "idle" /\ Local
    BY RequestGood DEF IInv, Arrive, Set
  <1>2. PICK k \in Caller, ns \in Asks(d) :
           call' = [call EXCEPT ![c] = [NoCall EXCEPT !.pc = Head(Route[d]), !.door = d,
                                          !.cred = k, !.names = ns, !.since = authV,
                                          !.stillQ = quarantined]]
    BY Zenon DEF Arrive, Set, Caller
  <1> DEFINE o == NoCall
             p == Head(Route[d])
             v == authV
             qs == quarantined
             q == [o EXCEPT !.pc = p, !.door = d, !.cred = k, !.names = ns, !.since = v,
                            !.stillQ = qs]
  <1>3. /\ o \in CallRec /\ o.key = NoKey /\ o.keyV = 1 /\ o.quota = "none"
        /\ o.results = <<>> /\ o.shown = {} /\ o.cut = FALSE
    BY NoCallTyped
  <1>4. /\ p \in {"gate", "config"} /\ p \in Steps /\ On(d, p) /\ v \in Vs
        /\ qs \in SUBSET Tools /\ call' = [call EXCEPT ![c] = q]
    BY <1>1, <1>2, Places DEF Typed, Vs, Steps
  <1>5. /\ ns \in Seq(Names)
        /\ d \notin Reading => 0 < Len(ns)
        /\ d \notin Reading \cup Batch => Len(ns) = 1
    <2>1. CASE d \in Reading
      <3>1. ns = <<>>
        BY <2>1 DEF Asks, Reading, Batch
      <3>2. <<>> \in Seq(Names)
        OBVIOUS
      <3> QED BY <2>1, <3>1, <3>2
    <2>2. CASE d \in Batch \ Reading
      <3>1. ns \in Batches /\ d # "mcp_prompt"
        BY <2>2 DEF Asks, Batch
      <3>2. ns \in Seq(Names) /\ ns # <<>>
        BY <3>1, InvocationAssumption
      <3> QED BY <2>2, <3>2, EmptySeq, LenProperties
    <2>3. CASE d \notin Batch \cup Reading
      <3>1. \E n \in Names : ns = <<n>>
        BY <2>3 DEF Asks, Names, Tools
      <3> QED BY <2>3, <3>1
    <2> QED BY <2>1, <2>2, <2>3
  <1> HIDE DEF r, o, p, v, qs
  <1>6. /\ q \in CallRec /\ q.pc = p /\ q.door = d /\ q.cred = k /\ q.names = ns /\ q.since = v
        /\ q.stillQ = qs /\ q.key = o.key /\ q.keyV = o.keyV /\ q.quota = o.quota
        /\ q.results = o.results /\ q.shown = o.shown /\ q.cut = o.cut
    <2>1. o \in CallRec /\ p \in Steps /\ v \in Vs /\ qs \in SUBSET Tools /\ ns \in Seq(Names)
      BY <1>3, <1>4, <1>5
    <2>2. d \in Doors /\ k \in Caller
      OBVIOUS
    <2> QED BY ONLY <2>1, <2>2 DEF CallRec
  <1> HIDE DEF q
  <1>7. events[c] = <<>> /\ sent[c] = {} /\ r.quota # "held"
    BY <1>1 DEF Good, Books, Bound, Unkeyed
  <1>8. NoKey \notin Keys
    BY InvocationAssumption
  <1>9. OnWay(q) /\ Quarantined(q, {})
    BY <1>4, <1>6 DEF OnWay, Quarantined, Checked, qs
  <1>10. Bound(q, {})
    <2>1. v <= authV
      BY <1>1 DEF v, Typed
    <2> QED BY <1>3, <1>4, <1>6, <1>8, <2>1 DEF Bound, Unread, Unkeyed, Allowed
  <1>11. Books(q, <<>>)
    <2>1. Status(<<>>) = <<>> /\ Flat(<<>>) = <<>> /\ Len(<<>>) = 0
      BY FlatEmpty DEF Status
    <2>2. /\ q.results = <<>> /\ q.pc \in {"gate", "config"} /\ q.quota = "none"
          /\ q.door = d /\ q.names = ns
      BY <1>3, <1>4, <1>6
    <2>3. q.door \notin Reading => /\ Len(q.results) < Len(q.names)
                                   /\ q.door \notin Batch => Len(q.names) = 1
      BY <1>5, <2>1, <2>2
    <2> QED BY <2>1, <2>2, <2>3 DEF Books
  <1>13. Stored(q, <<>>)
    BY <1>3, <1>6 DEF Stored, Settled
  <1>12. Good(q, events[c], sent[c])
    BY <1>7, <1>9, <1>10, <1>11, <1>13 DEF Good
  <1> QED BY <1>1, <1>3, <1>4, <1>6, <1>7, <1>12, Quiet DEF r

----------------------------------------------------------------------------
(* The running state changes.                                                 *)

\* The requests stay as they are while configuration and credentials move on and
\* tools are quarantined.
LEMMA SharedStep ==
    ASSUME IInv, UNCHANGED <<used, call, events, sent>>,
           cfgV' \in Vs, catV' \in 1..cfgV', authV' \in 1..catV', cfgV <= cfgV', authV <= authV',
           catMcp' \subseteq McpTools, registry' \subseteq McpTools, quarantined' \subseteq Tools,
           quarantined \subseteq quarantined'
    PROVE  IInv'
  <1>1. Typed'
    BY DEF IInv, Typed
  <1>2. ASSUME NEW c \in Calls PROVE Good(call[c], events[c], sent[c])'
    <2>1. call[c] \in CallRec /\ Good(call[c], events[c], sent[c]) /\ Typed
      BY RequestGood DEF IInv
    <2>2. authV' \in Vs
      BY DEF Vs
    <2> DEFINE r == call[c]
               e == events[c]
               s == sent[c]
    <2>3. Good(r, e, s) /\ r \in CallRec
      BY <2>1
    <2>4. call'[c] = r /\ events'[c] = e /\ sent'[c] = s
      OBVIOUS
    <2> QED BY <2>1, <2>2, <2>4, StillGood
  <1>3. Charged'
    BY DEF IInv, Charged
  <1> QED BY <1>1, <1>2, <1>3 DEF IInv, EachGood

LEMMA configMoves == ASSUME IInv, SwapConfig \/ SwapCatalog \/ SwapAuth PROVE IInv'
  <1>1. /\ cfgV \in Vs /\ catV \in 1..cfgV /\ authV \in 1..catV /\ Len(Versions) \in Nat
        /\ catMcp \subseteq McpTools /\ registry \subseteq McpTools /\ quarantined \subseteq Tools
    BY InvocationAssumption, LenProperties DEF IInv, Typed
  <1>2. CASE SwapConfig
    <2>1. cfgV' = cfgV + 1 /\ cfgV < Len(Versions)
      BY <1>2 DEF SwapConfig
    <2>2. /\ cfgV' \in Vs /\ catV' \in 1..cfgV' /\ authV' \in 1..catV' /\ cfgV <= cfgV'
          /\ authV <= authV'
      BY <1>1, <1>2, <2>1 DEF SwapConfig, Vs
    <2> QED BY <1>1, <1>2, <2>2, SharedStep DEF SwapConfig
  <1>3. CASE SwapCatalog
    <2>1. /\ cfgV' \in Vs /\ catV' \in 1..cfgV' /\ authV' \in 1..catV' /\ cfgV <= cfgV'
          /\ authV <= authV'
      BY <1>1, <1>3 DEF SwapCatalog, Vs
    <2> QED BY <1>1, <1>3, <2>1, SharedStep DEF SwapCatalog
  <1>4. CASE SwapAuth
    <2>1. /\ cfgV' \in Vs /\ catV' \in 1..cfgV' /\ authV' \in 1..catV' /\ cfgV <= cfgV'
          /\ authV <= authV'
      BY <1>1, <1>4 DEF SwapAuth, Vs
    <2> QED BY <1>1, <1>4, <2>1, SharedStep DEF SwapAuth
  <1> QED BY <1>2, <1>3, <1>4

LEMMA toolsMove ==
    ASSUME IInv,
           \/ CatalogFollows
           \/ \E t \in McpTools : RegistryChanges(t)
           \/ \E t \in Tools : Quarantine(t)
    PROVE  IInv'
  <1>1. /\ cfgV \in Vs /\ catV \in 1..cfgV /\ authV \in 1..catV
        /\ catMcp \subseteq McpTools /\ registry \subseteq McpTools /\ quarantined \subseteq Tools
    BY DEF IInv, Typed
  <1>2. /\ UNCHANGED <<used, call, events, sent, cfgV, catV, authV>>
        /\ catMcp' \subseteq McpTools /\ registry' \subseteq McpTools
        /\ quarantined' \subseteq Tools /\ quarantined \subseteq quarantined'
    BY <1>1 DEF CatalogFollows, RegistryChanges, Quarantine
  <1>3. cfgV <= cfgV' /\ authV <= authV'
    BY <1>1, <1>2 DEF Vs
  <1> QED BY <1>1, <1>2, <1>3, SharedStep

\* Only what has been quarantined all along shrinks.
LEMMA Released ==
    ASSUME NEW r \in CallRec, NEW q \in CallRec, NEW ev, NEW sn, NEW t, Good(r, ev, sn),
           q.stillQ = r.stillQ \ {t}, q.pc = r.pc, q.door = r.door, q.cred = r.cred,
           q.names = r.names, q.cfg = r.cfg, q.key = r.key, q.keyV = r.keyV,
           q.canonical = r.canonical, q.quota = r.quota, q.out = r.out,
           q.results = r.results, q.shown = r.shown, q.since = r.since, q.cut = r.cut,
           cfgV' = cfgV, authV' = authV, quarantined' = quarantined \ {t}
    PROVE  Good(q, ev, sn)'
  <1>1. \A v, x : May(v, q, x) <=> May(v, r, x)
    BY MaySame
  <1>2. Bound(q, sn)'
    BY <1>1 DEF Good, Bound
  <1>3. Quarantined(q, sn)'
    BY DEF Good, Quarantined
  <1>4. OnWay(q) /\ Books(q, ev)
    BY DEF Good, OnWay, Books
  <1>5. Stored(q, ev)
    BY DEF Good, Stored
  <1> QED BY <1>2, <1>3, <1>4, <1>5 DEF Good, Stored, Settled, SettledBut

LEMMA releaseStep == ASSUME IInv, NEW t \in Tools, Release(t) PROVE IInv'
  <1> DEFINE F(c) == [call[c] EXCEPT !.stillQ = @ \ {t}]
  <1>1. /\ Typed /\ EachGood /\ Charged
        /\ quarantined' = quarantined \ {t} /\ call' = [c \in Calls |-> F(c)]
        /\ UNCHANGED <<cfgV, catV, authV, catMcp, registry, used, events, sent>>
    BY DEF IInv, Release
  <1>2. ASSUME NEW c \in Calls
        PROVE  LET q == call'[c]
                   r == call[c]
               IN  /\ q \in CallRec /\ q.stillQ = r.stillQ \ {t}
                   /\ q.pc = r.pc /\ q.door = r.door /\ q.cred = r.cred /\ q.names = r.names
                   /\ q.cfg = r.cfg /\ q.key = r.key /\ q.keyV = r.keyV
                   /\ q.canonical = r.canonical /\ q.quota = r.quota /\ q.out = r.out
                   /\ q.results = r.results /\ q.shown = r.shown /\ q.since = r.since
                   /\ q.cut = r.cut
    <2> DEFINE r == call[c]
               s == call[c].stillQ \ {t}
               q == [r EXCEPT !.stillQ = s]
    <2>1. r \in CallRec /\ s \in SUBSET Tools /\ s = r.stillQ \ {t} /\ call'[c] = q
      BY <1>1 DEF Typed, CallRec
    <2> HIDE DEF r, s
    <2>2. /\ q \in CallRec /\ q.stillQ = s
          /\ q.pc = r.pc /\ q.door = r.door /\ q.cred = r.cred /\ q.names = r.names
          /\ q.cfg = r.cfg /\ q.key = r.key /\ q.keyV = r.keyV
          /\ q.canonical = r.canonical /\ q.quota = r.quota /\ q.out = r.out
          /\ q.results = r.results /\ q.shown = r.shown /\ q.since = r.since
          /\ q.cut = r.cut
      BY <2>1 DEF CallRec
    <2> HIDE DEF q
    <2> QED BY <2>1, <2>2 DEF r
  <1> HIDE DEF F
  <1>3. Typed'
    <2>1. call' \in [Calls -> CallRec]
      BY <1>1, <1>2
    <2> QED BY <1>1, <2>1 DEF Typed
  <1>4. ASSUME NEW c \in Calls PROVE Good(call[c], events[c], sent[c])'
    <2> DEFINE r == call[c]
               q == call'[c]
               e == events[c]
               s == sent[c]
    <2>1. /\ q \in CallRec /\ r \in CallRec /\ q.stillQ = r.stillQ \ {t}
          /\ q.pc = r.pc /\ q.door = r.door /\ q.cred = r.cred /\ q.names = r.names
          /\ q.cfg = r.cfg /\ q.key = r.key /\ q.keyV = r.keyV
          /\ q.canonical = r.canonical /\ q.quota = r.quota /\ q.out = r.out
          /\ q.results = r.results /\ q.shown = r.shown /\ q.since = r.since
          /\ q.cut = r.cut
      BY <1>1, <1>2 DEF Typed
    <2>2. Good(r, e, s)
      BY <1>1 DEF EachGood
    <2>3. cfgV' = cfgV /\ authV' = authV /\ quarantined' = quarantined \ {t}
      BY <1>1
    <2>4. call'[c] = q /\ events'[c] = e /\ sent'[c] = s
      BY <1>1
    <2> QED BY <2>1, <2>2, <2>3, <2>4, Released
  <1>5. Charged'
    <2>1. \A k \in Caller : Successful(call', events', k) = Successful(call, events, k)
      BY <1>1, <1>2 DEF Successful
    <2>2. \A k \in Caller : Holding(call', k) = Holding(call, k)
      BY <1>1, <1>2 DEF Holding
    <2> QED BY <1>1, <2>1, <2>2 DEF Charged, Count
  <1> QED BY <1>3, <1>4, <1>5 DEF IInv, EachGood

----------------------------------------------------------------------------
(* The invariant and what follows from it.                                    *)

LEMMA Starts == Init => IInv
  <1> SUFFICES ASSUME Init PROVE IInv
    OBVIOUS
  <1>1. 1 \in Vs /\ NoKey \notin Keys
    <2>1. Len(Versions) \in Nat /\ Len(Versions) >= 1
      BY InvocationAssumption
    <2> QED BY <2>1, InvocationAssumption DEF Vs
  <1>2. Typed
    BY <1>1, NoCallTyped DEF Init, Typed, Vs, Tools
  <1>3. Good(NoCall, <<>>, {})
    <2>1. Status(<<>>) = <<>> /\ Flat(<<>>) = <<>>
      BY FlatEmpty DEF Status
    <2>2. OnWay(NoCall) /\ Quarantined(NoCall, {})
      BY NoCallTyped DEF OnWay, Quarantined, WaySteps, Checked
    <2>3. Bound(NoCall, {})
      BY <1>1, NoCallTyped DEF Bound, Init, Unread, Unkeyed, Allowed
    <2>4. Books(NoCall, <<>>)
      BY <2>1, NoCallTyped DEF Books
    <2>5. Stored(NoCall, <<>>)
      BY NoCallTyped DEF Stored, Settled
    <2> QED BY <2>2, <2>3, <2>4, <2>5 DEF Good
  <1>4. EachGood
    BY <1>3 DEF EachGood, Init
  <1>5. Charged
    <2>1. ASSUME NEW k \in Caller
          PROVE  Successful(call, events, k) = {} /\ Holding(call, k) = {}
      <3>1. \A c \in Calls : Wins(events[c]) = {} /\ call[c].quota = "none"
        BY NoCallTyped DEF Init, Wins
      <3>2. \A p : p \notin Successful(call, events, k)
        BY <3>1, SuccessfulPairs
      <3> QED BY <3>1, <3>2 DEF Holding
    <2>2. ASSUME NEW k \in Caller
          PROVE  Count(call, events, k) = 0 /\ IsFiniteSet(Successful(call, events, k))
      BY <2>1, FS_EmptySet DEF Count
    <2> QED BY <2>2 DEF Charged, Init, Caller
  <1> QED BY <1>2, <1>4, <1>5 DEF IInv

LEMMA Keeps == IInv /\ [Next]_vars => IInv'
  <1> SUFFICES ASSUME IInv, [Next]_vars PROVE IInv'
    OBVIOUS
  <1>1. CASE SwapConfig \/ SwapCatalog \/ SwapAuth
    BY <1>1, configMoves
  <1>2. CASE CatalogFollows \/ \E t \in McpTools : RegistryChanges(t)
    BY <1>2, toolsMove
  <1>3. ASSUME NEW t \in Tools, Quarantine(t) \/ Release(t) PROVE IInv'
    BY <1>3, toolsMove, releaseStep
  <1>4. ASSUME NEW c \in Calls, invoke_tool(c) \/ call_tool(c) PROVE IInv'
    <2>1. PICK d \in Doors : Arrive(c, d)
      BY <1>4 DEF invoke_tool, call_tool, RestDoors, Doors
    <2> QED BY <2>1, arriveStep
  <1>5. ASSUME NEW c \in Calls, Own(c) PROVE IInv'
    <2>1. CASE require_mcp_auth(c) \/ config_snapshot(c) \/ fresh_config(c) \/ proxy_key_for(c)
               \/ resolve_proxy_key(c) \/ Snapshot(c) \/ Lookup(c)
      BY <2>1, gateStep, configStep, config2Step, authStep, snapStep, lookupStep
    <2>2. CASE list_tools(c) \/ get_config(c) \/ meta_discovery(c) \/ list_prompts_for(c)
      BY <2>2, listStep, summaryStep, searchStep
    <2>3. CASE resolve_call(c) \/ check_quarantine(c) \/ invoke_call(c) \/ get_prompt_for(c)
      BY <2>3, resolveStep, quarantineStep, branchStep, peerStep
    <2>4. CASE admit(c)
      BY <2>4, admitStep
    <2>5. CASE finish_http(c) \/ finish_remote(c) \/ call_accounted(c)
      BY <2>5, finishStep DEF finish_http, finish_remote, call_accounted
    <2> QED BY <1>5, <2>1, <2>2, <2>3, <2>4, <2>5 DEF Own
  <1>6. ASSUME NEW c \in Calls, Wait(c) \/ Cut(c) PROVE IInv'
    BY <1>6, secretStep, upstreamStep, persistStep, postStep, cutStep DEF Wait
  <1>7. CASE UNCHANGED vars
    <2>1. UNCHANGED <<used, call, events, sent, cfgV, catV, authV, catMcp, registry, quarantined>>
      BY <1>7 DEF vars
    <2>2. /\ cfgV \in Vs /\ catV \in 1..cfgV /\ authV \in 1..catV
          /\ catMcp \subseteq McpTools /\ registry \subseteq McpTools /\ quarantined \subseteq Tools
      BY DEF IInv, Typed
    <2>3. cfgV <= cfgV' /\ authV <= authV'
      BY <2>1, <2>2 DEF Vs
    <2> QED BY <2>1, <2>2, <2>3, SharedStep
  <1> QED BY <1>1, <1>2, <1>3, <1>4, <1>5, <1>6, <1>7 DEF Next

LEMMA AlwaysIInv == Spec => []IInv
  BY Starts, Keeps, PTL DEF Spec

\* A change of the configuration that was complete when a request arrived binds it,
\* for any number of requests, versions and keys: the tools it calls (Upstream) and
\* is shown (list_tools) are allowed by one version in force since then, whichever
\* parts of the running state are replaced between its reads.
THEOREM ChangesAlwaysBind == Spec => []ChangesBind
  <1>1. IInv => ChangesBind
    <2> SUFFICES ASSUME IInv, NEW c \in Calls, NEW t \in sent[c] \cup call[c].shown
                 PROVE  \E v \in call[c].since..cfgV : Entitled(v, c, t)
      BY DEF ChangesBind
    <2>1. PICK v \in call[c].since..cfgV : May(v, call[c], t)
      BY RequestGood DEF Good, Bound
    <2> QED BY <2>1 DEF May, Entitled
  <1> QED BY <1>1, AlwaysIInv, PTL

\* A tool that has been in quarantine since before a request arrived is not called
\* for it (check_quarantine), by whatever name and through whatever door but that
\* of the prompts, for any number of tools, short names and changes.
THEOREM QuarantineAlwaysHolds == Spec => []QuarantineHolds
  <1>1. IInv => QuarantineHolds
    BY RequestGood DEF QuarantineHolds, Good, Quarantined
  <1> QED BY <1>1, AlwaysIInv, PTL

\* Answers, events, quotas and rows agree (finish, persist_request_event,
\* CallQuotaGuard): every item of a request that was not cut off has its answer and
\* the event the answer asks for, the quota of each key is its success events plus
\* the calls that are out, and an event has its row unless the write is under way,
\* failed or was cut off, for any number of requests of any length, cut off at any
\* step.
THEOREM AccountsAlwaysAgree == Spec => []AccountsAgree
  <1>1. IInv => TypeOK
    <2> SUFFICES ASSUME IInv PROVE TypeOK
      OBVIOUS
    <2>1. used \in [Keys \cup {NoKey} -> Nat]
      <3>1. ASSUME NEW k \in Caller PROVE Count(call, events, k) \in Nat
        <4>1. IsFiniteSet(Successful(call, events, k)) /\ IsFiniteSet(Holding(call, k))
          BY HoldingFinite DEF IInv, Charged
        <4>2. /\ Cardinality(Successful(call, events, k)) \in Nat
              /\ Cardinality(Holding(call, k)) \in Nat
          BY <4>1, FS_CardinalityType
        <4> QED BY <4>2 DEF Count
      <3> QED BY <3>1 DEF IInv, Charged, Caller
    <2>2. DOMAIN Versions = Vs
      BY InvocationAssumption, LenProperties DEF Vs
    <2>3. ASSUME NEW c \in Calls
          PROVE  /\ call[c].pc \in Steps /\ call[c].door \in Doors
                 /\ call[c].key \in Keys \cup {NoKey}
                 /\ call[c].key \in Keys => call[c].key \in keys(call[c].keyV)
                 /\ call[c].canonical \in Tools \cup {None}
                 /\ call[c].results \in Seq(Results)
                 /\ call[c].quota \in {"none", "held", "committed"}
      BY RequestGood DEF CallRec, Good, Bound, Caller, Quotas
    <2> QED BY <2>1, <2>2, <2>3 DEF TypeOK, IInv, Typed
  <1>2. IInv => Accounted
    BY RequestGood DEF Accounted, Good, Books, StatusOf, Status, Flat
  <1>3. IInv => QuotaMatchesEvents
    <2> SUFFICES ASSUME IInv, NEW k \in Keys \cup {NoKey}
                 PROVE  used[k] = Successes(k) + Held(k)
      BY DEF QuotaMatchesEvents
    <2>1. Successes(k) = Cardinality(Successful(call, events, k))
      BY DEF Successes, Successful
    <2>2. Held(k) = Cardinality(Holding(call, k))
      BY DEF Held, Holding
    <2> QED BY <2>1, <2>2 DEF IInv, Charged, Count, Caller
  <1>4. IInv => RowsFollow
    <2> SUFFICES ASSUME IInv, NEW c \in Calls, NEW i \in DOMAIN events[c]
                 PROVE  \/ events[c][i].saved \in {"row", "failed"}
                        \/ events[c][i].saved = "open" /\ i = Len(events[c]) /\ call[c].pc = "persist"
                        \/ events[c][i].saved = "cut" /\ i = Len(events[c]) /\ call[c].cut
      BY DEF RowsFollow
    <2>1. Stored(call[c], events[c])
      BY RequestGood DEF Good
    <2> QED BY <2>1 DEF Stored, Settled, SettledBut
  <1> QED BY <1>1, <1>2, <1>3, <1>4, AlwaysIInv, PTL DEF AccountsAgree
=============================================================================
