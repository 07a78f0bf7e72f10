------------------------- MODULE McpRegistryProofs -------------------------
(* Theorems about McpRegistry for every set of servers, upstreams, tools and   *)
(* configurations.  Every task works on copies of entries, so the invariants   *)
(* speak of the copies in flight as well as of the registry.                   *)
EXTENDS McpRegistry, SequenceTheorems, TLAPS

Elems(es) == {es[i] : i \in DOMAIN es}

\* Sequences of entries that are all of one piece.
EntriesOK(es) == es \in Seq(Entry) /\ \A e \in Elems(es) : Consistent(e)

Descriptors == Nat \X Servers \X Tool

ConfigMaps == {<<>>} \cup UNION {[D -> Conf] : D \in SUBSET Servers}

\* The copies of the refresh.
RefOK(r) ==
    /\ r \in [pc : {"idle", "fetch", "sync", "read", "check", "rebase"},
              todo : Seq(Entry), done : Seq(Entry), descr : SUBSET Descriptors, conf : ConfigMaps]
    /\ EntriesOK(r.todo) /\ EntriesOK(r.done)

\* The copy of an admin write: the old entry of an update, then the new one.
AdmHolds(a) == a.pc = "write" \/ (a.pc = "fetch" /\ a.kind = "update")

AdmOK(a) ==
    /\ a \in [pc : {"idle", "fetch", "write", "swap", "install", "sync", "rebase"},
              kind : {"create", "update", "delete", None}, id : Servers \cup {None},
              conf : Conf \cup {None}, entry : Entry \cup {None}]
    /\ a.pc # "idle" =>
         /\ a.id \in Servers /\ a.kind \in {"create", "update", "delete"}
         /\ a.kind # "delete" => a.conf \in Conf
         /\ a.pc \in {"fetch", "write", "sync"} => a.kind # "delete"
    /\ AdmHolds(a) => a.entry \in Entry /\ a.entry.id = a.id /\ Consistent(a.entry)

\* The copy of a probe or a reconnect.
OpOK(o) ==
    /\ o \in [pc : {"idle", "fetch", "write", "sync", "rebase"}, kind : Loose \cup {None},
              entry : Entry \cup {None}]
    /\ o.pc \in {"fetch", "write"} => o.entry \in Entry /\ Consistent(o.entry)

EnvOK(f, u, n, h, t, q) ==
    /\ f \in [Urls -> [Tools -> 0..MaxFp]] /\ u \subseteq Urls
    /\ n \in 0..MaxChanges /\ h \in BOOLEAN /\ t \in BOOLEAN /\ q \in 0..ChannelCap

PinsOK(b, a, q) == b \subseteq Tool /\ a \subseteq Tool /\ q \subseteq Namespaces \X Tools

ConfigOK(cf, cat, st) ==
    /\ DOMAIN cf \subseteq Servers /\ cf \in [DOMAIN cf -> Conf]
    /\ cat \subseteq Servers \X Tool /\ st \subseteq Servers

\* The catalog speaks of configured servers, of those whose last write ended half-way,
\* and between the two locks of a swap of the server that is being written.
Owned(a, cf, cat, st) ==
    \A c \in cat : c[1] \in DOMAIN cf \cup st \/ (a.pc = "install" /\ c[1] = a.id)

DistinctIds(es) == \A i, j \in DOMAIN es : es[i].id = es[j].id => i = j

Agree(ids, cf, S) == \A s \in Servers \ S : s \in ids <=> s \in DOMAIN cf

\* Where registry and configuration may differ while a write is under way: only
\* between the two writes, and only in the server that is being written.
IdsInv(a, ids, cf, st) ==
    /\ a.pc # "swap" => Agree(ids, cf, st)
    /\ a.pc = "swap" =>
         /\ Agree(ids, cf, st \cup {a.id})
         /\ a.id \in ids <=> a.kind # "delete"
    /\ a.pc = "install" => (a.id \in ids <=> a.id \in DOMAIN cf)
    /\ a.pc \in {"fetch", "write"} => (a.id \in ids <=> a.kind = "update")

RegistryInv ==
    /\ EnvOK(offer, up, changes, heard, tick, signals)
    /\ PinsOK(baseline, approved, quarantined)
    /\ RefOK(ref) /\ AdmOK(adm) /\ OpOK(op)
    /\ EntriesOK(entries) /\ DistinctIds(entries)
    /\ ConfigOK(config, catalog, stranded)
    /\ Owned(adm, config, catalog, stranded)
    /\ IdsInv(adm, Ids(entries), config, stranded)

\* In a sequence of entries no two hold the same wire name.
DisjointNames(es) ==
    \A i, j \in DOMAIN es : i # j => Names(es[i].tools) \cap Names(es[j].tools) = {}

-----------------------------------------------------------------------------
(* What an upstream call makes of an entry                                    *)

LEMMA EntryFields ==
    ASSUME NEW e \in Entry
    PROVE  /\ e.id \in Servers /\ e.conf \in Conf /\ e.peer \in Urls \cup {None}
           /\ e.tools \subseteq Tool /\ e.status \in Status
           /\ e = [id |-> e.id, conf |-> e.conf, peer |-> e.peer, tools |-> e.tools,
                   status |-> e.status]
    BY DEF Entry

LEMMA ConfFields ==
    ASSUME NEW c \in Conf
    PROVE  c.ns \in Namespaces /\ c.url \in Urls /\ c.enabled \in BOOLEAN /\ c.strict \in BOOLEAN
    BY DEF Conf

\* The tools an upstream offers are tools of the server's namespace.
LEMMA Wrapped ==
    ASSUME offer \in [Urls -> [Tools -> 0..MaxFp]], NEW c \in Conf, NEW u \in Urls
    PROVE  /\ wrap_tools(c, u) \subseteq Tool
           /\ \A x \in wrap_tools(c, u) : x[1] = c.ns
  <1>1. c.ns \in Namespaces
    BY ConfFields
  <1>2. \A t \in Tools : offer[u][t] \in 0..MaxFp /\ (offer[u][t] > 0 => offer[u][t] \in 1..MaxFp)
    BY BoundAssumption
  <1> QED BY <1>1, <1>2 DEF wrap_tools, Tool

\* An entry after a call to its upstream: of one piece, for the server and the
\* configuration the call was made for.
Fetched(f, s, c) == f \in Entry /\ f.id = s /\ f.conf = c /\ Consistent(f)

AtHome(e) == \A x \in e.tools : x[1] = e.conf.ns

\* probe_entry over the entry's own url: of one piece, whether or not it answers.
LEMMA Probed ==
    ASSUME offer \in [Urls -> [Tools -> 0..MaxFp]], NEW e \in Entry, NEW u \in Urls,
           u = e.conf.url
    PROVE  /\ Fetched(probe_entry(e, u), e.id, e.conf)
           /\ AtHome(e) => AtHome(probe_entry(e, u))
  <1> DEFINE q == probe_entry(e, u)
  <1>1. /\ wrap_tools(e.conf, u) \subseteq Tool
        /\ \A x \in wrap_tools(e.conf, u) : x[1] = e.conf.ns
    BY EntryFields, Wrapped
  <1>2. /\ mark_ok(e.conf) \in {"ok", "disabled"}
        /\ mark_ok(e.conf) = "disabled" <=> ~e.conf.enabled
        /\ mark_failed(e.conf) \in {"unavailable", "disabled"}
        /\ mark_failed(e.conf) = "disabled" <=> ~e.conf.enabled
    BY DEF mark_ok, mark_failed
  <1>3. CASE u \in up
    <2> DEFINE w == wrap_tools(e.conf, u)
               a == mark_ok(e.conf)
    <2>1. q = [e EXCEPT !.peer = u, !.tools = w, !.status = a]
      BY <1>3 DEF probe_entry
    <2>2. w \in SUBSET Tool /\ a \in Status
      BY <1>1, <1>2 DEF Status
    <2> HIDE DEF w, a, q
    <2>3. /\ q \in Entry /\ q.id = e.id /\ q.conf = e.conf /\ q.peer = u
          /\ q.tools = w /\ q.status = a
      BY <2>1, <2>2 DEF Entry
    <2>4. Consistent(q) /\ AtHome(q)
      BY <1>1, <1>2, <2>3, BoundAssumption DEF Consistent, AtHome, w, a
    <2> QED BY <2>3, <2>4 DEF Fetched, q
  <1>4. CASE u \notin up
    <2> DEFINE b == mark_failed(e.conf)
    <2>1. q = [e EXCEPT !.peer = u, !.status = b]
      BY <1>4 DEF probe_entry
    <2>2. b \in Status
      BY <1>2 DEF Status
    <2> HIDE DEF b, q
    <2>3. /\ q \in Entry /\ q.id = e.id /\ q.conf = e.conf /\ q.peer = u
          /\ q.tools = e.tools /\ q.status = b
      BY <2>1, <2>2 DEF Entry
    <2>4. Consistent(q) /\ (AtHome(e) => AtHome(q))
      BY <1>2, <2>3, BoundAssumption DEF Consistent, AtHome, b
    <2> QED BY <2>3, <2>4 DEF Fetched, q
  <1> QED BY <1>3, <1>4

\* establish_entry: connected or not, the entry is of one piece.
LEMMA Established ==
    ASSUME offer \in [Urls -> [Tools -> 0..MaxFp]], NEW s \in Servers, NEW c \in Conf,
           NEW f \in establish_entry(s, c)
    PROVE  Fetched(f, s, c) /\ AtHome(f)
  <1> DEFINE b == [id |-> s, conf |-> c, peer |-> None, tools |-> {}, status |-> mark_failed(c)]
  <1>1. b \in Entry /\ b.id = s /\ b.conf = c /\ b.peer = None /\ b.tools = {}
    BY DEF Entry, Status, mark_failed
  <1>2. Consistent(b) /\ AtHome(b)
    BY DEF Consistent, AtHome, mark_failed
  <1>3. f = b \/ f = probe_entry(b, c.url)
    BY DEF establish_entry
  <1> HIDE DEF b
  <1>4. c.url \in Urls
    BY ConfFields
  <1> QED BY <1>1, <1>2, <1>3, <1>4, Probed DEF Fetched

\* refetch: an entry of one piece stays so, with its id and configuration.
LEMMA Refetched ==
    ASSUME offer \in [Urls -> [Tools -> 0..MaxFp]], NEW e \in Entry, Consistent(e),
           NEW f \in refetch(e)
    PROVE  Fetched(f, e.id, e.conf) /\ (AtHome(e) => AtHome(f))
  <1>1. CASE e.peer # None
    <2>1. e.peer \in Urls /\ e.peer = e.conf.url
      BY <1>1, EntryFields DEF Consistent
    <2>2. f = probe_entry(e, e.peer)
      BY <1>1 DEF refetch
    <2> QED BY <2>1, <2>2, Probed
  <1>2. CASE e.peer = None
    <2>1. f \in establish_entry(e.id, e.conf)
      BY <1>2 DEF refetch
    <2> QED BY <2>1, EntryFields, Established
  <1> QED BY <1>1, <1>2

\* updated: a connection is kept only when the new configuration has its url.
LEMMA Updated ==
    ASSUME offer \in [Urls -> [Tools -> 0..MaxFp]], NEW e \in Entry, Consistent(e),
           NEW c \in Conf, NEW f \in updated(e, c)
    PROVE  Fetched(f, e.id, c)
  <1>1. CASE e.peer # None /\ e.conf.url = c.url
    <2> DEFINE q == [e EXCEPT !.conf = c]
    <2>1. q \in Entry /\ q.id = e.id /\ q.conf = c /\ q.peer = e.peer
      BY DEF Entry
    <2>2. f = probe_entry(q, e.peer)
      BY <1>1 DEF updated
    <2> HIDE DEF q
    <2>3. e.peer \in Urls /\ e.peer = q.conf.url
      BY <1>1, <2>1, EntryFields DEF Consistent
    <2> QED BY <2>1, <2>2, <2>3, Probed
  <1>2. CASE ~(e.peer # None /\ e.conf.url = c.url)
    <2>1. f \in establish_entry(e.id, c)
      BY <1>2 DEF updated
    <2> QED BY <2>1, EntryFields, Established
  <1> QED BY <1>1, <1>2

\* Losing tools to other entries changes nothing else.
LEMMA Deduped ==
    ASSUME NEW e \in Entry, NEW seen
    PROVE  LET q == without_names(e, seen)
           IN  /\ q \in Entry /\ q.id = e.id /\ q.conf = e.conf
               /\ q.tools = {x \in e.tools : Name(x) \notin seen}
               /\ Consistent(e) => Consistent(q)
               /\ AtHome(e) => AtHome(q)
  <1> DEFINE t == {x \in e.tools : Name(x) \notin seen}
             q == [e EXCEPT !.tools = t]
  <1>1. without_names(e, seen) = q
    BY DEF without_names
  <1>2. t \subseteq e.tools /\ t \in SUBSET Tool
    BY EntryFields
  <1> HIDE DEF t
  <1>3. /\ q \in Entry /\ q.id = e.id /\ q.conf = e.conf /\ q.tools = t
        /\ q.peer = e.peer /\ q.status = e.status
    BY <1>2 DEF Entry
  <1> HIDE DEF q
  <1>4. (Consistent(e) => Consistent(q)) /\ (AtHome(e) => AtHome(q))
    BY <1>2, <1>3 DEF Consistent, AtHome
  <1> QED BY <1>1, <1>3, <1>4 DEF t

-----------------------------------------------------------------------------
(* What is done to sequences of entries                                       *)

LEMMA EntryAt ==
    ASSUME NEW es \in Seq(Entry)
    PROVE  /\ Len(es) \in Nat /\ DOMAIN es = 1..Len(es)
           /\ \A i \in DOMAIN es : es[i] \in Entry
    OBVIOUS

\* A sequence made position by position.
LEMMA SeqOfEntries ==
    ASSUME NEW n \in Nat, NEW q, q = [i \in 1..n |-> q[i]], \A i \in 1..n : q[i] \in Entry
    PROVE  q \in Seq(Entry) /\ Len(q) = n /\ DOMAIN q = 1..n
    OBVIOUS

LEMMA EntryFound ==
    ASSUME NEW es \in Seq(Entry), NEW s \in Ids(es)
    PROVE  EntryOf(es, s) \in Elems(es) /\ EntryOf(es, s) \in Entry /\ EntryOf(es, s).id = s
  <1>1. \E i \in DOMAIN es : es[i].id = s
    BY DEF Ids
  <1>2. PICK i \in DOMAIN es : EntryOf(es, s) = es[i] /\ es[i].id = s
    BY <1>1 DEF EntryOf
  <1> QED BY <1>2, EntryAt DEF Elems

\* Positions and ids are kept.
SameShape(q, es) == DOMAIN q = DOMAIN es /\ \A i \in DOMAIN es : q[i].id = es[i].id

LEMMA ShapeKeepsIds ==
    ASSUME NEW q, NEW es, SameShape(q, es)
    PROVE  Ids(q) = Ids(es) /\ (DistinctIds(es) => DistinctIds(q))
    BY DEF SameShape, Ids, DistinctIds

\* merge_refreshed replaces what is still there and adds nothing.
LEMMA Merged ==
    ASSUME NEW es \in Seq(Entry), NEW done \in Seq(Entry)
    PROVE  LET q == merge_refreshed(es, done)
           IN  /\ q \in Seq(Entry) /\ SameShape(q, es)
               /\ \A i \in DOMAIN es :
                     IF es[i].id \in Ids(done) THEN q[i] \in Elems(done) ELSE q[i] = es[i]
  <1> DEFINE q == merge_refreshed(es, done)
  <1>1. /\ q = [i \in 1..Len(es) |-> q[i]] /\ DOMAIN q = DOMAIN es
        /\ \A i \in DOMAIN es :
              q[i] = IF es[i].id \in Ids(done) THEN EntryOf(done, es[i].id) ELSE es[i]
    BY EntryAt DEF merge_refreshed
  <1> HIDE DEF q
  <1>2. ASSUME NEW i \in DOMAIN es
        PROVE  /\ q[i] \in Entry /\ q[i].id = es[i].id
               /\ IF es[i].id \in Ids(done) THEN q[i] \in Elems(done) ELSE q[i] = es[i]
    <2>1. CASE es[i].id \in Ids(done)
      BY <2>1, <1>1, EntryFound
    <2>2. CASE es[i].id \notin Ids(done)
      BY <2>2, <1>1, EntryAt
    <2> QED BY <2>1, <2>2
  <1>3. q \in Seq(Entry)
    BY <1>1, <1>2, EntryAt, SeqOfEntries
  <1> QED BY <1>1, <1>2, <1>3 DEF SameShape, q

\* replace_entry puts the deduplicated entry in the place of its id.
LEMMA Replaced ==
    ASSUME NEW es \in Seq(Entry), NEW e \in Entry
    PROVE  LET q == replace_entry(es, e)
               d == dedup_against_others(es, e)
           IN  /\ q \in Seq(Entry) /\ SameShape(q, es)
               /\ \A i \in DOMAIN es : q[i] = IF es[i].id = e.id THEN d ELSE es[i]
               /\ d \in Entry /\ d.id = e.id /\ d.conf = e.conf
               /\ Consistent(e) => Consistent(d)
               /\ AtHome(e) => AtHome(d)
               /\ \A i \in DOMAIN es :
                     es[i].id # e.id => Names(d.tools) \cap Names(es[i].tools) = {}
  <1> DEFINE q == replace_entry(es, e)
             d == dedup_against_others(es, e)
             seen == UNION {Names(es[i].tools) : i \in {j \in DOMAIN es : es[j].id # e.id}}
  <1>1. d = without_names(e, seen)
    BY DEF dedup_against_others
  <1>2. /\ d \in Entry /\ d.id = e.id /\ d.conf = e.conf
        /\ d.tools = {x \in e.tools : Name(x) \notin seen}
        /\ Consistent(e) => Consistent(d)
        /\ AtHome(e) => AtHome(d)
    <2> HIDE DEF seen, d
    <2> QED BY <1>1, Deduped
  <1>3. \A i \in DOMAIN es : es[i].id # e.id => Names(d.tools) \cap Names(es[i].tools) = {}
    BY <1>2 DEF Names
  <1>4. /\ q = [i \in 1..Len(es) |-> q[i]] /\ DOMAIN q = DOMAIN es
        /\ \A i \in DOMAIN es : q[i] = IF es[i].id = e.id THEN d ELSE es[i]
    BY EntryAt DEF replace_entry
  <1> HIDE DEF q, d
  <1>5. \A i \in DOMAIN es : q[i] \in Entry /\ q[i].id = es[i].id
    BY <1>2, <1>4, EntryAt
  <1>6. q \in Seq(Entry)
    BY <1>4, <1>5, EntryAt, SeqOfEntries
  <1> QED BY <1>2, <1>3, <1>4, <1>5, <1>6 DEF SameShape, q, d

\* A new last entry.
LEMMA Appended ==
    ASSUME NEW es \in Seq(Entry), NEW e \in Entry
    PROVE  LET q == Append(es, e)
           IN  /\ q \in Seq(Entry) /\ Len(q) = Len(es) + 1
               /\ \A i \in DOMAIN q : q[i] = IF i \in DOMAIN es THEN es[i] ELSE e
               /\ Len(q) \notin DOMAIN es /\ q[Len(q)] = e
               /\ DOMAIN q = DOMAIN es \cup {Len(q)}
               /\ Ids(q) = Ids(es) \cup {e.id}
               /\ DistinctIds(es) /\ e.id \notin Ids(es) => DistinctIds(q)
  <1> DEFINE q == Append(es, e)
  <1>1. /\ q \in Seq(Entry) /\ Len(q) = Len(es) + 1
        /\ \A i \in DOMAIN q : q[i] = IF i \in DOMAIN es THEN es[i] ELSE e
        /\ Len(q) \notin DOMAIN es /\ q[Len(q)] = e
        /\ DOMAIN q = DOMAIN es \cup {Len(q)}
    OBVIOUS
  <1> HIDE DEF q
  <1>2. Ids(q) = Ids(es) \cup {e.id}
    BY <1>1 DEF Ids
  <1>3. DistinctIds(es) /\ e.id \notin Ids(es) => DistinctIds(q)
    BY <1>1 DEF DistinctIds, Ids
  <1> QED BY <1>1, <1>2, <1>3 DEF q

\* push_deduped_entry: the new entry takes no name that is taken.
LEMMA Pushed ==
    ASSUME NEW es \in Seq(Entry), NEW e \in Entry
    PROVE  \E d \in Entry :
              /\ push_deduped_entry(es, e) = Append(es, d)
              /\ d.id = e.id /\ d.conf = e.conf
              /\ Consistent(e) => Consistent(d)
              /\ AtHome(e) => AtHome(d)
              /\ \A i \in DOMAIN es : Names(d.tools) \cap Names(es[i].tools) = {}
  <1> DEFINE seen == UNION {Names(es[i].tools) : i \in DOMAIN es}
             d == without_names(e, seen)
  <1>1. push_deduped_entry(es, e) = Append(es, d)
    BY DEF push_deduped_entry
  <1>2. /\ d \in Entry /\ d.id = e.id /\ d.conf = e.conf
        /\ d.tools = {x \in e.tools : Name(x) \notin seen}
        /\ Consistent(e) => Consistent(d)
        /\ AtHome(e) => AtHome(d)
    <2> HIDE DEF seen
    <2> QED BY Deduped
  <1>3. \A i \in DOMAIN es : Names(d.tools) \cap Names(es[i].tools) = {}
    <2> HIDE DEF d
    <2> QED BY <1>2 DEF Names
  <1> HIDE DEF d
  <1> QED BY <1>1, <1>2, <1>3

\* Taking one position out.
LEMMA Shortened ==
    ASSUME NEW es \in Seq(Entry), NEW k \in DOMAIN es
    PROVE  LET q == RemoveAt(es, k)
           IN  /\ q \in Seq(Entry) /\ Len(q) = Len(es) - 1
               /\ \A i \in DOMAIN q : q[i] = IF i < k THEN es[i] ELSE es[i + 1]
  <1> DEFINE a == SubSeq(es, 1, k - 1)
             b == SubSeq(es, k + 1, Len(es))
  <1>1. Len(es) \in Nat /\ k \in 1..Len(es)
    OBVIOUS
  <1>2. a \in Seq(Entry) /\ Len(a) = k - 1 /\ \A i \in 1..(k - 1) : a[i] = es[i]
    BY <1>1, SubSeqProperties
  <1>3. b \in Seq(Entry) /\ Len(b) = Len(es) - k /\ \A i \in 1..(Len(es) - k) : b[i] = es[k + i]
    BY <1>1, SubSeqProperties
  <1>4. RemoveAt(es, k) = a \o b
    BY DEF RemoveAt
  <1> HIDE DEF a, b
  <1> DEFINE q == a \o b
  <1>5. /\ q \in Seq(Entry) /\ Len(q) = Len(a) + Len(b)
        /\ \A i \in 1..(Len(a) + Len(b)) : q[i] = IF i <= Len(a) THEN a[i] ELSE b[i - Len(a)]
    BY <1>2, <1>3, ConcatProperties
  <1> HIDE DEF q
  <1>6. Len(q) = Len(es) - 1 /\ DOMAIN q = 1..(Len(es) - 1)
    BY <1>1, <1>2, <1>3, <1>5
  <1>7. ASSUME NEW i \in DOMAIN q PROVE q[i] = IF i < k THEN es[i] ELSE es[i + 1]
    <2>1. CASE i < k
      <3>1. i \in 1..(k - 1) /\ i \in 1..(Len(a) + Len(b)) /\ i <= Len(a)
        BY <2>1, <1>1, <1>2, <1>3, <1>6
      <3> QED BY <3>1, <2>1, <1>2, <1>5
    <2>2. CASE ~(i < k)
      <3>1. /\ i - (k - 1) \in 1..(Len(es) - k) /\ i \in 1..(Len(a) + Len(b)) /\ ~(i <= Len(a))
            /\ k + (i - (k - 1)) = i + 1
        BY <2>2, <1>1, <1>2, <1>3, <1>6
      <3>2. q[i] = b[i - (k - 1)]
        BY <3>1, <1>2, <1>5
      <3> QED BY <3>1, <3>2, <2>2, <1>3
    <2> QED BY <2>1, <2>2
  <1> QED BY <1>4, <1>5, <1>6, <1>7 DEF q

\* remove_server: the server is gone, the others stay in order.
LEMMA RemovedServer ==
    ASSUME NEW es \in Seq(Entry), NEW s, DistinctIds(es)
    PROVE  LET q == remove_server(es, s)
           IN  /\ q \in Seq(Entry) /\ Elems(q) \subseteq Elems(es)
               /\ Ids(q) = Ids(es) \ {s}
               /\ DistinctIds(q)
               /\ DisjointNames(es) => DisjointNames(q)
  <1> DEFINE q == remove_server(es, s)
  <1>1. CASE s \notin Ids(es)
    BY <1>1 DEF remove_server
  <1>2. CASE s \in Ids(es)
    <2>1. \E i \in DOMAIN es : es[i].id = s
      BY <1>2 DEF Ids
    <2>2. PICK k \in DOMAIN es : es[k].id = s /\ q = RemoveAt(es, k)
      BY <1>2, <2>1 DEF remove_server
    <2>3. /\ q \in Seq(Entry) /\ Len(q) = Len(es) - 1
          /\ \A i \in DOMAIN q : q[i] = IF i < k THEN es[i] ELSE es[i + 1]
      BY <2>2, Shortened
    <2> HIDE DEF q
    <2> DEFINE At(i) == IF i < k THEN i ELSE i + 1
    <2>4. /\ Len(es) \in Nat /\ k \in 1..Len(es) /\ DOMAIN es = 1..Len(es)
          /\ DOMAIN q = 1..(Len(es) - 1)
      BY <2>3
    <2>5. \A i \in DOMAIN q : At(i) \in DOMAIN es /\ At(i) # k /\ q[i] = es[At(i)]
      BY <2>3, <2>4
    <2>6. \A i, j \in DOMAIN q : At(i) = At(j) => i = j
      BY <2>4
    <2>7. \A m \in DOMAIN es : m # k => \E i \in DOMAIN q : At(i) = m
      <3> SUFFICES ASSUME NEW m \in DOMAIN es, m # k PROVE \E i \in DOMAIN q : At(i) = m
        OBVIOUS
      <3>1. CASE m < k
        BY <3>1, <2>4
      <3>2. CASE m > k
        <4>1. m - 1 \in DOMAIN q /\ At(m - 1) = m
          BY <3>2, <2>4
        <4> QED BY <4>1
      <3> QED BY <3>1, <3>2, <2>4
    <2> HIDE DEF At
    <2>8. Elems(q) \subseteq Elems(es)
      BY <2>5 DEF Elems
    <2>9. Ids(q) = Ids(es) \ {s}
      BY <2>2, <2>5, <2>7 DEF Ids, DistinctIds
    <2>10. DistinctIds(q)
      BY <2>5, <2>6 DEF DistinctIds
    <2>11. ASSUME DisjointNames(es), NEW i \in DOMAIN q, NEW j \in DOMAIN q, i # j
           PROVE  Names(q[i].tools) \cap Names(q[j].tools) = {}
      <3>1. At(i) \in DOMAIN es /\ At(j) \in DOMAIN es /\ At(i) # At(j)
        BY <2>5, <2>6, <2>11
      <3>2. q[i] = es[At(i)] /\ q[j] = es[At(j)]
        BY <2>5
      <3> QED BY <3>1, <3>2, <2>11 DEF DisjointNames
    <2>12. DisjointNames(es) => DisjointNames(q)
      BY <2>11 DEF DisjointNames
    <2> QED BY <2>3, <2>8, <2>9, <2>10, <2>12 DEF q
  <1> QED BY <1>1, <1>2

-----------------------------------------------------------------------------
(* The tasks' own records                                                     *)

LEMMA NoEntries == EntriesOK(<<>>) /\ Ids(<<>>) = {} /\ DistinctIds(<<>>)
    BY DEF EntriesOK, Elems, Ids, DistinctIds

\* The refresh from one await to the next.
LEMMA RefMoves ==
    ASSUME NEW r, RefOK(r)
    PROVE  /\ RefOK(idle_ref) /\ RefOK([idle_ref EXCEPT !.pc = "sync"])
           /\ RefOK([r EXCEPT !.pc = "read"]) /\ RefOK([r EXCEPT !.pc = "rebase"])
           /\ \A es : EntriesOK(es) => RefOK([idle_ref EXCEPT !.pc = "fetch", !.todo = es])
           /\ \A t, d : EntriesOK(t) /\ EntriesOK(d) => RefOK([r EXCEPT !.todo = t, !.done = d])
           /\ \A d \in SUBSET Descriptors, c \in ConfigMaps :
                 RefOK([r EXCEPT !.pc = "check", !.descr = d, !.conf = c])
  <1>1. <<>> \in ConfigMaps /\ {} \in SUBSET Descriptors
    BY DEF ConfigMaps
  <1>2. RefOK(idle_ref)
    BY <1>1, NoEntries DEF RefOK, idle_ref, EntriesOK
  <1>3. RefOK([idle_ref EXCEPT !.pc = "sync"])
    BY <1>1, NoEntries DEF RefOK, idle_ref, EntriesOK
  <1>4. RefOK([r EXCEPT !.pc = "read"]) /\ RefOK([r EXCEPT !.pc = "rebase"])
    BY DEF RefOK
  <1>5. ASSUME NEW es, EntriesOK(es)
        PROVE  RefOK([idle_ref EXCEPT !.pc = "fetch", !.todo = es])
    BY <1>1, <1>5, NoEntries DEF RefOK, idle_ref, EntriesOK
  <1>6. ASSUME NEW t, NEW d, EntriesOK(t), EntriesOK(d)
        PROVE  RefOK([r EXCEPT !.todo = t, !.done = d])
    <2>1. t \in Seq(Entry) /\ d \in Seq(Entry)
      BY <1>6 DEF EntriesOK
    <2> QED BY <1>6, <2>1 DEF RefOK
  <1>7. ASSUME NEW d \in SUBSET Descriptors, NEW c \in ConfigMaps
        PROVE  RefOK([r EXCEPT !.pc = "check", !.descr = d, !.conf = c])
    BY <1>7 DEF RefOK
  <1> QED BY <1>2, <1>3, <1>4, <1>5, <1>6, <1>7

\* An admin write from one await to the next.
LEMMA AdmMoves ==
    ASSUME NEW a, AdmOK(a)
    PROVE  /\ AdmOK(idle_adm) /\ idle_adm.pc = "idle"
           /\ \A s \in Servers, c \in Conf :
                 AdmOK([pc |-> "fetch", kind |-> "create", id |-> s, conf |-> c, entry |-> None])
           /\ \A s \in Servers, c \in Conf, e \in Entry : e.id = s /\ Consistent(e) =>
                 AdmOK([pc |-> "fetch", kind |-> "update", id |-> s, conf |-> c, entry |-> e])
           /\ \A s \in Servers : AdmOK([idle_adm EXCEPT !.pc = "swap", !.kind = "delete", !.id = s])
           /\ \A e \in Entry : a.pc = "fetch" /\ e.id = a.id /\ Consistent(e) =>
                 AdmOK([a EXCEPT !.pc = "write", !.entry = e])
           /\ a.pc = "write" => AdmOK([a EXCEPT !.pc = "swap", !.entry = None])
           /\ a.pc = "swap" => AdmOK([a EXCEPT !.pc = "install"])
           /\ a.pc = "install" => AdmOK([a EXCEPT !.pc = IF a.kind = "delete" THEN "rebase" ELSE "sync"])
           /\ a.pc = "sync" => AdmOK([a EXCEPT !.pc = "rebase"])
  <1> USE DEF AdmOK, AdmHolds
  <1>1. AdmOK(idle_adm) /\ idle_adm.pc = "idle"
    BY DEF idle_adm
  <1>2. ASSUME NEW s \in Servers, NEW c \in Conf
        PROVE  AdmOK([pc |-> "fetch", kind |-> "create", id |-> s, conf |-> c, entry |-> None])
    OBVIOUS
  <1>3. ASSUME NEW s \in Servers, NEW c \in Conf, NEW e \in Entry, e.id = s, Consistent(e)
        PROVE  AdmOK([pc |-> "fetch", kind |-> "update", id |-> s, conf |-> c, entry |-> e])
    BY <1>3
  <1>4. ASSUME NEW s \in Servers
        PROVE  AdmOK([idle_adm EXCEPT !.pc = "swap", !.kind = "delete", !.id = s])
    BY DEF idle_adm
  <1>5. ASSUME NEW e \in Entry, a.pc = "fetch", e.id = a.id, Consistent(e)
        PROVE  AdmOK([a EXCEPT !.pc = "write", !.entry = e])
    BY <1>5
  <1>6. ASSUME a.pc = "write" PROVE AdmOK([a EXCEPT !.pc = "swap", !.entry = None])
    BY <1>6
  <1>9. ASSUME a.pc = "swap" PROVE AdmOK([a EXCEPT !.pc = "install"])
    BY <1>9
  <1>7. ASSUME a.pc = "install"
        PROVE  AdmOK([a EXCEPT !.pc = IF a.kind = "delete" THEN "rebase" ELSE "sync"])
    <2>1. CASE a.kind = "delete"
      <3>1. AdmOK([a EXCEPT !.pc = "rebase"])
        BY <1>7, <2>1
      <3> QED BY <2>1, <3>1
    <2>2. CASE a.kind # "delete"
      <3>1. AdmOK([a EXCEPT !.pc = "sync"])
        BY <1>7, <2>2
      <3> QED BY <2>2, <3>1
    <2> QED BY <2>1, <2>2
  <1>8. ASSUME a.pc = "sync" PROVE AdmOK([a EXCEPT !.pc = "rebase"])
    BY <1>8
  <1> HIDE DEF AdmOK, AdmHolds
  <1> QED BY <1>1, <1>2, <1>3, <1>4, <1>5, <1>6, <1>7, <1>8, <1>9

\* A probe or a reconnect from one await to the next.
LEMMA OpMoves ==
    ASSUME NEW o, OpOK(o)
    PROVE  /\ OpOK(idle_op)
           /\ \A k \in Loose, e \in Entry : Consistent(e) =>
                 OpOK([pc |-> "fetch", kind |-> k, entry |-> e])
           /\ \A e \in Entry : Consistent(e) => OpOK([o EXCEPT !.pc = "write", !.entry = e])
           /\ OpOK([o EXCEPT !.pc = "sync", !.entry = None])
           /\ OpOK([o EXCEPT !.pc = "rebase"])
  <1> USE DEF OpOK
  <1>1. OpOK(idle_op)
    BY DEF idle_op
  <1>2. ASSUME NEW k \in Loose, NEW e \in Entry, Consistent(e)
        PROVE  OpOK([pc |-> "fetch", kind |-> k, entry |-> e])
    BY <1>2
  <1>3. ASSUME NEW e \in Entry, Consistent(e) PROVE OpOK([o EXCEPT !.pc = "write", !.entry = e])
    BY <1>3
  <1>4. OpOK([o EXCEPT !.pc = "sync", !.entry = None])
    OBVIOUS
  <1>5. OpOK([o EXCEPT !.pc = "rebase"])
    OBVIOUS
  <1> QED BY <1>1, <1>2, <1>3, <1>4, <1>5

-----------------------------------------------------------------------------
(* Descriptors, pins and the catalog                                          *)

LEMMA ToolNames == \A x \in Tool : Name(x) \in Namespaces \X Tools
    BY DEF Tool, Name

LEMMA DescriptorsTyped ==
    ASSUME NEW es \in Seq(Entry)
    PROVE  all_descriptors(es) \subseteq Descriptors
  <1>1. \A i \in DOMAIN es : i \in Nat /\ es[i].id \in Servers /\ es[i].tools \subseteq Tool
    BY EntryAt, EntryFields
  <1> QED BY <1>1 DEF all_descriptors, Descriptors

LEMMA PinsTyped ==
    ASSUME NEW ds \in SUBSET Descriptors
    PROVE  /\ pins(ds) \subseteq Tool
           /\ \A b, c : to_quarantine(ds, b, c) \subseteq Namespaces \X Tools
  <1>1. \A d \in ds : d[3] \in Tool
    BY DEF Descriptors
  <1>2. pins(ds) \subseteq Tool
    BY <1>1 DEF pins
  <1>3. \A b, c : to_quarantine(ds, b, c) \subseteq Namespaces \X Tools
    BY <1>1, ToolNames DEF to_quarantine, drifted
  <1> QED BY <1>2, <1>3

\* A sync takes in the tools of the registered servers: the catalog stays owned when
\* these are configured, up to the stranded ones.
LEMMA Synced ==
    ASSUME NEW es \in Seq(Entry), NEW cf, NEW cat, NEW st, ConfigOK(cf, cat, st),
           Agree(Ids(es), cf, st), NEW a, NEW b, a.pc # "install", Owned(a, cf, cat, st)
    PROVE  /\ ConfigOK(cf, replace_mcp_tools(cat, es), st)
           /\ Owned(b, cf, replace_mcp_tools(cat, es), st)
  <1>1. all_wrapped_tools(es) \subseteq Servers \X Tool
    <2>1. \A i \in DOMAIN es : es[i].id \in Servers /\ es[i].tools \subseteq Tool
      BY EntryAt, EntryFields
    <2> QED BY <2>1 DEF all_wrapped_tools
  <1>2. \A c \in all_wrapped_tools(es) : c[1] \in Ids(es)
    BY DEF all_wrapped_tools, Ids
  <1>3. Ids(es) \subseteq DOMAIN cf \cup st
    <2>1. Ids(es) \subseteq Servers
      BY EntryAt, EntryFields DEF Ids
    <2> QED BY <2>1 DEF Agree
  <1> QED BY <1>1, <1>2, <1>3 DEF ConfigOK, Owned, replace_mcp_tools

\* A change of the registry that keeps the ids keeps what is said of them.
LEMMA EntriesKept ==
    ASSUME NEW es, EntriesOK(es), NEW q \in Seq(Entry), SameShape(q, es), DistinctIds(es),
           \A i \in DOMAIN es : Consistent(q[i])
    PROVE  EntriesOK(q) /\ DistinctIds(q) /\ Ids(q) = Ids(es)
  <1>1. EntriesOK(q)
    BY DEF EntriesOK, Elems, SameShape
  <1> QED BY <1>1, ShapeKeepsIds

LEMMA ConfigMapTyped == ConfigOK(config, catalog, stranded) => config \in ConfigMaps
    BY DEF ConfigOK, ConfigMaps

-----------------------------------------------------------------------------
(* The inductive step                                                         *)

\* The refresh.
LEMMA RefreshKeeps == RegistryInv /\ Refresh => RegistryInv'
  <1> SUFFICES ASSUME RegistryInv PROVE Refresh => RegistryInv'
    OBVIOUS
  <1> USE DEF RegistryInv, registryVars, integrityVars, envVars
  <1>1. CASE RefreshStart
    <2>1. RefOK(ref')
      BY <1>1, RefMoves DEF RefreshStart
    <2>2. EnvOK(offer', up', changes', heard', tick', signals')
      BY <1>1, BoundAssumption DEF RefreshStart, EnvOK
    <2> QED BY <1>1, <2>1, <2>2 DEF RefreshStart
  <1>2. CASE RefreshFetch
    <2> DEFINE e == Head(ref.todo)
    <2>1. ref.todo \in Seq(Entry) /\ ref.todo # <<>> /\ EntriesOK(ref.todo) /\ EntriesOK(ref.done)
      BY <1>2 DEF RefreshFetch, RefOK, EntriesOK
    <2>2. e \in Entry /\ Consistent(e) /\ Tail(ref.todo) \in Seq(Entry)
      <3>1. e = ref.todo[1] /\ 1 \in DOMAIN ref.todo
        BY <2>1
      <3> QED BY <2>1, <3>1 DEF EntriesOK, Elems
    <2>3. EntriesOK(Tail(ref.todo))
      <3>1. \A i \in DOMAIN Tail(ref.todo) :
               i + 1 \in DOMAIN ref.todo /\ Tail(ref.todo)[i] = ref.todo[i + 1]
        BY <2>1
      <3> QED BY <2>1, <2>2, <3>1 DEF EntriesOK, Elems
    <2>4. PICK f : /\ f \in (IF e.conf.enabled THEN refetch(e) ELSE {e})
                   /\ ref' = [ref EXCEPT !.todo = Tail(ref.todo),
                                         !.done = push_deduped_entry(ref.done, f)]
      BY <1>2 DEF RefreshFetch
    <2>5. f \in Entry /\ Consistent(f)
      <3>1. CASE e.conf.enabled
        <4>1. f \in refetch(e) /\ offer \in [Urls -> [Tools -> 0..MaxFp]]
          BY <2>4, <3>1 DEF EnvOK
        <4> HIDE DEF e
        <4> QED BY <2>2, <4>1, Refetched DEF Fetched
      <3>2. CASE ~e.conf.enabled
        BY <2>2, <2>4, <3>2
      <3> QED BY <3>1, <3>2
    <2>6. EntriesOK(push_deduped_entry(ref.done, f))
      <3>1. ref.done \in Seq(Entry)
        BY <2>1 DEF EntriesOK
      <3>2. PICK d \in Entry : push_deduped_entry(ref.done, f) = Append(ref.done, d) /\ Consistent(d)
        BY <2>5, <3>1, Pushed
      <3> QED BY <2>1, <3>1, <3>2, Appended DEF EntriesOK, Elems
    <2>7. RefOK(ref')
      <3> DEFINE t == Tail(ref.todo)
                 d == push_deduped_entry(ref.done, f)
      <3> HIDE DEF t, d
      <3>1. ref' = [ref EXCEPT !.todo = t, !.done = d] /\ EntriesOK(t) /\ EntriesOK(d)
        BY <2>3, <2>4, <2>6 DEF t, d
      <3> QED BY <3>1, RefMoves
    <2> QED BY <1>2, <2>7 DEF RefreshFetch
  <1>3. CASE RefreshMerge
    <2>1. ref.done \in Seq(Entry) /\ entries \in Seq(Entry)
      BY DEF RefOK, EntriesOK
    <2>2. entries' = merge_refreshed(entries, ref.done)
      BY <1>3 DEF RefreshMerge
    <2>3. /\ entries' \in Seq(Entry) /\ SameShape(entries', entries)
          /\ \A i \in DOMAIN entries :
                entries'[i] \in Elems(ref.done) \/ entries'[i] = entries[i]
      BY <2>1, <2>2, Merged
    <2>4. \A i \in DOMAIN entries : Consistent(entries'[i])
      BY <2>3 DEF RefOK, EntriesOK, Elems
    <2>5. EntriesOK(entries') /\ DistinctIds(entries') /\ Ids(entries') = Ids(entries)
      BY <2>3, <2>4, EntriesKept
    <2>6. RefOK(ref')
      BY <1>3, RefMoves DEF RefreshMerge
    <2> QED BY <1>3, <2>5, <2>6 DEF RefreshMerge
  <1>4. CASE RefreshSync
    <2>1. RefOK(ref')
      BY <1>4, RefMoves DEF RefreshSync
    <2>2. ConfigOK(config', catalog', stranded') /\ Owned(adm', config', catalog', stranded')
      <3>1. Agree(Ids(entries), config, stranded) /\ entries \in Seq(Entry) /\ adm.pc # "install"
        BY <1>4 DEF RefreshSync, AdminWriteFree, IdsInv, EntriesOK
      <3> QED BY <1>4, <3>1, Synced DEF RefreshSync
    <2> QED BY <1>4, <2>1, <2>2 DEF RefreshSync
  <1>5. CASE RefreshRead
    <2>1. all_descriptors(entries) \in SUBSET Descriptors
      BY DescriptorsTyped DEF EntriesOK
    <2>2. RefOK(ref')
      BY <1>5, <2>1, ConfigMapTyped, RefMoves DEF RefreshRead
    <2> QED BY <1>5, <2>2 DEF RefreshRead
  <1>6. CASE RefreshCheck
    <2>1. ref.descr \in SUBSET Descriptors
      BY DEF RefOK
    <2>2. PinsOK(baseline', approved', quarantined')
      BY <1>6, <2>1, PinsTyped DEF RefreshCheck, PinsOK
    <2>3. RefOK(ref')
      BY <1>6, RefMoves DEF RefreshCheck
    <2> QED BY <1>6, <2>2, <2>3 DEF RefreshCheck
  <1>7. CASE RefreshRebase
    <2>1. ref.descr \in SUBSET Descriptors
      BY DEF RefOK
    <2>2. PinsOK(baseline', approved', quarantined')
      BY <1>7, <2>1, PinsTyped DEF RefreshRebase, PinsOK
    <2>3. RefOK(ref')
      BY <1>7, RefMoves DEF RefreshRebase
    <2> QED BY <1>7, <2>2, <2>3 DEF RefreshRebase
  <1> QED BY <1>1, <1>2, <1>3, <1>4, <1>5, <1>6, <1>7 DEF Refresh

\* The start of an admin write.
LEMMA WriteStartKeeps ==
    ASSUME RegistryInv, NEW s \in Servers
    PROVE  /\ \A c \in Confs : CreateServer(s, c) \/ UpdateServer(s, c) => RegistryInv'
           /\ DeleteServer(s) => RegistryInv'
  <1> USE DEF RegistryInv, registryVars, integrityVars, envVars
  <1>1. ASSUME NEW c \in Confs, CreateServer(s, c) PROVE RegistryInv'
    <2>1. c \in Conf
      BY ConfAssumption
    <2>2. AdmOK(adm')
      BY <1>1, <2>1, AdmMoves DEF CreateServer
    <2>3. IdsInv(adm', Ids(entries), config, stranded) /\ Owned(adm', config, catalog, stranded)
      BY <1>1 DEF CreateServer, AdminWriteFree, IdsInv, Owned
    <2> QED BY <1>1, <2>2, <2>3 DEF CreateServer
  <1>2. ASSUME NEW c \in Confs, UpdateServer(s, c) PROVE RegistryInv'
    <2> DEFINE e == EntryOf(entries, s)
    <2>1. c \in Conf
      BY ConfAssumption
    <2>2. e \in Entry /\ e.id = s /\ Consistent(e)
      <3>1. s \in Ids(entries) /\ entries \in Seq(Entry)
        BY <1>2 DEF UpdateServer, EntriesOK
      <3> QED BY <3>1, EntryFound DEF EntriesOK
    <2>3. adm' = [pc |-> "fetch", kind |-> "update", id |-> s, conf |-> c, entry |-> e]
      BY <1>2 DEF UpdateServer
    <2> HIDE DEF e
    <2>4. AdmOK(adm')
      BY <2>1, <2>2, <2>3, AdmMoves
    <2>5. IdsInv(adm', Ids(entries), config, stranded) /\ Owned(adm', config, catalog, stranded)
      BY <1>2, <2>3 DEF UpdateServer, AdminWriteFree, IdsInv, Owned
    <2> QED BY <1>2, <2>4, <2>5 DEF UpdateServer
  <1>3. ASSUME DeleteServer(s) PROVE RegistryInv'
    <2>1. AdmOK(adm') /\ adm'.pc = "swap" /\ adm'.kind = "delete" /\ adm'.id = s
      BY <1>3, AdmMoves DEF DeleteServer, idle_adm
    <2>2. /\ entries' \in Seq(Entry) /\ Elems(entries') \subseteq Elems(entries)
          /\ Ids(entries') = Ids(entries) \ {s} /\ DistinctIds(entries')
      BY <1>3, RemovedServer DEF DeleteServer, EntriesOK
    <2>3. EntriesOK(entries')
      BY <2>2 DEF EntriesOK
    <2>4. IdsInv(adm', Ids(entries'), config, stranded)
      BY <1>3, <2>1, <2>2 DEF DeleteServer, AdminWriteFree, IdsInv, Agree
    <2>5. Owned(adm', config, catalog, stranded)
      BY <1>3 DEF DeleteServer, AdminWriteFree, Owned
    <2> QED BY <1>3, <2>1, <2>2, <2>3, <2>4, <2>5 DEF DeleteServer
  <1> QED BY <1>1, <1>2, <1>3

\* The steps of an admin write.
LEMMA AdminKeeps == RegistryInv /\ (AdminStep \/ AdminAbort) => RegistryInv'
  <1> SUFFICES ASSUME RegistryInv PROVE AdminStep \/ AdminAbort => RegistryInv'
    OBVIOUS
  <1> USE DEF RegistryInv, registryVars, integrityVars, envVars
  <1>1. CASE AdminFetch
    <2>1. PICK f : /\ f \in (IF adm.kind = "create" THEN establish_entry(adm.id, adm.conf)
                                                     ELSE updated(adm.entry, adm.conf))
                   /\ adm' = [adm EXCEPT !.pc = "write", !.entry = f]
      BY <1>1 DEF AdminFetch
    <2>2. /\ adm.pc = "fetch" /\ adm.id \in Servers /\ adm.conf \in Conf
          /\ adm.kind \in {"create", "update"}
          /\ adm.kind = "update" => adm.entry \in Entry /\ adm.entry.id = adm.id /\ Consistent(adm.entry)
          /\ offer \in [Urls -> [Tools -> 0..MaxFp]]
      BY <1>1 DEF AdminFetch, AdmOK, AdmHolds, EnvOK
    <2>3. f \in Entry /\ f.id = adm.id /\ Consistent(f)
      <3>1. CASE adm.kind = "create"
        <4>1. f \in establish_entry(adm.id, adm.conf)
          BY <2>1, <3>1
        <4> QED BY <2>2, <4>1, Established DEF Fetched
      <3>2. CASE adm.kind = "update"
        <4>1. f \in updated(adm.entry, adm.conf)
          BY <2>1, <3>2
        <4> QED BY <2>2, <3>2, <4>1, Updated DEF Fetched
      <3> QED BY <2>2, <3>1, <3>2
    <2>4. AdmOK(adm')
      BY <2>1, <2>2, <2>3, AdmMoves
    <2>5. adm'.pc = "write" /\ adm'.id = adm.id /\ adm'.kind = adm.kind
      BY <2>1 DEF AdmOK
    <2>6. IdsInv(adm', Ids(entries), config, stranded) /\ Owned(adm', config, catalog, stranded)
      BY <2>2, <2>5 DEF IdsInv, Owned
    <2> QED BY <1>1, <2>4, <2>6 DEF AdminFetch
  <1>2. CASE AdminWrite
    <2>1. /\ adm.pc = "write" /\ adm.kind \in {"create", "update"} /\ adm.id \in Servers
          /\ adm.entry \in Entry /\ adm.entry.id = adm.id /\ Consistent(adm.entry)
          /\ entries \in Seq(Entry)
      BY <1>2 DEF AdminWrite, AdmOK, AdmHolds, EntriesOK
    <2>2. AdmOK(adm') /\ adm'.pc = "swap" /\ adm'.id = adm.id /\ adm'.kind = adm.kind
      <3>1. adm' = [adm EXCEPT !.pc = "swap", !.entry = None]
        BY <1>2 DEF AdminWrite
      <3>2. adm'.pc = "swap" /\ adm'.id = adm.id /\ adm'.kind = adm.kind
        BY <3>1 DEF AdmOK
      <3> QED BY <2>1, <3>1, <3>2, AdmMoves
    <2> DEFINE d == dedup_against_others(entries, adm.entry)
    <2>3. d \in Entry /\ d.id = adm.id /\ Consistent(d)
      BY <2>1, Replaced
    <2>4. /\ EntriesOK(entries') /\ DistinctIds(entries')
          /\ Ids(entries') = Ids(entries) \cup {adm.id}
      <3>1. CASE adm.kind = "create"
        <4>1. entries' = Append(entries, d) /\ adm.id \notin Ids(entries)
          BY <1>2, <2>1, <3>1 DEF AdminWrite, IdsInv
        <4> HIDE DEF d
        <4>2. /\ entries' \in Seq(Entry) /\ Ids(entries') = Ids(entries) \cup {adm.id}
              /\ DistinctIds(entries')
              /\ \A i \in DOMAIN entries' : entries'[i] = IF i \in DOMAIN entries THEN entries[i] ELSE d
          BY <2>1, <2>3, <4>1, Appended
        <4> QED BY <2>3, <4>2 DEF EntriesOK, Elems
      <3>2. CASE adm.kind = "update"
        <4>1. entries' = replace_entry(entries, adm.entry) /\ adm.id \in Ids(entries)
          BY <1>2, <2>1, <3>2 DEF AdminWrite, IdsInv
        <4>2. /\ entries' \in Seq(Entry) /\ SameShape(entries', entries)
              /\ \A i \in DOMAIN entries : entries'[i] = d \/ entries'[i] = entries[i]
          BY <2>1, <4>1, Replaced
        <4> HIDE DEF d
        <4>3. \A i \in DOMAIN entries : Consistent(entries'[i])
          BY <2>3, <4>2 DEF EntriesOK, Elems
        <4> QED BY <4>1, <4>2, <4>3, EntriesKept
      <3> QED BY <2>1, <3>1, <3>2
    <2>5. IdsInv(adm', Ids(entries'), config, stranded)
      BY <2>1, <2>2, <2>4 DEF IdsInv, Agree
    <2>6. Owned(adm', config, catalog, stranded)
      BY <2>1 DEF Owned
    <2> QED BY <1>2, <2>2, <2>4, <2>5, <2>6 DEF AdminWrite
  <1>3. CASE AdminSwap
    <2>1. /\ adm.pc = "swap" /\ adm.id \in Servers /\ adm.kind \in {"create", "update", "delete"}
          /\ adm.kind # "delete" => adm.conf \in Conf
          /\ config' = new_config
      BY <1>3 DEF AdminSwap, AdmOK
    <2>2. AdmOK(adm') /\ adm'.pc = "install" /\ adm'.id = adm.id
      <3>1. adm' = [adm EXCEPT !.pc = "install"]
        BY <1>3 DEF AdminSwap
      <3>2. adm'.pc = "install" /\ adm'.id = adm.id
        BY <3>1 DEF AdmOK
      <3> QED BY <2>1, <3>1, <3>2, AdmMoves
    <2>3. /\ DOMAIN config' \subseteq Servers /\ config' \in [DOMAIN config' -> Conf]
          /\ DOMAIN config' = IF adm.kind = "delete" THEN DOMAIN config \ {adm.id}
                              ELSE DOMAIN config \cup {adm.id}
      BY <2>1 DEF new_config, ConfigOK
    <2>4. ConfigOK(config', catalog, stranded) /\ Owned(adm', config', catalog, stranded)
      BY <2>1, <2>2, <2>3 DEF ConfigOK, Owned
    <2>5. IdsInv(adm', Ids(entries), config', stranded)
      BY <2>1, <2>2, <2>3 DEF IdsInv, Agree
    <2> QED BY <1>3, <2>2, <2>4, <2>5 DEF AdminSwap
  <1>7. CASE AdminInstall
    <2>1. /\ adm.pc = "install" /\ adm.id \in Servers /\ stranded' = stranded \ {adm.id}
          /\ catalog' = {c \in catalog : c[1] \in DOMAIN config}
      BY <1>7 DEF AdminInstall, AdmOK
    <2>2. AdmOK(adm') /\ adm'.pc \in {"rebase", "sync"}
      <3>1. adm' = [adm EXCEPT !.pc = IF adm.kind = "delete" THEN "rebase" ELSE "sync"]
        BY <1>7 DEF AdminInstall
      <3>2. adm'.pc \in {"rebase", "sync"}
        BY <3>1 DEF AdmOK
      <3> QED BY <2>1, <3>1, <3>2, AdmMoves
    <2>3. ConfigOK(config, catalog', stranded') /\ Owned(adm', config, catalog', stranded')
      BY <2>1 DEF ConfigOK, Owned
    <2>4. IdsInv(adm', Ids(entries), config, stranded')
      BY <2>1, <2>2 DEF IdsInv, Agree
    <2> QED BY <1>7, <2>2, <2>3, <2>4 DEF AdminInstall
  <1>4. CASE AdminSync
    <2>1. AdmOK(adm') /\ adm'.pc = "rebase" /\ adm.pc = "sync"
      <3>1. adm' = [adm EXCEPT !.pc = "rebase"] /\ adm.pc = "sync"
        BY <1>4 DEF AdminSync
      <3>2. adm'.pc = "rebase"
        BY <3>1 DEF AdmOK
      <3> QED BY <3>1, <3>2, AdmMoves
    <2>2. ConfigOK(config', catalog', stranded') /\ Owned(adm', config', catalog', stranded')
      <3>1. Agree(Ids(entries), config, stranded) /\ entries \in Seq(Entry) /\ adm.pc # "install"
        BY <2>1 DEF IdsInv, EntriesOK
      <3> QED BY <1>4, <3>1, Synced DEF AdminSync
    <2>3. IdsInv(adm', Ids(entries), config, stranded)
      BY <2>1 DEF IdsInv
    <2> QED BY <1>4, <2>1, <2>2, <2>3 DEF AdminSync
  <1>5. CASE AdminRebase
    <2>1. AdmOK(adm') /\ adm'.pc = "idle" /\ adm.pc = "rebase"
      BY <1>5, AdmMoves DEF AdminRebase
    <2>2. all_descriptors(entries) \in SUBSET Descriptors
      BY DescriptorsTyped DEF EntriesOK
    <2>3. PinsOK(baseline', approved', quarantined')
      BY <1>5, <2>2, PinsTyped DEF AdminRebase, rebase_integrity_baseline, PinsOK
    <2>4. IdsInv(adm', Ids(entries), config, stranded) /\ Owned(adm', config, catalog, stranded)
      BY <2>1 DEF IdsInv, Owned
    <2> QED BY <1>5, <2>1, <2>3, <2>4 DEF AdminRebase
  <1>6. CASE AdminAbort
    <2>1. AdmOK(adm') /\ adm'.pc = "idle" /\ adm.pc # "idle" /\ adm.id \in Servers
      BY <1>6, AdmMoves DEF AdminAbort, AdmOK
    <2>2. stranded' = IF adm.pc \in {"swap", "install"} THEN stranded \cup {adm.id} ELSE stranded
      BY <1>6 DEF AdminAbort
    <2>3. ConfigOK(config, catalog, stranded') /\ Owned(adm', config, catalog, stranded')
      BY <2>1, <2>2 DEF ConfigOK, Owned
    <2>4. IdsInv(adm', Ids(entries), config, stranded')
      BY <2>1, <2>2 DEF IdsInv, Agree
    <2> QED BY <1>6, <2>1, <2>3, <2>4 DEF AdminAbort
  <1> QED BY <1>1, <1>2, <1>3, <1>4, <1>5, <1>6, <1>7 DEF AdminStep

\* Probes, reconnects and the upstreams.
LEMMA LooseKeeps ==
    ASSUME RegistryInv
    PROVE  /\ \A k \in Loose, s \in Servers : OpStart(k, s) => RegistryInv'
           /\ OpStep \/ OpAbort \/ Environment => RegistryInv'
  <1> USE DEF RegistryInv, registryVars, integrityVars, envVars
  <1>1. ASSUME NEW k \in Loose, NEW s \in Servers, OpStart(k, s) PROVE RegistryInv'
    <2> DEFINE e == EntryOf(entries, s)
    <2>1. e \in Entry /\ Consistent(e)
      <3>1. s \in Ids(entries) /\ entries \in Seq(Entry)
        BY <1>1 DEF OpStart, EntriesOK
      <3> QED BY <3>1, EntryFound DEF EntriesOK
    <2>2. op' = [pc |-> "fetch", kind |-> k, entry |-> e]
      BY <1>1 DEF OpStart
    <2> HIDE DEF e
    <2>3. OpOK(op')
      BY <2>1, <2>2, OpMoves
    <2> QED BY <1>1, <2>3 DEF OpStart
  <1>2. CASE OpFetch
    <2>1. PICK f : /\ f \in (IF op.kind = "probe" THEN refetch(op.entry)
                                                   ELSE establish_entry(op.entry.id, op.entry.conf))
                   /\ op' = [op EXCEPT !.pc = "write", !.entry = f]
      BY <1>2 DEF OpFetch
    <2>2. op.entry \in Entry /\ Consistent(op.entry) /\ offer \in [Urls -> [Tools -> 0..MaxFp]]
      BY <1>2 DEF OpFetch, OpOK, EnvOK
    <2>3. f \in Entry /\ Consistent(f)
      <3>1. CASE f \in refetch(op.entry)
        BY <2>2, <3>1, Refetched DEF Fetched
      <3>2. CASE f \in establish_entry(op.entry.id, op.entry.conf)
        BY <2>2, <3>2, EntryFields, Established DEF Fetched
      <3> QED BY <2>1, <3>1, <3>2
    <2>4. OpOK(op')
      BY <2>1, <2>3, OpMoves
    <2> QED BY <1>2, <2>4 DEF OpFetch
  <1>3. CASE OpWrite
    <2>1. op.entry \in Entry /\ Consistent(op.entry) /\ entries \in Seq(Entry)
      BY <1>3 DEF OpWrite, OpOK, EntriesOK
    <2>2. OpOK(op')
      BY <1>3, OpMoves DEF OpWrite
    <2>3. EntriesOK(entries') /\ DistinctIds(entries') /\ Ids(entries') = Ids(entries)
      <3>1. CASE entries' = entries
        BY <3>1
      <3>2. CASE entries' = replace_entry(entries, op.entry)
        <4> DEFINE d == dedup_against_others(entries, op.entry)
        <4>1. /\ entries' \in Seq(Entry) /\ SameShape(entries', entries)
              /\ \A i \in DOMAIN entries : entries'[i] = d \/ entries'[i] = entries[i]
              /\ Consistent(d)
          BY <2>1, <3>2, Replaced
        <4> HIDE DEF d
        <4>2. \A i \in DOMAIN entries : Consistent(entries'[i])
          BY <4>1 DEF EntriesOK, Elems
        <4> QED BY <4>1, <4>2, EntriesKept
      <3> QED BY <1>3, <3>1, <3>2 DEF OpWrite
    <2> QED BY <1>3, <2>2, <2>3 DEF OpWrite
  <1>4. CASE OpSync
    <2>1. OpOK(op')
      BY <1>4, OpMoves DEF OpSync
    <2>2. ConfigOK(config', catalog', stranded') /\ Owned(adm', config', catalog', stranded')
      <3>1. Agree(Ids(entries), config, stranded) /\ entries \in Seq(Entry) /\ adm.pc # "install"
        BY <1>4 DEF OpSync, AdminWriteFree, IdsInv, EntriesOK
      <3> QED BY <1>4, <3>1, Synced DEF OpSync
    <2> QED BY <1>4, <2>1, <2>2 DEF OpSync
  <1>5. CASE OpRebase
    <2>1. all_descriptors(entries) \in SUBSET Descriptors
      BY DescriptorsTyped DEF EntriesOK
    <2>2. PinsOK(baseline', approved', quarantined')
      BY <1>5, <2>1, PinsTyped DEF OpRebase, rebase_integrity_baseline, PinsOK
    <2>3. OpOK(op')
      BY <1>5, OpMoves DEF OpRebase
    <2> QED BY <1>5, <2>2, <2>3 DEF OpRebase
  <1>6. CASE OpAbort
    <2>1. OpOK(op')
      BY <1>6, OpMoves DEF OpAbort
    <2> QED BY <1>6, <2>1 DEF OpAbort
  <1>7. ASSUME NEW u \in Urls, NEW t \in Tools, NEW v \in 0..MaxFp, OfferChange(u, t, v)
        PROVE  RegistryInv'
    <2>1. heard' \in BOOLEAN /\ signals' \in 0..ChannelCap
      <3>1. (signal /\ heard' = heard) \/ (heard' = FALSE /\ signals' = signals)
        BY <1>7 DEF OfferChange
      <3>2. heard \in BOOLEAN /\ signals \in 0..ChannelCap
        BY DEF EnvOK
      <3>3. signal => signals' \in 0..ChannelCap
        BY <3>2, BoundAssumption DEF signal
      <3>4. FALSE \in BOOLEAN
        OBVIOUS
      <3> QED BY <3>1, <3>2, <3>3, <3>4
    <2>2. /\ offer' \in [Urls -> [Tools -> 0..MaxFp]] /\ changes' \in 0..MaxChanges
          /\ up' = up /\ tick' = tick
      BY <1>7, BoundAssumption DEF OfferChange, EnvOK
    <2>3. EnvOK(offer', up', changes', heard', tick', signals')
      BY <2>1, <2>2 DEF EnvOK
    <2> QED BY <1>7, <2>3 DEF OfferChange
  <1>8. ASSUME NEW u \in Urls, UpChange(u) PROVE RegistryInv'
    <2>1. EnvOK(offer', up', changes', heard', tick', signals')
      BY <1>8, BoundAssumption DEF UpChange, EnvOK
    <2> QED BY <1>8, <2>1 DEF UpChange
  <1> QED BY <1>1, <1>2, <1>3, <1>4, <1>5, <1>6, <1>7, <1>8 DEF OpStep, Environment

\* Start-up: what connect_all builds.
LEMMA Connected ==
    ASSUME offer \in [Urls -> [Tools -> 0..MaxFp]], NEW es \in connect_all
    PROVE  /\ EntriesOK(es) /\ DistinctIds(es) /\ Ids(es) = DOMAIN InitConf
           /\ DisjointNames(es)
           /\ \A e \in Elems(es) : e.conf = InitConf[e.id] /\ AtHome(e)
  <1> DEFINE n == Len(InitOrder)
             est(i) == establish_entry(InitOrder[i], InitConf[InitOrder[i]])
             seen(f, i) == UNION {Names(f[j].tools) : j \in 1..(i - 1)}
  <1>1. PICK f : /\ \A i \in 1..n : f[i] \in est(i)
                 /\ es = [i \in 1..n |-> without_names(f[i], seen(f, i))]
    BY DEF connect_all
  <1>2. /\ n \in Nat /\ \A i \in 1..n : InitOrder[i] \in Servers
        /\ DOMAIN InitConf = {InitOrder[i] : i \in 1..n}
        /\ \A i \in 1..n : InitConf[InitOrder[i]] \in Conf
        /\ \A i, j \in 1..n : InitOrder[i] = InitOrder[j] => i = j
    BY ConfAssumption
  <1>3. ASSUME NEW i \in 1..n
        PROVE  /\ f[i] \in Entry /\ f[i].id = InitOrder[i] /\ f[i].conf = InitConf[InitOrder[i]]
               /\ Consistent(f[i]) /\ AtHome(f[i])
    <2>1. f[i] \in establish_entry(InitOrder[i], InitConf[InitOrder[i]])
      BY <1>1
    <2> QED BY <1>2, <2>1, Established DEF Fetched
  <1>4. ASSUME NEW i \in 1..n
        PROVE  /\ es[i] \in Entry /\ es[i].id = InitOrder[i] /\ es[i].conf = InitConf[InitOrder[i]]
               /\ es[i].tools = {x \in f[i].tools : Name(x) \notin seen(f, i)}
               /\ Consistent(es[i]) /\ AtHome(es[i])
    <2> DEFINE S == seen(f, i)
    <2>1. es[i] = without_names(f[i], S)
      BY <1>1
    <2> HIDE DEF S
    <2>2. /\ es[i] \in Entry /\ es[i].id = f[i].id /\ es[i].conf = f[i].conf
          /\ es[i].tools = {x \in f[i].tools : Name(x) \notin S}
          /\ Consistent(es[i]) /\ AtHome(es[i])
      BY <1>3, <2>1, Deduped
    <2> QED BY <1>3, <2>2 DEF S
  <1>5. es \in Seq(Entry) /\ DOMAIN es = 1..n
    <2>1. es = [i \in 1..n |-> es[i]]
      BY <1>1
    <2> QED BY <1>2, <1>4, <2>1, SeqOfEntries
  <1>6. EntriesOK(es) /\ \A e \in Elems(es) : e.conf = InitConf[e.id] /\ AtHome(e)
    BY <1>4, <1>5 DEF EntriesOK, Elems
  <1>7. DistinctIds(es) /\ Ids(es) = DOMAIN InitConf
    BY <1>2, <1>4, <1>5 DEF DistinctIds, Ids
  <1>8. ASSUME NEW i \in 1..n, NEW j \in 1..n, j < i
        PROVE  Names(es[i].tools) \cap Names(es[j].tools) = {}
    <2>1. j \in 1..(i - 1) /\ Names(f[j].tools) \subseteq seen(f, i)
      BY <1>2, <1>8
    <2>2. Names(es[j].tools) \subseteq Names(f[j].tools)
      BY <1>4 DEF Names
    <2>3. Names(es[i].tools) \cap seen(f, i) = {}
      BY <1>4 DEF Names
    <2> HIDE DEF seen
    <2> QED BY <2>1, <2>2, <2>3
  <1>9. DisjointNames(es)
    <2> SUFFICES ASSUME NEW i \in 1..n, NEW j \in 1..n, i # j
                 PROVE  Names(es[i].tools) \cap Names(es[j].tools) = {}
      BY <1>5 DEF DisjointNames
    <2>1. CASE j < i
      BY <2>1, <1>8
    <2>2. CASE i < j
      BY <2>2, <1>8
    <2> QED BY <2>1, <2>2, <1>2
  <1> QED BY <1>6, <1>7, <1>9

LEMMA InitKeeps == Init => RegistryInv
  <1> SUFFICES ASSUME Init PROVE RegistryInv
    OBVIOUS
  <1>1. EnvOK(offer, up, changes, heard, tick, signals)
    BY BoundAssumption DEF Init, EnvOK
  <1>2. EntriesOK(entries) /\ DistinctIds(entries) /\ Ids(entries) = DOMAIN InitConf
    BY <1>1, Connected DEF Init, EnvOK
  <1>3. PinsOK(baseline, approved, quarantined)
    <2>1. all_descriptors(entries) \in SUBSET Descriptors
      BY <1>2, DescriptorsTyped DEF EntriesOK
    <2> QED BY <2>1, PinsTyped DEF Init, PinsOK
  <1>4. RefOK(ref) /\ AdmOK(adm) /\ OpOK(op) /\ adm.pc = "idle"
    BY NoEntries DEF Init, RefOK, AdmOK, AdmHolds, OpOK, idle_ref, idle_adm, idle_op, ConfigMaps,
                     EntriesOK
  <1>5. ConfigOK(config, catalog, stranded) /\ Owned(adm, config, catalog, stranded)
    <2>1. DOMAIN InitConf \subseteq Servers /\ InitConf \in [DOMAIN InitConf -> Conf]
      BY ConfAssumption
    <2>2. all_wrapped_tools(entries) \subseteq Servers \X Tool
      <3>1. \A i \in DOMAIN entries : entries[i].id \in Servers /\ entries[i].tools \subseteq Tool
        BY <1>2, EntryAt, EntryFields DEF EntriesOK
      <3> QED BY <3>1 DEF all_wrapped_tools
    <2>3. \A c \in all_wrapped_tools(entries) : c[1] \in Ids(entries)
      BY DEF all_wrapped_tools, Ids
    <2> QED BY <1>2, <2>1, <2>2, <2>3 DEF Init, ConfigOK, Owned
  <1>6. IdsInv(adm, Ids(entries), config, stranded)
    BY <1>2, <1>4 DEF Init, IdsInv, Agree
  <1> QED BY <1>1, <1>2, <1>3, <1>4, <1>5, <1>6 DEF RegistryInv

\* Whatever refreshes, admin writes, probes and reconnects overlap, with the copies
\* they have taken, the registry, the configuration and the catalog stay in step.
THEOREM RegistryHolds == Spec => []RegistryInv
  <1>1. RegistryInv /\ [Next]_vars => RegistryInv'
    <2> SUFFICES ASSUME RegistryInv, [Next]_vars PROVE RegistryInv'
      OBVIOUS
    <2>1. CASE UNCHANGED vars
      BY <2>1 DEF RegistryInv, vars, registryVars, integrityVars, envVars
    <2> QED BY <2>1, RefreshKeeps, WriteStartKeeps, AdminKeeps, LooseKeeps DEF Next
  <1> QED BY <1>1, InitKeeps, PTL DEF Spec

\* Configuration, registry and catalog speak of the same servers, for every number of
\* servers: a refresh or a probe neither loses a server added meanwhile nor brings back
\* one removed meanwhile, and but for the server of a write that is between the two locks
\* of its swap, or ended there or before, no unconfigured server shows in the catalog.
THEOREM ServersAlwaysMatch == Spec => []ServersMatch
  <1>1. RegistryInv => ServersMatch
    <2> SUFFICES ASSUME RegistryInv PROVE ServersMatch
      OBVIOUS
    <2>1. TypeOK
      BY DEF RegistryInv, EnvOK, PinsOK, RefOK, AdmOK, OpOK, EntriesOK, ConfigOK, TypeOK
    <2>2. IdsMatch
      BY DEF RegistryInv, IdsInv, Agree, DistinctIds, IdsMatch, AdminWriteFree
    <2>3. CatalogOwned
      BY DEF RegistryInv, Owned, CatalogOwned
    <2> QED BY <2>1, <2>2, <2>3 DEF ServersMatch
  <1> QED BY <1>1, RegistryHolds, PTL

\* An entry is of one piece whatever copies of it were in flight when it was written.
THEOREM EntriesAlwaysConsistent == Spec => []EntryConsistent
  <1>1. RegistryInv => EntryConsistent
    BY DEF RegistryInv, EntriesOK, Elems, EntryConsistent
  <1> QED BY <1>1, RegistryHolds, PTL

-----------------------------------------------------------------------------
(* Wire names, while no server is created                                     *)

\* The refresh knows of every server there is, so what it merges was deduplicated
\* as a whole.
NamesInv ==
    /\ DisjointNames(entries)
    /\ adm.pc \in {"fetch", "write"} => adm.kind = "update"
    /\ ref.pc = "fetch" =>
         DisjointNames(ref.done) /\ Ids(entries) \subseteq Ids(ref.done) \cup Ids(ref.todo)

LEMMA ReplacedDisjoint ==
    ASSUME NEW es \in Seq(Entry), NEW e \in Entry, DistinctIds(es), DisjointNames(es)
    PROVE  DisjointNames(replace_entry(es, e))
  <1> DEFINE q == replace_entry(es, e)
             d == dedup_against_others(es, e)
  <1>1. /\ DOMAIN q = DOMAIN es
        /\ \A i \in DOMAIN es : q[i] = IF es[i].id = e.id THEN d ELSE es[i]
        /\ \A i \in DOMAIN es : es[i].id # e.id => Names(d.tools) \cap Names(es[i].tools) = {}
    BY Replaced DEF SameShape
  <1> HIDE DEF q, d
  <1> SUFFICES ASSUME NEW i \in DOMAIN es, NEW j \in DOMAIN es, i # j
               PROVE  Names(q[i].tools) \cap Names(q[j].tools) = {}
    BY <1>1 DEF DisjointNames, q
  <1>2. ~(es[i].id = e.id /\ es[j].id = e.id)
    BY DEF DistinctIds
  <1>3. CASE es[i].id # e.id /\ es[j].id # e.id
    BY <1>1, <1>3 DEF DisjointNames
  <1>4. CASE es[i].id = e.id
    BY <1>1, <1>2, <1>4
  <1>5. CASE es[j].id = e.id
    BY <1>1, <1>2, <1>5
  <1> QED BY <1>3, <1>4, <1>5

\* What the later steps of a refresh leave in its hands.
LEMMA RefSteps ==
    ASSUME RefOK(ref)
    PROVE  /\ RefreshSync => ref'.pc = "read" /\ ref'.todo = ref.todo /\ ref'.done = ref.done
           /\ RefreshRead => /\ ref'.pc = "check" /\ ref'.todo = ref.todo /\ ref'.done = ref.done
                             /\ ref'.descr = all_descriptors(entries) /\ ref'.conf = config
           /\ RefreshCheck => /\ ref'.pc = "rebase" /\ ref'.descr = ref.descr
                              /\ ref'.todo = ref.todo /\ ref'.done = ref.done
           /\ RefreshRebase => ref'.pc = "idle" /\ ref'.todo = <<>> /\ ref'.done = <<>>
  <1>1. RefreshSync => ref'.pc = "read" /\ ref'.todo = ref.todo /\ ref'.done = ref.done
    BY DEF RefreshSync, RefOK
  <1>2. ASSUME RefreshRead
        PROVE  /\ ref'.pc = "check" /\ ref'.todo = ref.todo /\ ref'.done = ref.done
               /\ ref'.descr = all_descriptors(entries) /\ ref'.conf = config
    <2> DEFINE d == all_descriptors(entries)
    <2>1. ref' = [ref EXCEPT !.pc = "check", !.descr = d, !.conf = config]
      BY <1>2 DEF RefreshRead
    <2> HIDE DEF d
    <2>2. /\ ref'.pc = "check" /\ ref'.todo = ref.todo /\ ref'.done = ref.done
          /\ ref'.descr = d /\ ref'.conf = config
      BY <2>1 DEF RefOK
    <2> QED BY <2>2 DEF d
  <1>3. RefreshCheck => /\ ref'.pc = "rebase" /\ ref'.descr = ref.descr
                        /\ ref'.todo = ref.todo /\ ref'.done = ref.done
    BY DEF RefreshCheck, RefOK
  <1>4. RefreshRebase => ref'.pc = "idle" /\ ref'.todo = <<>> /\ ref'.done = <<>>
    BY DEF RefreshRebase, idle_ref
  <1> QED BY <1>1, <1>2, <1>3, <1>4

\* While no server is created no two entries hold the same wire name, although the
\* refresh checks names against its own snapshot, a probe, a reconnect and an update
\* against the registry, and servers are deleted meanwhile.
THEOREM NamesStayUnique == ASSUME "create" \notin Writes PROVE Spec => []NamesUnique
  <1>1. Init => NamesInv
    <2> SUFFICES ASSUME Init PROVE NamesInv
      OBVIOUS
    <2>1. offer \in [Urls -> [Tools -> 0..MaxFp]]
      BY BoundAssumption DEF Init
    <2>2. DisjointNames(entries)
      BY <2>1, Connected DEF Init
    <2> QED BY <2>2 DEF Init, NamesInv, idle_adm, idle_ref
  <1>2. RegistryInv /\ NamesInv /\ [Next]_vars => NamesInv'
    <2> SUFFICES ASSUME RegistryInv, NamesInv, [Next]_vars PROVE NamesInv'
      OBVIOUS
    <2> USE DEF registryVars, integrityVars, envVars
    <2>e. entries \in Seq(Entry) /\ DistinctIds(entries) /\ DisjointNames(entries)
      BY DEF RegistryInv, EntriesOK, NamesInv
    <2>r. /\ ref.todo \in Seq(Entry) /\ ref.done \in Seq(Entry)
          /\ ref \in [pc : {"idle", "fetch", "sync", "read", "check", "rebase"},
                      todo : Seq(Entry), done : Seq(Entry), descr : SUBSET Descriptors,
                      conf : ConfigMaps]
      BY DEF RegistryInv, RefOK
    <2>a. adm \in [pc : {"idle", "fetch", "write", "swap", "install", "sync", "rebase"},
                   kind : {"create", "update", "delete", None}, id : Servers \cup {None},
                   conf : Conf \cup {None}, entry : Entry \cup {None}]
      BY DEF RegistryInv, AdmOK
    <2>1. CASE RefreshStart
      <3>1. /\ ref'.todo = entries /\ ref'.done = <<>>
            /\ UNCHANGED <<entries, adm>>
        BY <2>1 DEF RefreshStart, idle_ref
      <3>2. DisjointNames(<<>>) /\ Ids(<<>>) = {}
        BY DEF DisjointNames, Ids
      <3> QED BY <3>1, <3>2 DEF NamesInv
    <2>2. CASE RefreshFetch
      <3> DEFINE e == Head(ref.todo)
      <3>1. PICK f : /\ f \in (IF e.conf.enabled THEN refetch(e) ELSE {e})
                     /\ ref' = [ref EXCEPT !.todo = Tail(ref.todo),
                                           !.done = push_deduped_entry(ref.done, f)]
        BY <2>2 DEF RefreshFetch
      <3>2. ref.pc = "fetch" /\ ref.todo # <<>> /\ UNCHANGED <<entries, adm>>
        BY <2>2 DEF RefreshFetch
      <3>3. e \in Entry /\ Consistent(e) /\ Ids(ref.todo) = {e.id} \cup Ids(Tail(ref.todo))
        <4>1. /\ e = ref.todo[1] /\ 1 \in DOMAIN ref.todo
              /\ Len(ref.todo) \in Nat /\ DOMAIN ref.todo = 1..Len(ref.todo)
              /\ DOMAIN Tail(ref.todo) = 1..(Len(ref.todo) - 1)
              /\ \A i \in 1..(Len(ref.todo) - 1) : Tail(ref.todo)[i] = ref.todo[i + 1]
          BY <2>r, <3>2
        <4>2. e \in Entry /\ Consistent(e)
          BY <2>r, <4>1 DEF RegistryInv, RefOK, EntriesOK, Elems
        <4> HIDE DEF e
        <4>3. ASSUME NEW s \in Ids(ref.todo) PROVE s \in {e.id} \cup Ids(Tail(ref.todo))
          <5>1. PICK i \in DOMAIN ref.todo : ref.todo[i].id = s
            BY DEF Ids
          <5>2. CASE i = 1
            BY <5>1, <5>2, <4>1
          <5>3. CASE i # 1
            <6>1. i - 1 \in 1..(Len(ref.todo) - 1) /\ (i - 1) + 1 = i
              BY <4>1, <5>3
            <6>2. Tail(ref.todo)[i - 1] = ref.todo[i] /\ i - 1 \in DOMAIN Tail(ref.todo)
              BY <4>1, <6>1
            <6> QED BY <5>1, <6>2 DEF Ids
          <5> QED BY <5>2, <5>3
        <4>4. ASSUME NEW s \in {e.id} \cup Ids(Tail(ref.todo)) PROVE s \in Ids(ref.todo)
          <5>1. CASE s = e.id
            BY <5>1, <4>1 DEF Ids
          <5>2. CASE s \in Ids(Tail(ref.todo))
            <6>1. PICK i \in DOMAIN Tail(ref.todo) : Tail(ref.todo)[i].id = s
              BY <5>2 DEF Ids
            <6>2. i + 1 \in DOMAIN ref.todo /\ ref.todo[i + 1].id = s
              BY <4>1, <6>1
            <6> QED BY <6>2 DEF Ids
          <5> QED BY <5>1, <5>2
        <4> QED BY <4>2, <4>3, <4>4
      <3>4. f \in Entry /\ f.id = e.id
        <4>1. CASE e.conf.enabled
          <5>1. f \in refetch(e) /\ offer \in [Urls -> [Tools -> 0..MaxFp]]
            BY <3>1, <4>1 DEF RegistryInv, EnvOK
          <5> HIDE DEF e
          <5> QED BY <3>3, <5>1, Refetched DEF Fetched
        <4>2. CASE ~e.conf.enabled
          BY <3>1, <3>3, <4>2
        <4> QED BY <4>1, <4>2
      <3> HIDE DEF e
      <3>5. PICK d \in Entry :
              /\ push_deduped_entry(ref.done, f) = Append(ref.done, d) /\ d.id = f.id
              /\ \A i \in DOMAIN ref.done : Names(d.tools) \cap Names(ref.done[i].tools) = {}
        BY <2>r, <3>4, Pushed
      <3> DEFINE t == Tail(ref.todo)
                 q == Append(ref.done, d)
      <3>6. /\ \A i \in DOMAIN q : q[i] = IF i \in DOMAIN ref.done THEN ref.done[i] ELSE d
            /\ Len(q) \notin DOMAIN ref.done /\ DOMAIN q = DOMAIN ref.done \cup {Len(q)}
            /\ Ids(q) = Ids(ref.done) \cup {d.id} /\ q \in Seq(Entry)
        BY <2>r, Appended
      <3>7. t \in Seq(Entry)
        BY <2>r, <3>2
      <3> HIDE DEF t, q
      <3>8. ref'.pc = "fetch" /\ ref'.todo = t /\ ref'.done = q
        <4>1. ref' = [ref EXCEPT !.todo = t, !.done = q]
          BY <3>1, <3>5 DEF t, q
        <4> QED BY <2>r, <3>2, <3>6, <3>7, <4>1
      <3>9. DisjointNames(q)
        <4>1. DisjointNames(ref.done)
          BY <3>2 DEF NamesInv
        <4> QED BY <3>5, <3>6, <4>1 DEF DisjointNames
      <3>10. Ids(entries) \subseteq Ids(q) \cup Ids(t)
        BY <3>2, <3>3, <3>4, <3>5, <3>6 DEF NamesInv, t
      <3> QED BY <3>2, <3>8, <3>9, <3>10 DEF NamesInv
    <2>3. CASE RefreshMerge
      <3>1. /\ ref.pc = "fetch" /\ ref.todo = <<>> /\ ref'.pc = "sync" /\ adm' = adm
            /\ entries' = merge_refreshed(entries, ref.done)
        BY <2>3 DEF RefreshMerge, idle_ref
      <3>2. Ids(entries) \subseteq Ids(ref.done) /\ DisjointNames(ref.done)
        BY <3>1, NoEntries DEF NamesInv
      <3>3. \A i \in DOMAIN entries : entries[i].id \in Ids(ref.done)
        BY <3>2 DEF Ids
      <3>4. /\ DOMAIN entries' = DOMAIN entries
            /\ \A i \in DOMAIN entries :
                  entries'[i].id = entries[i].id /\ entries'[i] \in Elems(ref.done)
        BY <2>e, <2>r, <3>1, <3>3, Merged DEF SameShape
      <3>5. ASSUME NEW i \in DOMAIN entries, NEW j \in DOMAIN entries, i # j
            PROVE  Names(entries'[i].tools) \cap Names(entries'[j].tools) = {}
        <4>1. PICK k \in DOMAIN ref.done : entries'[i] = ref.done[k]
          BY <3>4 DEF Elems
        <4>2. PICK m \in DOMAIN ref.done : entries'[j] = ref.done[m]
          BY <3>4 DEF Elems
        <4>3. k # m
          BY <2>e, <3>4, <3>5, <4>1, <4>2 DEF DistinctIds
        <4> QED BY <3>2, <4>1, <4>2, <4>3 DEF DisjointNames
      <3> QED BY <3>1, <3>4, <3>5 DEF NamesInv, DisjointNames
    <2>4. CASE RefreshSync \/ RefreshRead \/ RefreshCheck \/ RefreshRebase
      <3>1. UNCHANGED <<entries, adm>>
        BY <2>4 DEF RefreshSync, RefreshRead, RefreshCheck, RefreshRebase
      <3>2. ref'.pc # "fetch"
        BY <2>4, RefSteps DEF RegistryInv
      <3> QED BY <3>1, <3>2 DEF NamesInv
    <2>5. ASSUME NEW s, NEW c, CreateServer(s, c) \/ UpdateServer(s, c) PROVE NamesInv'
      <3>1. adm'.kind = "update" /\ UNCHANGED <<entries, ref>>
        BY <2>5 DEF CreateServer, UpdateServer
      <3> QED BY <3>1 DEF NamesInv
    <2>6. ASSUME NEW s, DeleteServer(s) PROVE NamesInv'
      <3>1. DisjointNames(entries') /\ Ids(entries') = Ids(entries) \ {s}
        BY <2>e, <2>6, RemovedServer DEF DeleteServer
      <3>2. adm'.pc = "swap" /\ ref' = ref
        BY <2>6 DEF DeleteServer, idle_adm
      <3> QED BY <3>1, <3>2 DEF NamesInv
    <2>7. CASE AdminFetch
      <3>1. PICK f : adm' = [adm EXCEPT !.pc = "write", !.entry = f]
        BY <2>7 DEF AdminFetch
      <3>2. adm.pc = "fetch" /\ adm'.kind = adm.kind /\ UNCHANGED <<entries, ref>>
        BY <2>7, <3>1, <2>a DEF AdminFetch
      <3> QED BY <3>2 DEF NamesInv
    <2>8. CASE AdminWrite
      <3>1. /\ adm.pc = "write" /\ adm.kind = "update" /\ adm.entry \in Entry
        BY <2>8 DEF AdminWrite, NamesInv, RegistryInv, AdmOK, AdmHolds
      <3>2. entries' = replace_entry(entries, adm.entry) /\ ref' = ref
        BY <2>8, <3>1 DEF AdminWrite
      <3>3. DisjointNames(entries') /\ Ids(entries') = Ids(entries)
        BY <2>e, <3>1, <3>2, ReplacedDisjoint, Replaced, ShapeKeepsIds
      <3>4. adm'.pc = "swap"
        BY <2>8, <2>a DEF AdminWrite
      <3> QED BY <3>2, <3>3, <3>4 DEF NamesInv
    <2>9. CASE AdminSwap \/ AdminInstall \/ AdminSync \/ AdminRebase \/ AdminAbort
      <3>1. adm'.pc \notin {"fetch", "write"} /\ UNCHANGED <<entries, ref>>
        BY <2>9, <2>a DEF AdminSwap, AdminInstall, AdminSync, AdminRebase, AdminAbort, idle_adm
      <3> QED BY <3>1 DEF NamesInv
    <2>10. CASE OpWrite
      <3>1. op.entry \in Entry
        BY <2>10 DEF OpWrite, RegistryInv, OpOK
      <3>2. entries' = entries \/ entries' = replace_entry(entries, op.entry)
        BY <2>10 DEF OpWrite
      <3>3. DisjointNames(entries') /\ Ids(entries') = Ids(entries)
        BY <2>e, <3>1, <3>2, ReplacedDisjoint, Replaced, ShapeKeepsIds
      <3>4. UNCHANGED <<ref, adm>>
        BY <2>10 DEF OpWrite
      <3> QED BY <3>3, <3>4 DEF NamesInv
    <2>11. ASSUME UNCHANGED <<entries, ref, adm>> PROVE NamesInv'
      BY <2>11 DEF NamesInv
    <2>12. CASE OpFetch \/ OpSync \/ OpRebase \/ OpAbort \/ Environment \/ UNCHANGED vars
      <3>1. UNCHANGED <<entries, ref, adm>>
        BY <2>12 DEF OpFetch, OpSync, OpRebase, OpAbort, Environment, OfferChange, UpChange, vars
      <3> QED BY <3>1, <2>11
    <2>13. ASSUME NEW k, NEW s, OpStart(k, s) PROVE NamesInv'
      <3>1. UNCHANGED <<entries, ref, adm>>
        BY <2>13 DEF OpStart
      <3> QED BY <3>1, <2>11
    <2> QED BY <2>1, <2>2, <2>3, <2>4, <2>5, <2>6, <2>7, <2>8, <2>9, <2>10, <2>12, <2>13
            DEF Next, Refresh, AdminStep, OpStep
  <1>3. NamesInv => NamesUnique
    BY DEF NamesInv, DisjointNames, NamesUnique
  <1> QED BY <1>1, <1>2, <1>3, RegistryHolds, PTL DEF Spec

-----------------------------------------------------------------------------
(* Drift, while no server is written                                          *)

\* An entry that carries its server's configuration and only tools of its namespace.
Settled(e) == e.id \in DOMAIN InitConf /\ e.conf = InitConf[e.id] /\ AtHome(e)

AllSettled(es) == \A e \in Elems(es) : Settled(e)

\* A descriptor of a configured server, in its namespace.
Housed(d) == d[2] \in DOMAIN InitConf /\ d[3][1] = InitConf[d[2]].ns

Noticed(x, appr, quar) ==
    \/ x \in appr
    \/ Name(x) \in quar
    \/ \E s \in DOMAIN InitConf : InitConf[s].ns = x[1] /\ ~InitConf[s].strict

\* Between the check and the rebase the descriptors in the refresh's hands are as
\* good as pinned: what drifted in them has been noticed.
DriftInv ==
    /\ adm = idle_adm /\ config = InitConf
    /\ AllSettled(entries) /\ AllSettled(ref.todo) /\ AllSettled(ref.done)
    /\ op.pc \in {"fetch", "write"} => Settled(op.entry)
    /\ ref.pc = "check" => ref.conf = InitConf /\ \A d \in ref.descr : Housed(d)
    /\ ref.pc = "rebase" => \A x \in pins(ref.descr) : Noticed(x, approved, quarantined)
    /\ \A x \in baseline : Noticed(x, approved, quarantined)

LEMMA HousedDescriptors ==
    ASSUME NEW es \in Seq(Entry), AllSettled(es)
    PROVE  \A d \in all_descriptors(es) : Housed(d)
  <1> SUFFICES ASSUME NEW d \in all_descriptors(es) PROVE Housed(d)
    OBVIOUS
  <1>1. PICK i \in DOMAIN es : \E x \in es[i].tools : d = <<i, es[i].id, x>>
    BY DEF all_descriptors
  <1>2. PICK x \in es[i].tools : d = <<i, es[i].id, x>>
    BY <1>1
  <1>3. Settled(es[i])
    BY DEF AllSettled, Elems
  <1> QED BY <1>2, <1>3 DEF Settled, AtHome, Housed

\* The check: a pin-to-be is pinned already, or drifted; then its server warns, or
\* its name goes into quarantine.
LEMMA CheckNotices ==
    ASSUME NEW ds, NEW base, NEW appr, NEW quar, \A d \in ds : Housed(d),
           \A s \in DOMAIN InitConf : InitConf[s].strict \in BOOLEAN,
           \A x \in base : Noticed(x, appr, quar)
    PROVE  \A x \in pins(ds) :
               Noticed(x, appr, quar \cup to_quarantine(ds, base, InitConf))
  <1> SUFFICES ASSUME NEW x \in pins(ds)
               PROVE  Noticed(x, appr, quar \cup to_quarantine(ds, base, InitConf))
    OBVIOUS
  <1>1. PICK d \in ds : IsFirst(ds, d) /\ x = d[3]
    BY DEF pins
  <1>2. CASE x \in base
    BY <1>2 DEF Noticed
  <1>3. CASE x \notin base /\ InitConf[d[2]].strict
    <2>1. Name(x) \in drifted(ds, base)
      BY <1>1, <1>3 DEF drifted
    <2>2. Name(x) \in to_quarantine(ds, base, InitConf)
      BY <1>1, <1>3, <2>1 DEF to_quarantine, Housed
    <2> QED BY <2>2 DEF Noticed
  <1>4. CASE ~InitConf[d[2]].strict
    BY <1>1, <1>4 DEF Noticed, Housed
  <1> QED BY <1>2, <1>3, <1>4

\* While no server is written, a wire name stands for one tool of one server and for a
\* definition that was approved, quarantined, or is a warning server's: whatever the
\* upstreams change while a refresh is between its awaits.
THEOREM NamesMeanOneTool == ASSUME Writes = {} PROVE Spec => []NameMeansOneTool
  <1>1. Init => DriftInv
    <2> SUFFICES ASSUME Init PROVE DriftInv
      OBVIOUS
    <2>1. offer \in [Urls -> [Tools -> 0..MaxFp]]
      BY BoundAssumption DEF Init
    <2>2. Ids(entries) = DOMAIN InitConf /\ \A e \in Elems(entries) : e.conf = InitConf[e.id] /\ AtHome(e)
      BY <2>1, Connected DEF Init
    <2>3. AllSettled(entries) /\ AllSettled(<<>>)
      BY <2>2 DEF AllSettled, Settled, Elems, Ids
    <2> QED BY <2>3 DEF Init, DriftInv, idle_ref, idle_op, Noticed
  <1>2. RegistryInv /\ DriftInv /\ [Next]_vars => DriftInv'
    <2> SUFFICES ASSUME RegistryInv, DriftInv, [Next]_vars PROVE DriftInv'
      OBVIOUS
    <2> USE DEF registryVars, integrityVars, envVars
    <2>e. entries \in Seq(Entry) /\ offer \in [Urls -> [Tools -> 0..MaxFp]]
      BY DEF RegistryInv, EntriesOK, EnvOK
    <2>r. RefOK(ref) /\ ref.todo \in Seq(Entry) /\ ref.done \in Seq(Entry)
      BY DEF RegistryInv, RefOK
    <2>o. op \in [pc : {"idle", "fetch", "write", "sync", "rebase"}, kind : Loose \cup {None},
                  entry : Entry \cup {None}]
      BY DEF RegistryInv, OpOK
    <2>n. AllSettled(<<>>)
      BY DEF AllSettled, Elems
    <2>1. CASE RefreshStart
      <3>1. /\ ref'.pc = "fetch" /\ ref'.todo = entries /\ ref'.done = <<>>
            /\ UNCHANGED <<registryVars, adm, op>>
        BY <2>1 DEF RefreshStart, idle_ref
      <3> QED BY <3>1, <2>n DEF DriftInv
    <2>2. CASE RefreshFetch
      <3> DEFINE e == Head(ref.todo)
                 t == Tail(ref.todo)
      <3>1. PICK f : /\ f \in (IF e.conf.enabled THEN refetch(e) ELSE {e})
                     /\ ref' = [ref EXCEPT !.todo = t, !.done = push_deduped_entry(ref.done, f)]
        BY <2>2 DEF RefreshFetch
      <3>2. ref.pc = "fetch" /\ ref.todo # <<>> /\ UNCHANGED <<registryVars, adm, op>>
        BY <2>2 DEF RefreshFetch
      <3>3. e \in Elems(ref.todo) /\ t \in Seq(Entry) /\ Elems(t) \subseteq Elems(ref.todo)
        <4>1. e = ref.todo[1] /\ 1 \in DOMAIN ref.todo /\ t \in Seq(Entry)
          BY <2>r, <3>2
        <4>2. \A i \in DOMAIN t : i + 1 \in DOMAIN ref.todo /\ t[i] = ref.todo[i + 1]
          BY <2>r, <3>2
        <4> HIDE DEF e, t
        <4> QED BY <4>1, <4>2 DEF Elems
      <3>4. e \in Entry /\ Consistent(e) /\ Settled(e)
        <4> HIDE DEF e
        <4> QED BY <2>r, <3>3 DEF RefOK, EntriesOK, Elems, DriftInv, AllSettled
      <3> HIDE DEF e, t
      <3>5. f \in Entry /\ Settled(f)
        <4>1. CASE e.conf.enabled
          <5>1. f \in refetch(e)
            BY <3>1, <4>1
          <5>2. Fetched(f, e.id, e.conf) /\ AtHome(f)
            BY <2>e, <3>4, <5>1, Refetched DEF Settled
          <5> QED BY <3>4, <5>2 DEF Fetched, Settled
        <4>2. CASE ~e.conf.enabled
          BY <3>1, <3>4, <4>2
        <4> QED BY <4>1, <4>2
      <3>6. PICK d \in Entry :
              /\ push_deduped_entry(ref.done, f) = Append(ref.done, d)
              /\ d.id = f.id /\ d.conf = f.conf /\ AtHome(d)
        BY <2>r, <3>5, Pushed DEF Settled
      <3> DEFINE q == Append(ref.done, d)
      <3>7. /\ \A i \in DOMAIN q : q[i] = IF i \in DOMAIN ref.done THEN ref.done[i] ELSE d
            /\ q \in Seq(Entry)
        BY <2>r, Appended
      <3> HIDE DEF q
      <3>8. ref'.pc = "fetch" /\ ref'.todo = t /\ ref'.done = q
        <4>1. ref' = [ref EXCEPT !.todo = t, !.done = q]
          BY <3>1, <3>6 DEF q
        <4> QED BY <2>r, <3>2, <3>3, <3>7, <4>1 DEF RefOK
      <3>9. Settled(d)
        BY <3>5, <3>6 DEF Settled
      <3>10. AllSettled(q) /\ AllSettled(t)
        <4>1. AllSettled(q)
          BY <3>7, <3>9 DEF DriftInv, AllSettled, Elems
        <4>2. AllSettled(t)
          BY <3>3 DEF DriftInv, AllSettled
        <4> QED BY <4>1, <4>2
      <3> QED BY <3>2, <3>8, <3>10 DEF DriftInv
    <2>3. CASE RefreshMerge
      <3>1. /\ ref'.pc = "sync" /\ ref'.todo = <<>> /\ ref'.done = <<>>
            /\ UNCHANGED <<config, integrityVars, adm, op>>
            /\ entries' = merge_refreshed(entries, ref.done)
        BY <2>3 DEF RefreshMerge, idle_ref
      <3>2. /\ DOMAIN entries' = DOMAIN entries
            /\ \A i \in DOMAIN entries : entries'[i] \in Elems(ref.done) \/ entries'[i] = entries[i]
        BY <2>e, <2>r, <3>1, Merged DEF SameShape
      <3>3. AllSettled(entries')
        BY <3>2 DEF DriftInv, AllSettled, Elems
      <3> QED BY <3>1, <3>3, <2>n DEF DriftInv
    <2>4. CASE RefreshSync
      <3>1. UNCHANGED <<entries, config, integrityVars, adm, op>>
        BY <2>4 DEF RefreshSync
      <3> QED BY <2>4, <2>r, <3>1, RefSteps DEF DriftInv
    <2>5. CASE RefreshRead
      <3>1. UNCHANGED <<registryVars, adm, op>>
        BY <2>5 DEF RefreshRead
      <3>2. \A d \in all_descriptors(entries) : Housed(d)
        BY <2>e, HousedDescriptors DEF DriftInv
      <3>3. /\ ref'.pc = "check" /\ ref'.todo = ref.todo /\ ref'.done = ref.done
            /\ ref'.descr = all_descriptors(entries) /\ ref'.conf = config
        BY <2>5, <2>r, RefSteps
      <3> QED BY <3>1, <3>2, <3>3 DEF DriftInv
    <2>6. CASE RefreshCheck
      <3>1. /\ ref.pc = "check" /\ UNCHANGED <<entries, config, baseline, approved, adm, op>>
            /\ quarantined' = quarantined \cup to_quarantine(ref.descr, baseline, ref.conf)
        BY <2>6 DEF RefreshCheck
      <3>2. \A s \in DOMAIN InitConf : InitConf[s].strict \in BOOLEAN
        BY ConfAssumption, ConfFields
      <3>3. \A x \in pins(ref.descr) : Noticed(x, approved, quarantined')
        BY <3>1, <3>2, CheckNotices DEF DriftInv
      <3>4. \A x \in baseline : Noticed(x, approved, quarantined')
        BY <3>1 DEF DriftInv, Noticed
      <3>5. /\ ref'.pc = "rebase" /\ ref'.descr = ref.descr
            /\ ref'.todo = ref.todo /\ ref'.done = ref.done
        BY <2>6, <2>r, RefSteps
      <3> QED BY <3>1, <3>3, <3>4, <3>5 DEF DriftInv
    <2>7. CASE RefreshRebase
      <3>1. /\ ref.pc = "rebase" /\ baseline' = pins(ref.descr)
            /\ UNCHANGED <<entries, config, quarantined, approved, adm, op>>
        BY <2>7 DEF RefreshRebase
      <3>2. ref'.pc = "idle" /\ ref'.todo = <<>> /\ ref'.done = <<>>
        BY <2>7, <2>r, RefSteps
      <3> QED BY <3>1, <3>2, <2>n DEF DriftInv
    <2>8. ASSUME NEW s, NEW c, CreateServer(s, c) \/ UpdateServer(s, c) \/ DeleteServer(s)
          PROVE  DriftInv'
      BY <2>8 DEF CreateServer, UpdateServer, DeleteServer
    <2>9. CASE AdminStep \/ AdminAbort
      BY <2>9 DEF AdminStep, AdminFetch, AdminWrite, AdminSwap, AdminInstall, AdminSync, AdminRebase, AdminAbort,
                  DriftInv, idle_adm
    <2>10. ASSUME NEW k, NEW s, OpStart(k, s) PROVE DriftInv'
      <3>1. /\ op'.entry = EntryOf(entries, s) /\ s \in Ids(entries)
            /\ UNCHANGED <<registryVars, ref, adm>>
        BY <2>10 DEF OpStart
      <3>2. Settled(op'.entry)
        BY <2>e, <3>1, EntryFound DEF DriftInv, AllSettled
      <3> QED BY <3>1, <3>2 DEF DriftInv
    <2>11. CASE OpFetch
      <3>1. PICK f : /\ f \in (IF op.kind = "probe" THEN refetch(op.entry)
                               ELSE establish_entry(op.entry.id, op.entry.conf))
                     /\ op' = [op EXCEPT !.pc = "write", !.entry = f]
        BY <2>11 DEF OpFetch
      <3>2. op.pc = "fetch" /\ UNCHANGED <<registryVars, ref, adm>>
        BY <2>11 DEF OpFetch
      <3>3. op.entry \in Entry /\ Consistent(op.entry) /\ Settled(op.entry)
        BY <3>2 DEF RegistryInv, OpOK, DriftInv
      <3>4. Fetched(f, op.entry.id, op.entry.conf) /\ AtHome(f)
        <4>1. CASE op.kind = "probe"
          BY <2>e, <3>1, <3>3, <4>1, Refetched DEF Settled
        <4>2. CASE op.kind # "probe"
          BY <2>e, <3>1, <3>3, <4>2, Established, EntryFields
        <4> QED BY <4>1, <4>2
      <3>5. Settled(f)
        BY <3>3, <3>4 DEF Settled, Fetched
      <3>6. op'.entry = f
        BY <2>o, <3>1
      <3> QED BY <3>2, <3>5, <3>6 DEF DriftInv
    <2>12. CASE OpWrite
      <3>1. op.entry \in Entry /\ Settled(op.entry)
        BY <2>12 DEF OpWrite, RegistryInv, OpOK, DriftInv
      <3>2. entries' = entries \/ entries' = replace_entry(entries, op.entry)
        BY <2>12 DEF OpWrite
      <3>3. UNCHANGED <<config, integrityVars, ref, adm>> /\ op'.pc \notin {"fetch", "write"}
        <4>1. UNCHANGED <<config, integrityVars, ref, adm>>
          BY <2>12 DEF OpWrite
        <4>2. op' = [op EXCEPT !.pc = "sync", !.entry = None] \/ op' = idle_op
          BY <2>12 DEF OpWrite
        <4>3. [op EXCEPT !.pc = "sync", !.entry = None].pc = "sync"
          BY <2>o
        <4>4. idle_op.pc = "idle"
          BY DEF idle_op
        <4> QED BY <4>1, <4>2, <4>3, <4>4
      <3>4. AllSettled(replace_entry(entries, op.entry))
        <4> DEFINE q == replace_entry(entries, op.entry)
                   d == dedup_against_others(entries, op.entry)
        <4>1. /\ DOMAIN q = DOMAIN entries
              /\ \A i \in DOMAIN entries : q[i] = d \/ q[i] = entries[i]
              /\ d.id = op.entry.id /\ d.conf = op.entry.conf /\ AtHome(d)
          BY <2>e, <3>1, Replaced DEF SameShape, Settled
        <4> HIDE DEF q, d
        <4>2. Settled(d)
          BY <3>1, <4>1 DEF Settled
        <4>3. AllSettled(q)
          BY <4>1, <4>2 DEF DriftInv, AllSettled, Elems
        <4> QED BY <4>3 DEF q
      <3> QED BY <3>2, <3>3, <3>4 DEF DriftInv
    <2>13. CASE OpSync \/ OpAbort
      <3>1. /\ UNCHANGED <<entries, config, integrityVars, ref, adm>>
            /\ op'.pc \notin {"fetch", "write"}
        BY <2>13, <2>o DEF OpSync, OpAbort, idle_op
      <3> QED BY <3>1 DEF DriftInv
    <2>14. CASE OpRebase
      <3>1. /\ UNCHANGED <<entries, config, quarantined, ref, adm>> /\ op'.pc = "idle"
            /\ approved' = approved \cup baseline'
        BY <2>14 DEF OpRebase, rebase_integrity_baseline, idle_op
      <3>2. \A x \in baseline' : Noticed(x, approved', quarantined)
        BY <3>1 DEF Noticed
      <3>3. \A x : Noticed(x, approved, quarantined) => Noticed(x, approved', quarantined)
        BY <3>1 DEF Noticed
      <3> QED BY <3>1, <3>2, <3>3 DEF DriftInv
    <2>15. CASE Environment \/ UNCHANGED vars
      <3>1. UNCHANGED <<registryVars, ref, adm, op>>
        BY <2>15 DEF Environment, OfferChange, UpChange, vars
      <3> QED BY <3>1 DEF DriftInv
    <2> QED BY <2>1, <2>2, <2>3, <2>4, <2>5, <2>6, <2>7, <2>8, <2>9, <2>10, <2>11, <2>12,
               <2>13, <2>14, <2>15 DEF Next, Refresh, OpStep
  <1>3. DriftInv => NoSilentDrift
    BY DEF DriftInv, Noticed, NoSilentDrift
  <1>4. Spec => []NamesUnique
    BY NamesStayUnique
  <1> QED BY <1>1, <1>2, <1>3, <1>4, RegistryHolds, PTL DEF Spec, NameMeansOneTool
=============================================================================
