------------------------------ MODULE McpSurface ----------------------------
(* Prompts, resources and resource templates of the MCP upstreams: the         *)
(* connection they come over, the names and URIs under which clients see them, *)
(* which of them a key may use (mcp/surface.rs, mcp/registry.rs, mcp/peer,     *)
(* mcp/dedup.rs), and whom a changed tool list is announced to (mcp/notify.rs).*)
(* McpRegistry has the tools of the same entries.                             *)
(*                                                                             *)
(* A probe, a reconnection, an addition and the periodic refresh copy what     *)
(* they start from, wait for the upstreams outside any lock and write back;    *)
(* they overlap.  What an upstream answers may change at any time.             *)
(*                                                                             *)
(* A URI is a sequence of characters, of which Scheme stands for asterlane://. *)
(* A list of prompts, resources or templates is a function on the positions    *)
(* that are left of the upstream's list; the order is that of the positions.   *)
EXTENDS Integers, Sequences, FiniteSetsExt, SequencesExt

CONSTANTS
    UriChars,         \* what ids and URIs are made of
    SfIds,            \* server ids
    SfChecked,        \* those with health_check.enabled
    NamespaceOf,      \* server id -> its domain and provider
    AuthOf,           \* server id -> "static", "client_credentials", "authorization_code"
    SfOffers,         \* what an upstream may answer with
    SfFails,          \* which of its lists may fail in one probe
    SfKeys,           \* [denied, servers, names]
    SfClients,
    SfOps,            \* handlers that probe, reconnect, add or update one server
    TgClients,        \* who listens for tools/list_changed
    MaxTargets

Scheme == "asterlane://"

VARIABLES
    sfEntry,          \* server -> [connected, prompts, resources, templates]
    sfOrder,          \* McpServerRegistry.entries: the ids that are registered, in order
    sfOp,             \* handler -> what it copied and fetched
    sfRefresh,        \* the refresh_inner that is under way
    sfMixed,          \* history: a server was added while the last refresh ran
    sfRead,           \* client -> a resources/read in progress
    sfTargets         \* tool_list_changed_peers: how often each target is in it
sfVars == <<sfEntry, sfOrder, sfOp, sfRefresh, sfMixed, sfRead>>

NoSurface == [prompts |-> <<>>, resources |-> <<>>, templates |-> <<>>]
Entry(connected, surface) ==
    [connected |-> connected, prompts |-> surface.prompts, resources |-> surface.resources,
     templates |-> surface.templates]
SurfaceOf(e) == [prompts |-> e.prompts, resources |-> e.resources, templates |-> e.templates]
\* Not registered, or registered without a connection.
Absent == Entry(FALSE, NoSurface)
AllAbsent == [s \in SfIds |-> Absent]
NoRead == [pc |-> "idle", server |-> <<>>, upstream |-> <<>>, got |-> {}]
NoOp == [pc |-> "idle", server |-> <<>>, adds |-> FALSE, entry |-> Absent]
NoRefresh == [running |-> FALSE, ids |-> {}, todo |-> <<>>, copies |-> AllAbsent, fresh |-> AllAbsent]
-----------------------------------------------------------------------------
(* URIs and scope.                                                             *)
gateway_uri(s, upstream) == <<Scheme>> \o s \o <<"/">> \o upstream

(* The place of the slash that ends the server id.                             *)
id_end(uri) == IF "/" \in Range(uri) THEN SelectInSeq(uri, LAMBDA c : c = "/") ELSE 0
parse_gateway_uri(uri) ==
    LET n == id_end(uri)
        ok == n > 2 /\ n < Len(uri) /\ uri[1] = Scheme
    IN  IF ok THEN [ok |-> TRUE, server |-> SubSeq(uri, 2, n - 1), upstream |-> SubSeq(uri, n + 1, Len(uri))]
        ELSE [ok |-> FALSE, server |-> <<>>, upstream |-> <<>>]

ASSUME SurfaceAssumption ==
    /\ {Scheme, "/"} \subseteq UriChars /\ SfIds \subseteq Seq(UriChars)
    /\ \A o \in SfOffers :
         /\ o.prompts \in Seq(Range(o.prompts)) /\ o.resources \in Seq(Range(o.resources))
         /\ o.templates \in Seq(Range(o.templates))
         /\ \A r \in Range(o.resources) : r.uri \in Seq(UriChars)

WireName(s, name) == <<NamespaceOf[s], name>>
sees_name(k, full, s) ==
    full \notin k.denied /\ (s \in k.servers \/ full \in k.names)
-----------------------------------------------------------------------------
(* Wrapping: what cannot be named or has no URI is left out, and of two with   *)
(* one key the first stays.                                                    *)
Keep(items, Test(_)) == Restrict(items, {i \in DOMAIN items : Test(i)})
unique_by(items, keys) == Keep(items, LAMBDA i : \A j \in DOMAIN items : j < i => keys[j] # keys[i])
wrap_prompts(s, prompts) ==
    LET named == Keep(prompts, LAMBDA i : prompts[i] # "not a name")
    IN  unique_by(named, [i \in DOMAIN named |-> WireName(s, named[i])])
wrap_resources(s, items) ==
    LET whole == Keep(items, LAMBDA i : items[i].uri # <<>> /\ items[i].name # "")
    IN  unique_by(whole, [i \in DOMAIN whole |-> whole[i].uri])
wrap_templates(s, items) ==
    LET whole == Keep(items, LAMBDA i : items[i].template # "" /\ items[i].name # "")
    IN  unique_by(whole, [i \in DOMAIN whole |-> whole[i].template])

(* A list the upstream does not offer is empty; one it fails to give stays as  *)
(* it was.                                                                     *)
load_kind(supported, failed, fresh, previous) ==
    IF ~supported THEN <<>> ELSE IF failed THEN previous ELSE fresh
load_surface(s, o, fails, previous) ==
    [prompts |-> load_kind(o.has_prompts, "prompts" \in fails, wrap_prompts(s, o.prompts), previous.prompts),
     resources |-> load_kind(o.has_resources, "resources" \in fails,
                             wrap_resources(s, o.resources), previous.resources),
     templates |-> load_kind(o.has_resources, "templates" \in fails,
                             wrap_templates(s, o.templates), previous.templates)]

\* What another of the entries has under the same name is left out.
dedup_prompts(s, prompts, entries) ==
    LET seen == UNION {{WireName(t, p) : p \in Range(entries[t].prompts)} : t \in SfIds \ {s}}
    IN  Keep(prompts, LAMBDA i : WireName(s, prompts[i]) \notin seen)
dedup_against_others(s, e, entries) == [e EXCEPT !.prompts = dedup_prompts(s, @, entries)]
-----------------------------------------------------------------------------
(* Connecting: the discover handshake, and initialize when it fails for a      *)
(* reason that is neither a demand for authorization nor a refused address.    *)
Outcomes == {"ok", "unauthorized", "blocked", "failed"}
classify_connect_error(s, error) ==
    CASE error = "unauthorized" /\ AuthOf[s] = "authorization_code" -> "auth_required"
      [] error = "blocked" -> "unreachable"
      [] OTHER -> "unclassified"
map_legacy_connect_error(s, error) ==
    IF classify_connect_error(s, error) = "unclassified" THEN "unreachable"
    ELSE classify_connect_error(s, error)
connect_with(s, discover, initialize) ==
    IF discover = "ok" THEN "ok"
    ELSE IF classify_connect_error(s, discover) # "unclassified" THEN classify_connect_error(s, discover)
    ELSE IF initialize = "ok" THEN "ok" ELSE map_legacy_connect_error(s, initialize)

(* What a probe over a connection ends with: tools/list may fail, and then the *)
(* lists stay as they were.                                                    *)
probe_entry(s, previous) ==
    {Entry(TRUE, previous)}
        \cup UNION {{Entry(TRUE, load_surface(s, o, fails, previous)) : fails \in SfFails} : o \in SfOffers}
(* Without one it connects first and starts from nothing.                      *)
establish_entry(s) ==
    UNION {IF connect_with(s, discover, initialize) = "ok" THEN probe_entry(s, NoSurface) ELSE {Absent} :
              discover, initialize \in Outcomes}

Registered == Range(sfOrder)

(* probe, reconnect, update_server: the entry is copied under the read lock.  A *)
(* probe, and an update of something other than URL and auth, use the          *)
(* connection there is; the copy of one that connects anew is not looked at.   *)
CopyEntry(a, s, e) ==
    /\ sfOp[a].pc = "idle"
    /\ sfOp' = [sfOp EXCEPT ![a] = [pc |-> "copied", server |-> s, adds |-> s \notin Registered,
                                   entry |-> e]]
    /\ UNCHANGED <<sfEntry, sfOrder, sfRefresh, sfMixed, sfRead>>
probe(a, s) == s \in Registered /\ CopyEntry(a, s, sfEntry[s])
reconnect(a, s) == s \in Registered /\ CopyEntry(a, s, Absent)
UpdateServer(a, s) == probe(a, s) \/ reconnect(a, s)
add_server(a, s) == s \notin Registered /\ CopyEntry(a, s, Absent)

(* The answers come in.                                                        *)
Fetch(a) ==
    /\ sfOp[a].pc = "copied"
    /\ LET me == sfOp[a]
       IN  \E e \in IF me.entry.connected THEN probe_entry(me.server, SurfaceOf(me.entry))
                    ELSE establish_entry(me.server) :
             sfOp' = [sfOp EXCEPT ![a].pc = "fetched", ![a].entry = e]
    /\ UNCHANGED <<sfEntry, sfOrder, sfRefresh, sfMixed, sfRead>>

(* Under the write lock: a server that was removed meanwhile is not put back,  *)
(* one that was added meanwhile is not added again.                            *)
replace_entry(a) ==
    /\ sfOp[a].pc = "fetched"
    /\ LET me == sfOp[a]
           e == dedup_against_others(me.server, me.entry, sfEntry)
       IN  IF me.adds = (me.server \in Registered) THEN UNCHANGED <<sfEntry, sfOrder>>
           ELSE /\ sfEntry' = [sfEntry EXCEPT ![me.server] = e]
                /\ sfOrder' = IF me.adds THEN Append(sfOrder, me.server) ELSE sfOrder
    /\ sfOp' = [sfOp EXCEPT ![a] = NoOp]
    /\ UNCHANGED <<sfRefresh, sfMixed, sfRead>>

(* The handler is dropped at an await.                                         *)
HandlerDropped(a) ==
    /\ sfOp[a].pc # "idle" /\ sfOp' = [sfOp EXCEPT ![a] = NoOp]
    /\ UNCHANGED <<sfEntry, sfOrder, sfRefresh, sfMixed, sfRead>>

(* refresh_inner, of which the background task runs one at a time: it copies   *)
(* all entries, asks their servers one after the other and drops the prompts   *)
(* that an earlier one of them has.                                            *)
RefreshCopies ==
    /\ ~sfRefresh.running
    /\ sfRefresh' = [running |-> TRUE, ids |-> Registered, todo |-> sfOrder, copies |-> sfEntry,
                     fresh |-> AllAbsent]
    /\ UNCHANGED <<sfEntry, sfOrder, sfOp, sfMixed, sfRead>>
push_deduped_entry ==
    /\ sfRefresh.todo # <<>>
    /\ LET s == Head(sfRefresh.todo)
           copy == sfRefresh.copies[s]
       IN  \E e \in IF s \notin SfChecked THEN {copy}
                    ELSE IF copy.connected THEN probe_entry(s, SurfaceOf(copy)) ELSE establish_entry(s) :
             sfRefresh' = [sfRefresh EXCEPT !.todo = Tail(@), !.copies[s] = Absent,
                              !.fresh[s] = dedup_against_others(s, e, sfRefresh.fresh)]
    /\ UNCHANGED <<sfEntry, sfOrder, sfOp, sfMixed, sfRead>>

(* It writes back by id, without looking at servers that came meanwhile.       *)
refresh_inner ==
    /\ sfRefresh.running /\ sfRefresh.todo = <<>>
    /\ sfEntry' = [s \in SfIds |-> IF s \in sfRefresh.ids \cap Registered THEN sfRefresh.fresh[s]
                                    ELSE sfEntry[s]]
    /\ sfMixed' = ~(Registered \subseteq sfRefresh.ids)
    /\ sfRefresh' = NoRefresh
    /\ UNCHANGED <<sfOrder, sfOp, sfRead>>

remove_server(s) ==
    /\ s \in Registered
    /\ sfEntry' = [sfEntry EXCEPT ![s] = Absent]
    /\ sfOrder' = RemoveFirst(sfOrder, s)
    /\ UNCHANGED <<sfOp, sfRefresh, sfMixed, sfRead>>
-----------------------------------------------------------------------------
(* What a key sees and reaches.                                                *)
prompts_for_key(k) ==
    UNION {{<<s, p>> : p \in {q \in Range(sfEntry[s].prompts) : sees_name(k, WireName(s, q), s)}}
             : s \in SfIds}
resources_for_key(k) ==
    UNION {{<<s, r>> : r \in {q \in Range(sfEntry[s].resources) : sees_name(k, WireName(s, q.name), s)}}
             : s \in SfIds}

NotFound == [found |-> FALSE, server |-> <<>>, upstream |-> <<>>]
resolve_prompt(k, wire) ==
    LET Has(s) == sfEntry[s].connected /\ wire \in {WireName(s, p) : p \in Range(sfEntry[s].prompts)}
        i == SelectInSeq(sfOrder, Has)
    IN  IF i # 0 /\ sees_name(k, wire, sfOrder[i])
        THEN [found |-> TRUE, server |-> sfOrder[i], upstream |-> wire] ELSE NotFound

Matching(e, u) == {i \in DOMAIN e.templates : IsPrefix(e.templates[i].prefix, u)}
(* The template with the longest literal part; of several, the last one.       *)
Longest(e, u) ==
    LET Size(i) == Len(e.templates[i].prefix)
        best == {i \in Matching(e, u) : \A j \in Matching(e, u) : Size(j) <= Size(i)}
    IN  IF best = {} THEN {} ELSE {e.templates[Max(best)].name}

(* The name that decides whether u may be read: the resource's own if it is    *)
(* listed, else that of the template.                                          *)
(* Mutant: a refused resource may still be read through a template.            *)
scope_names_or_template(e, u) ==
    {r.name : r \in {q \in Range(e.resources) : q.uri = u}} \cup Longest(e, u)
scope_name_for_read(e, u) ==
    IF \E r \in Range(e.resources) : r.uri = u
    THEN {r.name : r \in {q \in Range(e.resources) : q.uri = u}}
    ELSE Longest(e, u)
resolve_read(k, uri) ==
    LET p == parse_gateway_uri(uri)
        s == p.server
    IN  IF p.ok /\ s \in SfIds
           /\ sfEntry[s].connected
           /\ \E n \in scope_name_for_read(sfEntry[s], p.upstream) :
                 sees_name(k, WireName(s, n), s)
        THEN [found |-> TRUE, server |-> s, upstream |-> p.upstream] ELSE NotFound

rewrite_read_uris(s, uri) ==
    IF IsPrefix(gateway_uri(s, <<>>), uri) THEN uri ELSE gateway_uri(s, uri)

(* resources/read: resolved under the lock, forwarded over the peer that was   *)
(* found, answered later.                                                      *)
AskedUris == UNION {{gateway_uri(s, r.uri) : r \in Range(o.resources)} : s \in SfIds, o \in SfOffers}
read_resource_for(c) ==
    /\ sfRead[c].pc = "idle"
    /\ \E k \in SfKeys, uri \in AskedUris :
         LET to == resolve_read(k, uri)
         IN  /\ to.found
             /\ sfRead' = [sfRead EXCEPT ![c] = [pc |-> "sent", server |-> to.server,
                                                 upstream |-> to.upstream, got |-> {}]]
    /\ UNCHANGED <<sfEntry, sfOrder, sfOp, sfRefresh, sfMixed>>
ReadAnswered(c) ==
    /\ sfRead[c].pc = "sent"
    /\ LET me == sfRead[c]
           uris == {me.upstream, gateway_uri(me.server, me.upstream)}
       IN  sfRead' = [sfRead EXCEPT ![c] = [me EXCEPT !.pc = "answered",
                        !.got = {rewrite_read_uris(me.server, u) : u \in uris}]]
    /\ UNCHANGED <<sfEntry, sfOrder, sfOp, sfRefresh, sfMixed>>
ReadDone(c) ==
    /\ sfRead[c].pc = "answered"
    /\ sfRead' = [sfRead EXCEPT ![c] = NoRead]
    /\ UNCHANGED <<sfEntry, sfOrder, sfOp, sfRefresh, sfMixed>>
-----------------------------------------------------------------------------
(* Announcing a changed tool list.  A target is a session or a subscription;   *)
(* registering the same one again changes nothing.                             *)
TargetOf(c, legacy) == [client |-> c, legacy |-> legacy]
ListenTargets == [client : TgClients, legacy : BOOLEAN]
Listening == {t \in ListenTargets : sfTargets[t] > 0}
register(target) ==
    /\ sfTargets[target] < MaxTargets
    /\ sfTargets' = IF target \in Listening THEN sfTargets ELSE [sfTargets EXCEPT ![target] = @ + 1]
register_legacy_peer(c) == register(TargetOf(c, TRUE))
listen_tools_list_changed(c) == register(TargetOf(c, FALSE))
notify_peers_tool_list_changed ==
    \E failed \in SUBSET Listening :
        sfTargets' = [t \in ListenTargets |-> IF t \in failed THEN 0 ELSE sfTargets[t]]
TgInit == sfTargets = [t \in ListenTargets |-> 0]
TgNext ==
    \/ \E c \in TgClients : register_legacy_peer(c) \/ listen_tools_list_changed(c)
    \/ notify_peers_tool_list_changed

SfInit ==
    /\ sfEntry = AllAbsent /\ sfOrder = <<>> /\ sfRefresh = NoRefresh /\ sfMixed = FALSE
    /\ sfOp = [a \in SfOps |-> NoOp] /\ sfRead = [c \in SfClients |-> NoRead]
SfHandlers ==
    \/ \E a \in SfOps, s \in SfIds : UpdateServer(a, s) \/ add_server(a, s)
    \/ \E a \in SfOps : Fetch(a) \/ replace_entry(a) \/ HandlerDropped(a)
    \/ \E s \in SfIds : remove_server(s)
SfRefreshes == RefreshCopies \/ push_deduped_entry \/ refresh_inner
SfReads == \E c \in SfClients : read_resource_for(c) \/ ReadAnswered(c) \/ ReadDone(c)
SfNext == SfHandlers \/ SfRefreshes \/ SfReads
(* The surface and the listeners share nothing.                                *)
SfSpec ==
    /\ SfInit /\ TgInit
    /\ [][(SfNext /\ UNCHANGED sfTargets) \/ (TgNext /\ UNCHANGED sfVars)]_<<sfVars, sfTargets>>
-----------------------------------------------------------------------------
(* Every resource a key is shown can be read by that key under the URI it is   *)
(* shown by, and leads to the upstream it comes from, whatever servers come,   *)
(* go or lose their lists meanwhile (resources_for_key, resolve_read).  Not so *)
(* for a server whose id holds a "/", which no check of the configuration      *)
(* refuses: its URIs name another server.                                      *)
Whole(s) == s # <<>> /\ "/" \notin Range(s)
ListedReadable ==
    \A k \in SfKeys : \A sr \in resources_for_key(k) :
        Whole(sr[1]) => resolve_read(k, gateway_uri(sr[1], sr[2].uri)) =
                            [found |-> TRUE, server |-> sr[1], upstream |-> sr[2].uri]

(* A prompt a key is shown leads to the server it comes from, also when        *)
(* servers share a namespace: every write keeps the names apart, except the    *)
(* refresh during which a server was added.  Until the next undisturbed        *)
(* refresh two servers may list one name, and the one registered first gets    *)
(* the call; any other name still leads to its own server (resolve_prompt,     *)
(* dedup_against_others, refresh_inner).                                       *)
ListedPromptResolves ==
    \A k \in SfKeys : \A sp \in prompts_for_key(k) :
        LET wire == WireName(sp[1], sp[2])
            sole == \A t \in SfIds \ {sp[1]} : wire \notin {WireName(t, p) : p \in Range(sfEntry[t].prompts)}
        IN  ~sfMixed \/ sole => resolve_prompt(k, wire).server = sp[1]

(* A read is forwarded only to a connected server that the URI names, and      *)
(* never for a listed resource the key may not use, whatever templates cover   *)
(* it; what is not listed needs the most specific of the templates             *)
(* (scope_name_for_read, resolve_read).                                        *)
ReadAuthorized ==
    \A k \in SfKeys, uri \in AskedUris :
      LET to == resolve_read(k, uri)
          e == sfEntry[to.server]
          Sees(name) == sees_name(k, WireName(to.server, name), to.server)
          listed == {r \in Range(e.resources) : r.uri = to.upstream}
          covers == Matching(e, to.upstream)
      IN  to.found =>
            /\ uri = gateway_uri(to.server, to.upstream) /\ e.connected
            /\ \A r \in listed : Sees(r.name)
            /\ listed = {} => \E i \in covers :
                 /\ Sees(e.templates[i].name)
                 /\ \A j \in covers : Len(e.templates[j].prefix) <= Len(e.templates[i].prefix)

(* The URIs in a read's answer lead back to what was read, whether the         *)
(* upstream wrote its own URI or the gateway's (rewrite_read_uris), unless its *)
(* own URI already begins like the gateway's for that server.                  *)
ContentReadable ==
    \A c \in SfClients : \A uri \in sfRead[c].got :
        \/ IsPrefix(gateway_uri(sfRead[c].server, <<>>), sfRead[c].upstream)
        \/ parse_gateway_uri(uri) =
               [ok |-> TRUE, server |-> sfRead[c].server, upstream |-> sfRead[c].upstream]

(* One announcement per session or subscription, however often it registers    *)
(* (register_legacy_peer, register_subscription).                              *)
NotifiedOnce == \A t \in ListenTargets : sfTargets[t] <= 1

(* Of prompts and resources, what is listed can be used, what is not allowed   *)
(* cannot be read, and nobody is announced a change twice (mcp/surface.rs,     *)
(* mcp/registry.rs, mcp/notify.rs).                                            *)
SurfaceSound ==
    /\ ListedReadable /\ ListedPromptResolves /\ ReadAuthorized
    /\ ContentReadable /\ NotifiedOnce
=============================================================================
