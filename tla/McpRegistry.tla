----------------------------- MODULE McpRegistry -----------------------------
(***************************************************************************)
(* The upstream MCP servers of the gateway: the registry of connections    *)
(* and tool snapshots (src/mcp/registry.rs, health.rs, dedup.rs), the      *)
(* background refresh (src/main.rs, src/http/lifecycle.rs), the admin      *)
(* writes and probes (src/admin/mcp.rs), the tool catalog they feed and    *)
(* the integrity baseline that watches for drift (src/integrity.rs).       *)
(*                                                                         *)
(* No lock is held across a call to an upstream: every writer copies an    *)
(* entry, awaits the upstream, and writes the copy back.  The admin write  *)
(* lock orders the writes to the catalog and the configuration, and admin  *)
(* handlers hold it across their upstream calls; the refresh and the       *)
(* probes take it only to copy the registry into the catalog.  The lock is *)
(* therefore held exactly while an admin write is in progress.             *)
(*                                                                         *)
(* A step ends at each await.  Two reads with nothing but an uncontended   *)
(* lock between them, and a read of the registry with the write of the     *)
(* catalog or the baseline it feeds, are one step.                         *)
(*                                                                         *)
(* A tool is <<namespace, name, fp>>: the namespace is the domain and      *)
(* provider, <<namespace, name>> is the wire name, fp its fingerprint.  A  *)
(* url stands for the url and the auth of a server.  "unavailable" stands  *)
(* for unreachable and auth_required.                                      *)
(***************************************************************************)
EXTENDS Naturals, Sequences, SequencesExt, FiniteSets

CONSTANTS
    Servers,      \* server ids
    Namespaces,   \* (domain, provider) pairs
    Tools,        \* tool names an upstream can offer
    Urls,         \* upstream endpoints
    Confs,        \* the server configurations an admin may write
    InitOrder,    \* the ids configured at start-up, in order
    InitConf,     \* their configurations
    Writes,       \* the admin writes issued: create, update, delete
    Loose,        \* the operations run outside the lock: probe, reconnect
    MaxFp,        \* bound: definitions a tool goes through
    MaxChanges,   \* bound: changes of the upstreams
    ChannelCap,   \* capacity of the list_changed channel
    None          \* no connection, or no entry

Conf == [ns : Namespaces, url : Urls, enabled : BOOLEAN, strict : BOOLEAN]

ASSUME ConfAssumption ==
    /\ Confs \subseteq Conf
    /\ InitOrder \in Seq(Servers)
    /\ \A i, j \in 1..Len(InitOrder) : InitOrder[i] = InitOrder[j] => i = j
    /\ InitConf \in [{InitOrder[i] : i \in 1..Len(InitOrder)} -> Conf]

ASSUME BoundAssumption ==
    /\ MaxFp \in Nat \ {0}
    /\ MaxChanges \in Nat
    /\ ChannelCap \in Nat \ {0}
    /\ None \notin Urls

VARIABLES
    entries,      \* the registry: a sequence of entries
    config,       \* the mcp_servers of the configuration snapshot
    catalog,      \* the MCP tools of the catalog: <<server, tool>>
    baseline,     \* the pinned tools
    quarantined,  \* the isolated wire names
    approved,     \* ghost: the tools an admin action or the start-up pinned
    stranded,     \* ghost: the servers whose last write ended half-way
    offer,        \* environment: what each upstream offers, 0 for nothing
    up,           \* environment: the upstreams that answer with a list we can wrap
    changes,      \* environment: changes so far
    heard,        \* ghost: every change has been announced over an open connection
    tick,         \* whether refresh_interval_secs is positive
    signals,      \* pending list_changed signals
    ref,          \* the refresh task
    adm,          \* the admin write in progress
    op            \* a probe or a reconnect in progress

integrityVars == <<baseline, quarantined, approved>>
registryVars == <<entries, config, catalog, integrityVars, stranded>>
envVars == <<offer, up, changes, heard, tick>>
vars == <<registryVars, envVars, signals, ref, adm, op>>

Tool == Namespaces \X Tools \X (1..MaxFp)
Status == {"ok", "unavailable", "disabled"}
Entry == [id : Servers, conf : Conf, peer : Urls \cup {None},
          tools : SUBSET Tool, status : Status]

-----------------------------------------------------------------------------
(* Entries *)

Name(x) == <<x[1], x[2]>>
Names(ts) == {Name(x) : x \in ts}
Ids(es) == {es[i].id : i \in DOMAIN es}
EntryOf(es, s) == es[CHOOSE i \in DOMAIN es : es[i].id = s]

wrap_tools(c, u) ==
    {<<c.ns, t, offer[u][t]>> : t \in {n \in Tools : offer[u][n] > 0}}

mark_ok(c) == IF c.enabled THEN "ok" ELSE "disabled"
mark_failed(c) == IF c.enabled THEN "unavailable" ELSE "disabled"

(* tools/list over the connection u.  A failure keeps the stale snapshot. *)
probe_entry(e, u) ==
    IF u \in up
    THEN [e EXCEPT !.peer = u, !.tools = wrap_tools(e.conf, u), !.status = mark_ok(e.conf)]
    ELSE [e EXCEPT !.peer = u, !.status = mark_failed(e.conf)]

(* Connect, then tools/list.  An upstream that is down may have answered   *)
(* the connect and gone down before the list.                              *)
establish_entry(s, c) ==
    LET bare == [id |-> s, conf |-> c, peer |-> None, tools |-> {},
                 status |-> mark_failed(c)]
    IN IF c.url \in up THEN {probe_entry(bare, c.url)}
                       ELSE {bare, probe_entry(bare, c.url)}

(* An existing connection is probed, a missing one established. *)
refetch(e) ==
    IF e.peer # None THEN {probe_entry(e, e.peer)} ELSE establish_entry(e.id, e.conf)

\* Mutant: only a missing connection is established.
updated_keeps_peer(old, c) ==
    IF old.peer # None
    THEN {probe_entry([old EXCEPT !.conf = c], old.peer)}
    ELSE establish_entry(old.id, c)

(* A changed url or auth reconnects; otherwise the connection and, until   *)
(* the list succeeds, the old tools are kept under the new configuration.  *)
updated(old, c) ==
    IF old.peer # None /\ old.conf.url = c.url
    THEN {probe_entry([old EXCEPT !.conf = c], old.peer)}
    ELSE establish_entry(old.id, c)

without_names(e, seen) == [e EXCEPT !.tools = {x \in @ : Name(x) \notin seen}]

(* First come, first served: e loses the wire names the other entries hold. *)
dedup_against_others(es, e) ==
    without_names(e, UNION {Names(es[i].tools) : i \in {j \in DOMAIN es : es[j].id # e.id}})

(* The entries already processed own every name seen so far. *)
push_deduped_entry(es, e) ==
    Append(es, without_names(e, UNION {Names(es[i].tools) : i \in DOMAIN es}))

replace_entry(es, e) ==
    [i \in DOMAIN es |-> IF es[i].id = e.id THEN dedup_against_others(es, e) ELSE es[i]]

\* Mutant: the refreshed entries replace the registry's, present or not.
merge_refreshed_all(es, done) ==
    done \o SelectSeq(es, LAMBDA e : e.id \notin Ids(done))

merge_refreshed(es, done) ==
    [i \in DOMAIN es |-> IF es[i].id \in Ids(done) THEN EntryOf(done, es[i].id) ELSE es[i]]

(* retain: the ids of a registry are distinct, so at most one entry goes. *)
remove_server(es, s) ==
    IF s \in Ids(es) THEN RemoveAt(es, CHOOSE i \in DOMAIN es : es[i].id = s) ELSE es

-----------------------------------------------------------------------------
(* Catalog, baseline and drift *)

all_wrapped_tools(es) ==
    UNION {{<<es[i].id, x>> : x \in es[i].tools} : i \in DOMAIN es}

(* The tools of the registered servers are replaced, others are kept. *)
replace_mcp_tools(cat, es) ==
    {c \in cat : c[1] \notin Ids(es)} \cup all_wrapped_tools(es)

(* The descriptors in registry order: <<position, server, tool>>. *)
all_descriptors(es) ==
    UNION {{<<i, es[i].id, x>> : x \in es[i].tools} : i \in DOMAIN es}

IsFirst(ds, d) == \A e \in ds : Name(e[3]) = Name(d[3]) => d[1] <= e[1]

(* rebase: clear, then pin the first descriptor of each wire name. *)
pins(ds) == {d[3] : d \in {e \in ds : IsFirst(ds, e)}}

(* The wire names of ds that were added or changed since the pins were     *)
(* taken.  A removed tool has no server any more and is only reported.     *)
drifted(ds, pinned) == {Name(d[3]) : d \in {e \in ds : e[3] \notin pinned}}

(* The drifted names whose server, in the configuration read with the      *)
(* descriptors, asks for quarantine or block.                              *)
to_quarantine(ds, pinned, conf) ==
    {n \in drifted(ds, pinned) :
        \E d \in ds : /\ Name(d[3]) = n
                      /\ IsFirst(ds, d)
                      /\ d[2] \in DOMAIN conf
                      /\ conf[d[2]].strict}

-----------------------------------------------------------------------------
(* Start-up: connect every configured server in order, fill the catalog,   *)
(* pin the baseline.                                                       *)

idle_ref == [pc |-> "idle", todo |-> <<>>, done |-> <<>>, descr |-> {}, conf |-> <<>>]
idle_adm == [pc |-> "idle", kind |-> None, id |-> None, conf |-> None, entry |-> None]
idle_op == [pc |-> "idle", kind |-> None, entry |-> None]

(* The registries connect_all can build. *)
connect_all ==
    LET n == Len(InitOrder)
        established(i) == establish_entry(InitOrder[i], InitConf[InitOrder[i]])
        choices == {f \in [1..n -> UNION {established(i) : i \in 1..n}] :
                        \A i \in 1..n : f[i] \in established(i)}
    IN {[i \in 1..n |-> without_names(f[i], UNION {Names(f[j].tools) : j \in 1..(i - 1)})] :
            f \in choices}

Init ==
    /\ offer = [u \in Urls |-> [t \in Tools |-> 1]]
    /\ up \in SUBSET Urls
    /\ changes = 0
    /\ heard = TRUE
    /\ tick \in BOOLEAN
    /\ config = InitConf
    /\ entries \in connect_all
    /\ catalog = all_wrapped_tools(entries)
    /\ baseline = pins(all_descriptors(entries))
    /\ approved = baseline
    /\ quarantined = {}
    /\ stranded = {}
    /\ signals = 0
    /\ ref = idle_ref
    /\ adm = idle_adm
    /\ op = idle_op

AdminWriteFree == adm.pc = "idle"

-----------------------------------------------------------------------------
(* The refresh task: one refresh at a time, on a timer tick or on the      *)
(* signals that have arrived, which it drains before it starts.            *)

RefreshStart ==
    /\ ref.pc = "idle"
    /\ \/ tick /\ UNCHANGED signals
       \/ signals > 0 /\ signals' = 0
    /\ ref' = [idle_ref EXCEPT !.pc = "fetch", !.todo = entries]
    /\ UNCHANGED <<registryVars, envVars, adm, op>>

(* One server of the snapshot: a disabled one is carried over unprobed. *)
RefreshFetch ==
    /\ ref.pc = "fetch" /\ ref.todo # <<>>
    /\ LET e == Head(ref.todo)
       IN \E f \in IF e.conf.enabled THEN refetch(e) ELSE {e} :
            ref' = [ref EXCEPT !.todo = Tail(@), !.done = push_deduped_entry(@, f)]
    /\ UNCHANGED <<registryVars, envVars, signals, adm, op>>

(* Write back by id: what was added meanwhile stays, what was removed      *)
(* stays removed.                                                          *)
RefreshMerge ==
    /\ ref.pc = "fetch" /\ ref.todo = <<>>
    /\ entries' = merge_refreshed(entries, ref.done)
    /\ ref' = [idle_ref EXCEPT !.pc = "sync"]
    /\ UNCHANGED <<config, catalog, integrityVars, stranded, envVars, signals, adm, op>>

RefreshSync ==
    /\ ref.pc = "sync" /\ AdminWriteFree
    /\ catalog' = replace_mcp_tools(catalog, entries)
    /\ ref' = [ref EXCEPT !.pc = "read"]
    /\ UNCHANGED <<entries, config, integrityVars, stranded, envVars, signals, adm, op>>

(* The configuration and the descriptors, read outside the lock. *)
RefreshRead ==
    /\ ref.pc = "read"
    /\ ref' = [ref EXCEPT !.pc = "check", !.descr = all_descriptors(entries), !.conf = config]
    /\ UNCHANGED <<registryVars, envVars, signals, adm, op>>

(* The names are put into quarantine one by one; no step reads the set in  *)
(* between.                                                                *)
RefreshCheck ==
    /\ ref.pc = "check"
    /\ quarantined' = quarantined \cup to_quarantine(ref.descr, baseline, ref.conf)
    /\ ref' = [ref EXCEPT !.pc = "rebase"]
    /\ UNCHANGED <<entries, config, catalog, baseline, approved, stranded, envVars, signals, adm, op>>

\* Mutant: the baseline takes the descriptors of the moment.
RefreshRebaseCurrent ==
    /\ ref.pc = "rebase"
    /\ baseline' = pins(all_descriptors(entries))
    /\ ref' = idle_ref
    /\ UNCHANGED <<entries, config, catalog, quarantined, approved, stranded, envVars, signals, adm, op>>

(* The baseline takes the descriptors that were checked. *)
RefreshRebase ==
    /\ ref.pc = "rebase"
    /\ baseline' = pins(ref.descr)
    /\ ref' = idle_ref
    /\ UNCHANGED <<entries, config, catalog, quarantined, approved, stranded, envVars, signals, adm, op>>

Refresh ==
    \/ RefreshStart \/ RefreshFetch \/ RefreshMerge \/ RefreshSync
    \/ RefreshRead \/ RefreshCheck \/ RefreshRebase

-----------------------------------------------------------------------------
(* Admin writes, under the admin write lock. *)

CreateServer(s, c) ==
    /\ "create" \in Writes /\ AdminWriteFree
    /\ s \notin DOMAIN config /\ s \notin Ids(entries)
    /\ adm' = [pc |-> "fetch", kind |-> "create", id |-> s, conf |-> c, entry |-> None]
    /\ UNCHANGED <<registryVars, envVars, signals, ref, op>>

UpdateServer(s, c) ==
    /\ "update" \in Writes /\ AdminWriteFree
    /\ s \in DOMAIN config /\ s \in Ids(entries)
    /\ adm' = [pc |-> "fetch", kind |-> "update", id |-> s, conf |-> c,
               entry |-> EntryOf(entries, s)]
    /\ UNCHANGED <<registryVars, envVars, signals, ref, op>>

DeleteServer(s) ==
    /\ "delete" \in Writes /\ AdminWriteFree
    /\ s \in DOMAIN config
    /\ entries' = remove_server(entries, s)
    /\ adm' = [idle_adm EXCEPT !.pc = "swap", !.kind = "delete", !.id = s]
    /\ UNCHANGED <<config, catalog, integrityVars, stranded, envVars, signals, ref, op>>

AdminFetch ==
    /\ adm.pc = "fetch"
    /\ \E e \in IF adm.kind = "create" THEN establish_entry(adm.id, adm.conf)
                                       ELSE updated(adm.entry, adm.conf) :
        adm' = [adm EXCEPT !.pc = "write", !.entry = e]
    /\ UNCHANGED <<registryVars, envVars, signals, ref, op>>

(* A create appends, an update replaces.  Both fail, and end the request,  *)
(* if the registry changed under them; only the lock holder adds and       *)
(* removes entries, so neither happens.                                    *)
AdminWrite ==
    /\ adm.pc = "write"
    /\ entries' = IF adm.kind = "create"
                  THEN Append(entries, dedup_against_others(entries, adm.entry))
                  ELSE replace_entry(entries, adm.entry)
    /\ adm' = [adm EXCEPT !.pc = "swap", !.entry = None]
    /\ UNCHANGED <<config, catalog, integrityVars, stranded, envVars, signals, ref, op>>

new_config ==
    IF adm.kind = "delete"
    THEN [s \in DOMAIN config \ {adm.id} |-> config[s]]
    ELSE [s \in DOMAIN config \cup {adm.id} |-> IF s = adm.id THEN adm.conf ELSE config[s]]

(* swap_config_and_catalog: the new snapshot, and under a lock of its own  *)
(* the catalog without the tools of unconfigured servers.                  *)
AdminSwap ==
    /\ adm.pc = "swap"
    /\ config' = new_config
    /\ adm' = [adm EXCEPT !.pc = "install"]
    /\ UNCHANGED <<entries, catalog, integrityVars, stranded, envVars, signals, ref, op>>

AdminInstall ==
    /\ adm.pc = "install"
    /\ catalog' = {c \in catalog : c[1] \in DOMAIN config}
    /\ adm' = [adm EXCEPT !.pc = IF adm.kind = "delete" THEN "rebase" ELSE "sync"]
    /\ stranded' = stranded \ {adm.id}
    /\ UNCHANGED <<entries, config, integrityVars, envVars, signals, ref, op>>

AdminSync ==
    /\ adm.pc = "sync"
    /\ catalog' = replace_mcp_tools(catalog, entries)
    /\ adm' = [adm EXCEPT !.pc = "rebase"]
    /\ UNCHANGED <<entries, config, integrityVars, stranded, envVars, signals, ref, op>>

rebase_integrity_baseline ==
    /\ baseline' = pins(all_descriptors(entries))
    /\ approved' = approved \cup baseline'

AdminRebase ==
    /\ adm.pc = "rebase"
    /\ rebase_integrity_baseline
    /\ adm' = idle_adm
    /\ UNCHANGED <<entries, config, catalog, quarantined, stranded, envVars, signals, ref, op>>

(* The request ends early: the swap is refused as a whole, because limits, *)
(* key pools or a gateway token cannot be rebuilt, or the request timeout  *)
(* or the client drops the handler at an await.  What has been written     *)
(* stays.                                                                  *)
AdminAbort ==
    /\ adm.pc # "idle"
    /\ adm' = idle_adm
    /\ stranded' = IF adm.pc \in {"swap", "install"} THEN stranded \cup {adm.id} ELSE stranded
    /\ UNCHANGED <<entries, config, catalog, integrityVars, envVars, signals, ref, op>>

AdminStep ==
    AdminFetch \/ AdminWrite \/ AdminSwap \/ AdminInstall \/ AdminSync \/ AdminRebase

-----------------------------------------------------------------------------
(* Probe (POST .../probe) and reconnect (after an OAuth authorization or   *)
(* its revocation): the upstream is called outside the lock.               *)

OpStart(k, s) ==
    /\ op.pc = "idle" /\ k \in Loose
    /\ s \in Ids(entries)
    /\ op' = [pc |-> "fetch", kind |-> k, entry |-> EntryOf(entries, s)]
    /\ UNCHANGED <<registryVars, envVars, signals, ref, adm>>

OpFetch ==
    /\ op.pc = "fetch"
    /\ \E e \in IF op.kind = "probe" THEN refetch(op.entry)
                                     ELSE establish_entry(op.entry.id, op.entry.conf) :
        op' = [op EXCEPT !.pc = "write", !.entry = e]
    /\ UNCHANGED <<registryVars, envVars, signals, ref, adm>>

(* A server removed meanwhile is not brought back: the request fails. *)
OpWrite ==
    /\ op.pc = "write"
    /\ \/ /\ op.entry.id \in Ids(entries)
          /\ entries' = replace_entry(entries, op.entry)
          /\ op' = [op EXCEPT !.pc = "sync", !.entry = None]
       \/ /\ op.entry.id \notin Ids(entries)
          /\ op' = idle_op
          /\ UNCHANGED entries
    /\ UNCHANGED <<config, catalog, integrityVars, stranded, envVars, signals, ref, adm>>

OpSync ==
    /\ op.pc = "sync" /\ AdminWriteFree
    /\ catalog' = replace_mcp_tools(catalog, entries)
    /\ op' = IF op.kind = "reconnect" THEN [op EXCEPT !.pc = "rebase"] ELSE idle_op
    /\ UNCHANGED <<entries, config, integrityVars, stranded, envVars, signals, ref, adm>>

OpRebase ==
    /\ op.pc = "rebase"
    /\ rebase_integrity_baseline
    /\ op' = idle_op
    /\ UNCHANGED <<entries, config, catalog, quarantined, stranded, envVars, signals, ref, adm>>

OpAbort ==
    /\ op.pc # "idle"
    /\ op' = idle_op
    /\ UNCHANGED <<registryVars, envVars, signals, ref, adm>>

OpStep == OpFetch \/ OpWrite \/ OpSync \/ OpRebase

-----------------------------------------------------------------------------
(* The upstreams.  A reachable upstream may announce a changed tool list   *)
(* over the connections open to it, those of the tasks in flight included; *)
(* many do not, and a listen stream that has ended is not opened again.    *)
(* The signal is dropped when the channel is full.                         *)

Connections ==
    {e.peer : e \in {entries[i] : i \in DOMAIN entries} \cup {ref.done[i] : i \in DOMAIN ref.done}
                     \cup ({adm.entry, op.entry} \ {None})}

\* Mutant: a signal that arrives during a refresh is taken as served.
signal_if_idle == signals' = IF ref.pc = "idle" THEN ChannelCap ELSE signals

signal == signals' = IF signals < ChannelCap THEN signals + 1 ELSE signals

OfferChange(u, t, v) ==
    /\ changes < MaxChanges
    /\ offer[u][t] # v
    /\ offer' = [offer EXCEPT ![u][t] = v]
    /\ changes' = changes + 1
    /\ \/ u \in up \cap Connections /\ signal /\ UNCHANGED heard
       \/ heard' = FALSE /\ UNCHANGED signals
    /\ UNCHANGED <<registryVars, up, tick, ref, adm, op>>

UpChange(u) ==
    /\ changes < MaxChanges
    /\ up' = IF u \in up THEN up \ {u} ELSE up \cup {u}
    /\ changes' = changes + 1
    /\ UNCHANGED <<registryVars, offer, heard, tick, signals, ref, adm, op>>

Environment ==
    \/ \E u \in Urls, t \in Tools, v \in 0..MaxFp : OfferChange(u, t, v)
    \/ \E u \in Urls : UpChange(u)

Next ==
    \/ Refresh
    \/ \E s \in Servers, c \in Confs : CreateServer(s, c) \/ UpdateServer(s, c)
    \/ \E s \in Servers : DeleteServer(s)
    \/ AdminStep \/ AdminAbort
    \/ \E k \in Loose, s \in Servers : OpStart(k, s)
    \/ OpStep \/ OpAbort
    \/ Environment

Spec == Init /\ [][Next]_vars

(* The timer keeps ticking and the refresh goes on, but for its calls to    *)
(* the upstreams: they have no timeout, so that they end is no assumption. *)
RefreshOwn ==
    \/ RefreshStart \/ RefreshMerge \/ RefreshSync
    \/ RefreshRead \/ RefreshCheck \/ RefreshRebase
FairSpec == Spec /\ WF_vars(RefreshOwn)

-----------------------------------------------------------------------------
(* Properties *)

(* Type correctness of the registry, the tasks and what they feed. *)
TypeOK ==
    /\ entries \in Seq(Entry)
    /\ DOMAIN config \subseteq Servers /\ config \in [DOMAIN config -> Conf]
    /\ catalog \subseteq Servers \X Tool
    /\ baseline \subseteq Tool /\ approved \subseteq Tool /\ stranded \subseteq Servers
    /\ quarantined \subseteq Namespaces \X Tools
    /\ offer \in [Urls -> [Tools -> 0..MaxFp]]
    /\ up \subseteq Urls /\ changes \in 0..MaxChanges
    /\ heard \in BOOLEAN /\ tick \in BOOLEAN
    /\ signals \in 0..ChannelCap
    /\ ref.pc \in {"idle", "fetch", "sync", "read", "check", "rebase"}
    /\ ref.todo \in Seq(Entry) /\ ref.done \in Seq(Entry)
    /\ adm.pc \in {"idle", "fetch", "write", "swap", "install", "sync", "rebase"}
    /\ adm.entry \in Entry \cup {None}
    /\ op.pc \in {"idle", "fetch", "write", "sync", "rebase"}
    /\ op.entry \in Entry \cup {None}

Consistent(e) ==
    /\ e.peer = None => e.tools = {}
    /\ e.peer # None => e.peer = e.conf.url
    /\ e.status = "ok" => e.peer # None
    /\ e.status = "disabled" <=> ~e.conf.enabled

(* Whatever refreshes, updates, probes and reconnects overlap, an entry is *)
(* of one piece: no tools without a connection (registry.rs, the invariant *)
(* of McpServerEntry), a connection only to the entry's own url with its   *)
(* own auth, "ok" only while connected, "disabled" exactly when the        *)
(* configuration it carries says so.                                       *)
EntryConsistent == \A i \in DOMAIN entries : Consistent(entries[i])

(* Between admin writes the registry holds exactly the configured servers, *)
(* each once: the merge of a refresh and the write-back of a probe neither *)
(* lose a server added meanwhile nor bring back one removed meanwhile.     *)
(* Only a server whose own last write ended half-way may differ.           *)
IdsMatch ==
    /\ AdminWriteFree => \A s \in Servers \ stranded : s \in Ids(entries) <=> s \in DOMAIN config
    /\ \A i, j \in DOMAIN entries : entries[i].id = entries[j].id => i = j

(* The catalog shows no tool of a server that is not configured: the admin *)
(* write lock keeps the syncs of refresh and probe out of the time between *)
(* the registry's change and the configuration's.  The server of a write   *)
(* may show up between the two locks of its swap, and stays in the catalog *)
(* when the write ends there or before.                                    *)
CatalogOwned ==
    \A c \in catalog : \/ c[1] \in DOMAIN config \cup stranded
                       \/ adm.pc = "install" /\ c[1] = adm.id

(* Configuration, registry and catalog speak of the same servers, although *)
(* each is changed under a lock of its own: the parts above, with types.   *)
ServersMatch == TypeOK /\ IdsMatch /\ CatalogOwned

(* While no server is created, no two entries hold the same wire name,     *)
(* although the refresh checks names against its own snapshot and a probe  *)
(* against the registry.                                                   *)
NamesUnique ==
    \A i, j \in DOMAIN entries :
        i # j => Names(entries[i].tools) \cap Names(entries[j].tools) = {}

(* No definition enters the baseline unnoticed: one that neither start-up  *)
(* nor an admin action pinned belongs to a quarantined tool, or to a       *)
(* namespace of a server that only warns.                                  *)
NoSilentDrift ==
    \A x \in baseline :
        \/ x \in approved
        \/ Name(x) \in quarantined
        \/ \E s \in DOMAIN config : config[s].ns = x[1] /\ ~config[s].strict

(* A wire name stands for one tool of one server, and for the definition   *)
(* that was approved (dedup.rs, check_drift): the two above.               *)
NameMeansOneTool == NamesUnique /\ NoSilentDrift

Fresh ==
    \A i \in DOMAIN entries :
        LET e == entries[i] IN
        e.conf.enabled /\ e.conf.url \in up =>
            /\ \A x \in wrap_tools(e.conf, e.conf.url) :
                    \E c \in catalog : Name(c[2]) = Name(x)
            /\ \A c \in catalog : c[1] = e.id => c[2] \in wrap_tools(e.conf, e.conf.url)

(* Once the upstreams stop changing and the admins stop writing and        *)
(* probing, and unless an upstream keeps the refresh waiting for ever, the *)
(* catalog comes to show, for good, what every enabled reachable server    *)
(* offers: by the timer, which also reconnects the servers without a       *)
(* connection; and, when the interval is 0, by list_changed signals alone, *)
(* although they are coalesced and dropped, as long as every change is     *)
(* announced, all upstreams stay reachable and no probe or reconnect       *)
(* writes back an answer from before the change.                           *)
EventuallyFresh ==
    (/\ []<>(ref.pc # "fetch")
     /\ \/ tick /\ <>[](op.pc = "idle" /\ AdminWriteFree)
        \/ [](heard /\ up = Urls /\ op.pc = "idle" /\ AdminWriteFree)) => <>[]Fresh

(* Between admin writes every entry carries the configuration last written *)
(* for its server: no refresh that began earlier overwrites the outcome of *)
(* a completed update.                                                     *)
UpdateSticks ==
    AdminWriteFree => \A i \in DOMAIN entries :
        entries[i].id \notin stranded => entries[i].conf = config[entries[i].id]
=============================================================================
