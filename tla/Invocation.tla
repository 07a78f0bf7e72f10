----------------------------- MODULE Invocation -----------------------------
(* One request from its arrival at /v1/tools or /mcp to its answer.  On its    *)
(* way it reads the running state piece by piece: the configuration, the table *)
(* of credentials, the catalog, the quarantine set, the live MCP registry (up  *)
(* to three times) and the quota of its key.  Meanwhile an administrator       *)
(* replaces configuration, catalog and credentials one after the other,        *)
(* servers come and go, tools are quarantined, and a timeout may drop the      *)
(* handler of a /v1 request at any await.                                      *)
(*                                                                             *)
(* A version of the configuration says which keys exist, what their scopes are,*)
(* which keys have a token and which API resources there are; an HTTP tool     *)
(* stands for its resource, an MCP tool for its server.  A tool is called by   *)
(* its canonical name or by a shorter one that tools may share.                *)
EXTENDS Naturals, Sequences, FiniteSets, SequencesExt

CONSTANTS Calls,       \* requests
          Keys, HttpTools, McpTools,
          Shorts,      \* shorter names
          ShortOf,     \* [Tools -> Shorts]
          Versions,    \* sequence of configurations, in the order they are put
          Batches,     \* batches of names that are sent
          NoKey,       \* no credential; the open mode's key
          None,
          RequestTimeout, \* FALSE: request_timeout_secs is 0, there is none
          MaxFlips     \* bound on changes of the registry and the quarantine set

Tools == HttpTools \cup McpTools
Names == Tools \cup Shorts
DefaultKey == NoKey
Config == [scope : [Keys -> SUBSET Tools \cup {None}], tokens : SUBSET Keys,
           resources : SUBSET HttpTools, closed : BOOLEAN, lazy : SUBSET Keys]

ASSUME InvocationAssumption ==
    /\ Versions \in Seq(Config) /\ Versions # <<>>
    /\ ShortOf \in [Tools -> Shorts]
    /\ HttpTools \cap McpTools = {} /\ Tools \cap Shorts = {}
    /\ NoKey \notin Keys /\ None \notin Tools /\ IsFiniteSet(Calls)
    /\ RequestTimeout \in BOOLEAN /\ Batches \subseteq Seq(Names) /\ <<>> \notin Batches

(* The steps of a request up to the pipeline, by the door it came through.     *)
Doors == {"rest", "rest_call", "rest_batch", "rest_list", "rest_search",
          "rest_config", "mcp", "mcp_call", "mcp_batch", "mcp_list",
          "mcp_search", "mcp_prompt", "mcp_surface"}
RestDoors == {"rest", "rest_call", "rest_batch", "rest_list", "rest_search",
              "rest_config"}
Batch == {"rest_batch", "mcp_batch"}
Reading == {"rest_list", "rest_search", "rest_config", "mcp_list", "mcp_search",
            "mcp_surface"}

\* What a request may name: nothing, one tool or prompt, or several tools.
Asks(d) ==
    CASE d \in Reading -> {<<>>}
      [] d = "mcp_prompt" -> {<<t>> : t \in McpTools}
      [] d \in Batch -> Batches
      [] OTHER -> {<<n>> : n \in Names}

VARIABLES cfgV, catV, authV,  \* versions the three parts were built from
          catMcp,      \* MCP tools of the catalog
          registry,    \* MCP tools a connected server offers
          quarantined,
          used,        \* calls charged to a key
          flips,
          call,        \* the state of each request
          events,      \* request events of each request, and what became of
                       \* their rows: open, a row, failed, cut off
          sent         \* history: tools each request called upstream

vars == <<cfgV, catV, authV, catMcp, registry, quarantined, used, flips, call,
          events, sent>>
shared == <<cfgV, catV, authV, catMcp, registry, quarantined, flips>>

NoCall == [pc |-> "idle", door |-> "rest", cred |-> NoKey, names |-> <<>>,
           cfg |-> 1, key |-> NoKey, keyV |-> 1, bound |-> FALSE,
           cat |-> {}, canonical |-> None, remote |-> FALSE, path |-> "http",
           quota |-> "none", out |-> "none", results |-> <<>>, shown |-> {},
           since |-> 1, stillQ |-> {}, cut |-> FALSE]

Steps == {"idle", "gate", "config", "auth", "lookup", "config2", "snap",
          "resolve", "quarantine", "branch", "admit", "secret", "upstream",
          "finish", "persist", "post", "peer", "list", "search", "surface",
          "summary", "done"}
Results == {"refused", "limited", "failed", "success", "tool_error", "input"}

----------------------------------------------------------------------------
(* Policy, catalog and credentials as the request sees them.                  *)

keys(v) == {k \in Keys : Versions[v].scope[k] # None}
mcp_auth_required(v) == Versions[v].tokens \cap keys(v) # {}

\* The key of the open mode may use everything.
key_can_use_tool(v, k, t) ==
    k = DefaultKey \/ t \in Versions[v].scope[k]

catalog == Versions[catV].resources \cup catMcp

\* A canonical name is found whatever the scope; a shorter one only among the
\* tools the key may use, and only when it is unique there.
resolve_for_key(tools, n, v, k) ==
    LET hits == {t \in tools : ShortOf[t] = n /\ key_can_use_tool(v, k, t)}
    IN IF n \in tools THEN n
       ELSE IF Cardinality(hits) = 1 THEN CHOOSE t \in hits : TRUE ELSE None

\* A key without a token is recognised by its id, on /v1 only.
authenticate(v, cred, queryKey) ==
    /\ cred \in keys(v)
    /\ cred \in Versions[v].tokens \/ queryKey

----------------------------------------------------------------------------
(* The running state changes under the requests.                              *)

\* A swap of an administrator's write replaces the parts in this order.
SwapConfig ==
    /\ cfgV = authV /\ cfgV < Len(Versions)
    /\ cfgV' = cfgV + 1
    /\ UNCHANGED <<catV, authV, catMcp, registry, quarantined, used, flips, call,
                   events, sent>>
SwapCatalog ==
    /\ catV < cfgV /\ catV' = cfgV
    /\ UNCHANGED <<cfgV, authV, catMcp, registry, quarantined, used, flips, call,
                   events, sent>>
SwapAuth ==
    /\ authV < catV /\ authV' = catV
    /\ UNCHANGED <<cfgV, catV, catMcp, registry, quarantined, used, flips, call,
                   events, sent>>

\* A server is lost or comes back; the catalog follows in a step of its own.
RegistryChanges(t) ==
    /\ flips < MaxFlips /\ flips' = flips + 1
    /\ registry' = IF t \in registry THEN registry \ {t} ELSE registry \cup {t}
    /\ UNCHANGED <<cfgV, catV, authV, catMcp, quarantined, used, call, events, sent>>
CatalogFollows ==
    /\ catMcp # registry /\ catMcp' = registry
    /\ UNCHANGED <<cfgV, catV, authV, registry, quarantined, used, flips, call,
                   events, sent>>

Quarantine(t) ==
    /\ flips < MaxFlips /\ flips' = flips + 1
    /\ t \notin quarantined /\ quarantined' = quarantined \cup {t}
    /\ UNCHANGED <<cfgV, catV, authV, catMcp, registry, used, call, events, sent>>
Release(t) ==
    /\ flips < MaxFlips /\ flips' = flips + 1
    /\ t \in quarantined /\ quarantined' = quarantined \ {t}
    /\ call' = [c \in Calls |-> [call[c] EXCEPT !.stillQ = @ \ {t}]]
    /\ UNCHANGED <<cfgV, catV, authV, catMcp, registry, used, events, sent>>

----------------------------------------------------------------------------
(* The way to the pipeline.                                                   *)

Route ==
    [rest       |-> <<"config", "auth", "snap", "resolve">>,
     rest_call  |-> <<"config", "auth", "lookup", "config2", "snap", "resolve">>,
     rest_batch |-> <<"config", "auth", "config2", "snap", "lookup", "resolve">>,
     rest_list  |-> <<"config", "auth", "list">>,
     rest_search |-> <<"config", "auth", "config2", "snap", "search">>,
     rest_config |-> <<"config", "auth", "summary">>,
     mcp        |-> <<"gate", "config", "auth", "snap", "lookup", "resolve">>,
     mcp_call   |-> <<"gate", "config", "auth", "config2", "snap", "lookup", "resolve">>,
     mcp_batch  |-> <<"gate", "config", "auth", "config2", "snap", "lookup", "resolve">>,
     mcp_list   |-> <<"gate", "config", "auth", "list">>,
     mcp_search |-> <<"gate", "config", "auth", "snap", "search">>,
     mcp_prompt |-> <<"gate", "config", "auth", "peer">>,
     mcp_surface |-> <<"gate", "config", "auth", "surface">>]

After(c) ==
    LET r == Route[call[c].door]
    IN r[1 + CHOOSE i \in DOMAIN r : r[i] = call[c].pc]

Set(c, rec) == call' = [call EXCEPT ![c] = rec]
Local == UNCHANGED <<shared, used, events, sent>>

\* The handler ends and its locals with it.
Ended(rec) ==
    [rec EXCEPT !.pc = "done", !.cfg = 1, !.bound = FALSE, !.cat = {},
                !.canonical = None, !.remote = FALSE, !.path = "http",
                !.quota = "none"]

\* The item of a batch that is worked on, the only one of the other doors.
Item(c) == call[c].names[Len(call[c].results) + 1]

\* Mutant: an item of a batch that was refused is tried again.
AnswerRetrying(r, rec) ==
    LET again == rec.door \in Batch /\ r = "refused"
        rs == IF again THEN rec.results ELSE Append(rec.results, r)
        more == rec.door \in Batch /\ Len(rs) < Len(rec.names)
    IN IF more THEN [rec EXCEPT !.results = rs, !.quota = "none", !.pc = "lookup"]
               ELSE [Ended(rec) EXCEPT !.results = rs]

\* An answer for the item; a batch goes on with the next one, whatever it was.
Answer(r, rec) ==
    LET rs == Append(rec.results, r)
        more == rec.door \in Batch /\ Len(rs) < Len(rec.names)
    IN IF more THEN [rec EXCEPT !.results = rs, !.quota = "none", !.pc = "lookup"]
               ELSE [Ended(rec) EXCEPT !.results = rs]

\* The request is refused as a whole.
Refuse(c) == [Ended(call[c]) EXCEPT !.results = <<"refused">>]

Arrive(c, d) ==
    /\ call[c].pc = "idle"
    /\ \E k \in Keys \cup {NoKey}, ns \in Asks(d) :
          Set(c, [NoCall EXCEPT !.pc = Head(Route[d]), !.door = d, !.cred = k,
                                !.names = ns, !.since = authV,
                                !.stillQ = quarantined])
    /\ Local

\* A request on /v1, and one on /mcp.
invoke_tool(c) == \E d \in RestDoors : Arrive(c, d)
call_tool(c) == \E d \in Doors \ RestDoors : Arrive(c, d)

\* /mcp asks for a token as soon as one key has one; otherwise it is open.
require_mcp_auth(c) ==
    /\ call[c].pc = "gate"
    /\ LET v == authV IN
       Set(c, IF ~mcp_auth_required(v)
              THEN [call[c] EXCEPT !.pc = After(c)]
              ELSE IF authenticate(v, call[c].cred, FALSE)
              THEN [call[c] EXCEPT !.pc = After(c), !.bound = TRUE]
              ELSE Refuse(c))
    /\ Local

config_snapshot(c) ==
    /\ call[c].pc = "config"
    /\ Set(c, [call[c] EXCEPT !.cfg = cfgV, !.pc = After(c)])
    /\ Local

\* asl__call, asl__batch and asl__search take a fresh one, with the key of the
\* first.
fresh_config(c) ==
    /\ call[c].pc = "config2"
    /\ Set(c, [call[c] EXCEPT !.cfg = cfgV, !.pc = After(c)])
    /\ Local

\* The id has to be known to the snapshot taken before, too.
proxy_key_for(c) ==
    /\ call[c].pc = "auth" /\ call[c].door \in RestDoors
    /\ Set(c, IF /\ authenticate(authV, call[c].cred, TRUE)
                 /\ call[c].cred \in keys(call[c].cfg)
              THEN [call[c] EXCEPT !.key = call[c].cred, !.keyV = call[c].cfg,
                                   !.pc = After(c)]
              ELSE Refuse(c))
    /\ Local

resolve_proxy_key(c) ==
    /\ call[c].pc = "auth" /\ call[c].door \notin RestDoors
    /\ Set(c, IF call[c].bound
              THEN IF call[c].cred \in keys(call[c].cfg)
                   THEN [call[c] EXCEPT !.key = call[c].cred,
                                        !.keyV = call[c].cfg, !.pc = After(c)]
                   ELSE Refuse(c)
              ELSE IF mcp_auth_required(authV) THEN Refuse(c)
              ELSE [call[c] EXCEPT !.key = DefaultKey, !.keyV = call[c].cfg,
                                   !.pc = After(c)])
    /\ Local

list_blocked_by_fail_closed(v) ==
    Versions[v].closed /\ registry # McpTools

\* A key without a mode is lazy, the key of the open mode too.
is_lazy(c) ==
    call[c].key = DefaultKey \/ call[c].key \in Versions[call[c].keyV].lazy

Visible(c, tools) ==
    {t \in tools : key_can_use_tool(call[c].keyV, call[c].key, t)}

\* tools/list: refused as a whole when a server is down and the mode says so,
\* the meta tools alone for a key in lazy mode.
list_tools(c) ==
    /\ call[c].pc = "list"
    /\ Set(c, IF list_blocked_by_fail_closed(call[c].cfg) THEN Refuse(c)
              ELSE [Ended(call[c]) EXCEPT !.results = <<"success">>,
                      !.shown = IF is_lazy(c) THEN {} ELSE Visible(c, catalog)])
    /\ Local

\* asl__search, asl__status and asl__describe work on a clone of the catalog.
meta_discovery(c) ==
    /\ call[c].pc = "search"
    /\ Set(c, [Ended(call[c]) EXCEPT !.results = <<"success">>,
                                     !.shown = Visible(c, call[c].cat)])
    /\ Local

\* Prompts, resources and templates are listed from the registry.
list_prompts_for(c) ==
    /\ call[c].pc = "surface"
    /\ Set(c, [Ended(call[c]) EXCEPT !.results = <<"success">>,
                                     !.shown = Visible(c, registry)])
    /\ Local

\* GET /config counts against the rates of the key, not against its quota.
get_config(c) ==
    /\ call[c].pc = "summary"
    /\ \E r \in {"success", "refused"} :
          Set(c, [Ended(call[c]) EXCEPT !.results = <<r>>])
    /\ Local

\* The catalog is cloned for the executor.
Snapshot(c) ==
    /\ call[c].pc = "snap"
    /\ Set(c, [call[c] EXCEPT !.cat = catalog, !.pc = After(c)])
    /\ Local

\* asl__call over /v1 resolves in the catalog of the moment, the others in
\* their clone.
meta_call(c) == IF call[c].door = "rest_call" THEN catalog ELSE call[c].cat

\* A batch checks the scope before the pipeline does.
call_one(c, t) ==
    call[c].door \in Batch => key_can_use_tool(call[c].keyV, call[c].key, t)

\* The meta tools and /mcp resolve the name before the executor does, and note
\* whether the tool is an MCP tool at that moment.
Lookup(c) ==
    /\ call[c].pc = "lookup"
    /\ LET t == resolve_for_key(meta_call(c), Item(c), call[c].keyV, call[c].key)
       IN Set(c, IF t = None \/ ~call_one(c, t) THEN Answer("refused", call[c])
                 ELSE [call[c] EXCEPT !.canonical = t, !.remote = t \in registry,
                                      !.pc = After(c)])
    /\ Local

----------------------------------------------------------------------------
(* The pipeline.                                                              *)

resolve_call(c) ==
    /\ call[c].pc = "resolve"
    /\ LET n == IF call[c].door = "rest" THEN Item(c) ELSE call[c].canonical
           t == resolve_for_key(call[c].cat, n, call[c].keyV, call[c].key)
       IN Set(c, IF t = None THEN Answer("refused", call[c])
                 ELSE [call[c] EXCEPT !.canonical = t, !.pc = "quarantine"])
    /\ Local

\* Mutant: looks the name of the caller up, not the canonical one.
check_quarantine_by_name(c) ==
    /\ call[c].pc = "quarantine"
    /\ Set(c, IF Item(c) \in quarantined THEN Answer("refused", call[c])
              ELSE [call[c] EXCEPT !.pc = "branch"])
    /\ Local

check_quarantine(c) ==
    /\ call[c].pc = "quarantine"
    /\ Set(c, IF call[c].canonical \in quarantined
              THEN Answer("refused", call[c])
              ELSE [call[c] EXCEPT !.pc = "branch"])
    /\ Local

\* Mutant: leaves the check of the scope to the resolution of the name.
ensure_allowed_if_short(c) ==
    \/ Item(c) \notin Shorts
    \/ key_can_use_tool(call[c].keyV, call[c].key, call[c].canonical)

ensure_allowed(c) ==
    key_can_use_tool(call[c].keyV, call[c].key, call[c].canonical)

\* The registry of this moment decides between the two ways; the tool of an
\* HTTP call has to have its resource in the snapshot.
invoke_remote_mcp(c) ==
    /\ call[c].canonical \in registry
    /\ Set(c, IF ensure_allowed(c)
              THEN [call[c] EXCEPT !.path = "mcp", !.pc = "admit"]
              ELSE Answer("refused", call[c]))
invoke_http(c) ==
    /\ call[c].canonical \notin registry
    /\ Set(c, IF /\ call[c].canonical \in Versions[call[c].cfg].resources
                 /\ ensure_allowed(c)
              THEN [call[c] EXCEPT !.path = "http", !.pc = "admit"]
              ELSE Answer("refused", call[c]))
invoke_call(c) ==
    /\ call[c].pc = "branch"
    /\ invoke_remote_mcp(c) \/ invoke_http(c)
    /\ Local

\* prompts/get and resources/read: not there and not allowed are the same answer.
resolve_prompt(c, t) ==
    t \in registry /\ key_can_use_tool(call[c].keyV, call[c].key, t)
get_prompt_for(c) ==
    /\ call[c].pc = "peer"
    /\ Set(c, IF resolve_prompt(c, Item(c))
              THEN [call[c] EXCEPT !.canonical = Item(c), !.path = "peer",
                                   !.pc = "admit"]
              ELSE Refuse(c))
    /\ Local

\* The event is counted in the metrics at once; its row is still to be written.
Record(c, status) ==
    events' = [events EXCEPT ![c] =
                 Append(@, [tool |-> call[c].canonical, status |-> status,
                            saved |-> "open"])]

\* Charged, or turned away with an event of its own (rates, quota, a full or
\* slow queue: LimitRegistry).
admit(c) ==
    /\ call[c].pc = "admit"
    /\ \/ /\ Set(c, [call[c] EXCEPT !.quota = "held",
                       !.pc = IF call[c].path = "http" THEN "secret" ELSE "upstream"])
          /\ used' = [used EXCEPT ![call[c].key] = @ + 1]
          /\ UNCHANGED events
       \/ /\ Record(c, "Limited")
          /\ Set(c, [call[c] EXCEPT !.out = "limited", !.pc = "persist"])
          /\ UNCHANGED used
    /\ UNCHANGED <<shared, sent>>

\* Mutant: there is no guard, only what the normal end of a call gives back.
DroppedKept(c) ==
    used' = [used EXCEPT ![call[c].key] =
               IF call[c].quota = "held" /\ call[c].pc = "persist" THEN @ - 1 ELSE @]

\* The quota guard gives the call back when it is dropped uncommitted.
Dropped(c) ==
    used' = [used EXCEPT ![call[c].key] =
               IF call[c].quota = "held" THEN @ - 1 ELSE @]

resolve_upstream_secret(c) ==
    /\ call[c].pc = "secret"
    /\ \/ Set(c, [call[c] EXCEPT !.pc = "upstream"]) /\ UNCHANGED used
       \/ Set(c, Answer("refused", call[c])) /\ Dropped(c)
    /\ UNCHANGED <<shared, events, sent>>

\* How an upstream may answer; a task handle and an unknown kind of result are
\* failures.
Outcomes(c) ==
    {"success", "failed"} \cup
    (IF call[c].path = "mcp" THEN {"tool_error", "input"} ELSE {})

\* The registry is asked a third time; the peer of a prompt is held since the
\* resolution.  HTTP answers come through the retry loop (RetryLoop).
Upstream(c) ==
    /\ call[c].pc = "upstream"
    /\ \/ /\ call[c].path = "mcp" /\ call[c].canonical \notin registry
          /\ Set(c, [call[c] EXCEPT !.pc = "finish", !.out = "failed"])
          /\ UNCHANGED sent
       \/ /\ call[c].path = "mcp" => call[c].canonical \in registry
          /\ \E o \in Outcomes(c) : Set(c, [call[c] EXCEPT !.pc = "finish", !.out = o])
          /\ sent' = [sent EXCEPT ![c] = @ \cup {call[c].canonical}]
    /\ UNCHANGED <<shared, used, events>>

\* Everything but a failure is charged; one event each.
finish(c) ==
    /\ call[c].pc = "finish"
    /\ IF call[c].out = "failed"
       THEN /\ Record(c, "Failed") /\ Set(c, [call[c] EXCEPT !.pc = "persist"])
       ELSE /\ Record(c, "Success")
            /\ Set(c, [call[c] EXCEPT !.quota = "committed", !.pc = "persist"])
    /\ UNCHANGED <<shared, used, sent>>

\* The three ends: of an HTTP call, of a call of a remote tool and of a prompt.
finish_http(c) == call[c].path = "http" /\ finish(c)
finish_remote(c) == call[c].path = "mcp" /\ finish(c)
call_accounted(c) == call[c].path = "peer" /\ finish(c)

\* What became of the row of the last event.
Saved(ev, s) ==
    [i \in DOMAIN ev |-> IF i = Len(ev) THEN [ev[i] EXCEPT !.saved = s] ELSE ev[i]]

\* The row is written; a failed write only warns.  A call that was turned away or
\* failed is answered then, and its guard dropped.
persist_request_event(c) ==
    /\ call[c].pc = "persist"
    /\ \E s \in {"row", "failed"} : events' = [events EXCEPT ![c] = Saved(@, s)]
    /\ IF call[c].out \in {"limited", "failed"}
       THEN Set(c, Answer(call[c].out, call[c])) /\ Dropped(c)
       ELSE Set(c, [call[c] EXCEPT !.pc = "post"]) /\ UNCHANGED used
    /\ UNCHANGED <<shared, sent>>

\* What the client is shown.  /v1 passes the body on; the others read it as a
\* tool result only if they took the tool for an MCP tool.
invoke_result_to_mcp(c) ==
    CASE call[c].out = "tool_error" ->
           IF call[c].remote \/ call[c].door \in {"rest", "mcp_prompt"}
           THEN "tool_error" ELSE "success"
      [] call[c].out = "input" ->
           IF call[c].door = "rest_call" THEN "success" ELSE "input"
      [] OTHER -> "success"

\* Defense, rendering and shaping (ResultCache) and the answer.
Post(c) ==
    /\ call[c].pc = "post"
    /\ Set(c, Answer(invoke_result_to_mcp(c), call[c]))
    /\ Local

\* The timeout of the /v1 routes drops the handler at an await; a row that is
\* being written is there or not.
Cut(c) ==
    /\ RequestTimeout /\ call[c].door \in RestDoors
    /\ call[c].pc \notin {"idle", "done"}
    /\ Set(c, [Ended(call[c]) EXCEPT !.cut = TRUE])
    /\ Dropped(c)
    /\ IF call[c].pc = "persist"
       THEN \E s \in {"row", "cut"} : events' = [events EXCEPT ![c] = Saved(@, s)]
       ELSE UNCHANGED events
    /\ UNCHANGED <<shared, sent>>

----------------------------------------------------------------------------
Init ==
    /\ cfgV = 1 /\ catV = 1 /\ authV = 1
    /\ registry = McpTools /\ catMcp = McpTools
    /\ quarantined = {}
    /\ used = [k \in Keys \cup {NoKey} |-> 0]
    /\ flips = 0
    /\ call = [c \in Calls |-> NoCall]
    /\ events = [c \in Calls |-> <<>>]
    /\ sent = [c \in Calls |-> {}]

\* The steps of the gateway itself: locks, and a queue that ends by its timeout.
Own(c) ==
    \/ require_mcp_auth(c) \/ config_snapshot(c) \/ fresh_config(c) \/ proxy_key_for(c)
    \/ resolve_proxy_key(c) \/ list_tools(c) \/ get_config(c)
    \/ meta_discovery(c) \/ list_prompts_for(c) \/ Snapshot(c) \/ Lookup(c)
    \/ resolve_call(c) \/ check_quarantine(c) \/ invoke_call(c)
    \/ get_prompt_for(c) \/ admit(c)
    \/ finish_http(c) \/ finish_remote(c) \/ call_accounted(c)

\* The steps that wait for a secret store, an upstream or the database.
Abroad == {"secret", "upstream", "persist", "post"}
Wait(c) ==
    resolve_upstream_secret(c) \/ Upstream(c) \/ persist_request_event(c) \/ Post(c)

Next ==
    \/ SwapConfig \/ SwapCatalog \/ SwapAuth \/ CatalogFollows
    \/ \E t \in McpTools : RegistryChanges(t)
    \/ \E t \in Tools : Quarantine(t) \/ Release(t)
    \/ \E c \in Calls : invoke_tool(c) \/ call_tool(c) \/ Own(c) \/ Wait(c) \/ Cut(c)

\* The gateway goes on and its timer fires.  Nothing is assumed of the others: no
\* timeout covers the body of an answer, two of the secret stores, an MCP server
\* or the database.
Fairness == \A c \in Calls : WF_vars(Own(c)) /\ WF_vars(Cut(c))

Spec == Init /\ [][Next]_vars /\ Fairness

----------------------------------------------------------------------------
(* Properties.                                                                *)

\* Types of the state.
TypeOK ==
    /\ cfgV \in DOMAIN Versions /\ catV \in 1..cfgV /\ authV \in 1..catV
    /\ catMcp \subseteq McpTools /\ registry \subseteq McpTools
    /\ quarantined \subseteq Tools
    /\ used \in [Keys \cup {NoKey} -> Nat]
    /\ \A c \in Calls :
          /\ call[c].pc \in Steps /\ call[c].door \in Doors
          /\ call[c].key \in Keys \cup {NoKey}
          /\ call[c].key \in Keys => call[c].key \in keys(call[c].keyV)
          /\ call[c].canonical \in Tools \cup {None}
          /\ call[c].results \in Seq(Results)
          /\ call[c].quota \in {"none", "held", "committed"}

\* What one version allows the sender of a request to do.
Entitled(v, c, t) ==
    LET k == call[c].key
    IN IF k = DefaultKey THEN ~mcp_auth_required(v)
       ELSE k = call[c].cred /\ k \in keys(v) /\ t \in Versions[v].scope[k]

\* A change that was complete when a request arrived binds it: whatever it calls
\* upstream (invoke_call, call_accounted) or is shown (list_tools), some version
\* in force between its arrival and now allows, although credentials, scope and
\* catalog are read at different moments and under different locks.
ChangesBind ==
    \A c \in Calls : \A t \in sent[c] \cup call[c].shown :
        \E v \in call[c].since..cfgV : Entitled(v, c, t)

\* A tool that has been in quarantine since before the request arrived is not
\* called, by whatever name it is asked for; prompts of a server are not
\* subject to it (check_quarantine).
QuarantineHolds ==
    \A c \in Calls :
        call[c].door # "mcp_prompt" => sent[c] \cap call[c].stillQ = {}

\* The events a sequence of answers should have left.
EventOf(r) ==
    CASE r = "refused" -> <<>>
      [] r = "limited" -> <<"Limited">>
      [] r = "failed" -> <<"Failed">>
      [] OTHER -> <<"Success">>
StatusOf(c) == [i \in DOMAIN events[c] |-> events[c][i].status]

\* The accounting rules of the pipeline's documentation: one event for a call
\* that was admitted and one for a call that was turned away by the limits,
\* none for one that failed before; and a batch answers each of its items.
Accounted ==
    \A c \in Calls :
        call[c].pc = "done" /\ ~call[c].cut /\ call[c].door \notin Reading =>
        /\ StatusOf(c) = FlattenSeq([i \in DOMAIN call[c].results |->
                                       EventOf(call[c].results[i])])
        /\ call[c].results = <<"refused">>
           \/ Len(call[c].results) = Len(call[c].names)

Successes(k) ==
    LET S == {p \in UNION {{c} \X DOMAIN events[c] : c \in Calls} :
                call[p[1]].key = k /\ events[p[1]][p[2]].status = "Success"}
    IN Cardinality(S)
Held(k) == Cardinality({c \in Calls : call[c].key = k /\ call[c].quota = "held"})

\* The quota of a key is what its success events say, plus the calls that are
\* still out: a refusal, a failure, a missing secret and a dropped handler all
\* give their call back (Admission, CallQuotaGuard).
QuotaMatchesEvents ==
    \A k \in Keys \cup {NoKey} : used[k] = Successes(k) + Held(k)

\* An event is without a row only while the row is written, after a write that
\* failed, and as the last one of a request that was cut off in the middle of it.
RowsFollow ==
    \A c \in Calls : \A i \in DOMAIN events[c] :
        \/ events[c][i].saved \in {"row", "failed"}
        \/ events[c][i].saved = "open" /\ i = Len(events[c]) /\ call[c].pc = "persist"
        \/ events[c][i].saved = "cut" /\ i = Len(events[c]) /\ call[c].cut

\* Answers, events, quotas and rows of a request agree, wherever it is cut off: the
\* call is committed (finish) before the row is written (persist_request_event),
\* so the charges a restart does not find are those of RowsFollow and no others.
AccountsAgree == TypeOK /\ Accounted /\ QuotaMatchesEvents /\ RowsFollow

\* A request is answered unless what it waits for never comes: it is not lost
\* between two steps and a batch does not go round in circles (Lookup, Answer).  On
\* /v1 with a timeout it ends even then (with_request_timeout); /mcp has none.
RequestsAnswered ==
    \A c \in Calls :
        call[c].pc # "idle" ~>
            \/ call[c].pc = "done"
            \/ [](/\ call[c].pc \in Abroad
                  /\ ~(RequestTimeout /\ call[c].door \in RestDoors))

\* An answer a tool marked as an error reaches the client as one: shaping keeps
\* is_error because it is part of what the tool says (shape_remote_mcp_result).
ToolErrorKept ==
    \A c \in Calls :
        call[c].pc = "done" /\ ~call[c].cut /\ Len(call[c].names) = 1
          /\ call[c].out = "tool_error" /\ call[c].results # <<"limited">>
        => Last(call[c].results) = "tool_error"
=============================================================================
