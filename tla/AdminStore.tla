----------------------------- MODULE AdminStore -----------------------------
(* The administrator's write path: resources, MCP servers and proxy keys are   *)
(* created, changed and removed, tokens issued and revoked, tool descriptions  *)
(* overridden.  A handler holds the admin lock from the read of the            *)
(* configuration to its last database write; in between it replaces the five   *)
(* parts of the running state that are derived from the configuration, one     *)
(* lock after the other, and the request timeout may drop it at any of these   *)
(* awaits.  Database writes are best effort.  At startup the rows of the       *)
(* database are merged into the startup file, which wins.                      *)
(*                                                                             *)
(* An entry of any kind is a revision (scopes, limits, urls: what an update    *)
(* replaces) and a part that an update keeps unless told otherwise: the        *)
(* credential of a key, the upstream key pool of a resource, the auth of a     *)
(* server.  Plain tokens and their digests are in one-to-one correspondence.   *)
EXTENDS Naturals

CONSTANTS Keys, Resources, Servers,  \* ids of the three kinds of entries
          Tokens,       \* tokens that can be generated
          YamlToken,    \* the token behind the token_ref of the startup file
          Refs,         \* secret refs of upstream keys
          Yaml,         \* the startup file: entry or None for every id
          Writers,      \* requests that change a tool description
          Descs,        \* descriptions
          Tool,         \* the tool whose description is overridden
          None,
          MaxRev, MaxNow, MaxBoots, MaxWrites

Ids == Keys \cup Resources \cup Servers
Bad == 0                   \* a revision that the build of the limits refuses
Never == 0                 \* expires_at is absent
Credential == [tok : Tokens \cup {YamlToken, None}, exp : 0..MaxNow + 1]
NoCredential == [tok |-> None, exp |-> Never]
Kept(i) == IF i \in Keys THEN Credential ELSE SUBSET Refs
EntryOf(i) == [rev : 1..MaxRev, kept : Kept(i)]
IsConfig(c) ==
    /\ c = [i \in Ids |-> c[i]]
    /\ \A i \in Ids : c[i] = None \/ c[i] \in EntryOf(i)

\* The ids of the three kinds, the tokens and None are told apart.  The startup
\* file is valid, lists no generated token and gives its token to one key.
ASSUME AdminStoreAssumption ==
    /\ Keys \cap Resources = {} /\ Keys \cap Servers = {} /\ Resources \cap Servers = {}
    /\ Keys \cap (Tokens \cup {YamlToken}) = {} /\ YamlToken \notin Tokens
    /\ None \notin Ids \cup Tokens \cup Descs \cup {YamlToken, Tool} /\ Tool \notin Ids
    /\ \A i \in Ids : None \notin [rev : Bad..MaxRev, kept : Kept(i)]
    /\ MaxRev \in Nat /\ MaxNow \in Nat /\ MaxBoots \in Nat /\ MaxWrites \in Nat
    /\ IsConfig(Yaml)
    /\ \A k \in Keys : Yaml[k] # None =>
          /\ Yaml[k].kept.tok \in {YamlToken, None}
          /\ \A l \in Keys : Yaml[l] # None /\ Yaml[l].kept.tok = YamlToken
                              /\ Yaml[k].kept.tok = YamlToken => l = k

\* The parts a swap replaces, in its order.
Parts == {"config", "catalog", "limits", "auth", "pools"}
After == [remove |-> "validate", validate |-> "config", config |-> "catalog",
          catalog |-> "limits", limits |-> "auth", auth |-> "pools",
          pools |-> "persist"]

VARIABLES mem,        \* the configuration each part was built from
          db,         \* resources, mcp_servers and proxy_keys tables
          upstreamKeys,  \* upstream_keys table: the refs stored per resource
          op,         \* the handler that holds the admin lock
          overlay,    \* the description override the catalog shows
          dbOverlay,  \* tool_metadata table
          meta,       \* handlers of description changes
          now,
          boots,
          writes,     \* handlers started, bounded by MaxWrites
          owner,      \* history: the key a token was issued for
          dead,       \* history: tokens whose retirement was answered
          failed      \* history: ids with a write that ended half-way or was overtaken

vars == <<mem, db, upstreamKeys, op, overlay, dbOverlay, meta, now, boots,
          writes, owner, dead, failed>>

NoHandler == [name |-> "none", id |-> None, new |-> Yaml, overlay |-> None,
              step |-> "idle"]
Idle == op.step = "idle"
config == mem["config"]

----------------------------------------------------------------------------
(* Authentication.                                                            *)

Holder(auth, t) ==
    {k \in Keys : auth[k] # None /\ auth[k].kept.tok = t}
legacy(auth) == Holder(auth, None)

check_expiry(auth, k) ==
    auth[k].kept.exp = Never \/ now < auth[k].kept.exp

\* A bearer token decides; the id of a key is accepted only when the key has
\* no token.  None stands for a refusal.
authenticate(auth, bearer, query_key) ==
    LET found == IF bearer # None THEN Holder(auth, bearer)
                                  ELSE legacy(auth) \cap {query_key}
        live == {k \in found : check_expiry(auth, k)}
    IN IF live = {} THEN None ELSE CHOOSE k \in live : TRUE

----------------------------------------------------------------------------
(* Startup.                                                                   *)

\* The startup file wins; rows that only the database has are added.
merge_db_into_config(rows) ==
    [i \in Ids |-> IF Yaml[i] # None THEN Yaml[i] ELSE rows[i]]

Init ==
    /\ mem = [p \in Parts |-> Yaml]
    /\ db = [i \in Ids |-> None]
    /\ upstreamKeys = [r \in Resources |-> {}]
    /\ op = NoHandler
    /\ overlay = None /\ dbOverlay = None
    /\ meta = [w \in Writers |-> [step |-> "idle", val |-> None]]
    /\ now = 0 /\ boots = 0 /\ writes = 0
    /\ owner = [t \in Tokens \cup {YamlToken} |->
                  IF Holder(Yaml, t) = {} THEN None
                                          ELSE CHOOSE k \in Holder(Yaml, t) : TRUE]
    /\ dead = {} /\ failed = {}

----------------------------------------------------------------------------
(* Handlers: the checks under the lock, before anything changes.              *)

Begin(name, i, entry, step) ==
    /\ Idle /\ writes < MaxWrites
    /\ writes' = writes + 1
    /\ op' = [name |-> name, id |-> i, new |-> [config EXCEPT ![i] = entry],
              overlay |-> None, step |-> step]
    /\ UNCHANGED <<mem, db, upstreamKeys, overlay, dbOverlay, meta, now, boots,
                   dead, failed>>

create_resource(r) ==
    /\ config[r] = None
    /\ \E rev \in Bad..MaxRev, pool \in SUBSET Refs :
          Begin("create", r, [rev |-> rev, kept |-> pool], "validate")
    /\ UNCHANGED owner

\* An omitted key pool keeps the one there is.
apply_update(e, rev, pool) ==
    [rev |-> rev, kept |-> IF pool = {} THEN e.kept ELSE pool]

update_resource(r) ==
    /\ config[r] # None
    /\ \E rev \in Bad..MaxRev, pool \in SUBSET Refs :
          Begin("update", r, apply_update(config[r], rev, pool), "validate")
    /\ UNCHANGED owner

delete_resource(r) ==
    config[r] # None /\ Begin("delete", r, None, "remove") /\ UNCHANGED owner

create_proxy_key(k) ==
    /\ config[k] = None
    /\ \E rev \in Bad..MaxRev :
          Begin("create", k, [rev |-> rev, kept |-> NoCredential], "validate")
    /\ UNCHANGED owner

update_proxy_key(k) ==
    /\ config[k] # None
    /\ \E rev \in Bad..MaxRev :
          Begin("update", k, [config[k] EXCEPT !.rev = rev], "validate")
    /\ UNCHANGED owner

delete_proxy_key(k) ==
    config[k] # None /\ Begin("delete", k, None, "remove") /\ UNCHANGED owner

\* The registry's side of these three is in McpRegistry; the limits were
\* validated before it, and the row goes after the swap.
create_server(s) ==
    /\ config[s] = None
    /\ \E rev \in 1..MaxRev, auth \in SUBSET Refs :
          Begin("create", s, [rev |-> rev, kept |-> auth], "validate")
    /\ UNCHANGED owner

update_server(s) ==
    /\ config[s] # None
    /\ \E rev \in 1..MaxRev, auth \in SUBSET Refs :
          Begin("update", s, apply_update(config[s], rev, auth), "validate")
    /\ UNCHANGED owner

delete_server(s) ==
    config[s] # None /\ Begin("delete", s, None, "validate") /\ UNCHANGED owner

\* A fresh random token replaces whatever credential the key had.
issue_token(k) ==
    /\ config[k] # None
    /\ \E t \in Tokens, exp \in {Never} \cup (now + 1)..MaxNow + 1 :
          /\ owner[t] = None
          /\ owner' = [owner EXCEPT ![t] = k]
          /\ Begin("token", k,
                   [config[k] EXCEPT !.kept = [tok |-> t, exp |-> exp]], "validate")

revoke_token(k) ==
    /\ config[k] # None
    /\ Begin("token", k, [config[k] EXCEPT !.kept = NoCredential], "validate")
    /\ UNCHANGED owner

----------------------------------------------------------------------------
(* Handlers: the steps after the checks.                                      *)

EndHandler == op' = NoHandler
MarkFailed(S) == failed' = failed \cup S

\* delete_resource and delete_proxy_key remove the row before the swap.
RemoveRow ==
    /\ op.step = "remove"
    /\ op' = [op EXCEPT !.step = After["remove"]]
    /\ \/ /\ db' = [db EXCEPT ![op.id] = None]
          /\ upstreamKeys' = [r \in Resources |-> IF r = op.id THEN {} ELSE upstreamKeys[r]]
          /\ UNCHANGED failed
       \/ MarkFailed({op.id}) /\ UNCHANGED <<db, upstreamKeys>>
    /\ UNCHANGED <<mem, overlay, dbOverlay, meta, now, boots, writes, owner, dead>>

InvalidInput == op.new[op.id] # None /\ op.new[op.id].rev = Bad
\* GatewayAuth::from_config asks the secret backend for every token_ref.
NeedsSecret == Holder(op.new, YamlToken) # {}

\* Catalog, limits, auth and pools are built; nothing in memory has changed.
\* The new catalog takes the overrides of the old one along.
ValidateSwap ==
    /\ op.step = "validate" /\ ~InvalidInput
    /\ op' = [op EXCEPT !.step = After["validate"], !.overlay = overlay]
    /\ UNCHANGED <<mem, db, upstreamKeys, overlay, dbOverlay, meta, now, boots,
                   writes, owner, dead, failed>>

RefuseSwap ==
    /\ op.step = "validate" /\ (InvalidInput \/ NeedsSecret)
    /\ EndHandler
    /\ MarkFailed(IF op.name = "delete" /\ op.id \notin Servers THEN {op.id} ELSE {})
    /\ UNCHANGED <<mem, db, upstreamKeys, overlay, dbOverlay, meta, now, boots,
                   writes, owner, dead>>

\* Mutant: only the entry that was written is replaced in the auth table.
WritePartPatch(p) ==
    /\ op.step = p
    /\ mem' = [mem EXCEPT ![p] = IF p = "auth" THEN [@ EXCEPT ![op.id] = op.new[op.id]]
                                 ELSE op.new]
    /\ overlay' = IF p = "catalog" THEN op.overlay ELSE overlay
    /\ op' = [op EXCEPT !.step = After[p]]
    /\ UNCHANGED <<db, upstreamKeys, dbOverlay, meta, now, boots, writes, owner,
                   dead, failed>>

WritePart(p) ==
    /\ op.step = p
    /\ mem' = [mem EXCEPT ![p] = op.new]
    /\ overlay' = IF p = "catalog" THEN op.overlay ELSE overlay
    /\ op' = [op EXCEPT !.step = After[p]]
    /\ UNCHANGED <<db, upstreamKeys, dbOverlay, meta, now, boots, writes, owner,
                   dead, failed>>

\* Mutant: a row is only ever updated.
insert_row_nothing(row, entry) == row

\* The row after the handler's statement, when the database does not fail:
\* INSERT needs a free id, UPDATE an existing row, tokens are upserted.
insert_row(row, entry) == IF row = None THEN entry ELSE row
update_row(row, entry) == IF row = None THEN None ELSE entry
\* Mutant: a revocation is not stored.
StoredRowUnlessRevoked(row, entry) ==
    CASE op.name = "create" -> insert_row(row, entry)
      [] op.name = "update" -> update_row(row, entry)
      [] op.name = "token"  -> IF entry.kept.tok = None THEN row ELSE entry
      [] op.name = "delete" -> IF op.id \in Servers THEN None ELSE row
StoredRow(row, entry) ==
    CASE op.name = "create" -> insert_row(row, entry)
      [] op.name = "update" -> update_row(row, entry)
      [] op.name = "token"  -> entry
      [] op.name = "delete" -> IF op.id \in Servers THEN None ELSE row

\* Everything issued for the key except what it has now.
Retired(k, entry) ==
    {t \in DOMAIN owner : owner[t] = k /\ (entry = None \/ entry.kept.tok # t)}

Answered ==
    dead' = IF op.id \in Keys THEN dead \cup Retired(op.id, op.new[op.id]) ELSE dead

\* The row is written; a resource's upstream keys follow, anything else is done.
Persist ==
    /\ op.step = "persist"
    /\ \/ /\ db' = [db EXCEPT ![op.id] = StoredRow(db[op.id], op.new[op.id])]
          /\ UNCHANGED failed
       \/ MarkFailed({op.id}) /\ UNCHANGED db
    /\ IF op.id \in Resources /\ op.name # "delete"
       THEN op' = [op EXCEPT !.step = "dropKeys"] /\ UNCHANGED dead
       ELSE EndHandler /\ Answered
    /\ UNCHANGED <<mem, upstreamKeys, overlay, dbOverlay, meta, now, boots,
                   writes, owner>>

\* replace_upstream_keys_for_resource: the rows go, then each is inserted, in
\* statements of their own; the first failure ends it.
DropUpstreamKeys ==
    /\ op.step = "dropKeys"
    /\ \/ /\ upstreamKeys' = [upstreamKeys EXCEPT ![op.id] = {}]
          /\ op' = [op EXCEPT !.step = "insertKeys"]
          /\ UNCHANGED failed
       \/ EndHandler /\ MarkFailed({op.id}) /\ UNCHANGED upstreamKeys
    /\ UNCHANGED <<mem, db, overlay, dbOverlay, meta, now, boots, writes, owner,
                   dead>>

InsertUpstreamKey ==
    /\ op.step = "insertKeys"
    /\ LET missing == op.new[op.id].kept \ upstreamKeys[op.id]
       IN IF missing = {}
          THEN EndHandler /\ UNCHANGED <<upstreamKeys, failed>>
          ELSE \/ /\ \E ref \in missing :
                       upstreamKeys' = [upstreamKeys EXCEPT ![op.id] = @ \cup {ref}]
                  /\ UNCHANGED <<op, failed>>
               \/ EndHandler /\ MarkFailed({op.id}) /\ UNCHANGED upstreamKeys
    /\ UNCHANGED <<mem, db, overlay, dbOverlay, meta, now, boots, writes, owner,
                   dead>>

\* The request timeout drops the handler at an await; the lock is released and
\* nothing is undone.
Untouched == op.step = "remove" \/
             (op.step = "validate" /\ (op.name # "delete" \/ op.id \in Servers))
Timeout ==
    /\ ~Idle
    /\ EndHandler
    /\ MarkFailed(IF Untouched THEN {} ELSE {op.id})
    /\ UNCHANGED <<mem, db, upstreamKeys, overlay, dbOverlay, meta, now, boots,
                   writes, owner, dead>>

----------------------------------------------------------------------------
(* Description overrides: the row is written outside the lock, the catalog    *)
(* under it, so that of two changes under way the one stored first may be     *)
(* the one shown last.  A database error is answered and changes nothing.     *)

put_metadata(w, d) ==
    /\ meta[w].step = "idle" /\ writes < MaxWrites
    /\ writes' = writes + 1
    /\ dbOverlay' = d
    /\ meta' = [meta EXCEPT ![w] = [step |-> "apply", val |-> d]]
    /\ MarkFailed(IF \E v \in Writers : meta[v].step = "apply" THEN {Tool} ELSE {})
    /\ UNCHANGED <<mem, db, upstreamKeys, op, overlay, now, boots, owner, dead>>

delete_metadata(w) ==
    /\ dbOverlay # None
    /\ put_metadata(w, None)

CatalogWriteFree == Idle
ApplyMetadata(w) ==
    /\ meta[w].step = "apply" /\ CatalogWriteFree
    /\ overlay' = meta[w].val
    /\ meta' = [meta EXCEPT ![w] = [step |-> "idle", val |-> None]]
    /\ UNCHANGED <<mem, db, upstreamKeys, op, dbOverlay, now, boots, writes, owner,
                   dead, failed>>

DropMetadata(w) ==
    /\ meta[w].step = "apply"
    /\ meta' = [meta EXCEPT ![w] = [step |-> "idle", val |-> None]]
    /\ MarkFailed({Tool})
    /\ UNCHANGED <<mem, db, upstreamKeys, op, overlay, dbOverlay, now, boots,
                   writes, owner, dead>>

----------------------------------------------------------------------------
(* Time, crash and restart.                                                   *)

Tick ==
    /\ now < MaxNow /\ now' = now + 1
    /\ UNCHANGED <<mem, db, upstreamKeys, op, overlay, dbOverlay, meta, boots,
                   writes, owner, dead, failed>>

\* The process ends anywhere and starts again from the file and the database.
\* The upstream_keys table is not read back.
Restart ==
    /\ boots < MaxBoots /\ boots' = boots + 1
    /\ mem' = [p \in Parts |-> merge_db_into_config(db)]
    /\ overlay' = dbOverlay
    /\ op' = NoHandler
    /\ meta' = [w \in Writers |-> [step |-> "idle", val |-> None]]
    /\ dead' = {t \in dead : t # YamlToken /\ owner[t] \notin failed}
    /\ failed' = (failed \cup {op.id}) \cap Resources
    /\ UNCHANGED <<db, upstreamKeys, dbOverlay, now, writes, owner>>

Next ==
    \/ \E r \in Resources : create_resource(r) \/ update_resource(r) \/ delete_resource(r)
    \/ \E k \in Keys : \/ create_proxy_key(k) \/ update_proxy_key(k)
                       \/ delete_proxy_key(k) \/ issue_token(k) \/ revoke_token(k)
    \/ \E s \in Servers : create_server(s) \/ update_server(s) \/ delete_server(s)
    \/ RemoveRow \/ ValidateSwap \/ RefuseSwap
    \/ \E p \in Parts : WritePart(p)
    \/ Persist \/ DropUpstreamKeys \/ InsertUpstreamKey \/ Timeout
    \/ \E w \in Writers : \/ \E d \in Descs : put_metadata(w, d)
                          \/ delete_metadata(w) \/ ApplyMetadata(w) \/ DropMetadata(w)
    \/ Tick \/ Restart

Spec == Init /\ [][Next]_vars

----------------------------------------------------------------------------
(* Properties.                                                                *)

\* The running parts, the tables and the handler are what their types say; no
\* invalid revision ever gets past the build of the limits.
TypeOK ==
    /\ \A p \in Parts : IsConfig(mem[p])
    /\ IsConfig(db)
    /\ upstreamKeys \in [Resources -> SUBSET Refs]
    /\ op.step \in {"idle", "remove", "validate", "persist", "dropKeys",
                    "insertKeys"} \cup Parts
    /\ overlay \in Descs \cup {None} /\ dbOverlay \in Descs \cup {None}
    /\ dead \subseteq DOMAIN owner

\* Outside the entry a handler is working on, the five parts differ only in
\* entries whose write was cut off: swap_config_and_catalog derives all of
\* them from one configuration, whatever was cut off before.
MismatchConfined ==
    \A p \in Parts, i \in Ids :
        mem[p][i] # config[i] => i \in failed \/ (~Idle /\ op.id = i)

\* When a handler goes on to the database, all five parts are the new
\* configuration: the change, and every earlier half-done one, is in force
\* before the answer is sent.
SwapComplete ==
    op.step \in {"persist", "dropKeys", "insertKeys"} =>
        \A p \in Parts : mem[p] = op.new

\* An entry that the startup file does not list comes back from a restart as it
\* was, unless a write of it failed or was cut off; one it lists comes back as
\* listed ("DB-only entries persist across restarts, YAML wins").
RestartRestores ==
    [][(boots' # boots /\ Idle) =>
          \A i \in Ids :
             mem'["config"][i] =
                IF Yaml[i] # None THEN Yaml[i]
                ELSE IF i \in failed THEN mem'["config"][i] ELSE config[i]]_vars

\* The upstream_keys rows are those of the key pools of the stored resources once
\* the handler has ended, unless a statement failed or was cut off.
UpstreamRowsMatch ==
    \A r \in Resources \ failed :
        (Idle /\ Yaml[r] = None) =>
            upstreamKeys[r] = IF db[r] = None THEN {} ELSE db[r].kept

\* The description the catalog shows is the stored one whenever no change of it
\* is under way and none was cut off or overlapped with another: a configuration
\* swap takes it along and a restart reads it.
OverlayKept ==
    (Tool \notin failed /\ \A w \in Writers : meta[w].step = "idle") =>
        overlay = dbOverlay \/ op.step \in Parts

\* A write is in force as a whole, in memory and in the tables, whatever was cut
\* off, refused or failed before it (swap_config_and_catalog): the parts above.
WritesWhole ==
    TypeOK /\ MismatchConfined /\ SwapComplete /\ UpstreamRowsMatch /\ OverlayKept

\* The gateway implements the token service.
Service == INSTANCE TokenService WITH
    Creds <- Keys \cup Tokens \cup {YamlToken},
    Callers <- Keys,
    Nobody <- None,
    Static <- {YamlToken},
    accepts <- [c \in Keys \cup Tokens \cup {YamlToken} |->
                  IF c \in Keys THEN authenticate(mem["auth"], None, c)
                                ELSE authenticate(mem["auth"], c, None)],
    shaky <- {t \in DOMAIN owner : owner[t] \in failed}

\* Every change of what GatewayAuth accepts is one the token service allows: a
\* token whose rotation, revocation or removal was answered is never accepted
\* again by this process, nor after a restart unless its retirement was not
\* stored or the startup file lists it.
ServiceSpec == Service!Spec

=============================================================================
