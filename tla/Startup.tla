------------------------------ MODULE Startup -------------------------------
(* Loading the configuration (config_path.rs, config/post_load.rs,             *)
(* config/oauth.rs, store/config_merge.rs, main.rs) against what the admin API *)
(* accepts while the gateway runs (admin/mcp.rs, admin/crud.rs,                *)
(* admin/resource_keys.rs): every start checks YAML and the persisted rows     *)
(* together, every write checks one change of the live configuration.          *)
(*                                                                             *)
(* Of an entry only what some check looks at is kept.  AdminStore has the      *)
(* swap itself and the credentials of keys.                                    *)
EXTENDS Integers, Sequences, FiniteSets, SequencesExt

CONSTANTS
    Environments,     \* [explicit, configured, xdg, home, platform]: where a file may be named
    FileAt,           \* place -> its YAML, or Missing
    Presets,          \* builtin preset id -> "none" or "keyed"
    ServerWrites,     \* bodies of POST and PUT /admin/mcp-servers
    ResourceWrites,   \* bodies of POST and PUT /admin/resources
    MaxChanges

Missing == [there |-> FALSE]
VARIABLES
    stEnv,            \* the environment, unchanged between starts
    stState,          \* "down", "up", "refused"
    stDb,             \* the persisted rows [servers, resources]
    stLive,           \* the configuration in use [servers, resources]
    stEver,           \* the gateway has run before
    stChanges
stVars == <<stEnv, stState, stDb, stLive, stEver, stChanges>>

IdsOf(entries) == {e.id : e \in entries}
Dropped(entries, id) == {e \in entries : e.id # id}
-----------------------------------------------------------------------------
(* Which file is read: the argument, else ASTERLANE_CONFIG, else the default   *)
(* place of the platform, which must exist.                                    *)
non_blank_path(v) == v \notin {"absent", "blank"}
default_config_root(env) ==
    CASE env.platform = "linux" /\ non_blank_path(env.xdg) /\ env.xdg # "relative" -> "xdg"
      [] env.platform \in {"linux", "macos"} /\ non_blank_path(env.home) -> "home"
      [] env.platform = "windows" /\ non_blank_path(env.appdata) -> "appdata"
      [] OTHER -> "none"
resolve_config_path(env) ==
    IF env.explicit # "absent" THEN env.explicit
    ELSE IF non_blank_path(env.configured) THEN env.configured
    ELSE default_config_root(env)
-----------------------------------------------------------------------------
(* Checks of config/oauth.rs; a URL is [http, secure, plain]: http(s) with a   *)
(* host, https or loopback, no query or fragment.                              *)
ensure_secret_ref(ref) == ref = "secret://"
OAuthConfigValid(oauth) ==
    /\ oauth.redirect.set => oauth.redirect.http /\ oauth.redirect.secure /\ oauth.redirect.plain
    /\ oauth.key # "absent" => ensure_secret_ref(oauth.key)
validate_mcp_oauth(auth, url, oauth) ==
    auth.type = "oauth" =>
        /\ url.http /\ url.secure
        /\ auth.client # "blank"
        /\ auth.secret # "absent" => ensure_secret_ref(auth.secret)
        /\ auth.scopes
        /\ CASE auth.grant = "client_credentials" -> auth.client # "absent" /\ auth.secret # "absent"
             [] auth.grant = "authorization_code" ->
                  /\ auth.secret # "absent" => auth.client # "absent"
                  /\ oauth.redirect.set /\ oauth.key # "absent"

(* Checks of config/post_load.rs.                                              *)
validate_http(yaml) == yaml.max_body_bytes # 0
validate_key_credentials(keys) ==
    \A k \in keys : /\ k.mode \in {"absent", "lazy", "full"}
                    /\ ~(k.ref /\ k.digest # "absent") /\ k.digest # "malformed"
validate_oauth(oauth, servers, resources) ==
    /\ \A r \in resources : r.auth.type # "oauth"
    /\ OAuthConfigValid(oauth)
    /\ \A s \in servers : validate_mcp_oauth(s.auth, s.url, oauth)

NoAuth == [type |-> "none"]
PresetServer(id) == [id |-> id, url |-> [http |-> TRUE, secure |-> TRUE, plain |-> TRUE],
                     auth |-> NoAuth, limits |-> "ok", filled |-> TRUE]
expand_ok(builtin) == \A id \in Range(builtin) : id \in DOMAIN Presets /\ Presets[id] = "none"
expand_builtin_mcp(builtin, servers) ==
    servers \cup {PresetServer(id) : id \in Range(builtin) \ IdsOf(servers)}

(* Rows whose id YAML uses are shadowed, the others are added.                 *)
merge_db_into_config(yaml, rows) == yaml \cup {r \in rows : r.id \notin IdsOf(yaml)}

(* What building limits and key pools refuses, at a start and at a write.      *)
limits_from_config(servers, resources) == \A e \in servers \cup resources : e.limits # "zero"
pools_from_config(resources) ==
    \A r \in resources : r.pool # "none" => r.pool # "invalid" /\ r.auth.type # "none"
-----------------------------------------------------------------------------
Yaml == FileAt[resolve_config_path(stEnv)]
parse_config_file(yaml) ==
    /\ yaml.there
    /\ validate_key_credentials(yaml.keys) /\ validate_http(yaml)
    /\ validate_oauth(yaml.oauth, yaml.servers, yaml.resources)
load_serve_config(yaml) ==
    LET merged == merge_db_into_config(yaml.servers, stDb.servers)
    IN  [servers |-> expand_builtin_mcp(yaml.builtin, merged),
         resources |-> merge_db_into_config(yaml.resources, stDb.resources)]

(* serve: the steps that can refuse the configuration, in their order.  The    *)
(* others depend on what is around the gateway and not on its entries, and are *)
(* left out: the database, the secret stores, the OAuth key, the secrets of    *)
(* admin and gateway keys, the port.                                           *)
serve ==
    /\ stState = "down"
    /\ LET yaml == Yaml
           config == load_serve_config(yaml)
           ok == /\ parse_config_file(yaml)
                 /\ expand_ok(yaml.builtin)
                 /\ validate_oauth(yaml.oauth, config.servers, config.resources)
                 /\ pools_from_config(config.resources)
                 /\ limits_from_config(config.servers, config.resources)
       IN  IF ok THEN stState' = "up" /\ stLive' = config /\ stEver' = TRUE
           ELSE stState' = "refused" /\ UNCHANGED <<stLive, stEver>>
    /\ UNCHANGED <<stEnv, stDb, stChanges>>
Stop == stState = "up" /\ stState' = "down" /\ UNCHANGED <<stEnv, stDb, stLive, stEver, stChanges>>
-----------------------------------------------------------------------------
(* Writes.                                                                     *)
validate_auth(auth) == auth.type \in {"bearer", "header"} => auth.filled
(* auth left out is none, as far as the checks are concerned.                  *)
into_config(input) ==
    [id |-> input.id, url |-> input.url, limits |-> input.limits, filled |-> input.filled,
     auth |-> IF input.has_auth THEN input.auth ELSE NoAuth]
into_config_ok(input) ==
    LET s == into_config(input)
    IN  input.filled /\ validate_auth(s.auth) /\ validate_mcp_oauth(s.auth, s.url, Yaml.oauth)

(* Mutant: OAuth is not refused for HTTP resources.                            *)
key_pools_unchecked(resources) == pools_from_config(resources)
key_pools_from_config(resources) ==
    (\A r \in resources : r.auth.type # "oauth") /\ pools_from_config(resources)
swap_ok(servers, resources) ==
    limits_from_config(servers, resources) /\ key_pools_from_config(resources)

Swap(servers, resources) ==
    /\ stState = "up" /\ stChanges < MaxChanges
    /\ swap_ok(servers, resources)
    /\ stLive' = [servers |-> servers, resources |-> resources]
    /\ stChanges' = stChanges + 1
    /\ UNCHANGED <<stEnv, stState, stEver>>
(* Persisting is best effort; an INSERT fails on an id that has a row, an      *)
(* UPDATE on an id without one does nothing.                                   *)
Insert(rows, e) == IF e.id \in IdsOf(rows) THEN rows ELSE rows \cup {e}
Update(rows, e) == IF e.id \in IdsOf(rows) THEN Dropped(rows, e.id) \cup {e} ELSE rows
Persist(kind, rows) == stDb' \in {stDb, [stDb EXCEPT ![kind] = rows]}

create_server(input) ==
    LET s == into_config(input)
    IN  /\ stState = "up" /\ into_config_ok(input)
        /\ s.id \notin IdsOf(stLive.servers) \cup IdsOf(stLive.resources)
        /\ Swap(stLive.servers \cup {s}, stLive.resources)
        /\ Persist("servers", Insert(stDb.servers, s))
update_server(input) ==
    /\ stState = "up" /\ into_config_ok(input)
    /\ \E old \in stLive.servers :
         LET s == [into_config(input) EXCEPT !.auth = IF input.has_auth THEN @ ELSE old.auth]
         IN  /\ old.id = s.id
             /\ Swap(Dropped(stLive.servers, s.id) \cup {s}, stLive.resources)
             /\ Persist("servers", Update(stDb.servers, s))
delete_server(id) ==
    /\ stState = "up" /\ id \in IdsOf(stLive.servers)
    /\ Swap(Dropped(stLive.servers, id), stLive.resources)
    /\ Persist("servers", Dropped(stDb.servers, id))

Resource(id, auth, pool, limits) == [id |-> id, auth |-> auth, pool |-> pool, limits |-> limits]
apply_create(input) ==
    Resource(input.id, IF input.has_auth THEN input.auth ELSE NoAuth, input.pool, input.limits)
(* What a PUT leaves out stays as it was.                                      *)
apply_update(old, input) ==
    Resource(old.id, IF input.has_auth THEN input.auth ELSE old.auth,
             IF input.pool # "none" THEN input.pool ELSE old.pool, input.limits)
create_resource(input) ==
    LET r == apply_create(input)
    IN  /\ stState = "up" /\ r.id \notin IdsOf(stLive.resources)
        /\ Swap(stLive.servers, stLive.resources \cup {r})
        /\ Persist("resources", Insert(stDb.resources, r))
update_resource(input) ==
    /\ stState = "up"
    /\ \E old \in stLive.resources :
         LET r == apply_update(old, input)
         IN  /\ old.id = input.id
             /\ Swap(stLive.servers, Dropped(stLive.resources, r.id) \cup {r})
             /\ Persist("resources", Update(stDb.resources, r))
delete_resource(id) ==
    /\ stState = "up" /\ id \in IdsOf(stLive.resources)
    /\ Swap(stLive.servers, Dropped(stLive.resources, id))
    /\ Persist("resources", Dropped(stDb.resources, id))

StInit ==
    /\ stEnv \in Environments
    /\ stState = "down" /\ stEver = FALSE /\ stChanges = 0
    /\ stDb = [servers |-> {}, resources |-> {}] /\ stLive = [servers |-> {}, resources |-> {}]
StNext ==
    \/ serve \/ Stop
    \/ \E w \in ServerWrites : create_server(w) \/ update_server(w) \/ delete_server(w.id)
    \/ \E w \in ResourceWrites : create_resource(w) \/ update_resource(w) \/ delete_resource(w.id)
StSpec == StInit /\ [][StNext]_stVars
-----------------------------------------------------------------------------
(* Rows the admin API persisted do not keep the gateway from starting again    *)
(* with the same YAML: the header of store/config_merge.rs says that bad data  *)
(* in one row does not block the start.                                        *)
StartsAgain == stState = "refused" => ~stEver

(* The only rows that do are OAuth servers whose URL a PUT without auth has    *)
(* replaced by one that is not https (update_server keeps the old auth after   *)
(* into_config has checked the URL against none): nothing else that the admin  *)
(* API accepts fails a check of serve.                                         *)
RefusedOnlyForUrl ==
    stState = "refused" /\ stEver =>
        \E s \in stDb.servers : s.auth.type = "oauth" /\ ~(s.url.http /\ s.url.secure)
=============================================================================
