--------------------------- MODULE UpstreamOAuth ----------------------------
(* Authorization of the upstream MCP servers by authorization code.  An        *)
(* administrator starts an authorization and is given a link with a state; the *)
(* browser comes back with that state, the code is exchanged and the           *)
(* credentials are stored, sealed in the database or in memory.  Connections   *)
(* load them and refresh them, which makes the authorization server replace    *)
(* the refresh token.  Meanwhile the administrator may revoke, links expire,   *)
(* callbacks are repeated, writes fail and the process restarts, perhaps with  *)
(* another encryption key.                                                     *)
(*                                                                             *)
(* Credentials are represented by their refresh token, a number; the           *)
(* authorization server and rmcp's AuthorizationManager are external.          *)
EXTENDS Naturals, FiniteSets

CONSTANTS Servers, Workers, EncKeys,
          AUTHORIZATION_TTL,
          MaxStates,   \* bound on authorizations started
          MaxRt,       \* bound on refresh tokens issued
          MaxOnow,     \* bound on the clock
          MaxRevokes,  \* bound on revocations of a server between restarts
          MaxCrashes   \* bound on restarts

ASSUME UpstreamOAuthAssumption ==
    /\ EncKeys # {} /\ "none" \notin Servers \cup EncKeys
    /\ AUTHORIZATION_TTL \in Nat /\ MaxStates \in Nat /\ MaxRt \in Nat
    /\ MaxOnow \in Nat /\ MaxRevokes \in Nat /\ MaxCrashes \in Nat

States == 1..MaxStates
NoCred == [rt |-> 0, key |-> "none"]
NoLink == [server |-> "none", expires |-> 0, gen |-> 0]
NoRevoke == [pc |-> "idle", server |-> "none", links |-> {}]
IdleW == [pc |-> "idle", server |-> "none", rt |-> 0, gen |-> 0, kind |-> "connect"]

VARIABLES onow,        \* clock
          sealed,      \* the gateway has a database
          encKey,      \* the key of this process
          row,         \* sealed credentials by server
          memory,      \* credentials in memory by server: [gen, rt]
          pending,     \* PendingStore by state
          started,     \* states given out
          exchange,    \* callbacks that wait for the token endpoint, by state
          valid,       \* refresh tokens the authorization server accepts
          issued,      \* refresh tokens issued
          admin,       \* the revocation under way
          want,        \* servers that are to be reconnected
          worker,      \* connections and live peers that use credentials
          health,
          crashes,
          used,        \* history: exchanges started by each state
          dead,        \* history: states revoked before they were used
          linkOf,      \* history: the server each state was issued for
          origin,      \* history: the state the stored credentials come from
          revoked,     \* history: states issued before a completed revocation
          lost         \* history: servers whose last rotation was not stored

ovars == <<onow, sealed, encKey, row, memory, pending, started, exchange, valid,
           issued, admin, want, worker, health, crashes, used, dead, linkOf, origin,
           revoked, lost>>

----------------------------------------------------------------------------
(* Stored credentials.                                                        *)

\* Decryption needs the key the row was written with.
decrypt(c) == c.key = encKey

\* What a load finds: nothing, something unreadable, or a refresh token.
load_stored(s) ==
    IF sealed
    THEN IF row[s] = NoCred THEN "none"
         ELSE IF decrypt(row[s]) THEN "ok" ELSE "unreadable"
    ELSE IF memory[s].rt = 0 THEN "none" ELSE "ok"
LoadedRt(s) == IF sealed THEN row[s].rt ELSE memory[s].rt

\* A save goes to the row of the server, or to the memory store its manager was
\* given; one that was removed since is no longer anybody's.
save(s, rt, gen) ==
    IF sealed
    THEN row' = [row EXCEPT ![s] = [rt |-> rt, key |-> encKey]] /\ UNCHANGED memory
    ELSE /\ memory' = [memory EXCEPT ![s] =
                        [@ EXCEPT !.rt = IF gen = memory[s].gen THEN rt ELSE memory[s].rt]]
         /\ UNCHANGED row

----------------------------------------------------------------------------
(* The pending authorizations.                                                *)

Alive(p) == [st \in States |-> IF onow < p[st].expires THEN p[st] ELSE NoLink]

insert(st, s) ==
    pending' = [Alive(pending) EXCEPT ![st] =
                  [server |-> s, expires |-> onow + AUTHORIZATION_TTL,
                   gen |-> memory[s].gen]]

\* Mutant: the record stays until it expires.
take_kept(st) == pending' = Alive(pending)

\* Removes the record whether it has expired or not.
take(st) == pending' = Alive([pending EXCEPT ![st] = NoLink])

discard_server(s) ==
    pending' = [st \in States |->
                  IF pending[st].server = s THEN NoLink ELSE pending[st]]

----------------------------------------------------------------------------
(* The administrator and the browser.                                         *)

\* POST .../oauth/authorize, after discovery and registration.
start_authorization(s) ==
    /\ started < MaxStates
    /\ started' = started + 1
    /\ insert(started + 1, s)
    /\ linkOf' = [linkOf EXCEPT ![started + 1] = s]
    /\ UNCHANGED <<onow, sealed, encKey, row, memory, exchange, valid, issued,
                   admin, want, worker, health, crashes, used, dead, origin, revoked,
                   lost>>

\* GET /oauth/callback: with a code, or with an error or nothing at all.
complete_authorization(st) ==
    /\ st <= started /\ exchange[st].server = "none"
    /\ take(st)
    /\ \/ /\ pending[st] # NoLink /\ onow < pending[st].expires
          /\ exchange' = [exchange EXCEPT ![st] = pending[st]]
          /\ used' = [used EXCEPT ![st] = @ + 1]
       \/ UNCHANGED <<exchange, used>>
    /\ UNCHANGED <<onow, sealed, encKey, row, memory, started, valid, issued, admin,
                   want, worker, health, crashes, dead, linkOf, origin,
                   revoked, lost>>

\* The code is exchanged and the credentials are saved; the server is then
\* reconnected.  The exchange or the save may fail.
handle_callback(st) ==
    LET s == exchange[st].server IN
    /\ s # "none" /\ issued < MaxRt
    /\ exchange' = [exchange EXCEPT ![st] = NoLink]
    /\ \/ /\ issued' = issued + 1
          /\ valid' = [valid EXCEPT ![s] = @ \cup {issued + 1}]
          /\ \/ /\ save(s, issued + 1, exchange[st].gen)
                /\ want' = want \cup {s}
                /\ origin' = [origin EXCEPT ![s] = st]
             \/ UNCHANGED <<row, memory, want, origin>>
       \/ UNCHANGED <<issued, valid, row, memory, want, origin>>
    /\ UNCHANGED <<onow, sealed, encKey, pending, started, admin, worker, health,
                   crashes, used, dead, linkOf, revoked, lost>>

\* DELETE .../oauth: the links first, then the row, then the connection.
clear_credentials(s) ==
    /\ admin = NoRevoke /\ memory[s].gen < MaxRevokes
    /\ discard_server(s)
    /\ memory' = [memory EXCEPT ![s] = [gen |-> @.gen + 1, rt |-> 0]]
    /\ admin' = [pc |-> "delete", server |-> s,
                  links |-> {st \in 1..started : linkOf[st] = s}]
    /\ dead' = dead \cup {st \in 1..started : pending[st].server = s}
    /\ UNCHANGED <<onow, sealed, encKey, row, started, exchange, valid, issued, want,
                   worker, health, crashes, used, linkOf, origin,
                   revoked, lost>>

delete_sealed_credentials ==
    LET s == admin.server IN
    /\ admin.pc = "delete"
    /\ \/ /\ row' = [row EXCEPT ![s] = NoCred]
          /\ admin' = [admin EXCEPT !.pc = "reconnect"]
          /\ revoked' = revoked \cup admin.links
       \/ /\ sealed
          /\ admin' = NoRevoke /\ UNCHANGED <<row, revoked>>
    /\ UNCHANGED <<onow, sealed, encKey, memory, pending, started, exchange, valid,
                   issued, want, worker, health, crashes, used, dead, linkOf, origin,
                   lost>>

deauthorize ==
    /\ admin.pc = "reconnect"
    /\ admin' = NoRevoke
    /\ want' = want \cup {admin.server}
    /\ UNCHANGED <<onow, sealed, encKey, row, memory, pending, started, exchange,
                   valid, issued, worker, health, crashes, used, dead, linkOf, origin,
                   revoked, lost>>

----------------------------------------------------------------------------
(* Connections.                                                               *)

\* The outcome of a connection attempt; a live peer that fails stays as it is.
Outcome(w, h) ==
    /\ worker' = [worker EXCEPT ![w] = IdleW]
    /\ health' = IF worker[w].kind = "connect"
                 THEN [health EXCEPT ![worker[w].server] = h] ELSE health

\* A reconnect that was asked for.
reconnect(w, s) ==
    /\ worker[w] = IdleW /\ s \in want
    /\ want' = want \ {s}
    /\ worker' = [worker EXCEPT ![w] = [IdleW EXCEPT !.pc = "load", !.server = s]]
    /\ UNCHANGED <<onow, sealed, encKey, row, memory, pending, started, exchange,
                   valid, issued, admin, health, crashes, used, dead, linkOf, origin,
                   revoked, lost>>

\* A request on a live connection whose access token has run out.
use_live(w, s) ==
    /\ worker[w] = IdleW /\ health[s] = "live"
    /\ worker' = [worker EXCEPT ![w] = [IdleW EXCEPT !.pc = "load", !.server = s,
                                                     !.kind = "use"]]
    /\ UNCHANGED <<onow, sealed, encKey, row, memory, pending, started, exchange,
                   valid, issued, admin, want, health, crashes, used, dead, linkOf, origin,
                   revoked, lost>>

\* No credentials and unreadable ones ask for an administrator; a store that
\* cannot be read is an ordinary failure.
preflight(w) ==
    LET s == worker[w].server IN
    /\ worker[w].pc = "load"
    /\ \/ /\ load_stored(s) = "ok"
          /\ worker' = [worker EXCEPT ![w] = [@ EXCEPT !.pc = "token", !.rt = LoadedRt(s),
                                                       !.gen = memory[s].gen]]
          /\ UNCHANGED health
       \/ load_stored(s) # "ok" /\ Outcome(w, "auth_required")
       \/ sealed /\ Outcome(w, "failed")
    /\ UNCHANGED <<onow, sealed, encKey, row, memory, pending, started, exchange,
                   valid, issued, admin, want, crashes, used, dead, linkOf, origin,
                   revoked, lost>>

\* get_access_token: the access token is still good, or the refresh token is
\* spent for a new pair, refused, or the server cannot be reached.
get_access_token(w) ==
    LET s == worker[w].server IN
    /\ worker[w].pc = "token"
    /\ \/ Outcome(w, "live") /\ UNCHANGED <<valid, issued>>
       \/ /\ worker[w].rt \in valid[s] /\ issued < MaxRt
          /\ issued' = issued + 1
          /\ valid' = [valid EXCEPT ![s] = (@ \ {worker[w].rt}) \cup {issued + 1}]
          /\ worker' = [worker EXCEPT ![w] = [@ EXCEPT !.pc = "save", !.rt = issued + 1]]
          /\ UNCHANGED health
       \/ /\ worker[w].rt \notin valid[s]
          /\ Outcome(w, "auth_required") /\ UNCHANGED <<valid, issued>>
       \/ Outcome(w, "failed") /\ UNCHANGED <<valid, issued>>
    /\ UNCHANGED <<onow, sealed, encKey, row, memory, pending, started, exchange,
                   admin, want, crashes, used, dead, linkOf, origin,
                   revoked, lost>>

\* Mutant: the new pair stays with the connection.
save_rotated_not(w) ==
    LET s == worker[w].server IN
    /\ worker[w].pc = "save"
    /\ Outcome(w, "live") /\ UNCHANGED <<row, memory, lost>>
    /\ UNCHANGED <<onow, sealed, encKey, pending, started, exchange, valid, issued,
                   admin, want, crashes, used, dead, linkOf, origin, revoked>>

\* The new refresh token is written back; if that fails it is lost.
save_rotated(w) ==
    LET s == worker[w].server IN
    /\ worker[w].pc = "save"
    /\ \/ save(s, worker[w].rt, worker[w].gen) /\ Outcome(w, "live") /\ UNCHANGED lost
       \/ /\ sealed /\ lost' = lost \cup {s}
          /\ Outcome(w, "failed") /\ UNCHANGED <<row, memory>>
    /\ UNCHANGED <<onow, sealed, encKey, pending, started, exchange, valid, issued,
                   admin, want, crashes, used, dead, linkOf, origin, revoked>>

\* The view of the server in the console.
oauth_view(s) ==
    IF load_stored(s) = "ok" /\ health[s] # "auth_required"
    THEN "authorized" ELSE "authorization_required"

----------------------------------------------------------------------------
OTick ==
    /\ onow < MaxOnow /\ onow' = onow + 1
    /\ UNCHANGED <<sealed, encKey, row, memory, pending, started, exchange, valid,
                   issued, admin, want, worker, health, crashes, used, dead, linkOf, origin,
                   revoked, lost>>

\* Only the rows survive, and only for a process with their key.
Restart ==
    /\ crashes < MaxCrashes /\ crashes' = crashes + 1
    /\ encKey' \in EncKeys
    /\ pending' = [st \in States |-> NoLink]
    /\ exchange' = [st \in States |-> NoLink]
    /\ memory' = [s \in Servers |-> [gen |-> 0, rt |-> 0]]
    /\ lost' = lost \cup {worker[w].server : w \in {v \in Workers : worker[v].pc = "save"}}
    /\ worker' = [w \in Workers |-> IdleW]
    /\ admin' = NoRevoke
    /\ health' = [s \in Servers |-> "none"]
    /\ want' = Servers
    /\ UNCHANGED <<onow, sealed, row, started, valid, issued, used, dead, linkOf, origin,
                   revoked>>

OInit ==
    /\ onow = 0 /\ sealed \in BOOLEAN
    /\ encKey = CHOOSE k \in EncKeys : TRUE
    /\ row = [s \in Servers |-> NoCred]
    /\ memory = [s \in Servers |-> [gen |-> 0, rt |-> 0]]
    /\ pending = [st \in States |-> NoLink] /\ started = 0
    /\ exchange = [st \in States |-> NoLink]
    /\ valid = [s \in Servers |-> {}] /\ issued = 0
    /\ admin = NoRevoke
    /\ want = {} /\ worker = [w \in Workers |-> IdleW]
    /\ health = [s \in Servers |-> "auth_required"]
    /\ crashes = 0
    /\ used = [st \in States |-> 0] /\ dead = {}
    /\ linkOf = [st \in States |-> "none"] /\ lost = {}
    /\ origin = [s \in Servers |-> 0] /\ revoked = {}

Working(w) ==
    \/ preflight(w) \/ get_access_token(w) \/ save_rotated(w)
    \/ \E s \in Servers : reconnect(w, s)
ONext ==
    \/ OTick \/ Restart \/ delete_sealed_credentials \/ deauthorize
    \/ \E s \in Servers : start_authorization(s) \/ clear_credentials(s)
    \/ \E st \in States : complete_authorization(st) \/ handle_callback(st)
    \/ \E w \in Workers : Working(w) \/ \E s \in Servers : use_live(w, s)
OSpec == OInit /\ [][ONext]_ovars

----------------------------------------------------------------------------
(* Properties.                                                                *)

\* Types of the state.
OTypeOK ==
    /\ encKey \in EncKeys /\ started \in 0..MaxStates /\ issued \in 0..MaxRt
    /\ \A s \in Servers : row[s].rt \in 0..issued /\ memory[s].rt \in 0..issued
    /\ \A st \in States : pending[st].server \in Servers \cup {"none"}
    /\ want \subseteq Servers
    /\ \A w \in Workers :
          /\ worker[w].pc \in {"idle", "load", "token", "save"}
          /\ worker[w].pc \in {"token", "save"} => worker[w].rt \in 1..issued
    /\ \A s \in Servers : health[s] \in {"none", "auth_required", "failed", "live"}

\* A link starts at most one exchange, however often the browser comes back
\* (PendingStore::take), and none once a revocation found it unused
\* (discard_server).
LinkUsedOnce ==
    \A st \in States : used[st] <= (IF st \in dead THEN 0 ELSE 1)

\* A server the console shows as authorized has credentials the authorization
\* server still accepts: a rotation is written back before anybody loads again, although
\* connections, live peers and callbacks store credentials of one server at the
\* same time; only a failed write or a crash loses one (CredentialStore::save).
StoredUsable ==
    \A s \in Servers :
        \/ oauth_view(s) # "authorized"
        \/ LoadedRt(s) \in valid[s]
        \/ s \in lost
        \/ \E w \in Workers : worker[w].pc = "save" /\ worker[w].server = s

\* After a revocation no link given out before it can store credentials again:
\* the comments of clear_credentials and discard_server.
RevokeFinal ==
    \A s \in Servers : load_stored(s) = "none" \/ origin[s] \notin revoked
=============================================================================
