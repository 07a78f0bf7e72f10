---------------------------- MODULE SecretStore -----------------------------
(* Resolution of secret references.  env and file are read at every call; vault *)
(* and infisical are asked over HTTP, with retries of transient failures, and   *)
(* their answers are kept for a while.  A secret has versions: its owner may     *)
(* replace it at any time, also while an answer is on its way.                   *)
EXTENDS Naturals, FiniteSets

CONSTANTS Refs,           \* secret references
          BackendOf,      \* [Refs -> {"env", "file", "vault", "infisical", ...}]
          Resolvers,
          Ttl,            \* cache_ttl_secs; 0 turns the cache off
          RemoteRetries,  \* remote_retries
          MaxDelay,       \* bound on the way of an answer back
          MaxVersions,    \* bound on versions of a secret
          MaxSnow         \* bound on the clock

ASSUME SecretStoreAssumption ==
    /\ Refs # {}
    /\ Ttl \in Nat /\ RemoteRetries \in Nat /\ MaxDelay \in Nat
    /\ MaxVersions \in Nat \ {0} /\ MaxSnow \in Nat

Remote == {"vault", "infisical"}
NoEntry == [value |-> 0, expires_at |-> 0]
IdleR == [pc |-> "idle", ref |-> CHOOSE f \in Refs : TRUE, tries |-> 0, value |-> 0,
          read |-> 0]

VARIABLES snow,
          configured,   \* remote backends that were assembled
          current,      \* version of each secret at its backend
          since,        \* when it became current
          cache,        \* SecretCache
          resolver,
          result        \* last result of each resolver: a version, 0 for an error

svars == <<snow, configured, current, since, cache, resolver, result>>

----------------------------------------------------------------------------
(* Start: with a remote backend that is configured but has no bootstrap token  *)
(* from env or file, or does not answer the probe, there is no gateway.        *)

resolve_bootstrap_token(backend, token) == backend \in {"env", "file"} /\ token

probe(wanted, reachable) == wanted => reachable

\* What becomes of a backend at start: the one its token came from, if it is up.
secret_store_from_config ==
    {"absent"} \cup
    {IF resolve_bootstrap_token(backend, token) /\ probe(wanted, reachable)
     THEN backend ELSE "refused" :
       backend \in {"env", "file", "vault", "infisical"}, token \in BOOLEAN,
       wanted \in BOOLEAN, reachable \in BOOLEAN}

Running == \A b \in Remote : configured[b] # "refused"

----------------------------------------------------------------------------
(* The cache.                                                                  *)

\* Mutant: an entry stays until another value replaces it.
get_stale(f) == IF Ttl = 0 THEN NoEntry ELSE cache[f]

get(f) ==
    IF Ttl > 0 /\ cache[f] # NoEntry /\ snow < cache[f].expires_at
    THEN cache[f] ELSE NoEntry

\* Looking at an expired entry removes it.
Looked(f) == [cache EXCEPT ![f] = get(f)]

SInsert(f, v) ==
    IF Ttl = 0 THEN cache
    ELSE [cache EXCEPT ![f] = [value |-> v, expires_at |-> snow + Ttl]]

----------------------------------------------------------------------------
Set1(x, rec) == resolver' = [resolver EXCEPT ![x] = rec]
Give(x, v) == Set1(x, IdleR) /\ result' = [result EXCEPT ![x] =
                                              [value |-> v, ref |-> resolver[x].ref,
                                               at |-> snow]]

\* A request for a secret: a local one is read at once, the variable or the file
\* may be missing; a remote one comes from the cache or is fetched.
resolve(x, f) ==
    /\ Running /\ resolver[x].pc = "idle"
    /\ IF BackendOf[f] \notin Remote
       THEN /\ \E v \in {0, current[f]} :
                 result' = [result EXCEPT ![x] = [value |-> v, ref |-> f, at |-> snow]]
            /\ UNCHANGED <<resolver, cache>>
       ELSE /\ cache' = Looked(f)
            /\ IF get(f) # NoEntry
               THEN /\ result' = [result EXCEPT ![x] =
                                    [value |-> get(f).value, ref |-> f, at |-> snow]]
                    /\ UNCHANGED resolver
               ELSE /\ Set1(x, [IdleR EXCEPT !.pc = "send", !.ref = f])
                    /\ UNCHANGED result
    /\ UNCHANGED <<snow, configured, current, since>>

\* Mutant: every failure is worth another try, without end.
fetch_remote_forever(x) ==
    LET f == resolver[x].ref IN
    /\ resolver[x].pc = "send"
    /\ \/ Set1(x, [resolver[x] EXCEPT !.pc = "back", !.value = current[f], !.read = snow])
       \/ Set1(x, [resolver[x] EXCEPT !.tries = @ + 1])
    /\ UNCHANGED <<snow, configured, current, since, cache, result>>

\* One attempt: the backend answers with the version it has now, fails for the
\* moment (time-out, no connection, 5xx) or for good (4xx, no such key, a body
\* that is none, a backend that is not configured).
fetch_remote(x) ==
    LET f == resolver[x].ref IN
    /\ resolver[x].pc = "send"
    /\ \/ /\ configured[BackendOf[f]] # "absent"
          /\ Set1(x, [resolver[x] EXCEPT !.pc = "back", !.value = current[f], !.read = snow])
          /\ UNCHANGED result
       \/ /\ configured[BackendOf[f]] # "absent" /\ resolver[x].tries < RemoteRetries
          /\ Set1(x, [resolver[x] EXCEPT !.tries = @ + 1])
          /\ UNCHANGED result
       \/ Give(x, 0)
    /\ UNCHANGED <<snow, configured, current, since, cache>>

\* The answer arrives, is kept and handed out; failures are never kept.
resolve_remote(x) ==
    /\ resolver[x].pc = "back"
    /\ cache' = SInsert(resolver[x].ref, resolver[x].value)
    /\ Give(x, resolver[x].value)
    /\ UNCHANGED <<snow, configured, current, since>>

\* The owner replaces a secret.
Rotate(f) ==
    /\ current[f] < MaxVersions
    /\ current' = [current EXCEPT ![f] = @ + 1]
    /\ since' = [since EXCEPT ![f][current[f] + 1] = snow]
    /\ UNCHANGED <<snow, configured, cache, resolver, result>>

\* Time passes; an answer is on its way for MaxDelay at most.
STick ==
    /\ snow < MaxSnow
    /\ \A x \in Resolvers : resolver[x].pc = "back" => snow - resolver[x].read < MaxDelay
    /\ snow' = snow + 1
    /\ UNCHANGED <<configured, current, since, cache, resolver, result>>

SInit ==
    /\ snow = 0 /\ configured \in [Remote -> secret_store_from_config]
    /\ current = [f \in Refs |-> 1]
    /\ since = [f \in Refs |-> [v \in 1..MaxVersions |-> 0]]
    /\ cache = [f \in Refs |-> NoEntry]
    /\ resolver = [x \in Resolvers |-> IdleR]
    /\ result = [x \in Resolvers |-> [value |-> 0, ref |-> IdleR.ref, at |-> 0]]
SNext ==
    \/ STick
    \/ \E f \in Refs : Rotate(f)
    \/ \E x \in Resolvers : fetch_remote(x) \/ resolve_remote(x)
                            \/ \E f \in Refs : resolve(x, f)
SSpec == SInit /\ [][SNext]_svars

----------------------------------------------------------------------------
(* Properties.                                                                *)

\* Types of the state; a remote secret is asked for at most 1 + RemoteRetries
\* times, and a remote backend never gets its own token from a remote one.
STypeOK ==
    /\ configured \in [Remote -> {"absent", "refused", "env", "file"}]
    /\ \A f \in Refs : cache[f].value \in 0..current[f]
    /\ \A x \in Resolvers : /\ resolver[x].tries \in 0..RemoteRetries
                            /\ result[x].value \in 0..MaxVersions

\* A replaced secret is handed out for a bounded time only: the life of a cache
\* entry, which starts when the answer arrives and not when the backend read it,
\* plus the way of the answer.  An answer that was overtaken by a later one may
\* put the older version back, within the same bound; local secrets are never
\* behind (SecretCache, resolve_remote).
StaleBounded ==
    \A x \in Resolvers :
        LET r == result[x]
            bound == IF BackendOf[r.ref] \in Remote THEN Ttl + MaxDelay ELSE 0
        IN r.value > 0 /\ r.value < current[r.ref]
             => r.at <= since[r.ref][r.value + 1] + bound
=============================================================================
