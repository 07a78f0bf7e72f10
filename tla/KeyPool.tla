------------------------------ MODULE KeyPool ------------------------------
(* Upstream key pools: src/keys/{pool,state,strategy,registry}.rs and the     *)
(* hot replacement of the registry in src/admin/resource_keys.rs.             *)
(*                                                                            *)
(* One resource is modelled.  Its pool is an Arc: a call takes the pool that  *)
(* is current when it starts and keeps it while admin writes install others,  *)
(* so several pools are alive at once.  PoolIds names the allocations; one    *)
(* that nobody holds can be reused, which keeps reloading unbounded.          *)
(*                                                                            *)
(* Time is kept as durations: CoolingUntil(now + d) is [tag |->               *)
(* "CoolingUntil", n |-> d], Tick lowers every n, and `now >= until' is n = 0. *)
EXTENDS Integers, FiniteSets, Sequences

CONSTANTS
    Calls,            \* concurrent upstream calls
    PoolIds,          \* pool allocations
    Secrets,          \* secret references
    Configs,          \* pool configurations: [strategy, refs] records
    Cooldowns,        \* Retry-After values an upstream sends, in ticks
    DEFAULT_COOLDOWN, \* ticks for an error without Retry-After
    Latencies,        \* latency samples, in ms
    CursorMod         \* the round-robin cursor is a u64: 2^64

Strategies == {"RoundRobin", "Random", "LeastRequests", "FastestResponse", "Weighted"}

NoPool == 0
NoKey == 0
NoSample == -1

ASSUME PoolIdsAssumption == PoolIds \subseteq Nat \ {NoPool}
ASSUME CallsAssumption == IsFiniteSet(Calls)
ASSUME CooldownAssumption ==
    /\ DEFAULT_COOLDOWN \in Nat
    /\ Cooldowns \subseteq Nat
    /\ Latencies \subseteq Nat
    /\ CursorMod \in Nat \ {0}
\* KeyPoolRegistry::from_config refuses an empty key list; KeyId i is the i-th ref.
ASSUME ConfigsAssumption ==
    \A cf \in Configs : /\ cf.strategy \in Strategies
                        /\ cf.refs \in Seq(Secrets)
                        /\ cf.refs # <<>>

VARIABLES
    pools,    \* pool allocation -> ResourceKeyPool
    current,  \* the pool AppState.key_pools points to
    incoming, \* [pool, carried]: the registry an admin write is installing
    handle,   \* the pool a call holds an Arc of
    guard     \* the KeyId of a call's live KeyGuard, on the pool it holds

vars == <<pools, current, incoming, handle, guard>>

-----------------------------------------------------------------------------
(* KeyState and one pool's operations                                         *)

Available == [tag |-> "Available", n |-> 0]
CoolingUntil(d) == [tag |-> "CoolingUntil", n |-> d]
Leased(count) == [tag |-> "Leased", n |-> count]

KeyState == [tag : {"Available", "CoolingUntil", "Leased"}, n : Nat]

active_count(s) == IF s.tag = "Leased" THEN s.n ELSE 0

is_cooling(s) == s.tag = "CoolingUntil"

\* Mutant: a cooldown is over one tick early.
expired_early(s) == is_cooling(s) /\ s.n <= 1

expired(s) == is_cooling(s) /\ s.n = 0

Expire(s) == IF expired(s) THEN Available ELSE s

lease(s) ==
    IF s.tag = "Available" THEN Leased(1)
    ELSE IF s.tag = "Leased" THEN Leased(s.n + 1)
    ELSE s

\* Mutants of Released: the count is only looked at when it is 1; a key that is
\* not leased becomes available.
ReleasedForgotten(s) == IF s.tag = "Leased" /\ s.n = 1 THEN Available ELSE s

ReleasedAlways(s) == IF s.tag = "Leased" /\ s.n > 1 THEN Leased(s.n - 1) ELSE Available

Released(s) ==
    IF s.tag # "Leased" THEN s
    ELSE IF s.n = 1 THEN Available
    ELSE Leased(s.n - 1)

\* A pool is [strategy, refs, state, ewma, cursor]; the state and the EWMA of
\* key k are state[k] and ewma[k].  Weights are at least 1 when they are used
\* (weight.max(1)), so a weighted draw can return every candidate.
NewPool(cf) ==
    [strategy |-> cf.strategy, refs |-> cf.refs, cursor |-> 0,
     state |-> [k \in DOMAIN cf.refs |-> Available],
     ewma  |-> [k \in DOMAIN cf.refs |-> NoSample]]

expire_cooling(p) ==
    [p EXCEPT !.state = [k \in DOMAIN p.state |-> Expire(p.state[k])]]

Candidates(p) == {k \in DOMAIN p.state : ~is_cooling(p.state[k])}

\* candidates.sort_by_key(id); candidates.get(cursor % len)
RoundRobinPick(C, cursor) ==
    {k \in C : Cardinality({j \in C : j < k}) = cursor % Cardinality(C)}

\* ewma_latency_ms.unwrap_or(u32::MAX), compared
SlowerOrSame(a, b) == a = NoSample \/ (b # NoSample /\ b <= a)

\* The keys `select' may return; ties go to the smallest KeyId.
select(p) ==
    LET C == Candidates(p)
        active(k) == active_count(p.state[k])
    IN  CASE p.strategy = "RoundRobin" -> RoundRobinPick(C, p.cursor)
          [] p.strategy = "LeastRequests" ->
               {k \in C : \A j \in C : active(k) < active(j) \/ (active(k) = active(j) /\ k <= j)}
          [] p.strategy = "FastestResponse" ->
               {k \in C : \A j \in C :
                    /\ SlowerOrSame(p.ewma[j], p.ewma[k])
                    /\ p.ewma[j] = p.ewma[k] => k <= j}
          [] OTHER -> C

NextCursor(p) ==
    IF p.strategy = "RoundRobin" THEN (p.cursor + 1) % CursorMod ELSE p.cursor

\* (0.3 * sample + 0.7 * prev) as u32.  The f64 sum may fall just below an
\* integral value and truncate one lower: 3 ms after 3 ms gives 2.
Ewma(prev, sample) ==
    IF prev = NoSample THEN {sample}
    ELSE LET sum == 3 * sample + 7 * prev
         IN  {sum \div 10} \cup (IF sum > 0 /\ sum % 10 = 0 THEN {(sum \div 10) - 1} ELSE {})

\* carry_runtime_from: the old snapshots are collected into a map by secret ref,
\* so of two old keys with one ref the later stands for it.  Leases stay behind.
LastKeys(refs, r) ==
    {k \in DOMAIN refs : refs[k] = r /\ \A j \in DOMAIN refs : refs[j] = r => j <= k}

\* Mutant: runtime state is carried from the key with the same KeyId.
CarriedById(new, old) ==
    [new EXCEPT !.state = [k \in DOMAIN new.refs |->
        IF k \in DOMAIN old.refs /\ is_cooling(old.state[k]) THEN old.state[k] ELSE new.state[k]]]

\* restore_runtime: a remaining cooldown and the EWMA, the latter even when None
Carried(new, old) ==
    LET Src(k) == LastKeys(old.refs, new.refs[k])
        Cooling(k) == {j \in Src(k) : is_cooling(old.state[j]) /\ old.state[j].n > 0}
    IN  [new EXCEPT
          !.state = [k \in DOMAIN new.refs |->
              IF Cooling(k) # {} THEN old.state[CHOOSE j \in Cooling(k) : TRUE] ELSE new.state[k]],
          !.ewma = [k \in DOMAIN new.refs |->
              IF Src(k) # {} THEN old.ewma[CHOOSE j \in Src(k) : TRUE] ELSE new.ewma[k]]]

-----------------------------------------------------------------------------
NoIncoming == [pool |-> NoPool, carried |-> FALSE]

Init ==
    /\ \E g \in PoolIds :
         /\ current = g
         /\ pools \in [PoolIds -> {NewPool(cf) : cf \in Configs}]
         /\ \A h \in PoolIds \ {g} : pools[h] = pools[g]
    /\ incoming = NoIncoming
    /\ handle = [c \in Calls |-> NoPool]
    /\ guard = [c \in Calls |-> NoKey]

SetState(g, k, s) == pools' = [pools EXCEPT ![g].state[k] = s]

\* key_pools_snapshot: the call clones the current Arc.
Open(c) ==
    /\ handle[c] = NoPool
    /\ handle' = [handle EXCEPT ![c] = current]
    /\ UNCHANGED <<pools, current, incoming, guard>>

\* KeyPool::acquire, Ok
Acquire(c) ==
    /\ handle[c] # NoPool /\ guard[c] = NoKey
    /\ LET p == expire_cooling(pools[handle[c]])
       IN  \E k \in select(p) :
             /\ pools' = [pools EXCEPT ![handle[c]] =
                            [p EXCEPT !.state[k] = lease(@), !.cursor = NextCursor(p)]]
             /\ guard' = [guard EXCEPT ![c] = k]
    /\ UNCHANGED <<current, incoming, handle>>

\* KeyPool::acquire, Err(NoAvailableKey): every key is cooling
AcquireFails(c) ==
    /\ handle[c] # NoPool /\ guard[c] = NoKey
    /\ LET p == expire_cooling(pools[handle[c]])
       IN  /\ Candidates(p) = {}
           /\ pools' = [pools EXCEPT ![handle[c]] = p]
    /\ UNCHANGED <<current, incoming, handle, guard>>

\* KeyPool::mark_cooling through cool_key: the caller holds the guard.
MarkCooling(c, d) ==
    /\ guard[c] # NoKey
    /\ SetState(handle[c], guard[c], CoolingUntil(d))
    /\ UNCHANGED <<current, incoming, handle, guard>>

\* KeyPool::record_latency
RecordLatency(c, ms) ==
    /\ guard[c] # NoKey
    /\ \E e \in Ewma(pools[handle[c]].ewma[guard[c]], ms) :
         pools' = [pools EXCEPT ![handle[c]].ewma[guard[c]] = e]
    /\ UNCHANGED <<current, incoming, handle, guard>>

\* Drop for KeyGuard: release
Release(c) ==
    /\ guard[c] # NoKey
    /\ SetState(handle[c], guard[c], Released(pools[handle[c]].state[guard[c]]))
    /\ guard' = [guard EXCEPT ![c] = NoKey]
    /\ UNCHANGED <<current, incoming, handle>>

\* The call returns (or is dropped) and lets go of the Arc; the guard went first.
Close(c) ==
    /\ handle[c] # NoPool /\ guard[c] = NoKey
    /\ handle' = [handle EXCEPT ![c] = NoPool]
    /\ UNCHANGED <<pools, current, incoming, guard>>

\* KeyPool::snapshot for the admin API: expires lazily, changes nothing else.
Snapshot ==
    /\ pools' = [pools EXCEPT ![current] = expire_cooling(@)]
    /\ UNCHANGED <<current, incoming, handle, guard>>

Held(g) == g = current \/ g = incoming.pool \/ \E c \in Calls : handle[c] = g

\* key_pools_from_config: an admin write builds the new registry (admin_write is
\* held, so there is one at a time).
BuildPools(g, cf) ==
    /\ incoming = NoIncoming /\ ~Held(g)
    /\ pools' = [pools EXCEPT ![g] = NewPool(cf)]
    /\ incoming' = [pool |-> g, carried |-> FALSE]
    /\ UNCHANGED <<current, handle, guard>>

\* install_key_pools, up to the write lock: snapshot the old pool, carry over.
CarryRuntime ==
    /\ incoming # NoIncoming /\ ~incoming.carried
    /\ LET old == expire_cooling(pools[current])
       IN  pools' = [pools EXCEPT ![current] = old,
                                  ![incoming.pool] = Carried(@, old)]
    /\ incoming' = [incoming EXCEPT !.carried = TRUE]
    /\ UNCHANGED <<current, handle, guard>>

\* install_key_pools: *state.key_pools.write().await = new
InstallPools ==
    /\ incoming.carried
    /\ current' = incoming.pool
    /\ incoming' = NoIncoming
    /\ UNCHANGED <<pools, handle, guard>>

\* One tick of Instant::now().
TickState(s) == IF is_cooling(s) /\ s.n > 0 THEN CoolingUntil(s.n - 1) ELSE s

Tick ==
    /\ pools' = [g \in PoolIds |-> [pools[g] EXCEPT !.state =
                    [k \in DOMAIN pools[g].state |-> TickState(pools[g].state[k])]]]
    /\ UNCHANGED <<current, incoming, handle, guard>>

Next ==
    \/ \E c \in Calls : Open(c) \/ Acquire(c) \/ AcquireFails(c) \/ Release(c) \/ Close(c)
    \/ \E c \in Calls, d \in Cooldowns \cup {DEFAULT_COOLDOWN} : MarkCooling(c, d)
    \/ \E c \in Calls, ms \in Latencies : RecordLatency(c, ms)
    \/ \E g \in PoolIds, cf \in Configs : BuildPools(g, cf)
    \/ CarryRuntime \/ InstallPools \/ Snapshot \/ Tick

Spec == Init /\ [][Next]_vars

-----------------------------------------------------------------------------
(* Properties                                                                 *)

PoolOK(p) ==
    /\ p \in [strategy : Strategies, refs : Seq(Secrets), cursor : Nat,
              state : [DOMAIN p.refs -> KeyState],
              ewma : [DOMAIN p.refs -> Nat \cup {NoSample}]]
    /\ \A k \in DOMAIN p.refs : p.state[k].tag = "Leased" => p.state[k].n > 0

\* The shapes of the variables; a call's guard names a key of the pool it holds,
\* and the registry being installed is not the one in use.
TypeOK ==
    /\ DOMAIN pools = PoolIds /\ \A g \in PoolIds : PoolOK(pools[g])
    /\ current \in PoolIds
    /\ incoming \in [pool : PoolIds \cup {NoPool}, carried : BOOLEAN]
    /\ incoming.pool # current
    /\ incoming.carried => incoming.pool # NoPool
    /\ handle \in [Calls -> PoolIds \cup {NoPool}]
    /\ guard \in [Calls -> Nat]
    /\ \A c \in Calls :
         guard[c] # NoKey => /\ handle[c] # NoPool
                             /\ guard[c] \in DOMAIN pools[handle[c]].refs

\* The calls that hold a guard on key k of pool g.
Holders(g, k) == {c \in Calls : handle[c] = g /\ guard[c] = k}

\* No lease leaks: a key never counts more leases than there are live guards, in
\* every pool, through cooldowns, expiry and hot replacement (pool.rs release and
\* lease).  In particular a pool without guards has no Leased key.
LeaseBound ==
    \A g \in PoolIds : \A k \in DOMAIN pools[g].refs :
        active_count(pools[g].state[k]) <= Cardinality(Holders(g, k))

CooldownStep ==
    \A g \in PoolIds : Held(g) => \A k \in DOMAIN pools[g].refs :
        is_cooling(pools[g].state[k]) /\ pools[g].state[k].n > 0
            => is_cooling(pools'[g].state[k])

\* A cooldown that has not run out is ended by time alone: no acquire, release,
\* latency sample, snapshot or installation turns the key selectable again.
CooldownHolds == [][CooldownStep]_vars

\* A guard is only ever given out on a key whose cooldown, if any, is over.
CoolingKeySkipped ==
    [][\A c \in Calls : guard[c] = NoKey /\ guard'[c] # NoKey =>
          LET s == pools[handle[c]].state[guard'[c]]
          IN  is_cooling(s) => s.n = 0]_vars

\* Hot replacement moves cooldowns with the secret, whatever happens to the order
\* of the keys: a new key cools exactly as long as an old key of its secret did,
\* and a secret all of whose old keys were cooling is still cooling.
CarryKeepsCooldowns ==
    [][~incoming.carried /\ incoming'.carried =>
          LET new == pools'[incoming.pool]
              old == pools[current]
              OldKeys(k) == {j \in DOMAIN old.refs : old.refs[j] = new.refs[k]}
              Cooling(j) == is_cooling(old.state[j]) /\ old.state[j].n > 0
          IN  \A k \in DOMAIN new.refs :
                /\ is_cooling(new.state[k]) => \E j \in OldKeys(k) : new.state[k] = old.state[j]
                /\ OldKeys(k) # {} /\ (\A j \in OldKeys(k) : Cooling(j)) => is_cooling(new.state[k])
      ]_vars
=============================================================================
