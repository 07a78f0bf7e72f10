--------------------------- MODULE KeyPoolProofs ---------------------------
(* Theorems about KeyPool for every set of calls, pools, configurations and   *)
(* cooldowns.  The lemmas say that each pool operation keeps a pool well       *)
(* formed and what it does to the lease count of a key.                        *)
EXTENDS KeyPool, FiniteSetTheorems, WellFoundedInduction, TLAPS

\* A key state that may stand in a well-formed pool.
StateOK(s) == s \in KeyState /\ (s.tag = "Leased" => s.n > 0)

\* What PoolOK says, with the states of the keys one by one.
LEMMA PoolOKFacts ==
    ASSUME NEW p, PoolOK(p)
    PROVE  /\ p.strategy \in Strategies /\ p.refs \in Seq(Secrets) /\ p.cursor \in Nat
           /\ p.state \in [DOMAIN p.refs -> KeyState]
           /\ p.ewma \in [DOMAIN p.refs -> Nat \cup {NoSample}]
           /\ \A k \in DOMAIN p.refs : StateOK(p.state[k])
    BY DEF PoolOK, StateOK

\* A freshly built pool is well formed (ResourceKeyPool::new).
LEMMA NewPoolOK ==
    ASSUME NEW cf \in Configs
    PROVE  PoolOK(NewPool(cf)) /\ NewPool(cf).refs = cf.refs
    <1>1. cf.strategy \in Strategies /\ cf.refs \in Seq(Secrets)
      BY ConfigsAssumption
    <1> QED BY <1>1 DEF PoolOK, NewPool, KeyState, Available, NoSample

\* Replacing all key states by well-formed ones keeps the pool well formed.
LEMMA StateMapOK ==
    ASSUME NEW p, PoolOK(p), NEW f \in [DOMAIN p.refs -> KeyState],
           \A k \in DOMAIN p.refs : StateOK(f[k])
    PROVE  PoolOK([p EXCEPT !.state = f])
    BY DEF PoolOK, StateOK

\* Replacing one key state by a well-formed one keeps the pool well formed.
LEMMA SetStateOK ==
    ASSUME NEW p, PoolOK(p), NEW k \in DOMAIN p.refs, NEW s, StateOK(s)
    PROVE  PoolOK([p EXCEPT !.state[k] = s])
    BY DEF PoolOK, StateOK

\* The key state operations return well-formed states.
LEMMA StateOps ==
    ASSUME NEW s, StateOK(s)
    PROVE  /\ StateOK(Expire(s)) /\ StateOK(lease(s))
           /\ StateOK(Released(s)) /\ StateOK(TickState(s))
    BY DEF StateOK, KeyState, Expire, expired, lease, Released, TickState, is_cooling,
           Available, CoolingUntil, Leased

\* What they do to the lease count: only lease raises it, release lowers it by one
\* unless it is zero, expiry and time leave it alone.
LEMMA StateOpCounts ==
    ASSUME NEW s, StateOK(s)
    PROVE  /\ active_count(s) \in Nat
           /\ active_count(Expire(s)) = active_count(s)
           /\ active_count(TickState(s)) = active_count(s)
           /\ active_count(lease(s)) <= active_count(s) + 1
           /\ active_count(Released(s)) = IF active_count(s) = 0 THEN 0 ELSE active_count(s) - 1
    BY DEF StateOK, KeyState, Expire, expired, lease, Released, TickState, is_cooling,
           Available, CoolingUntil, Leased, active_count

\* Lazy expiry keeps a pool well formed and touches only the key states.
LEMMA ExpireOK ==
    ASSUME NEW p, PoolOK(p)
    PROVE  /\ PoolOK(expire_cooling(p))
           /\ expire_cooling(p).refs = p.refs
           /\ expire_cooling(p).strategy = p.strategy
           /\ expire_cooling(p).cursor = p.cursor
           /\ expire_cooling(p).ewma = p.ewma
           /\ \A k \in DOMAIN p.refs : expire_cooling(p).state[k] = Expire(p.state[k])
    <1> DEFINE f == [k \in DOMAIN p.state |-> Expire(p.state[k])]
    <1>1. f \in [DOMAIN p.refs -> KeyState] /\ \A k \in DOMAIN p.refs : StateOK(f[k])
      BY PoolOKFacts, StateOps DEF StateOK
    <1>2. PoolOK([p EXCEPT !.state = f])
      BY <1>1, StateMapOK
    <1> HIDE DEF f
    <1>3. expire_cooling(p) = [p EXCEPT !.state = f]
      BY DEF expire_cooling, f
    <1>4. f = [k \in DOMAIN p.refs |-> Expire(p.state[k])]
      BY PoolOKFacts DEF f
    <1>5. p = [strategy |-> p.strategy, refs |-> p.refs, cursor |-> p.cursor,
               state |-> p.state, ewma |-> p.ewma]
      BY DEF PoolOK
    <1>6. /\ [p EXCEPT !.state = f].refs = p.refs
          /\ [p EXCEPT !.state = f].strategy = p.strategy
          /\ [p EXCEPT !.state = f].cursor = p.cursor
          /\ [p EXCEPT !.state = f].ewma = p.ewma
          /\ [p EXCEPT !.state = f].state = f
      BY <1>5
    <1> QED BY <1>2, <1>3, <1>4, <1>6

\* A selected key is a candidate of the pool, for every strategy (strategy.rs select).
LEMMA SelectIsCandidate ==
    ASSUME NEW p, PoolOK(p), NEW k \in select(p)
    PROVE  k \in DOMAIN p.refs /\ ~is_cooling(p.state[k])
    <1>1. k \in Candidates(p)
      BY DEF select, RoundRobinPick
    <1> QED BY <1>1, PoolOKFacts DEF Candidates
\* Carrying runtime state into a new pool keeps it well formed; a key either keeps
\* the state it was built with or cools, so no lease is ever carried.
LEMMA CarriedOK ==
    ASSUME NEW new, PoolOK(new), NEW old, PoolOK(old)
    PROVE  /\ PoolOK(Carried(new, old))
           /\ Carried(new, old).refs = new.refs
           /\ \A k \in DOMAIN new.refs :
                 \/ Carried(new, old).state[k] = new.state[k]
                 \/ is_cooling(Carried(new, old).state[k])
    <1> DEFINE Src(k) == LastKeys(old.refs, new.refs[k])
               Cooling(k) == {j \in Src(k) : is_cooling(old.state[j]) /\ old.state[j].n > 0}
               f == [k \in DOMAIN new.refs |->
                       IF Cooling(k) # {} THEN old.state[CHOOSE j \in Cooling(k) : TRUE]
                       ELSE new.state[k]]
               e == [k \in DOMAIN new.refs |->
                       IF Src(k) # {} THEN old.ewma[CHOOSE j \in Src(k) : TRUE]
                       ELSE new.ewma[k]]
    <1>1. ASSUME NEW k \in DOMAIN new.refs
          PROVE  /\ StateOK(f[k])
                 /\ f[k] = new.state[k] \/ is_cooling(f[k])
                 /\ e[k] \in Nat \cup {NoSample}
      <2>1. Src(k) \subseteq DOMAIN old.refs
        BY DEF LastKeys
      <2>4. /\ StateOK(f[k])
            /\ f[k] = new.state[k] \/ is_cooling(f[k])
        <3>1. CASE Cooling(k) # {}
          <4>1. PICK j \in Cooling(k) : f[k] = old.state[j]
            BY <3>1
          <4> QED BY <2>1, <4>1, PoolOKFacts
        <3>2. CASE Cooling(k) = {}
          <4>1. f[k] = new.state[k]
            BY <3>2
          <4> QED BY <4>1, PoolOKFacts
        <3> QED BY <3>1, <3>2
      <2>5. e[k] \in Nat \cup {NoSample}
        <3>1. CASE Src(k) # {}
          <4>1. PICK j \in Src(k) : e[k] = old.ewma[j]
            BY <3>1
          <4> QED BY <4>1, <2>1, PoolOKFacts
        <3>2. CASE Src(k) = {}
          BY <3>2, PoolOKFacts
        <3> QED BY <3>1, <3>2
      <2> QED BY <2>4, <2>5
    <1>2. f \in [DOMAIN new.refs -> KeyState] /\ e \in [DOMAIN new.refs -> Nat \cup {NoSample}]
      BY <1>1 DEF StateOK
    <1>3. Carried(new, old) = [new EXCEPT !.state = f, !.ewma = e]
      BY DEF Carried
    <1> HIDE DEF f, e
    <1>4. new = [strategy |-> new.strategy, refs |-> new.refs, cursor |-> new.cursor,
                 state |-> new.state, ewma |-> new.ewma]
      BY DEF PoolOK
    <1>5. Carried(new, old) = [strategy |-> new.strategy, refs |-> new.refs,
                               cursor |-> new.cursor, state |-> f, ewma |-> e]
      BY <1>3, <1>4
    <1>6. PoolOK(Carried(new, old))
      BY <1>1, <1>2, <1>5, PoolOKFacts DEF PoolOK, StateOK
    <1> QED BY <1>1, <1>5, <1>6

\* Time leaves a pool well formed.
LEMMA TickOK ==
    ASSUME NEW p, PoolOK(p)
    PROVE  PoolOK([p EXCEPT !.state = [k \in DOMAIN p.state |-> TickState(p.state[k])]])
    <1> DEFINE f == [k \in DOMAIN p.state |-> TickState(p.state[k])]
    <1>1. f \in [DOMAIN p.refs -> KeyState] /\ \A k \in DOMAIN p.refs : StateOK(f[k])
      BY PoolOKFacts, StateOps DEF StateOK
    <1> HIDE DEF f
    <1>2. PoolOK([p EXCEPT !.state = f])
      BY <1>1, StateMapOK
    <1> QED BY <1>2 DEF f

\* A latency sample keeps the EWMA a natural number.
LEMMA EwmaOK ==
    ASSUME NEW prev \in Nat \cup {NoSample}, NEW ms \in Nat, NEW e \in Ewma(prev, ms)
    PROVE  e \in Nat
    BY DEF Ewma, NoSample

\* Leasing a key of a pool: the refs stay, one state and the cursor change.
LEMMA LeaseOK ==
    ASSUME NEW p, PoolOK(p), NEW k \in DOMAIN p.refs
    PROVE  LET q == [p EXCEPT !.state[k] = lease(@), !.cursor = NextCursor(p)]
           IN  /\ PoolOK(q) /\ q.refs = p.refs
               /\ q.state[k] = lease(p.state[k])
               /\ \A j \in DOMAIN p.refs : j # k => q.state[j] = p.state[j]
    <1>1. StateOK(lease(p.state[k]))
      BY PoolOKFacts, StateOps
    <1>2. NextCursor(p) \in Nat
      BY PoolOKFacts, CooldownAssumption DEF NextCursor
    <1> QED BY <1>1, <1>2 DEF PoolOK, StateOK

\* One pool replaced by a well-formed pool with the same refs: the shape of the
\* pools and of the guards is kept.
LEMMA PoolsExcept ==
    ASSUME TypeOK, NEW g \in PoolIds, NEW q, PoolOK(q), q.refs = pools[g].refs,
           pools' = [pools EXCEPT ![g] = q]
    PROVE  /\ DOMAIN pools' = PoolIds
           /\ \A h \in PoolIds : PoolOK(pools'[h]) /\ pools'[h].refs = pools[h].refs
    BY DEF TypeOK

\* TypeOK is an invariant: every pool stays well formed and every live guard names a
\* key of the pool its call holds, whatever is installed meanwhile.
THEOREM TypeCorrect == Spec => []TypeOK
  <1>1. Init => TypeOK
    <2> SUFFICES ASSUME Init PROVE TypeOK
      OBVIOUS
    <2>1. pools \in [PoolIds -> {NewPool(cf) : cf \in Configs}]
      BY DEF Init
    <2>2. \A g \in PoolIds : PoolOK(pools[g])
      BY <2>1, NewPoolOK
    <2> QED BY <2>1, <2>2, PoolIdsAssumption DEF Init, TypeOK, NoIncoming, NoPool, NoKey
  <1>2. TypeOK /\ [Next]_vars => TypeOK'
    <2> SUFFICES ASSUME TypeOK, [Next]_vars PROVE TypeOK'
      OBVIOUS
    <2>1. ASSUME NEW c \in Calls, Open(c) PROVE TypeOK'
      BY <2>1 DEF Open, TypeOK, NoKey
    <2>2. ASSUME NEW c \in Calls, Acquire(c) PROVE TypeOK'
      <3> DEFINE h == handle[c]
                 p == expire_cooling(pools[h])
      <3>1. h \in PoolIds /\ guard[c] = NoKey
        BY <2>2 DEF Acquire, TypeOK
      <3>2. PoolOK(p) /\ p.refs = pools[h].refs
        BY <3>1, ExpireOK DEF TypeOK
      <3>3. PICK k \in select(p) :
              /\ pools' = [pools EXCEPT ![h] = [p EXCEPT !.state[k] = lease(@), !.cursor = NextCursor(p)]]
              /\ guard' = [guard EXCEPT ![c] = k]
        BY <2>2 DEF Acquire
      <3> HIDE DEF p
      <3>4. k \in DOMAIN p.refs
        BY <3>2, <3>3, SelectIsCandidate
      <3> DEFINE q == [p EXCEPT !.state[k] = lease(@), !.cursor = NextCursor(p)]
      <3>5. PoolOK(q) /\ q.refs = pools[h].refs
        BY <3>2, <3>4, LeaseOK
      <3> HIDE DEF q
      <3>6. pools' = [pools EXCEPT ![h] = q]
        BY <3>3 DEF q
      <3>7. k \in Nat
        BY <3>2, <3>4, PoolOKFacts
      <3>8. /\ DOMAIN pools' = PoolIds
            /\ \A g \in PoolIds : PoolOK(pools'[g]) /\ pools'[g].refs = pools[g].refs
        BY <3>1, <3>5, <3>6, PoolsExcept
      <3>9. guard' \in [Calls -> Nat]
        BY <3>3, <3>7 DEF TypeOK
      <3>10. ASSUME NEW x \in Calls, guard'[x] # NoKey
             PROVE  handle[x] # NoPool /\ guard'[x] \in DOMAIN pools'[handle[x]].refs
        <4>1. CASE x = c
          BY <2>2, <3>1, <3>2, <3>3, <3>4, <3>8, <4>1 DEF Acquire, TypeOK
        <4>2. CASE x # c
          BY <3>3, <3>8, <3>10, <4>2 DEF TypeOK
        <4> QED BY <4>1, <4>2
      <3> QED BY <2>2, <3>8, <3>9, <3>10 DEF Acquire, TypeOK
    <2>3. ASSUME NEW c \in Calls, AcquireFails(c) PROVE TypeOK'
      <3>1. handle[c] \in PoolIds
        BY <2>3 DEF AcquireFails, TypeOK
      <3>2. /\ PoolOK(expire_cooling(pools[handle[c]]))
            /\ expire_cooling(pools[handle[c]]).refs = pools[handle[c]].refs
        BY <3>1, ExpireOK DEF TypeOK
      <3> QED BY <2>3, <3>1, <3>2, PoolsExcept DEF AcquireFails, TypeOK
    <2>4. ASSUME NEW c \in Calls, NEW d \in Cooldowns \cup {DEFAULT_COOLDOWN}, MarkCooling(c, d)
          PROVE  TypeOK'
      <3>1. /\ handle[c] \in PoolIds /\ guard[c] \in DOMAIN pools[handle[c]].refs
            /\ PoolOK(pools[handle[c]])
        BY <2>4 DEF MarkCooling, TypeOK
      <3>2. StateOK(CoolingUntil(d))
        BY CooldownAssumption DEF StateOK, KeyState, CoolingUntil
      <3> DEFINE q == [pools[handle[c]] EXCEPT !.state[guard[c]] = CoolingUntil(d)]
      <3>3. PoolOK(q) /\ q.refs = pools[handle[c]].refs
        BY <3>1, <3>2, SetStateOK DEF PoolOK
      <3>4. pools' = [pools EXCEPT ![handle[c]] = q]
        BY <2>4 DEF MarkCooling, SetState
      <3> HIDE DEF q
      <3> QED BY <2>4, <3>1, <3>3, <3>4, PoolsExcept DEF MarkCooling, TypeOK
    <2>5. ASSUME NEW c \in Calls, NEW ms \in Latencies, RecordLatency(c, ms) PROVE TypeOK'
      <3>1. /\ handle[c] \in PoolIds /\ guard[c] \in DOMAIN pools[handle[c]].refs
            /\ PoolOK(pools[handle[c]])
        BY <2>5 DEF RecordLatency, TypeOK
      <3>2. PICK e \in Ewma(pools[handle[c]].ewma[guard[c]], ms) :
              pools' = [pools EXCEPT ![handle[c]].ewma[guard[c]] = e]
        BY <2>5 DEF RecordLatency
      <3>3. e \in Nat
        BY <3>1, <3>2, EwmaOK, PoolOKFacts, CooldownAssumption
      <3> DEFINE q == [pools[handle[c]] EXCEPT !.ewma[guard[c]] = e]
      <3>4. PoolOK(q) /\ q.refs = pools[handle[c]].refs
        BY <3>1, <3>3 DEF PoolOK
      <3>5. pools' = [pools EXCEPT ![handle[c]] = q]
        BY <3>2
      <3> HIDE DEF q
      <3> QED BY <2>5, <3>1, <3>4, <3>5, PoolsExcept DEF RecordLatency, TypeOK
    <2>6. ASSUME NEW c \in Calls, Release(c) PROVE TypeOK'
      <3>1. /\ handle[c] \in PoolIds /\ guard[c] \in DOMAIN pools[handle[c]].refs
            /\ PoolOK(pools[handle[c]])
        BY <2>6 DEF Release, TypeOK
      <3> DEFINE s == Released(pools[handle[c]].state[guard[c]])
                 q == [pools[handle[c]] EXCEPT !.state[guard[c]] = s]
      <3>2. StateOK(s)
        BY <3>1, StateOps, PoolOKFacts
      <3> HIDE DEF s
      <3>3. PoolOK(q) /\ q.refs = pools[handle[c]].refs
        BY <3>1, <3>2, SetStateOK DEF PoolOK
      <3>4. pools' = [pools EXCEPT ![handle[c]] = q]
        BY <2>6 DEF Release, SetState, s
      <3> HIDE DEF q
      <3> QED BY <2>6, <3>1, <3>3, <3>4, PoolsExcept DEF Release, TypeOK, NoKey
    <2>7. ASSUME NEW c \in Calls, Close(c) PROVE TypeOK'
      BY <2>7 DEF Close, TypeOK
    <2>8. ASSUME NEW g \in PoolIds, NEW cf \in Configs, BuildPools(g, cf) PROVE TypeOK'
      <3>1. PoolOK(NewPool(cf))
        BY NewPoolOK
      <3>2. \A h \in PoolIds : PoolOK(pools'[h]) /\ (h # g => pools'[h] = pools[h])
        BY <2>8, <3>1 DEF BuildPools, TypeOK
      <3> QED BY <2>8, <3>2, PoolIdsAssumption DEF BuildPools, TypeOK, Held, NoPool
    <2>9. CASE CarryRuntime
      <3> DEFINE i == incoming.pool
                 old == expire_cooling(pools[current])
                 q == Carried(pools[i], old)
      <3>1. i \in PoolIds /\ i # current /\ current \in PoolIds
        BY <2>9 DEF CarryRuntime, TypeOK, NoIncoming
      <3>2. PoolOK(old) /\ old.refs = pools[current].refs
        BY <3>1, ExpireOK DEF TypeOK
      <3>3. PoolOK(q) /\ q.refs = pools[i].refs
        BY <3>1, <3>2, CarriedOK DEF TypeOK
      <3>4. pools' = [pools EXCEPT ![current] = old, ![i] = q]
        BY <2>9, <3>1 DEF CarryRuntime, TypeOK
      <3> HIDE DEF old, q
      <3>5. /\ DOMAIN pools' = PoolIds
            /\ \A h \in PoolIds : PoolOK(pools'[h]) /\ pools'[h].refs = pools[h].refs
        BY <3>1, <3>2, <3>3, <3>4 DEF TypeOK
      <3> QED BY <2>9, <3>1, <3>5, PoolIdsAssumption DEF CarryRuntime, TypeOK, NoPool
    <2>10. CASE InstallPools
      BY <2>10, PoolIdsAssumption DEF InstallPools, TypeOK, NoIncoming, NoPool
    <2>11. CASE Snapshot
      <3>1. PoolOK(expire_cooling(pools[current])) /\ expire_cooling(pools[current]).refs = pools[current].refs
        BY ExpireOK DEF TypeOK
      <3> QED BY <2>11, <3>1, PoolsExcept DEF Snapshot, TypeOK
    <2>12. CASE Tick
      <3>1. \A h \in PoolIds : PoolOK(pools'[h])
        BY <2>12, TickOK DEF Tick, TypeOK
      <3>2. \A h \in PoolIds : pools'[h].refs = pools[h].refs
        BY <2>12 DEF Tick, TypeOK, PoolOK
      <3> QED BY <2>12, <3>1, <3>2 DEF Tick, TypeOK
    <2>13. CASE UNCHANGED vars
      BY <2>13 DEF vars, TypeOK
    <2> QED BY <2>1, <2>2, <2>3, <2>4, <2>5, <2>6, <2>7, <2>8, <2>9, <2>10, <2>11, <2>12, <2>13
            DEF Next
  <1> QED BY <1>1, <1>2, PTL DEF Spec

-----------------------------------------------------------------------------
\* The number of holders of a key is a natural number.
LEMMA HoldersFinite ==
    ASSUME NEW g, NEW k
    PROVE  IsFiniteSet(Holders(g, k)) /\ Cardinality(Holders(g, k)) \in Nat
    <1>1. IsFiniteSet(Holders(g, k))
      BY CallsAssumption, FS_Subset DEF Holders
    <1> QED BY <1>1, FS_CardinalityType

\* A step that lowers or keeps every lease count and keeps every set of holders
\* preserves the lease bound.
LEMMA LeaseBoundKept ==
    ASSUME TypeOK, LeaseBound, TypeOK',
           \A g \in PoolIds : pools'[g].refs = pools[g].refs,
           \A g \in PoolIds : \A k \in DOMAIN pools[g].refs :
               /\ active_count(pools'[g].state[k]) <= active_count(pools[g].state[k])
               /\ Holders(g, k)' = Holders(g, k)
    PROVE  LeaseBound'
    <1> SUFFICES ASSUME NEW g \in PoolIds, NEW k \in DOMAIN pools[g].refs
                 PROVE  active_count(pools'[g].state[k]) <= Cardinality(Holders(g, k))
      BY DEF LeaseBound
    <1>1. active_count(pools[g].state[k]) <= Cardinality(Holders(g, k))
      BY DEF LeaseBound
    <1>2. /\ active_count(pools[g].state[k]) \in Nat
          /\ active_count(pools'[g].state[k]) \in Nat
      BY StateOpCounts, PoolOKFacts DEF TypeOK
    <1> QED BY <1>1, <1>2, HoldersFinite

\* No lease leaks, for any number of calls, keys, pools and replacements: LeaseBound
\* is inductive once the pools are well formed.
THEOREM NoLeaseLeaks == Spec => []LeaseBound
  <1>1. Init => LeaseBound
    <2> SUFFICES ASSUME Init, NEW g \in PoolIds, NEW k \in DOMAIN pools[g].refs
                 PROVE  active_count(pools[g].state[k]) <= Cardinality(Holders(g, k))
      BY DEF LeaseBound
    <2>1. PICK cf \in Configs : pools[g] = NewPool(cf)
      BY DEF Init
    <2>2. active_count(pools[g].state[k]) = 0
      BY <2>1 DEF NewPool, active_count, Available
    <2> QED BY <2>2, HoldersFinite
  <1>2. TypeOK /\ TypeOK' /\ LeaseBound /\ [Next]_vars => LeaseBound'
    <2> SUFFICES ASSUME TypeOK, TypeOK', LeaseBound, [Next]_vars PROVE LeaseBound'
      OBVIOUS
    <2>0. \A g \in PoolIds : \A k \in DOMAIN pools[g].refs : k # NoKey
      BY DEF TypeOK, PoolOK, NoKey
    <2>a. \A g \in PoolIds : \A k \in DOMAIN pools[g].refs :
            StateOK(pools[g].state[k]) /\ active_count(pools[g].state[k]) \in Nat
      BY StateOpCounts, PoolOKFacts DEF TypeOK
    <2>b. \A g \in PoolIds : \A k \in DOMAIN pools[g].refs :
            active_count(expire_cooling(pools[g]).state[k]) = active_count(pools[g].state[k])
      BY <2>a, ExpireOK, StateOpCounts DEF TypeOK
    <2>1. ASSUME NEW c \in Calls, Open(c) \/ Close(c) PROVE LeaseBound'
      <3>1. pools' = pools /\ guard' = guard /\ guard[c] = NoKey
        BY <2>1 DEF Open, Close, TypeOK
      <3>2. \A x \in Calls : x # c => handle'[x] = handle[x]
        BY <2>1 DEF Open, Close, TypeOK
      <3>3. \A g \in PoolIds : \A k \in DOMAIN pools[g].refs : Holders(g, k)' = Holders(g, k)
        BY <2>0, <3>1, <3>2 DEF Holders
      <3> QED BY <2>a, <3>1, <3>3, LeaseBoundKept
    <2>2. ASSUME NEW c \in Calls, Acquire(c) PROVE LeaseBound'
      <3> DEFINE h == handle[c]
                 p == expire_cooling(pools[h])
      <3>1. h \in PoolIds /\ guard[c] = NoKey /\ handle' = handle
        BY <2>2 DEF Acquire, TypeOK
      <3>2. PoolOK(p) /\ p.refs = pools[h].refs
        BY <3>1, ExpireOK DEF TypeOK
      <3>3. PICK k \in select(p) :
              /\ pools' = [pools EXCEPT ![h] = [p EXCEPT !.state[k] = lease(@), !.cursor = NextCursor(p)]]
              /\ guard' = [guard EXCEPT ![c] = k]
        BY <2>2 DEF Acquire
      <3>b. \A j \in DOMAIN pools[h].refs : active_count(p.state[j]) = active_count(pools[h].state[j])
        BY <2>b, <3>1
      <3> HIDE DEF p
      <3>4. k \in DOMAIN p.refs
        BY <3>2, <3>3, SelectIsCandidate
      <3> DEFINE q == [p EXCEPT !.state[k] = lease(@), !.cursor = NextCursor(p)]
      <3>5. /\ q.refs = pools[h].refs
            /\ q.state[k] = lease(p.state[k])
            /\ \A j \in DOMAIN p.refs : j # k => q.state[j] = p.state[j]
        BY <3>2, <3>4, LeaseOK
      <3> HIDE DEF q
      <3>6. pools' = [pools EXCEPT ![h] = q]
        BY <3>3 DEF q
      <3> SUFFICES ASSUME NEW g \in PoolIds, NEW j \in DOMAIN pools'[g].refs
                   PROVE  active_count(pools'[g].state[j]) <= Cardinality(Holders(g, j)')
        BY DEF LeaseBound
      <3>7. pools'[g].refs = pools[g].refs
        BY <3>1, <3>5, <3>6 DEF TypeOK
      <3>8. active_count(pools[g].state[j]) <= Cardinality(Holders(g, j))
        BY <3>7 DEF LeaseBound
      <3>9. CASE g = h /\ j = k
        <4>1. Holders(g, j)' = Holders(g, j) \cup {c} /\ c \notin Holders(g, j)
          BY <2>0, <3>1, <3>3, <3>7, <3>9 DEF Holders, TypeOK
        <4>2. Cardinality(Holders(g, j)') = Cardinality(Holders(g, j)) + 1
          BY <4>1, HoldersFinite, FS_AddElement
        <4>3. /\ active_count(p.state[k]) \in Nat
              /\ active_count(lease(p.state[k])) <= active_count(p.state[k]) + 1
              /\ active_count(lease(p.state[k])) \in Nat
          BY <3>2, <3>4, PoolOKFacts, StateOpCounts, StateOps
        <4>4. active_count(p.state[k]) = active_count(pools[g].state[j])
          BY <3>b, <3>7, <3>9
        <4>5. pools'[g].state[j] = lease(p.state[k])
          BY <3>1, <3>5, <3>6, <3>9 DEF TypeOK
        <4> QED BY <3>8, <4>2, <4>3, <4>4, <4>5, HoldersFinite
      <3>10. CASE ~(g = h /\ j = k)
        <4>1. Holders(g, j)' = Holders(g, j)
          BY <2>0, <3>1, <3>3, <3>7, <3>10 DEF Holders, TypeOK
        <4>2. active_count(pools'[g].state[j]) = active_count(pools[g].state[j])
          BY <3>1, <3>2, <3>5, <3>6, <3>7, <3>10, <3>b DEF TypeOK
        <4> QED BY <3>8, <4>1, <4>2
      <3> QED BY <3>9, <3>10
    <2>3. ASSUME NEW c \in Calls, AcquireFails(c) PROVE LeaseBound'
      <3>1. /\ handle[c] \in PoolIds /\ guard' = guard /\ handle' = handle
            /\ pools' = [pools EXCEPT ![handle[c]] = expire_cooling(pools[handle[c]])]
        BY <2>3 DEF AcquireFails, TypeOK
      <3>2. expire_cooling(pools[handle[c]]).refs = pools[handle[c]].refs
        BY <3>1, ExpireOK DEF TypeOK
      <3>3. \A g \in PoolIds : /\ pools'[g].refs = pools[g].refs
                               /\ \A k \in DOMAIN pools[g].refs :
                                    active_count(pools'[g].state[k]) = active_count(pools[g].state[k])
        BY <2>b, <3>1, <3>2 DEF TypeOK
      <3>4. \A g, k : Holders(g, k)' = Holders(g, k)
        BY <3>1 DEF Holders
      <3> QED BY <2>a, <3>3, <3>4, LeaseBoundKept
    <2>4. ASSUME NEW c \in Calls, NEW d \in Cooldowns \cup {DEFAULT_COOLDOWN}, MarkCooling(c, d)
          PROVE  LeaseBound'
      <3>1. /\ handle[c] \in PoolIds /\ guard' = guard /\ handle' = handle
            /\ pools' = [pools EXCEPT ![handle[c]].state[guard[c]] = CoolingUntil(d)]
        BY <2>4 DEF MarkCooling, SetState, TypeOK
      <3>2. active_count(CoolingUntil(d)) = 0
        BY DEF active_count, CoolingUntil
      <3>3. \A g \in PoolIds : /\ pools'[g].refs = pools[g].refs
                               /\ \A k \in DOMAIN pools[g].refs :
                                    \/ pools'[g].state[k] = pools[g].state[k]
                                    \/ pools'[g].state[k] = CoolingUntil(d)
        BY <3>1 DEF TypeOK, PoolOK
      <3>4. \A g, k : Holders(g, k)' = Holders(g, k)
        BY <3>1 DEF Holders
      <3>5. \A g \in PoolIds : \A k \in DOMAIN pools[g].refs :
              active_count(pools'[g].state[k]) <= active_count(pools[g].state[k])
        BY <2>a, <3>2, <3>3
      <3> QED BY <3>3, <3>4, <3>5, LeaseBoundKept
    <2>5. ASSUME NEW c \in Calls, NEW ms \in Latencies, RecordLatency(c, ms) PROVE LeaseBound'
      <3>1. PICK e : /\ handle[c] \in PoolIds /\ guard' = guard /\ handle' = handle
                     /\ pools' = [pools EXCEPT ![handle[c]].ewma[guard[c]] = e]
        BY <2>5 DEF RecordLatency, TypeOK
      <3>2. \A g \in PoolIds : pools'[g].refs = pools[g].refs /\ pools'[g].state = pools[g].state
        BY <3>1 DEF TypeOK, PoolOK
      <3>3. \A g, k : Holders(g, k)' = Holders(g, k)
        BY <3>1 DEF Holders
      <3> QED BY <2>a, <3>2, <3>3, LeaseBoundKept
    <2>6. ASSUME NEW c \in Calls, Release(c) PROVE LeaseBound'
      <3> DEFINE h == handle[c]
                 k == guard[c]
                 s == Released(pools[h].state[k])
      <3>1. /\ h \in PoolIds /\ k # NoKey /\ k \in DOMAIN pools[h].refs /\ handle' = handle
            /\ pools' = [pools EXCEPT ![h].state[k] = s]
            /\ guard' = [guard EXCEPT ![c] = NoKey]
        BY <2>6 DEF Release, SetState, TypeOK
      <3> SUFFICES ASSUME NEW g \in PoolIds, NEW j \in DOMAIN pools'[g].refs
                   PROVE  active_count(pools'[g].state[j]) <= Cardinality(Holders(g, j)')
        BY DEF LeaseBound
      <3>2. pools'[g].refs = pools[g].refs
        BY <3>1 DEF TypeOK, PoolOK
      <3>3. active_count(pools[g].state[j]) <= Cardinality(Holders(g, j))
        BY <3>2 DEF LeaseBound
      <3>4. CASE g = h /\ j = k
        <4>1. Holders(g, j)' = Holders(g, j) \ {c} /\ c \in Holders(g, j)
          BY <3>1, <3>4 DEF Holders, TypeOK
        <4>2. /\ Cardinality(Holders(g, j)') = Cardinality(Holders(g, j)) - 1
              /\ Cardinality(Holders(g, j)') \in Nat
          BY <4>1, HoldersFinite, FS_RemoveElement, FS_CardinalityType
        <4>3. pools'[g].state[j] = s
          BY <3>1, <3>4 DEF TypeOK, PoolOK
        <4>4. active_count(s) = IF active_count(pools[h].state[k]) = 0 THEN 0
                                ELSE active_count(pools[h].state[k]) - 1
          BY <2>a, <3>1, StateOpCounts
        <4>5. active_count(pools[h].state[k]) \in Nat
          BY <2>a, <3>1
        <4> HIDE DEF s, h, k
        <4> QED BY <3>3, <3>4, <4>2, <4>3, <4>4, <4>5, HoldersFinite
      <3>5. CASE ~(g = h /\ j = k)
        <4>1. Holders(g, j)' = Holders(g, j)
          BY <2>0, <3>1, <3>2, <3>5 DEF Holders, TypeOK
        <4>2. pools'[g].state[j] = pools[g].state[j]
          BY <3>1, <3>2, <3>5 DEF TypeOK, PoolOK
        <4> QED BY <3>3, <4>1, <4>2
      <3> QED BY <3>4, <3>5
    <2>7. ASSUME NEW g \in PoolIds, NEW cf \in Configs, BuildPools(g, cf) PROVE LeaseBound'
      <3> SUFFICES ASSUME NEW h \in PoolIds, NEW k \in DOMAIN pools'[h].refs
                   PROVE  active_count(pools'[h].state[k]) <= Cardinality(Holders(h, k)')
        BY DEF LeaseBound
      <3>1. Holders(h, k)' = Holders(h, k)
        BY <2>7 DEF BuildPools, Holders
      <3>2. CASE h = g
        <4>1. pools'[h] = NewPool(cf)
          BY <2>7, <3>2 DEF BuildPools, TypeOK
        <4>2. active_count(pools'[h].state[k]) = 0
          BY <4>1 DEF NewPool, active_count, Available
        <4> QED BY <3>1, <4>2, HoldersFinite
      <3>3. CASE h # g
        BY <2>7, <3>1, <3>3 DEF BuildPools, TypeOK, LeaseBound
      <3> QED BY <3>2, <3>3
    <2>8. CASE CarryRuntime
      <3> DEFINE i == incoming.pool
                 old == expire_cooling(pools[current])
                 q == Carried(pools[i], old)
      <3>1. i \in PoolIds /\ i # current /\ current \in PoolIds
        BY <2>8 DEF CarryRuntime, TypeOK, NoIncoming
      <3>2. /\ PoolOK(old) /\ old.refs = pools[current].refs
            /\ \A k \in DOMAIN pools[current].refs :
                 active_count(old.state[k]) = active_count(pools[current].state[k])
        BY <2>b, <3>1, ExpireOK DEF TypeOK
      <3> HIDE DEF old
      <3>3. /\ q.refs = pools[i].refs
            /\ \A k \in DOMAIN pools[i].refs :
                 q.state[k] = pools[i].state[k] \/ is_cooling(q.state[k])
        BY <3>1, <3>2, CarriedOK DEF TypeOK
      <3> HIDE DEF q
      <3>4. pools' = [pools EXCEPT ![current] = old, ![i] = q]
        BY <2>8, <3>1 DEF CarryRuntime, TypeOK, old, q
      <3>5. \A k \in DOMAIN pools[i].refs :
              active_count(q.state[k]) <= active_count(pools[i].state[k])
        BY <2>a, <3>1, <3>3 DEF active_count, is_cooling
      <3>6. \A g \in PoolIds : /\ pools'[g].refs = pools[g].refs
                               /\ \A k \in DOMAIN pools[g].refs :
                                    active_count(pools'[g].state[k]) <= active_count(pools[g].state[k])
        BY <2>a, <3>1, <3>2, <3>3, <3>4, <3>5 DEF TypeOK
      <3>7. \A g, k : Holders(g, k)' = Holders(g, k)
        BY <2>8 DEF CarryRuntime, Holders
      <3> QED BY <3>6, <3>7, LeaseBoundKept
    <2>9. CASE InstallPools
      BY <2>9 DEF InstallPools, LeaseBound, Holders
    <2>10. CASE Snapshot
      <3>1. expire_cooling(pools[current]).refs = pools[current].refs
        BY ExpireOK DEF TypeOK
      <3>2. \A g \in PoolIds : /\ pools'[g].refs = pools[g].refs
                               /\ \A k \in DOMAIN pools[g].refs :
                                    active_count(pools'[g].state[k]) = active_count(pools[g].state[k])
        BY <2>b, <2>10, <3>1 DEF Snapshot, TypeOK
      <3>3. \A g, k : Holders(g, k)' = Holders(g, k)
        BY <2>10 DEF Snapshot, Holders
      <3> QED BY <2>a, <3>2, <3>3, LeaseBoundKept
    <2>11. CASE Tick
      <3>1. \A g \in PoolIds : /\ pools'[g].refs = pools[g].refs
                               /\ \A k \in DOMAIN pools[g].refs :
                                    pools'[g].state[k] = TickState(pools[g].state[k])
        BY <2>11 DEF Tick, TypeOK, PoolOK
      <3>2. \A g \in PoolIds : \A k \in DOMAIN pools[g].refs :
              active_count(pools'[g].state[k]) = active_count(pools[g].state[k])
        BY <2>a, <3>1, StateOpCounts
      <3>3. \A g, k : Holders(g, k)' = Holders(g, k)
        BY <2>11 DEF Tick, Holders
      <3> QED BY <2>a, <3>1, <3>2, <3>3, LeaseBoundKept
    <2>12. CASE UNCHANGED vars
      BY <2>12 DEF vars, LeaseBound, Holders
    <2> QED BY <2>1, <2>2, <2>3, <2>4, <2>5, <2>6, <2>7, <2>8, <2>9, <2>10, <2>11, <2>12 DEF Next
  <1> QED BY <1>1, <1>2, TypeCorrect, PTL DEF Spec

-----------------------------------------------------------------------------
\* Expiry does not touch a cooldown with time left, and releasing never ends one.
LEMMA CoolingStates ==
    ASSUME NEW s, is_cooling(s), s.n > 0
    PROVE  Expire(s) = s /\ Released(s) = s /\ lease(s) = s /\ is_cooling(TickState(s))
    BY DEF is_cooling, Expire, expired, Released, lease, TickState, CoolingUntil

\* A cooldown that has not run out is ended by time alone, in every pool that is in
\* use, for every interleaving of calls, snapshots and replacements.
THEOREM CooldownsEndByTime == Spec => CooldownHolds
  <1>1. TypeOK /\ [Next]_vars => [CooldownStep]_vars
    <2> SUFFICES ASSUME TypeOK, Next,
                        NEW g \in PoolIds, Held(g), NEW k \in DOMAIN pools[g].refs,
                        is_cooling(pools[g].state[k]), pools[g].state[k].n > 0
                 PROVE  is_cooling(pools'[g].state[k])
      BY DEF CooldownStep
    <2>0. PoolOK(pools[g]) /\ Expire(pools[g].state[k]) = pools[g].state[k]
      BY CoolingStates DEF TypeOK
    <2>e. expire_cooling(pools[g]).state[k] = pools[g].state[k]
      BY <2>0, ExpireOK
    <2>1. ASSUME pools' = pools PROVE is_cooling(pools'[g].state[k])
      BY <2>1
    <2>2. ASSUME NEW c \in Calls, Acquire(c) PROVE is_cooling(pools'[g].state[k])
      <3> DEFINE p == expire_cooling(pools[handle[c]])
      <3>1. PICK j \in select(p) :
              pools' = [pools EXCEPT ![handle[c]] =
                          [p EXCEPT !.state[j] = lease(@), !.cursor = NextCursor(p)]]
        BY <2>2 DEF Acquire
      <3>2. handle[c] \in PoolIds
        BY <2>2 DEF Acquire, TypeOK
      <3>3. PoolOK(p) /\ p.refs = pools[handle[c]].refs
        BY <3>2, ExpireOK DEF TypeOK
      <3>4. g = handle[c] => p.state[k] = pools[g].state[k] /\ k \in DOMAIN p.refs
        BY <2>e, <3>3
      <3> HIDE DEF p
      <3>5. j \in DOMAIN p.refs
        BY <3>1, <3>3, SelectIsCandidate
      <3> DEFINE q == [p EXCEPT !.state[j] = lease(@), !.cursor = NextCursor(p)]
      <3>6. /\ q.state[j] = lease(p.state[j])
            /\ \A i \in DOMAIN p.refs : i # j => q.state[i] = p.state[i]
        BY <3>3, <3>5, LeaseOK
      <3> HIDE DEF q
      <3>7. pools' = [pools EXCEPT ![handle[c]] = q]
        BY <3>1 DEF q
      <3>8. g = handle[c] => q.state[k] = pools[g].state[k]
        BY <3>4, <3>6, CoolingStates
      <3> QED BY <3>2, <3>7, <3>8 DEF TypeOK
    <2>3. ASSUME NEW c \in Calls, AcquireFails(c) PROVE is_cooling(pools'[g].state[k])
      BY <2>3, <2>e DEF AcquireFails, TypeOK
    <2>4. ASSUME NEW c \in Calls, NEW d, MarkCooling(c, d) PROVE is_cooling(pools'[g].state[k])
      <3>1. pools' = [pools EXCEPT ![handle[c]].state[guard[c]] = CoolingUntil(d)]
        BY <2>4 DEF MarkCooling, SetState
      <3>2. pools'[g].state[k] = pools[g].state[k] \/ pools'[g].state[k] = CoolingUntil(d)
        BY <3>1, <2>0 DEF TypeOK, PoolOK
      <3> QED BY <3>2 DEF is_cooling, CoolingUntil
    <2>5. ASSUME NEW c \in Calls, NEW ms, RecordLatency(c, ms) PROVE is_cooling(pools'[g].state[k])
      <3>1. PICK e : pools' = [pools EXCEPT ![handle[c]].ewma[guard[c]] = e]
        BY <2>5 DEF RecordLatency
      <3>2. pools'[g].state = pools[g].state
        BY <3>1, <2>0 DEF TypeOK, PoolOK
      <3> QED BY <3>2
    <2>6. ASSUME NEW c \in Calls, Release(c) PROVE is_cooling(pools'[g].state[k])
      <3> DEFINE s == Released(pools[handle[c]].state[guard[c]])
      <3>1. pools' = [pools EXCEPT ![handle[c]].state[guard[c]] = s]
        BY <2>6 DEF Release, SetState
      <3>2. g = handle[c] /\ k = guard[c] => s = pools[g].state[k]
        BY CoolingStates
      <3> HIDE DEF s
      <3>3. pools'[g].state[k] = pools[g].state[k]
        BY <3>1, <3>2, <2>0 DEF TypeOK, PoolOK
      <3> QED BY <3>3
    <2>7. ASSUME NEW h \in PoolIds, NEW cf, BuildPools(h, cf) PROVE is_cooling(pools'[g].state[k])
      BY <2>7 DEF BuildPools, TypeOK
    <2>8. CASE CarryRuntime
      <3> DEFINE i == incoming.pool
                 old == expire_cooling(pools[current])
                 q == Carried(pools[i], old)
      <3>1. i \in PoolIds /\ i # current /\ current \in PoolIds
        BY <2>8 DEF CarryRuntime, TypeOK, NoIncoming
      <3>2. PoolOK(old)
        BY <3>1, ExpireOK DEF TypeOK
      <3>3. g = current => old.state[k] = pools[g].state[k]
        BY <2>e
      <3> HIDE DEF old
      <3>4. g = i => is_cooling(q.state[k])
        BY <2>0, <3>1, <3>2, CarriedOK
      <3> HIDE DEF q
      <3>5. pools' = [pools EXCEPT ![current] = old, ![i] = q]
        BY <2>8, <3>1 DEF CarryRuntime, TypeOK, old, q
      <3> QED BY <3>1, <3>3, <3>4, <3>5 DEF TypeOK
    <2>9. CASE Snapshot
      BY <2>9, <2>e DEF Snapshot, TypeOK
    <2>10. CASE Tick
      <3>1. pools'[g].state[k] = TickState(pools[g].state[k])
        BY <2>10, <2>0 DEF Tick, PoolOK
      <3> QED BY <3>1, CoolingStates
    <2> QED BY <2>1, <2>2, <2>3, <2>4, <2>5, <2>6, <2>7, <2>8, <2>9, <2>10
            DEF Next, Open, Close, InstallPools
  <1> QED BY <1>1, TypeCorrect, PTL DEF Spec, CooldownHolds

-----------------------------------------------------------------------------
\* A guard is only given out on a key whose cooldown, if any, is over, whichever
\* strategy selects and however stale the pool's states are (acquire expires first).
THEOREM CoolingKeysSkipped == Spec => CoolingKeySkipped
  <1> DEFINE Skips(c) == guard[c] = NoKey /\ guard'[c] # NoKey =>
                           LET s == pools[handle[c]].state[guard'[c]]
                           IN  is_cooling(s) => s.n = 0
  <1>1. TypeOK /\ [Next]_vars => [\A c \in Calls : Skips(c)]_vars
    <2> SUFFICES ASSUME TypeOK, Next, NEW c \in Calls, guard[c] = NoKey, guard'[c] # NoKey
                 PROVE  Skips(c)
      OBVIOUS
    <2>1. Acquire(c)
      <3>1. ASSUME NEW b \in Calls, Acquire(b) \/ Release(b) PROVE b = c
        BY <3>1 DEF Acquire, Release, TypeOK
      <3>2. ~Release(c)
        BY DEF Release
      <3> QED BY <3>1, <3>2
              DEF Next, Open, AcquireFails, Close, MarkCooling, RecordLatency, BuildPools,
                  CarryRuntime, InstallPools, Snapshot, Tick
    <2> DEFINE g == handle[c]
               p == expire_cooling(pools[g])
    <2>2. g \in PoolIds /\ PoolOK(pools[g])
      BY <2>1 DEF Acquire, TypeOK
    <2>3. guard'[c] \in select(p)
      BY <2>1 DEF Acquire, TypeOK
    <2>4. /\ PoolOK(p) /\ p.refs = pools[g].refs
          /\ \A k \in DOMAIN p.refs : p.state[k] = Expire(pools[g].state[k])
      BY <2>2, ExpireOK
    <2> HIDE DEF p
    <2>5. ~is_cooling(Expire(pools[g].state[guard'[c]]))
      BY <2>3, <2>4, SelectIsCandidate
    <2> QED BY <2>5 DEF Expire, expired
  <1> QED BY <1>1, TypeCorrect, PTL DEF Spec, CoolingKeySkipped

-----------------------------------------------------------------------------
(* Hot replacement                                                            *)

\* A nonempty set of natural numbers has a least element.
LEMMA LeastNat == \A T \in SUBSET Nat : T # {} => \E n \in T : \A m \in T : ~(m < n)
  <1> DEFINE R == {p \in Nat \X Nat : p[1] < p[2]}
  <1>1. IsWellFoundedOn(R, Nat)
    BY NatLessThanWellFounded DEF OpToRel
  <1>2. \A n, m \in Nat : <<m, n>> \in R <=> m < n
    OBVIOUS
  <1> HIDE DEF R
  <1> QED BY <1>1, <1>2, WFMin

\* A secret that is listed has a last key (the entry that survives in the map by ref).
LEMMA LastKeyExists ==
    ASSUME NEW refs \in Seq(Secrets), NEW i \in DOMAIN refs
    PROVE  LastKeys(refs, refs[i]) # {}
  <1> DEFINE K == {k \in DOMAIN refs : refs[k] = refs[i]}
             T == {m \in Nat : \E k \in K : m = Len(refs) - k}
  <1>1. Len(refs) \in Nat /\ DOMAIN refs = 1..Len(refs)
    OBVIOUS
  <1>2. T \in SUBSET Nat /\ T # {}
    <2>1. Len(refs) - i \in T
      BY <1>1
    <2> QED BY <2>1
  <1>3. PICK n \in T : \A m \in T : ~(m < n)
    <2> HIDE DEF T
    <2> QED BY <1>2, LeastNat
  <1>4. PICK k \in K : n = Len(refs) - k
    BY <1>3
  <1>5. ASSUME NEW j \in K PROVE j <= k
    <2>1. Len(refs) - j \in T
      BY <1>1, <1>5
    <2> QED BY <1>1, <1>3, <1>4, <2>1
  <1> QED BY <1>4, <1>5 DEF LastKeys

\* What carry_runtime_from does to cooldowns: a fresh key cools only as a key of its
\* secret did, and cools if all of them did.
LEMMA CarriedCooldowns ==
    ASSUME NEW new, PoolOK(new), NEW old, PoolOK(old),
           \A k \in DOMAIN new.refs : ~is_cooling(new.state[k])
    PROVE  LET q == Carried(new, expire_cooling(old))
               OldKeys(k) == {j \in DOMAIN old.refs : old.refs[j] = new.refs[k]}
               Cooling(j) == is_cooling(old.state[j]) /\ old.state[j].n > 0
           IN  \A k \in DOMAIN new.refs :
                 /\ is_cooling(q.state[k]) => \E j \in OldKeys(k) : q.state[k] = old.state[j]
                 /\ OldKeys(k) # {} /\ (\A j \in OldKeys(k) : Cooling(j)) => is_cooling(q.state[k])
  <1> DEFINE x == expire_cooling(old)
             q == Carried(new, x)
             OldKeys(k) == {j \in DOMAIN old.refs : old.refs[j] = new.refs[k]}
             Cooling(j) == is_cooling(old.state[j]) /\ old.state[j].n > 0
             Src(k) == LastKeys(old.refs, new.refs[k])
             C(k) == {j \in Src(k) : is_cooling(x.state[j]) /\ x.state[j].n > 0}
  <1>1. /\ PoolOK(x) /\ x.refs = old.refs
        /\ \A j \in DOMAIN old.refs : x.state[j] = Expire(old.state[j])
    BY ExpireOK
  <1> HIDE DEF x
  <1>2. ASSUME NEW k \in DOMAIN new.refs
        PROVE  q.state[k] = IF C(k) # {} THEN x.state[CHOOSE j \in C(k) : TRUE] ELSE new.state[k]
    <2> DEFINE f == [i \in DOMAIN new.refs |->
                       IF C(i) # {} THEN x.state[CHOOSE j \in C(i) : TRUE] ELSE new.state[i]]
               e == [i \in DOMAIN new.refs |->
                       IF Src(i) # {} THEN x.ewma[CHOOSE j \in Src(i) : TRUE] ELSE new.ewma[i]]
    <2>1. q = [new EXCEPT !.state = f, !.ewma = e]
      BY <1>1 DEF Carried
    <2>2. f[k] = IF C(k) # {} THEN x.state[CHOOSE j \in C(k) : TRUE] ELSE new.state[k]
      OBVIOUS
    <2> HIDE DEF f, e, q, C
    <2>3. new = [strategy |-> new.strategy, refs |-> new.refs, cursor |-> new.cursor,
                 state |-> new.state, ewma |-> new.ewma]
      BY DEF PoolOK
    <2>4. q.state = f
      BY <2>1, <2>3
    <2> QED BY <2>2, <2>4
  <1> HIDE DEF q
  <1>3. \A k \in DOMAIN new.refs : C(k) \subseteq OldKeys(k) /\ Src(k) \subseteq OldKeys(k)
    BY DEF LastKeys
  <1>4. \A j \in DOMAIN old.refs :
           /\ is_cooling(x.state[j]) => x.state[j] = old.state[j]
           /\ Cooling(j) => x.state[j] = old.state[j]
    BY <1>1 DEF Expire, expired, Available, is_cooling
  <1> SUFFICES ASSUME NEW k \in DOMAIN new.refs
               PROVE  /\ is_cooling(q.state[k]) => \E j \in OldKeys(k) : q.state[k] = old.state[j]
                      /\ OldKeys(k) # {} /\ (\A j \in OldKeys(k) : Cooling(j))
                           => is_cooling(q.state[k])
    BY DEF q, x
  <1>5. CASE C(k) # {}
    <2>1. PICK j \in C(k) : q.state[k] = x.state[j]
      BY <1>2, <1>5
    <2>2. j \in OldKeys(k) /\ is_cooling(x.state[j])
      BY <1>3, <2>1
    <2> QED BY <2>1, <2>2, <1>4
  <1>6. CASE C(k) = {}
    <2>1. ~is_cooling(q.state[k])
      BY <1>2, <1>6
    <2>2. ASSUME OldKeys(k) # {}, \A j \in OldKeys(k) : Cooling(j) PROVE FALSE
      <3>1. PICK i \in DOMAIN old.refs : old.refs[i] = new.refs[k]
        BY <2>2
      <3>2. PICK j : j \in Src(k)
        BY <3>1, LastKeyExists, PoolOKFacts
      <3>3. j \in OldKeys(k) /\ Cooling(j)
        BY <3>2, <1>3, <2>2
      <3>4. j \in C(k)
        BY <3>2, <3>3, <1>4
      <3> QED BY <3>4, <1>6
    <2> QED BY <2>1, <2>2
  <1> QED BY <1>5, <1>6

\* Until it takes over, the registry under construction is nobody's and its keys are
\* as they were built.
FreshIncoming ==
    incoming.pool # NoPool /\ ~incoming.carried =>
        /\ \A c \in Calls : handle[c] # incoming.pool
        /\ \A k \in DOMAIN pools[incoming.pool].refs :
              pools[incoming.pool].state[k] = Available

\* The registry under construction stays fresh whatever calls and time do meanwhile.
THEOREM IncomingStaysFresh == Spec => []FreshIncoming
  <1>1. Init => FreshIncoming
    BY DEF Init, FreshIncoming, NoIncoming
  <1>2. TypeOK /\ FreshIncoming /\ [Next]_vars => FreshIncoming'
    <2> SUFFICES ASSUME TypeOK, FreshIncoming, [Next]_vars PROVE FreshIncoming'
      OBVIOUS
    <2> DEFINE i == incoming.pool
    <2>1. ASSUME incoming' = incoming, \A c \in Calls : handle'[c] # handle[c] => handle'[c] # i,
                 i \in PoolIds => pools'[i] = pools[i]
          PROVE  FreshIncoming'
      BY <2>1 DEF FreshIncoming, TypeOK
    <2>2. ASSUME NEW c \in Calls, Open(c) \/ Close(c) PROVE FreshIncoming'
      <3>1. \A b \in Calls : handle'[b] # handle[b] => handle'[b] # i \/ i = NoPool
        BY <2>2 DEF Open, Close, TypeOK
      <3> QED BY <2>2, <3>1 DEF FreshIncoming, TypeOK, Open, Close
    <2>3. ASSUME NEW c \in Calls, NEW q, handle[c] \in PoolIds,
                 pools' = [pools EXCEPT ![handle[c]] = q],
                 UNCHANGED <<incoming, handle>>
          PROVE  FreshIncoming'
      BY <2>3 DEF FreshIncoming, TypeOK
    <2>4. ASSUME NEW c \in Calls, Acquire(c) \/ AcquireFails(c) PROVE FreshIncoming'
      <3>1. handle[c] \in PoolIds
        BY <2>4 DEF Acquire, AcquireFails, TypeOK
      <3>2. \E q : pools' = [pools EXCEPT ![handle[c]] = q]
        BY <2>4 DEF Acquire, AcquireFails
      <3>3. UNCHANGED <<incoming, handle>>
        BY <2>4 DEF Acquire, AcquireFails
      <3> QED BY <3>1, <3>2, <3>3, <2>3
    <2>5. ASSUME NEW c \in Calls, NEW k, NEW s, guard[c] # NoKey,
                 \/ pools' = [pools EXCEPT ![handle[c]].state[k] = s]
                 \/ pools' = [pools EXCEPT ![handle[c]].ewma[k] = s],
                 UNCHANGED <<incoming, handle>>
          PROVE  FreshIncoming'
      <3>1. handle[c] \in PoolIds
        BY <2>5 DEF TypeOK
      <3>2. \E q : pools' = [pools EXCEPT ![handle[c]] = q]
        BY <2>5
      <3> QED BY <3>1, <3>2, <2>3, <2>5
    <2>6. ASSUME NEW c \in Calls, NEW d, MarkCooling(c, d) PROVE FreshIncoming'
      BY <2>6, <2>5 DEF MarkCooling, SetState
    <2>7. ASSUME NEW c \in Calls, NEW ms, RecordLatency(c, ms) PROVE FreshIncoming'
      BY <2>7, <2>5 DEF RecordLatency
    <2>8. ASSUME NEW c \in Calls, Release(c) PROVE FreshIncoming'
      BY <2>8, <2>5 DEF Release, SetState
    <2>9. ASSUME NEW g \in PoolIds, NEW cf \in Configs, BuildPools(g, cf) PROVE FreshIncoming'
      <3>1. pools'[g] = NewPool(cf) /\ incoming'.pool = g /\ handle' = handle
        BY <2>9 DEF BuildPools, TypeOK
      <3>2. \A c \in Calls : handle[c] # g
        BY <2>9 DEF BuildPools, Held
      <3>3. \A k \in DOMAIN NewPool(cf).refs : NewPool(cf).state[k] = Available
        BY DEF NewPool
      <3> QED BY <3>1, <3>2, <3>3 DEF FreshIncoming
    <2>10. CASE CarryRuntime
      BY <2>10 DEF CarryRuntime, FreshIncoming, TypeOK
    <2>11. CASE InstallPools
      BY <2>11 DEF InstallPools, FreshIncoming, NoIncoming
    <2>12. CASE Snapshot
      BY <2>12, <2>1 DEF Snapshot, TypeOK
    <2>13. CASE Tick
      <3>1. ASSUME i \in PoolIds, NEW k \in DOMAIN pools[i].refs, pools[i].state[k] = Available
            PROVE  pools'[i].state[k] = Available
        <4>1. pools'[i].state[k] = TickState(pools[i].state[k])
          BY <2>13, <3>1 DEF Tick, TypeOK, PoolOK
        <4> QED BY <3>1, <4>1 DEF TickState, is_cooling, Available
      <3>2. i \in PoolIds => pools'[i].refs = pools[i].refs
        BY <2>13 DEF Tick, TypeOK, PoolOK
      <3> QED BY <2>13, <3>1, <3>2 DEF Tick, FreshIncoming, TypeOK
    <2>14. CASE UNCHANGED vars
      BY <2>14 DEF vars, FreshIncoming
    <2> QED BY <2>2, <2>4, <2>6, <2>7, <2>8, <2>9, <2>10, <2>11, <2>12, <2>13, <2>14 DEF Next
  <1> QED BY <1>1, <1>2, TypeCorrect, PTL DEF Spec

\* Hot replacement moves cooldowns with the secret for every pair of configurations,
\* reordered, shortened or with a secret listed twice.
THEOREM CooldownsCarried == Spec => CarryKeepsCooldowns
  <1> DEFINE Keeps ==
        ~incoming.carried /\ incoming'.carried =>
          LET new == pools'[incoming.pool]
              old == pools[current]
              OldKeys(k) == {j \in DOMAIN old.refs : old.refs[j] = new.refs[k]}
              Cooling(j) == is_cooling(old.state[j]) /\ old.state[j].n > 0
          IN  \A k \in DOMAIN new.refs :
                /\ is_cooling(new.state[k]) => \E j \in OldKeys(k) : new.state[k] = old.state[j]
                /\ OldKeys(k) # {} /\ (\A j \in OldKeys(k) : Cooling(j)) => is_cooling(new.state[k])
  <1>1. TypeOK /\ FreshIncoming /\ [Next]_vars => [Keeps]_vars
    <2> SUFFICES ASSUME TypeOK, FreshIncoming, Next, ~incoming.carried, incoming'.carried
                 PROVE  Keeps
      OBVIOUS
    <2> DEFINE i == incoming.pool
               x == pools[i]
               old == pools[current]
    <2>1. CarryRuntime
      <3>1. incoming' # incoming
        OBVIOUS
      <3>2. ASSUME NEW g, NEW cf, BuildPools(g, cf) PROVE FALSE
        BY <3>2 DEF BuildPools
      <3>3. ~InstallPools
        BY DEF InstallPools, NoIncoming
      <3> QED BY <3>1, <3>2, <3>3
              DEF Next, Open, Acquire, AcquireFails, Release, Close, MarkCooling, RecordLatency,
                  Snapshot, Tick
    <2>2. i \in PoolIds /\ i # current /\ current \in PoolIds
      BY <2>1 DEF CarryRuntime, TypeOK, NoIncoming
    <2>3. PoolOK(x) /\ PoolOK(old)
      BY <2>2 DEF TypeOK
    <2>4. \A k \in DOMAIN x.refs : ~is_cooling(x.state[k])
      <3>1. i # NoPool
        BY <2>2, PoolIdsAssumption
      <3>2. \A k \in DOMAIN x.refs : x.state[k] = Available
        BY <3>1 DEF FreshIncoming
      <3> QED BY <3>2 DEF is_cooling, Available
    <2>5. pools'[i] = Carried(x, expire_cooling(old))
      BY <2>1, <2>2 DEF CarryRuntime, TypeOK
    <2>6. Carried(x, expire_cooling(old)).refs = x.refs
      BY <2>3, ExpireOK, CarriedOK
    <2> HIDE DEF x, old
    <2>7. LET q == Carried(x, expire_cooling(old))
              OldKeys(k) == {j \in DOMAIN old.refs : old.refs[j] = x.refs[k]}
              Cooling(j) == is_cooling(old.state[j]) /\ old.state[j].n > 0
          IN  \A k \in DOMAIN x.refs :
                /\ is_cooling(q.state[k]) => \E j \in OldKeys(k) : q.state[k] = old.state[j]
                /\ OldKeys(k) # {} /\ (\A j \in OldKeys(k) : Cooling(j)) => is_cooling(q.state[k])
      BY <2>3, <2>4, CarriedCooldowns
    <2> QED BY <2>5, <2>6, <2>7 DEF old
  <1> QED BY <1>1, TypeCorrect, IncomingStaysFresh, PTL DEF Spec, CarryKeepsCooldowns
=============================================================================
