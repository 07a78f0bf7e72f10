--------------------------- MODULE HttpToolProofs ---------------------------
(* Theorems about the tools that are HTTP calls: the loop that sends and       *)
(* retries one, for every number of calls, keys and attempts; the catalog in   *)
(* which they are listed, for every configuration and every client that reads  *)
(* it while it changes; and the tools made of an OpenAPI document, for every   *)
(* document.                                                                   *)
EXTENDS RetryLoop, ToolCatalog, ApiDiscovery,
        FiniteSetTheorems, SequenceTheorems, WellFoundedInduction, TLAPS

-----------------------------------------------------------------------------
(* What a call has sent                                                       *)

LoopTypes ==
    /\ phase \in [Calls -> Phases]
    /\ method \in [Calls -> Methods \cup {"none"}]
    /\ attempt \in [Calls -> Nat] /\ retry_count \in [Calls -> Nat] /\ sends \in [Calls -> Nat]
    /\ answer \in [Calls -> Statuses \cup {"none"}]
    /\ result \in [Calls -> Results]

\* How often a call has sent its request, from where its loop stands.
CallInv(c) ==
    /\ phase[c] = "idle" => sends[c] = 0 /\ retry_count[c] = 0
    /\ phase[c] # "idle" =>
         /\ attempt[c] >= 1 /\ attempt[c] <= retry_attempt_limit(method[c])
         /\ retry_count[c] = attempt[c] - 1
    /\ phase[c] \in {"picking", "resolving", "sending"} => sends[c] = attempt[c] - 1
    /\ phase[c] \in {"inflight", "reading", "retrying", "backoff"} => sends[c] = attempt[c]
    /\ phase[c] \in {"retrying", "backoff"} => attempt[c] < retry_attempt_limit(method[c])
    /\ phase[c] \in {"leaving", "returned"} => sends[c] <= attempt[c]
    /\ result[c] = "RetryExhausted" =>
         /\ phase[c] \in {"leaving", "returned"} /\ retry_count[c] > 0
         /\ attempt[c] = retry_attempt_limit(method[c]) /\ sends[c] = attempt[c]

LoopInv == LoopTypes /\ \A c \in Calls : CallInv(c)

\* The loop counts what it sends.
THEOREM LoopCounts == Spec => []LoopInv
  <1> USE AttemptsAssumption, MethodsAssumption
  <1>1. Init => LoopInv
    BY DEF Init, LoopInv, LoopTypes, CallInv, Phases, Results
  <1>2. LoopInv /\ [Next]_vars => LoopInv'
    <2> SUFFICES ASSUME LoopInv, [Next]_vars PROVE LoopInv'
      OBVIOUS
    <2> USE DEF LoopInv, LoopTypes, CallInv, Phases, Results, Statuses, Goto, Return,
                retry_attempt_limit, can_retry
    <2>1. ASSUME NEW c \in Calls, NEW m \in Methods, NEW pooled \in BOOLEAN, Start(c, m, pooled)
          PROVE  LoopInv'
      BY <2>1 DEF Start
    <2>2. ASSUME NEW c \in Calls, NEW status \in Statuses, Headers(c, status) PROVE LoopInv'
      BY <2>2 DEF Headers
    <2>3. ASSUME NEW c \in Calls, NEW d \in Cooldowns \cup {DEFAULT_COOLDOWN}, StatusRetried(c, d)
          PROVE  LoopInv'
      BY <2>3 DEF StatusRetried, Retryable
    <2>4. ASSUME NEW c \in Calls, PickKey(c) PROVE LoopInv'
      BY <2>4 DEF PickKey
    <2>5. ASSUME NEW c \in Calls, PickFails(c) PROVE LoopInv'
      BY <2>5 DEF PickFails
    <2>6. ASSUME NEW c \in Calls, PickNothing(c) PROVE LoopInv'
      BY <2>6 DEF PickNothing
    <2>7. ASSUME NEW c \in Calls, Resolve(c) PROVE LoopInv'
      BY <2>7 DEF Resolve
    <2>8. ASSUME NEW c \in Calls, ResolveFails(c) PROVE LoopInv'
      BY <2>8 DEF ResolveFails
    <2>9. ASSUME NEW c \in Calls, Send(c) PROVE LoopInv'
      BY <2>9 DEF Send
    <2>10. ASSUME NEW c \in Calls, EgressBlocked(c) PROVE LoopInv'
      BY <2>10 DEF EgressBlocked
    <2>11. ASSUME NEW c \in Calls, TransportError(c) PROVE LoopInv'
      BY <2>11 DEF TransportError
    <2>12. ASSUME NEW c \in Calls, Success(c) PROVE LoopInv'
      BY <2>12 DEF Success
    <2>13. ASSUME NEW c \in Calls, StatusFinal(c) PROVE LoopInv'
      BY <2>13 DEF StatusFinal, Retryable, final_status_error, is_retryable_status
    <2>14. ASSUME NEW c \in Calls, StopAttempt(c) PROVE LoopInv'
      BY <2>14 DEF StopAttempt
    <2>15. ASSUME NEW c \in Calls, NextAttempt(c) PROVE LoopInv'
      BY <2>15 DEF NextAttempt
    <2>16. ASSUME NEW c \in Calls, Cancel(c) PROVE LoopInv'
      BY <2>16 DEF Cancel
    <2>17. ASSUME NEW c \in Calls, Leave(c) PROVE LoopInv'
      BY <2>17 DEF Leave
    <2>18. ASSUME NEW c \in Calls, Finish(c) PROVE LoopInv'
      BY <2>18 DEF Finish
    <2>19. CASE Tick \/ UNCHANGED vars
      BY <2>19 DEF Tick, vars, loop
    <2> QED BY <2>1, <2>2, <2>3, <2>4, <2>5, <2>6, <2>7, <2>8, <2>9, <2>10, <2>11, <2>12, <2>13, <2>14, <2>15, <2>16, <2>17, <2>18, <2>19 DEF Next, Step
  <1> QED BY <1>1, <1>2, PTL DEF Spec

\* A request that is not a GET is handed to the HTTP client at most once, for every
\* max_attempts and every interleaving of calls.
THEOREM SentOnce == Spec => []NonIdempotentSentOnce
  <1>1. LoopInv => NonIdempotentSentOnce
    BY MethodsAssumption DEF LoopInv, LoopTypes, CallInv, NonIdempotentSentOnce, retry_attempt_limit, Phases
  <1> QED BY <1>1, LoopCounts, PTL

\* retry_exhausted is only reported by a GET that sent all its attempts.
THEOREM ExhaustedHonest == Spec => []ExhaustedIsHonest
  <1>1. LoopInv => ExhaustedIsHonest
    BY AttemptsAssumption, MethodsAssumption
       DEF LoopInv, LoopTypes, CallInv, ExhaustedIsHonest, retry_attempt_limit, Phases
  <1> QED BY <1>1, LoopCounts, PTL

-----------------------------------------------------------------------------
(* RetryLoop implements KeyPool                                               *)

\* Every step of the loop is one operation of the pool or leaves it alone, so all that
\* is proved of KeyPool holds of the pool under the loop.
THEOREM ImplementsKeyPool == Spec => KeyPoolSpec
  <1>1. Init => KP!Init
    BY DEF Init
  <1>2. [Next]_vars => [KP!Next]_(KP!vars)
    <2> SUFFICES ASSUME [Next]_vars PROVE [KP!Next]_(KP!vars)
      OBVIOUS
    <2> DEFINE PoolStep == [KP!Next]_(KP!vars)
    <2>1. UNCHANGED pool => PoolStep
      BY DEF pool, KP!vars
    <2>2. ASSUME NEW c \in Calls,
                 \/ KP!Open(c) \/ KP!Acquire(c) \/ KP!AcquireFails(c) \/ KP!Release(c) \/ KP!Close(c)
          PROVE  PoolStep
      BY <2>2 DEF KP!Next
    <2>3. ASSUME NEW c \in Calls, NEW d \in Cooldowns \cup {DEFAULT_COOLDOWN}, KP!MarkCooling(c, d)
          PROVE  PoolStep
      BY <2>3 DEF KP!Next
    <2>4. ASSUME NEW c \in Calls, NEW ms \in Latencies, KP!RecordLatency(c, ms)
          PROVE  PoolStep
      BY <2>4 DEF KP!Next
    <2>5. KP!Tick => PoolStep
      BY DEF KP!Next
    <2> HIDE DEF PoolStep
    <2>6. ASSUME NEW c \in Calls, NEW m \in Methods, NEW pooled \in BOOLEAN, Start(c, m, pooled)
          PROVE  PoolStep
      BY <2>1, <2>2, <2>6 DEF Start
    <2>7. ASSUME NEW c \in Calls, PickKey(c) \/ PickFails(c) PROVE PoolStep
      BY <2>2, <2>7 DEF PickKey, PickFails
    <2>8. ASSUME NEW c \in Calls,
                 \/ PickNothing(c) \/ Resolve(c) \/ ResolveFails(c) \/ Send(c) \/ EgressBlocked(c)
                 \/ StatusFinal(c) \/ NextAttempt(c) \/ Cancel(c)
          PROVE  PoolStep
      <3>1. UNCHANGED pool
        BY <2>8 DEF PickNothing, Resolve, ResolveFails, Send, EgressBlocked, StatusFinal,
                    NextAttempt, Cancel
      <3> QED BY <3>1, <2>1
    <2>9. ASSUME NEW c \in Calls, NEW status \in Statuses, Headers(c, status) PROVE PoolStep
      BY <2>1, <2>9 DEF Headers
    <2>10. ASSUME NEW c \in Calls, NEW d \in Cooldowns \cup {DEFAULT_COOLDOWN}, cool_key(c, d)
           PROVE  PoolStep
      BY <2>1, <2>3, <2>10 DEF cool_key
    <2>11. ASSUME NEW c \in Calls, TransportError(c) PROVE PoolStep
      BY <2>10, <2>11 DEF TransportError
    <2>12. ASSUME NEW c \in Calls, NEW d \in Cooldowns \cup {DEFAULT_COOLDOWN}, StatusRetried(c, d)
           PROVE  PoolStep
      BY <2>10, <2>12 DEF StatusRetried
    <2>13. ASSUME NEW c \in Calls, Success(c) PROVE PoolStep
      BY <2>1, <2>4, <2>13 DEF Success
    <2>14. ASSUME NEW c \in Calls, StopAttempt(c) \/ Leave(c) PROVE PoolStep
      <3>1. DropGuard(c)
        BY <2>14 DEF StopAttempt, Leave
      <3> QED BY <3>1, <2>1, <2>2 DEF DropGuard
    <2>15. ASSUME NEW c \in Calls, Finish(c) PROVE PoolStep
      BY <2>1, <2>2, <2>15 DEF Finish
    <2>16. Tick => PoolStep
      BY <2>5 DEF Tick
    <2>17. UNCHANGED vars => PoolStep
      BY <2>1 DEF vars
    <2>18. PoolStep
      BY <2>6, <2>7, <2>8, <2>9, <2>11, <2>12, <2>13, <2>14, <2>15, <2>16, <2>17 DEF Next, Step
    <2> QED BY <2>18 DEF PoolStep
  <1> QED BY <1>1, <1>2, PTL DEF Spec, KeyPoolSpec, KP!Spec

-----------------------------------------------------------------------------
(* What is proved of the pool holds under the loop                            *)

Pool == INSTANCE KeyPoolProofs

\* The pool's operators, under the name by which its theorems are known.
LEMMA SameCardinality == \A S : KP!Cardinality(S) = Pool!Cardinality(S)
  BY DEF KP!Cardinality, Pool!Cardinality

LEMMA SamePick == \A C, cursor : KP!RoundRobinPick(C, cursor) = Pool!RoundRobinPick(C, cursor)
  BY SameCardinality DEF KP!RoundRobinPick, Pool!RoundRobinPick

LEMMA SameCandidates == \A p : KP!Candidates(p) = Pool!Candidates(p)
  BY DEF KP!Candidates, Pool!Candidates, KP!is_cooling, Pool!is_cooling

LEMMA SameSelect == \A p : KP!select(p) = Pool!select(p)
  BY SamePick, SameCandidates DEF KP!select, Pool!select, KP!active_count,
         Pool!active_count, KP!SlowerOrSame, Pool!SlowerOrSame, KP!NoSample, Pool!NoSample

LEMMA SameExpiry == \A p : KP!expire_cooling(p) = Pool!expire_cooling(p)
  BY DEF KP!expire_cooling, Pool!expire_cooling, KP!Expire, Pool!Expire, KP!expired,
         Pool!expired, KP!is_cooling, Pool!is_cooling, KP!Available, Pool!Available

LEMMA SameLease == \A s, p : KP!lease(s) = Pool!lease(s) /\ KP!NextCursor(p) = Pool!NextCursor(p)
  BY DEF KP!lease, Pool!lease, KP!Leased, Pool!Leased, KP!NextCursor, Pool!NextCursor

LEMMA SameCarry == \A new, old : KP!Carried(new, old) = Pool!Carried(new, old)
  BY DEF KP!Carried, Pool!Carried, KP!LastKeys, Pool!LastKeys, KP!is_cooling,
         Pool!is_cooling

LEMMA SameInit == KP!Init => Pool!Init
  BY DEF KP!Init, Pool!Init, KP!NoPool, Pool!NoPool, KP!NoKey, Pool!NoKey,
         KP!NoIncoming, Pool!NoIncoming, KP!NewPool, Pool!NewPool, KP!Available,
         Pool!Available, KP!NoSample, Pool!NoSample

LEMMA SameStep == [KP!Next]_(KP!vars) => [Pool!Next]_(Pool!vars)
  <1>1. KP!vars = Pool!vars /\ KP!vars' = Pool!vars'
    BY DEF KP!vars, Pool!vars
  <1>2. ASSUME NEW c \in Calls PROVE
          /\ KP!Open(c) => Pool!Open(c)
          /\ KP!Acquire(c) => Pool!Acquire(c)
          /\ KP!AcquireFails(c) => Pool!AcquireFails(c)
          /\ KP!Release(c) => Pool!Release(c)
          /\ KP!Close(c) => Pool!Close(c)
    <2>1. KP!Acquire(c) => Pool!Acquire(c)
      <3> SUFFICES ASSUME KP!Acquire(c) PROVE Pool!Acquire(c)
        OBVIOUS
      <3> DEFINE x == KP!expire_cooling(pools[handle[c]])
      <3>1. /\ x = Pool!expire_cooling(pools[handle[c]]) /\ KP!select(x) = Pool!select(x)
            /\ KP!NextCursor(x) = Pool!NextCursor(x)
        BY SameSelect, SameExpiry, SameLease
      <3>2. \A k : KP!lease(x.state[k]) = Pool!lease(x.state[k])
        BY SameLease
      <3>3. KP!NoPool = Pool!NoPool /\ KP!NoKey = Pool!NoKey
        BY DEF KP!NoPool, Pool!NoPool, KP!NoKey, Pool!NoKey
      <3>4. PICK k \in KP!select(x) :
              /\ pools' = [pools EXCEPT ![handle[c]] =
                             [x EXCEPT !.state[k] = KP!lease(x.state[k]),
                                       !.cursor = KP!NextCursor(x)]]
              /\ guard' = [guard EXCEPT ![c] = k]
        BY DEF KP!Acquire
      <3> HIDE DEF x
      <3>5. pools' = [pools EXCEPT ![handle[c]] =
                        [x EXCEPT !.state[k] = Pool!lease(x.state[k]),
                                  !.cursor = Pool!NextCursor(x)]]
        BY <3>1, <3>2, <3>4
      <3> QED BY <3>1, <3>3, <3>4, <3>5 DEF KP!Acquire, Pool!Acquire
    <2>2. KP!AcquireFails(c) => Pool!AcquireFails(c)
      BY SameCandidates, SameExpiry
         DEF KP!AcquireFails, Pool!AcquireFails, KP!NoPool, Pool!NoPool, KP!NoKey, Pool!NoKey
    <2>3. KP!Release(c) => Pool!Release(c)
      BY DEF KP!Release, Pool!Release, KP!SetState, Pool!SetState, KP!Released, Pool!Released,
             KP!Leased, Pool!Leased, KP!Available, Pool!Available, KP!NoKey, Pool!NoKey
    <2>4. (KP!Open(c) => Pool!Open(c)) /\ (KP!Close(c) => Pool!Close(c))
      BY DEF KP!Open, Pool!Open, KP!Close, Pool!Close, KP!NoPool, Pool!NoPool, KP!NoKey, Pool!NoKey
    <2> QED BY <2>1, <2>2, <2>3, <2>4
  <1>3. \A c \in Calls, d \in Cooldowns \cup {DEFAULT_COOLDOWN} :
          KP!MarkCooling(c, d) => Pool!MarkCooling(c, d)
    BY DEF KP!MarkCooling, Pool!MarkCooling, KP!SetState, Pool!SetState,
           KP!CoolingUntil, Pool!CoolingUntil, KP!NoKey, Pool!NoKey
  <1>4. \A c \in Calls, ms \in Latencies : KP!RecordLatency(c, ms) => Pool!RecordLatency(c, ms)
    BY DEF KP!RecordLatency, Pool!RecordLatency, KP!Ewma, Pool!Ewma, KP!NoSample, Pool!NoSample,
           KP!NoKey, Pool!NoKey
  <1>5. \A g \in PoolIds, cf \in Configs : KP!BuildPools(g, cf) => Pool!BuildPools(g, cf)
    BY DEF KP!BuildPools, Pool!BuildPools, KP!NoIncoming, Pool!NoIncoming, KP!Held, Pool!Held,
           KP!NewPool, Pool!NewPool, KP!Available, Pool!Available, KP!NoSample, Pool!NoSample,
           KP!NoPool, Pool!NoPool
  <1>6. /\ KP!CarryRuntime => Pool!CarryRuntime
        /\ KP!Snapshot => Pool!Snapshot
    BY SameExpiry, SameCarry
       DEF KP!CarryRuntime, Pool!CarryRuntime, KP!NoIncoming, Pool!NoIncoming,
           KP!NoPool, Pool!NoPool, KP!Snapshot, Pool!Snapshot
  <1>7. /\ KP!InstallPools => Pool!InstallPools
        /\ KP!Tick => Pool!Tick
    BY DEF KP!InstallPools, Pool!InstallPools, KP!NoIncoming, Pool!NoIncoming, KP!NoPool,
           Pool!NoPool, KP!Tick, Pool!Tick, KP!TickState, Pool!TickState, KP!is_cooling,
           Pool!is_cooling, KP!CoolingUntil, Pool!CoolingUntil
  <1> QED BY <1>1, <1>2, <1>3, <1>4, <1>5, <1>6, <1>7 DEF KP!Next, Pool!Next

\* The pool under the loop is well formed and no lease of it leaks.
LEMMA PoolGuarantees == Spec => [](KP!TypeOK /\ KP!LeaseBound)
  <1>1. KP!Spec => Pool!Spec
    BY SameInit, SameStep, PTL DEF KP!Spec, Pool!Spec
  <1>a. /\ PoolIds \subseteq Nat \ {Pool!NoPool} /\ Pool!IsFiniteSet(Calls)
        /\ \A cf \in Configs : cf.strategy \in Pool!Strategies
    BY PoolAssumption
       DEF KP!NoPool, Pool!NoPool, KP!Strategies, Pool!Strategies, IsFiniteSet, Pool!IsFiniteSet
  <1>2. Pool!Spec => []Pool!TypeOK
    BY Pool!TypeCorrect, PoolAssumption, <1>a
  <1>3. Pool!Spec => []Pool!LeaseBound
    BY Pool!NoLeaseLeaks, PoolAssumption, <1>a
  <1>4. Pool!TypeOK => KP!TypeOK
    BY DEF KP!TypeOK, Pool!TypeOK, KP!PoolOK, Pool!PoolOK, KP!KeyState, Pool!KeyState,
           KP!Strategies, Pool!Strategies, KP!NoPool, Pool!NoPool, KP!NoKey, Pool!NoKey,
           KP!NoSample, Pool!NoSample
  <1>5. Pool!LeaseBound => KP!LeaseBound
    BY SameCardinality DEF KP!LeaseBound, Pool!LeaseBound, KP!Holders, Pool!Holders,
                           KP!active_count, Pool!active_count
  <1> QED BY ImplementsKeyPool, <1>1, <1>2, <1>3, <1>4, <1>5, PTL DEF KeyPoolSpec

-----------------------------------------------------------------------------
(* Leases come back                                                           *)

\* A call on a pool holds a guard exactly while an attempt is under way.
Linked(c) ==
    /\ phase[c] = "idle" => handle[c] = KP!NoPool
    /\ phase[c] = "idle" <=> method[c] = "none"
    /\ phase[c] \in Attempting => (guard[c] = KP!NoKey <=> handle[c] = KP!NoPool)
    /\ guard[c] # KP!NoKey => phase[c] \in Attempting \cup {"leaving"}

\* acquire hands out a key, never the mark for none.
LEMMA AcquiredKey ==
    ASSUME KP!TypeOK, NEW c \in Calls, KP!Acquire(c)
    PROVE  guard' = [guard EXCEPT ![c] = guard'[c]] /\ guard'[c] # KP!NoKey
  <1> DEFINE p == pools[handle[c]]
             x == KP!expire_cooling(p)
  <1>1. PICK k \in KP!select(x) : guard' = [guard EXCEPT ![c] = k]
    BY DEF KP!Acquire
  <1>2. KP!PoolOK(p)
    BY DEF KP!Acquire, KP!TypeOK
  <1>3. DOMAIN x.state = DOMAIN p.state /\ DOMAIN p.state = 1..Len(p.refs)
    BY <1>2 DEF KP!PoolOK, KP!expire_cooling
  <1> HIDE DEF x
  <1>4. k \in DOMAIN x.state
    <2>1. KP!select(x) \subseteq KP!Candidates(x)
      BY DEF KP!select, KP!RoundRobinPick
    <2> QED BY <2>1 DEF KP!Candidates
  <1>5. k # KP!NoKey
    BY <1>2, <1>3, <1>4 DEF KP!NoKey, KP!PoolOK
  <1> QED BY <1>1, <1>5 DEF KP!TypeOK

\* Guards follow the attempts on every way through the loop, cancellation included.
THEOREM GuardsFollowAttempts == Spec => [](\A c \in Calls : Linked(c))
  <1> DEFINE L == \A c \in Calls : Linked(c)
  <1>1. Init => L
    BY DEF Init, KP!Init, Linked, Attempting
  <1>2. LoopTypes /\ KP!TypeOK /\ L /\ [Next]_vars => L'
    <2> SUFFICES ASSUME LoopTypes, KP!TypeOK, L, [Next]_vars, NEW b \in Calls PROVE Linked(b)'
      OBVIOUS
    <2> USE MethodsAssumption DEF LoopTypes, Linked, Attempting, Goto, Return
    <2>t. /\ handle \in [Calls -> PoolIds \cup {KP!NoPool}] /\ guard \in [Calls -> Nat]
          /\ \A c \in Calls : guard[c] # KP!NoKey => handle[c] # KP!NoPool
          /\ current # KP!NoPool
      BY PoolAssumption DEF KP!TypeOK
    <2>s. ASSUME NEW c \in Calls, UNCHANGED pool, UNCHANGED method,
                 phase[c] # "idle",
                 \/ Goto(c, "sending") /\ (phase[c] = "resolving" \/ handle[c] = KP!NoPool)
                 \/ Goto(c, "leaving")
                 \/ Goto(c, "picking") /\ guard[c] = KP!NoKey
                 \/ /\ Goto(c, "inflight") \/ Goto(c, "reading") \/ Goto(c, "retrying")
                    /\ phase[c] \in Attempting
          PROVE  Linked(b)'
      BY <2>s, <2>t DEF pool
    <2>1. ASSUME NEW c \in Calls, NEW m \in Methods, NEW pooled \in BOOLEAN, Start(c, m, pooled)
          PROVE  Linked(b)'
      BY <2>1, <2>t DEF Start, KP!Open, pool
    <2>2. ASSUME NEW c \in Calls, NEW status \in Statuses, Headers(c, status) PROVE Linked(b)'
      BY <2>2, <2>s DEF Headers
    <2>p. ASSUME NEW c \in Calls, NEW d \in Cooldowns \cup {DEFAULT_COOLDOWN},
                 cool_key(c, d) \/ UNCHANGED pool
          PROVE  handle' = handle /\ guard' = guard
      BY <2>p DEF cool_key, KP!MarkCooling, pool
    <2>3. ASSUME NEW c \in Calls, NEW d \in Cooldowns \cup {DEFAULT_COOLDOWN}, StatusRetried(c, d)
          PROVE  Linked(b)'
      BY <2>3, <2>p, <2>t DEF StatusRetried
    <2>4. ASSUME NEW c \in Calls, PickKey(c) PROVE Linked(b)'
      <3>1. handle' = handle /\ handle[c] # KP!NoPool
        BY <2>4 DEF PickKey, KP!Acquire
      <3>2. guard' = [guard EXCEPT ![c] = guard'[c]] /\ guard'[c] # KP!NoKey
        BY <2>4, AcquiredKey DEF PickKey
      <3>3. phase[c] = "picking" /\ phase' = [phase EXCEPT ![c] = "resolving"] /\ method' = method
        BY <2>4 DEF PickKey
      <3> QED BY <3>1, <3>2, <3>3, <2>t
    <2>5. ASSUME NEW c \in Calls, PickFails(c) PROVE Linked(b)'
      BY <2>5, <2>t DEF PickFails, KP!AcquireFails
    <2>6. ASSUME NEW c \in Calls, PickNothing(c) PROVE Linked(b)'
      BY <2>6, <2>s DEF PickNothing
    <2>7. ASSUME NEW c \in Calls, Resolve(c) PROVE Linked(b)'
      BY <2>7, <2>s DEF Resolve
    <2>8. ASSUME NEW c \in Calls,
                 ResolveFails(c) \/ EgressBlocked(c) \/ StatusFinal(c) \/ Cancel(c)
          PROVE  Linked(b)'
      BY <2>8, <2>s DEF ResolveFails, EgressBlocked, StatusFinal, Cancel
    <2>9. ASSUME NEW c \in Calls, Send(c) PROVE Linked(b)'
      BY <2>9, <2>s DEF Send
    <2>10. ASSUME NEW c \in Calls, TransportError(c) PROVE Linked(b)'
      BY <2>10, <2>p, <2>t DEF TransportError
    <2>11. ASSUME NEW c \in Calls, Success(c) PROVE Linked(b)'
      <3>1. handle' = handle /\ guard' = guard
        BY <2>11 DEF Success, KP!RecordLatency, pool
      <3> QED BY <2>11, <3>1, <2>t DEF Success
    <2>d. ASSUME NEW c \in Calls, DropGuard(c)
          PROVE  handle' = handle /\ guard' = [guard EXCEPT ![c] = KP!NoKey]
      BY <2>d, <2>t DEF DropGuard, KP!Release, pool
    <2>12. ASSUME NEW c \in Calls, StopAttempt(c) PROVE Linked(b)'
      BY <2>12, <2>d, <2>t DEF StopAttempt
    <2>13. ASSUME NEW c \in Calls, Leave(c) PROVE Linked(b)'
      BY <2>13, <2>d, <2>t DEF Leave
    <2>14. ASSUME NEW c \in Calls, NextAttempt(c) PROVE Linked(b)'
      BY <2>14, <2>s DEF NextAttempt
    <2>15. ASSUME NEW c \in Calls, Finish(c) PROVE Linked(b)'
      <3>1. guard' = guard /\ handle' = [handle EXCEPT ![c] = KP!NoPool]
        BY <2>15, <2>t DEF Finish, KP!Close, pool
      <3> QED BY <2>15, <3>1, <2>t DEF Finish
    <2>16. CASE Tick \/ UNCHANGED vars
      BY <2>16 DEF Tick, KP!Tick, vars, pool, loop
    <2> QED BY <2>1, <2>2, <2>3, <2>4, <2>5, <2>6, <2>7, <2>8, <2>9, <2>10, <2>11, <2>12, <2>13,
               <2>14, <2>15, <2>16 DEF Next, Step
  <1>3. LoopInv => LoopTypes
    BY DEF LoopInv
  <1> QED BY <1>1, <1>2, <1>3, LoopCounts, PoolGuarantees, PTL DEF Spec

\* Every lease comes back: no exit path of any number of calls, successes, errors,
\* cancellations and keys that cooled while leased, keeps one.
THEOREM LeasesAlwaysReturned == Spec => []LeasesReturned
  <1>1. LoopTypes /\ KP!TypeOK /\ (\A c \in Calls : Linked(c)) => TypeOK
    BY DEF LoopTypes, Linked, TypeOK
  <1>2. KP!TypeOK /\ KP!LeaseBound /\ (\A c \in Calls : Linked(c)) => PoolDrains
    <2> SUFFICES ASSUME KP!TypeOK, KP!LeaseBound, \A c \in Calls : Linked(c),
                        \A c \in Calls : phase[c] = "idle",
                        NEW g \in PoolIds, NEW k \in DOMAIN pools[g].state
                 PROVE  KP!active_count(pools[g].state[k]) = 0
      BY DEF PoolDrains
    <2>1. KP!Holders(g, k) = {}
      BY PoolAssumption DEF Linked, KP!Holders
    <2>2. KP!Cardinality({}) = 0
      BY FS_EmptySet DEF KP!Cardinality, Cardinality
    <2>3. k \in DOMAIN pools[g].refs /\ pools[g].state[k] \in KP!KeyState
      BY DEF KP!TypeOK, KP!PoolOK
    <2>4. KP!active_count(pools[g].state[k]) <= 0
      BY <2>1, <2>2, <2>3 DEF KP!LeaseBound
    <2> QED BY <2>3, <2>4 DEF KP!active_count, KP!KeyState
  <1>3. LoopInv => LoopTypes
    BY DEF LoopInv
  <1> QED BY <1>1, <1>2, <1>3, LoopCounts, PoolGuarantees, GuardsFollowAttempts, PTL
          DEF LeasesReturned

-----------------------------------------------------------------------------
(* Numbers and finite sets                                                     *)

\* A nonempty set of natural numbers has a least element.
LEMMA LeastNat == \A T \in SUBSET Nat : T # {} => \E n \in T : \A m \in T : ~(m < n)
  <1> DEFINE R == {p \in Nat \X Nat : p[1] < p[2]}
  <1>1. IsWellFoundedOn(R, Nat)
    BY NatLessThanWellFounded DEF OpToRel
  <1>2. \A n, m \in Nat : <<m, n>> \in R <=> m < n
    OBVIOUS
  <1> HIDE DEF R
  <1> QED BY <1>1, <1>2, WFMin

LEMMA ImageFinite ==
    ASSUME NEW S, IsFiniteSet(S), NEW f, NEW T, T = {f[x] : x \in S}
    PROVE  IsFiniteSet(T)
  <1> DEFINE g == [x \in S |-> f[x]]
  <1>1. g \in Surjection(S, T)
    BY DEF Surjection
  <1> HIDE DEF g
  <1> QED BY <1>1, FS_Surjection

LEMMA SameCount ==
    ASSUME NEW S, IsFiniteSet(S), NEW T, NEW g \in [S -> T],
           \A x, y \in S : g[x] = g[y] => x = y, \A z \in T : \E x \in S : g[x] = z
    PROVE  Cardinality(T) = Cardinality(S)
  <1>1. g \in Bijection(S, T)
    BY DEF Bijection, Injection, Surjection, IsInjective
  <1>2. ExistsBijection(S, T)
    BY <1>1 DEF ExistsBijection
  <1> QED BY <1>2, FS_Bijection

-----------------------------------------------------------------------------
(* Tool catalog: the order of names                                            *)

LEMMA BeforeTotal ==
    ASSUME NEW v \in Seq(Nat), NEW w \in Seq(Nat), v # w
    PROVE  Before(v, w) \/ Before(w, v)
  <1> DEFINE D == {i \in Nat : 1 <= i /\ (i > Len(v) \/ i > Len(w) \/ v[i] # w[i])}
  <1>0. Len(v) \in Nat /\ Len(w) \in Nat
    OBVIOUS
  <1>1. Len(v) + 1 \in D
    BY <1>0
  <1>2. PICK n \in D : \A m \in D : ~(m < n)
    <2>1. D \in SUBSET Nat /\ D # {}
      BY <1>1
    <2> HIDE DEF D
    <2> QED BY <2>1, LeastNat
  <1>3. n \in Nat /\ 1 <= n /\ (n > Len(v) \/ n > Len(w) \/ v[n] # w[n])
    BY <1>2
  <1>4. \A j \in 1 .. n - 1 : j <= Len(v) /\ j <= Len(w) /\ v[j] = w[j]
    <2> SUFFICES ASSUME NEW j \in 1 .. n - 1 PROVE j <= Len(v) /\ j <= Len(w) /\ v[j] = w[j]
      OBVIOUS
    <2>1. j \in Nat /\ j < n /\ 1 <= j
      BY <1>3
    <2>2. j \notin D
      BY <2>1, <1>2
    <2> QED BY <2>1, <2>2, <1>0
  <1>5. n <= Len(v) + 1 /\ n <= Len(w) + 1
    BY <1>0, <1>3, <1>4
  <1> HIDE DEF D
  <1>6. CASE n > Len(v) /\ n > Len(w)
    <2>1. Len(v) = n - 1 /\ Len(w) = n - 1
      BY <1>0, <1>3, <1>5, <1>6
    <2>2. v = w
      BY <2>1, <1>4
    <2> QED BY <2>2
  <1>7. CASE n > Len(v) /\ n <= Len(w)
    BY <1>0, <1>3, <1>4, <1>5, <1>7 DEF Before
  <1>8. CASE n <= Len(v) /\ n > Len(w)
    BY <1>0, <1>3, <1>4, <1>5, <1>8 DEF Before
  <1>9. CASE n <= Len(v) /\ n <= Len(w)
    <2>1. v[n] \in Nat /\ w[n] \in Nat /\ v[n] # w[n]
      BY <1>0, <1>3, <1>9
    <2>2. CASE v[n] < w[n]
      BY <2>2, <1>0, <1>3, <1>4, <1>5, <1>9 DEF Before
    <2>3. CASE w[n] < v[n]
      BY <2>3, <1>0, <1>3, <1>4, <1>5, <1>9 DEF Before
    <2> QED BY <2>1, <2>2, <2>3
  <1> QED BY <1>0, <1>3, <1>6, <1>7, <1>8, <1>9

LEMMA BeforeStrict ==
    ASSUME NEW v \in Seq(Nat)
    PROVE  ~Before(v, v)
  <1>1. \A i \in 1 .. Len(v) : v[i] \in Nat
    OBVIOUS
  <1> QED BY <1>1 DEF Before

LEMMA BeforeTransitive ==
    ASSUME NEW v \in Seq(Nat), NEW w \in Seq(Nat), NEW u \in Seq(Nat), Before(v, w), Before(w, u)
    PROVE  Before(v, u)
  <1>0. /\ Len(v) \in Nat /\ Len(w) \in Nat /\ Len(u) \in Nat
        /\ \A j \in 1 .. Len(v) : v[j] \in Nat
        /\ \A j \in 1 .. Len(w) : w[j] \in Nat
        /\ \A j \in 1 .. Len(u) : u[j] \in Nat
    OBVIOUS
  <1>1. PICK i \in 1 .. Len(w) : /\ i <= Len(v) + 1 /\ \A j \in 1 .. i - 1 : v[j] = w[j]
                                 /\ i > Len(v) \/ v[i] < w[i]
    BY DEF Before
  <1>2. PICK k \in 1 .. Len(u) : /\ k <= Len(w) + 1 /\ \A j \in 1 .. k - 1 : w[j] = u[j]
                                 /\ k > Len(w) \/ w[k] < u[k]
    BY DEF Before
  <1>3. CASE i <= k
    <2>1. i \in 1 .. Len(u) /\ \A j \in 1 .. i - 1 : v[j] = u[j]
      <3>1. i \in Nat /\ k \in Nat /\ 1 <= i /\ k <= Len(u) /\ i <= k
        BY <1>0, <1>1, <1>2, <1>3
      <3>2. i \in 1 .. Len(u)
        BY <1>0, <3>1
      <3>3. ASSUME NEW j \in 1 .. i - 1
            PROVE  v[j] = u[j]
        <4>1. j \in 1 .. k - 1
          BY <3>1
        <4>2. v[j] = w[j]
          BY <1>1
        <4>3. w[j] = u[j]
          BY <1>2, <4>1
        <4> QED BY <4>2, <4>3
      <3> QED BY <3>2, <3>3
    <2>2. i <= Len(v) => v[i] < u[i]
      <3>1. i \in Nat /\ 1 <= i /\ i <= Len(w) /\ k \in Nat /\ 1 <= k /\ k <= Len(u) /\ i <= k
        BY <1>0, <1>1, <1>2, <1>3
      <3>2. w[i] \in Nat /\ u[i] \in Nat
        BY <1>0, <3>1
      <3>3. i < k => w[i] = u[i]
        BY <1>2, <3>1
      <3>4. i = k => w[i] < u[i]
        BY <1>0, <1>2, <3>1
      <3>5. w[i] <= u[i] /\ w[i] \in Nat /\ u[i] \in Nat
        BY <3>1, <3>2, <3>3, <3>4
      <3> SUFFICES ASSUME i <= Len(v) PROVE v[i] < u[i]
        OBVIOUS
      <3>6. v[i] \in Nat
        BY <1>0, <1>1
      <3>7. v[i] < w[i]
        BY <1>0, <1>1
      <3> QED BY <3>5, <3>6, <3>7
    <2> QED BY <2>1, <2>2, <1>0, <1>1 DEF Before
  <1>4. CASE k < i
    <2>i. i \in Nat /\ k \in Nat /\ 1 <= k /\ k <= Len(u) /\ i <= Len(w) /\ i <= Len(v) + 1
      BY <1>0, <1>1
    <2>0. k \in Nat /\ i \in Nat /\ 1 <= k /\ k <= Len(u) /\ k <= Len(v) /\ k <= Len(w)
      BY <2>i, <1>0, <1>4
    <2>1. v[k] = w[k] /\ w[k] < u[k]
      BY <2>0, <1>0, <1>1, <1>2, <1>4
    <2>2. \A j \in 1 .. k - 1 : v[j] = u[j]
      BY <1>0, <1>1, <1>2, <1>4
    <2>3. v[k] < u[k]
      BY <2>1
    <2>4. k \in 1 .. Len(u) /\ k <= Len(v) + 1
      BY <2>0, <1>0
    <2> QED BY <2>4, <2>2, <2>3 DEF Before
  <1> QED BY <1>0, <1>3, <1>4

\* A finite set of tools with names of their own.
Named(S) ==
    /\ IsFiniteSet(S) /\ \A t \in S : wire(t) \in Seq(Nat)
    /\ \A t, u \in S : wire(t) = wire(u) => t = u
Less(S, x) == {y \in S : Before(wire(y), wire(x))}

LEMMA LessCounts ==
    ASSUME NEW S, Named(S), NEW x \in S
    PROVE  /\ IsFiniteSet(Less(S, x)) /\ Cardinality(S) \in Nat
           /\ Cardinality(Less(S, x)) \in Nat /\ Cardinality(Less(S, x)) + 1 <= Cardinality(S)
  <1>1. PICK L : L = Less(S, x)
    OBVIOUS
  <1>2. L \in SUBSET S /\ x \notin L /\ IsFiniteSet(S)
    BY <1>1, BeforeStrict DEF Less, Named
  <1>3. IsFiniteSet(L) /\ Cardinality(L) <= Cardinality(S) /\ (Cardinality(S) = Cardinality(L) => S = L)
    BY <1>2, FS_Subset
  <1>4. Cardinality(L) \in Nat /\ Cardinality(S) \in Nat
    BY <1>2, <1>3, FS_CardinalityType
  <1>5. Cardinality(L) # Cardinality(S)
    BY <1>2, <1>3
  <1> QED BY <1>1, <1>3, <1>4, <1>5

LEMMA RankFewer ==
    ASSUME NEW S, Named(S), NEW x \in S, NEW y \in S, Before(wire(x), wire(y))
    PROVE  Cardinality(Less(S, x)) < Cardinality(Less(S, y))
  <1>1. PICK P : P = Less(S, x)
    OBVIOUS
  <1>2. PICK Q : Q = Less(S, y)
    OBVIOUS
  <1>3. P \in SUBSET Q
    <2>1. \A t \in S : wire(t) \in Seq(Nat)
      BY DEF Named
    <2> QED BY <1>1, <1>2, <2>1, BeforeTransitive DEF Less
  <1>4. x \in Q /\ x \notin P
    BY <1>1, <1>2, BeforeStrict DEF Less, Named
  <1>5. IsFiniteSet(Q) /\ Cardinality(Q) \in Nat /\ Cardinality(P) \in Nat
    BY <1>1, <1>2, LessCounts
  <1>6. Cardinality(P) <= Cardinality(Q) /\ (Cardinality(Q) = Cardinality(P) => Q = P)
    BY <1>3, <1>5, FS_Subset
  <1> QED BY <1>1, <1>2, <1>4, <1>5, <1>6

LEMMA RankDistinct ==
    ASSUME NEW S, Named(S), NEW x \in S, NEW y \in S, Cardinality(Less(S, x)) = Cardinality(Less(S, y))
    PROVE  x = y
  <1>1. SUFFICES ASSUME x # y PROVE FALSE
    OBVIOUS
  <1>2. wire(x) \in Seq(Nat) /\ wire(y) \in Seq(Nat) /\ wire(x) # wire(y)
    BY <1>1 DEF Named
  <1>3. Cardinality(Less(S, x)) \in Nat
    BY LessCounts
  <1>4. CASE Before(wire(x), wire(y))
    <2>1. Cardinality(Less(S, x)) < Cardinality(Less(S, y))
      BY <1>4, RankFewer
    <2> QED BY <2>1, <1>3
  <1>5. CASE Before(wire(y), wire(x))
    <2>1. Cardinality(Less(S, y)) < Cardinality(Less(S, x))
      BY <1>5, RankFewer
    <2> QED BY <2>1, <1>3
  <1> QED BY <1>2, <1>4, <1>5, BeforeTotal

\* Every number is the rank of one tool.
LEMMA RankTaken ==
    ASSUME NEW S, Named(S), NEW i \in 1 .. Cardinality(S)
    PROVE  \E x \in S : Cardinality(Less(S, x)) = i - 1
  <1>1. IsFiniteSet(S)
    BY DEF Named
  <1>2. PICK n \in Nat : n = Cardinality(S)
    BY <1>1, FS_CardinalityType
  <1>3. PICK g : g = [x \in S |-> Cardinality(Less(S, x)) + 1]
    OBVIOUS
  <1>4. \A x \in S : g[x] \in 1 .. n /\ g[x] = Cardinality(Less(S, x)) + 1 /\ Cardinality(Less(S, x)) \in Nat
    BY <1>2, <1>3, LessCounts
  <1>5. PICK U : U = {g[x] : x \in S}
    OBVIOUS
  <1>6. PICK T : T = 1 .. n
    OBVIOUS
  <1>7. g \in [S -> U] /\ U \in SUBSET T
    BY <1>3, <1>4, <1>5, <1>6
  <1>8. \A x, y \in S : g[x] = g[y] => x = y
    <2> SUFFICES ASSUME NEW x \in S, NEW y \in S, g[x] = g[y] PROVE x = y
      OBVIOUS
    <2>1. Cardinality(Less(S, x)) = Cardinality(Less(S, y))
      BY <1>4
    <2> QED BY <2>1, RankDistinct
  <1>9. Cardinality(U) = Cardinality(S)
    BY <1>1, <1>5, <1>7, <1>8, SameCount
  <1>10. IsFiniteSet(T) /\ Cardinality(T) = n
    <2>1. 1 \in Int /\ n \in Int
      OBVIOUS
    <2> QED BY <1>6, <2>1, FS_Interval
  <1>11. U = T
    BY <1>2, <1>7, <1>9, <1>10, FS_Subset
  <1>12. PICK x \in S : g[x] = i
    BY <1>2, <1>5, <1>6, <1>11
  <1> QED BY <1>4, <1>12

\* Sorting by name lists every tool of a set.
LEMMA SortLists ==
    ASSUME NEW S, Named(S)
    PROVE  /\ sort_by_wire_name(S) \in Seq(S)
           /\ \A x \in S : \E i \in DOMAIN sort_by_wire_name(S) : sort_by_wire_name(S)[i] = x
  <1>n. PICK n \in Nat : n = Cardinality(S)
    BY FS_CardinalityType DEF Named
  <1>1. PICK list : list = sort_by_wire_name(S)
    OBVIOUS
  <1>2. list = [i \in 1 .. n |-> CHOOSE x \in S : Cardinality(Less(S, x)) = i - 1]
    BY <1>n, <1>1 DEF sort_by_wire_name, Ordered, Less
  <1>3. \A i \in 1 .. n : list[i] \in S /\ Cardinality(Less(S, list[i])) = i - 1
    BY <1>n, <1>2, RankTaken
  <1>4. list \in [1 .. n -> S]
    BY <1>2, <1>3
  <1>5. list \in Seq(S) /\ DOMAIN list = 1 .. n
    BY <1>4
  <1>6. ASSUME NEW x \in S
        PROVE  \E i \in 1 .. n : list[i] = x
    <2>1. PICK c \in Nat : c = Cardinality(Less(S, x)) /\ c + 1 <= n
      BY <1>n, LessCounts
    <2>2. c + 1 \in 1 .. n /\ (c + 1) - 1 = c
      BY <2>1
    <2>3. list[c + 1] \in S /\ Cardinality(Less(S, list[c + 1])) = (c + 1) - 1
      BY <2>2, <1>3
    <2>4. list[c + 1] = x
      BY <2>1, <2>2, <2>3, RankDistinct
    <2> QED BY <2>2, <2>4
  <1> QED BY <1>1, <1>5, <1>6

(* Tool catalog: embeddings                                                    *)

\* Answers that are numbered 1..n come back in their order.
Numbered(m, k) == [index |-> k, vector |-> m[k]]

LEMMA LowerCounts ==
    ASSUME NEW m, NEW k \in Nat
    PROVE  Cardinality({Numbered(m, j) : j \in 1 .. k}) = k
  <1>1. PICK T : T = {Numbered(m, j) : j \in 1 .. k}
    OBVIOUS
  <1>2. PICK S : S = 1 .. k
    OBVIOUS
  <1>3. IsFiniteSet(S) /\ Cardinality(S) = k
    <2>1. 1 \in Int /\ k \in Int
      OBVIOUS
    <2> QED BY <1>2, <2>1, FS_Interval
  <1>4. PICK g : g = [j \in S |-> Numbered(m, j)]
    OBVIOUS
  <1>5. g \in [S -> T] /\ \A z \in T : \E x \in S : g[x] = z
    BY <1>1, <1>2, <1>4
  <1>6. \A x, y \in S : g[x] = g[y] => x = y
    BY <1>4 DEF Numbered
  <1>7. Cardinality(T) = Cardinality(S)
    BY <1>3, <1>5, <1>6, SameCount
  <1> QED BY <1>1, <1>3, <1>7

LEMMA OrdersOnto ==
    ASSUME NEW n \in Nat, NEW p \in Orders(n), NEW k \in 1 .. n
    PROVE  \E i \in 1 .. n : p[i] = k
  <1>1. PICK S : S = 1 .. n
    OBVIOUS
  <1>2. IsFiniteSet(S) /\ Cardinality(S) = n
    <2>1. 1 \in Int /\ n \in Int
      OBVIOUS
    <2> QED BY <1>1, <2>1, FS_Interval
  <1>3. PICK U : U = {p[i] : i \in S}
    OBVIOUS
  <1>4. p \in [S -> U] /\ U \in SUBSET S /\ (\A x, y \in S : p[x] = p[y] => x = y)
        /\ \A z \in U : \E x \in S : p[x] = z
    BY <1>1, <1>3 DEF Orders
  <1>5. Cardinality(U) = Cardinality(S)
    BY <1>2, <1>4, SameCount
  <1>6. U = S
    BY <1>2, <1>4, <1>5, FS_Subset
  <1> QED BY <1>1, <1>3, <1>6

LEMMA InputOrder ==
    ASSUME NEW T, NEW m \in Seq(T), NEW p \in Orders(Len(m)),
           NEW said, said = [i \in DOMAIN m |-> [index |-> p[i], vector |-> m[p[i]]]],
           NEW k \in DOMAIN m
    PROVE  in_input_order(said)[k] = Numbered(m, k)
  <1>1. PICK n \in Nat : n = Len(m) /\ DOMAIN m = 1 .. n
    OBVIOUS
  <1>2. PICK R : R = {Numbered(m, j) : j \in 1 .. n}
    OBVIOUS
  <1>3. {said[i] : i \in DOMAIN said} = R
    <2>1. \A i \in 1 .. n : p[i] \in 1 .. n
      BY <1>1 DEF Orders
    <2>2. \A j \in 1 .. n : \E i \in 1 .. n : p[i] = j
      BY <1>1, OrdersOnto
    <2>3. DOMAIN said = 1 .. n /\ \A i \in 1 .. n : said[i] = Numbered(m, p[i])
      BY <1>1 DEF Numbered
    <2>4. \A i \in DOMAIN said : said[i] \in R
      BY <1>2, <2>1, <2>3
    <2>5. \A j \in 1 .. n : \E i \in DOMAIN said : said[i] = Numbered(m, j)
      <3> SUFFICES ASSUME NEW j \in 1 .. n PROVE \E i \in DOMAIN said : said[i] = Numbered(m, j)
        OBVIOUS
      <3>1. PICK i \in 1 .. n : p[i] = j
        BY <2>2
      <3>2. i \in DOMAIN said /\ said[i] = Numbered(m, j)
        BY <2>3, <3>1
      <3> QED BY <3>2
    <2>6. PICK A : A = {said[i] : i \in DOMAIN said}
      OBVIOUS
    <2>7. A \in SUBSET R
      BY <2>4, <2>6
    <2>8. R \in SUBSET A
      <3> SUFFICES ASSUME NEW x \in R PROVE x \in A
        OBVIOUS
      <3>1. PICK j \in 1 .. n : x = Numbered(m, j)
        BY <1>2
      <3> QED BY <3>1, <2>5, <2>6
    <2> QED BY <2>6, <2>7, <2>8
  <1>4. Cardinality(R) = n
    BY <1>2, LowerCounts
  <1>5. \A x \in R : x.index \in 1 .. n /\ x = Numbered(m, x.index)
    BY <1>2 DEF Numbered
  <1>6. \A x \in R : Cardinality({y \in R : y.index < x.index}) = x.index - 1
    <2> SUFFICES ASSUME NEW x \in R PROVE Cardinality({y \in R : y.index < x.index}) = x.index - 1
      OBVIOUS
    <2>1. PICK c \in Nat : c = x.index - 1 /\ c < n
      BY <1>5
    <2>2. {y \in R : y.index < x.index} = {Numbered(m, j) : j \in 1 .. c}
      <3>1. \A j \in 1 .. n : Numbered(m, j) \in R /\ Numbered(m, j).index = j
        BY <1>2 DEF Numbered
      <3>2. \A y \in R : y.index < x.index <=> y.index \in 1 .. c
        BY <1>5, <2>1
      <3>3. \A j \in 1 .. c : j \in 1 .. n
        BY <2>1
      <3> QED BY <1>5, <3>1, <3>2, <3>3
    <2> QED BY <2>1, <2>2, LowerCounts
  <1>7. in_input_order(said)[k]
          = CHOOSE x \in R : Cardinality({y \in R : y.index < x.index}) = k - 1
    BY <1>1, <1>3, <1>4 DEF in_input_order, Ordered
  <1>8. Numbered(m, k) \in R /\ Numbered(m, k).index = k /\ k \in 1 .. n
    BY <1>1, <1>2 DEF Numbered
  <1>9. PICK v : v = in_input_order(said)[k]
    OBVIOUS
  <1>10. v \in R /\ Cardinality({y \in R : y.index < v.index}) = k - 1
    BY <1>6, <1>7, <1>8, <1>9
  <1>11. v.index = k
    BY <1>5, <1>6, <1>8, <1>10
  <1> QED BY <1>5, <1>9, <1>10, <1>11

(* Tool catalog: names and descriptions                                        *)

Fresh(c, o) == ApiPart(c) \cup McpPart(o)
Plain(t) == t = [name |-> t.name, resource_id |-> t.resource_id, description |-> t.description]
FromOne(t, eps) == \E e \in eps : ToolName(e) = t.name /\ e.text = t.description

LEMMA WireText ==
    ASSUME NEW e, {e.domain, e.provider, e.tool} \subseteq Seq(Nat)
    PROVE  to_wire_name(ToolName(e)) \in Seq(Nat)
  <1>1. ASSUME NEW s \in Seq(Nat)
        PROVE  normalize_segment(s) \in Seq(Nat)
    <2>1. \A i \in DOMAIN s : s[i] % 10 \in Nat
      OBVIOUS
    <2>2. PICK x : x = [i \in DOMAIN s |-> s[i] % 10]
      OBVIOUS
    <2>3. x \in [1 .. Len(s) -> Nat] /\ Len(s) \in Nat
      BY <2>1, <2>2
    <2> QED BY <2>2, <2>3 DEF normalize_segment
  <1>2. /\ normalize_segment(e.domain) \in Seq(Nat) /\ normalize_segment(e.provider) \in Seq(Nat)
        /\ normalize_segment(e.tool) \in Seq(Nat)
    BY <1>1
  <1> QED BY <1>2 DEF to_wire_name, ToolName

LEMMA FreshTools ==
    ASSUME NEW c \in ApiConfigs, NEW o \in McpOffers, Apart(c, o), NEW t \in Fresh(c, o)
    PROVE  \E e \in c \cup o : /\ t.name = ToolName(e) /\ t.description = e.text /\ Plain(t)
                               /\ wire(t) = to_wire_name(ToolName(e))
                               /\ e \in c => t = tools_for_resource(e) /\ t.resource_id # McpServer
                               /\ e \in o => t = wrap_tools(e) /\ t.resource_id = McpServer
  <1>0. c \cap o = {} /\ \A e \in c : e.resource # McpServer
    BY CatalogAssumption DEF Apart
  <1>1. CASE t \in ApiPart(c)
    <2>1. PICK e \in c : t = tools_for_resource(e)
      BY <1>1 DEF ApiPart
    <2> QED BY <2>1, <1>0 DEF tools_for_resource, wire, Plain
  <1>2. CASE t \in McpPart(o)
    <2>1. PICK e \in o : t = wrap_tools(e)
      BY <1>2 DEF McpPart
    <2> QED BY <2>1, <1>0 DEF wrap_tools, wire, Plain
  <1> QED BY <1>1, <1>2 DEF Fresh

LEMMA PartsFinite ==
    ASSUME NEW c, NEW o, IsFiniteSet(c), IsFiniteSet(o)
    PROVE  IsFiniteSet(ApiPart(c)) /\ IsFiniteSet(McpPart(o)) /\ IsFiniteSet(Fresh(c, o))
  <1>1. IsFiniteSet(ApiPart(c))
    <2>1. PICK f : f = [e \in c |-> tools_for_resource(e)]
      OBVIOUS
    <2>2. ApiPart(c) = {f[e] : e \in c}
      BY <2>1 DEF ApiPart
    <2> QED BY <2>2, ImageFinite
  <1>2. IsFiniteSet(McpPart(o))
    <2>1. PICK f : f = [e \in o |-> wrap_tools(e)]
      OBVIOUS
    <2>2. McpPart(o) = {f[e] : e \in o}
      BY <2>1 DEF McpPart
    <2> QED BY <2>2, ImageFinite
  <1>3. IsFiniteSet(Fresh(c, o))
    BY <1>1, <1>2, FS_Union DEF Fresh
  <1> QED BY <1>1, <1>2, <1>3

LEMMA FreshNamed ==
    ASSUME NEW c \in ApiConfigs, NEW o \in McpOffers, Apart(c, o)
    PROVE  Named(Fresh(c, o)) /\ \A t \in Fresh(c, o) : Plain(t) /\ FromOne(t, c \cup o)
  <1>1. IsFiniteSet(c) /\ IsFiniteSet(o)
    BY CatalogAssumption
  <1>4. IsFiniteSet(Fresh(c, o))
    BY <1>1, PartsFinite
  <1>5. \A t \in Fresh(c, o) : wire(t) \in Seq(Nat) /\ Plain(t) /\ FromOne(t, c \cup o)
    <2> SUFFICES ASSUME NEW t \in Fresh(c, o)
                 PROVE  wire(t) \in Seq(Nat) /\ Plain(t) /\ FromOne(t, c \cup o)
      OBVIOUS
    <2>1. PICK e \in c \cup o : t.name = ToolName(e) /\ t.description = e.text /\ Plain(t)
                                /\ wire(t) = to_wire_name(ToolName(e))
      BY FreshTools
    <2>2. {e.domain, e.provider, e.tool} \subseteq Seq(Nat)
      BY CatalogAssumption
    <2>3. to_wire_name(ToolName(e)) \in Seq(Nat)
      BY <2>2, WireText
    <2> QED BY <2>1, <2>3 DEF FromOne
  <1>6. ASSUME NEW t \in Fresh(c, o), NEW u \in Fresh(c, o), wire(t) = wire(u)
        PROVE  t = u
    <2>1. PICK e \in c \cup o : /\ wire(t) = to_wire_name(ToolName(e))
                                /\ e \in c => t = tools_for_resource(e)
                                /\ e \in o => t = wrap_tools(e)
      BY FreshTools
    <2>2. PICK f \in c \cup o : /\ wire(u) = to_wire_name(ToolName(f))
                                /\ f \in c => u = tools_for_resource(f)
                                /\ f \in o => u = wrap_tools(f)
      BY FreshTools
    <2>3. e = f
      BY <1>6, <2>1, <2>2 DEF Apart
    <2> QED BY <2>1, <2>2, <2>3
  <1> QED BY <1>4, <1>5, <1>6 DEF Named

\* A tool as the catalog shows it.
Shown(o, t) ==
    [name |-> t.name, resource_id |-> t.resource_id,
     description |-> IF wire(t) \in DOMAIN o THEN o[wire(t)] ELSE t.description]

LEMMA ShownIs ==
    ASSUME NEW o, NEW t, Plain(t)
    PROVE  overlay_tool(o, t) = Shown(o, t)
  <1>1. PICK name, id, text : t = [name |-> name, resource_id |-> id, description |-> text]
    BY DEF Plain
  <1>2. t.name = name /\ t.resource_id = id /\ t.description = text
    BY <1>1
  <1>3. CASE wire(t) \in DOMAIN o
    <2>1. PICK d : d = o[wire(t)]
      OBVIOUS
    <2>2. [t EXCEPT !.description = d] = [name |-> name, resource_id |-> id, description |-> d]
      BY <1>1
    <2> QED BY <1>2, <1>3, <2>1, <2>2 DEF overlay_tool, Shown
  <1>4. CASE wire(t) \notin DOMAIN o
    BY <1>1, <1>2, <1>4 DEF overlay_tool, Shown
  <1> QED BY <1>3, <1>4

LEMMA ShownFields ==
    ASSUME NEW o, NEW t
    PROVE  /\ wire(Shown(o, t)) = wire(t) /\ Shown(o, t).name = t.name
           /\ Shown(o, t).resource_id = t.resource_id /\ Plain(Shown(o, t))
           /\ wire(t) \in DOMAIN o => Shown(o, t).description = o[wire(t)]
           /\ wire(t) \notin DOMAIN o => Shown(o, t).description = t.description
  BY DEF Shown, wire, Plain

Base == Fresh(upstream.api, upstream.mcp)
CatalogInv ==
    /\ upstream = [api |-> upstream.api, mcp |-> upstream.mcp]
    /\ upstream.api \in ApiConfigs /\ upstream.mcp \in McpOffers /\ DistinctNames
    /\ tools = {Shown(description_overrides, t) : t \in Base}
    /\ DOMAIN original_descriptions \subseteq DOMAIN description_overrides
    /\ \A t \in Base : wire(t) \in DOMAIN description_overrides =>
           /\ wire(t) \in DOMAIN original_descriptions
           /\ original_descriptions[wire(t)] = t.description

LEMMA BaseNamed ==
    ASSUME CatalogInv
    PROVE  Named(Base) /\ \A t \in Base : Plain(t) /\ FromOne(t, upstream.api \cup upstream.mcp)
  BY FreshNamed DEF CatalogInv, Base, DistinctNames

LEMMA ToolsNamed ==
    ASSUME CatalogInv
    PROVE  Named(tools) /\ \A t \in tools : \E u \in Base : t = Shown(description_overrides, u)
  <1>1. Named(Base)
    BY BaseNamed
  <1>2. PICK f : f = [u \in Base |-> Shown(description_overrides, u)]
    OBVIOUS
  <1>3. tools = {f[u] : u \in Base}
    BY <1>2 DEF CatalogInv
  <1>4. IsFiniteSet(tools)
    BY <1>1, <1>3, ImageFinite DEF Named
  <1>5. \A t \in tools : \E u \in Base : t = Shown(description_overrides, u)
    BY DEF CatalogInv
  <1>6. \A t \in tools : \E u \in Base : t = Shown(description_overrides, u) /\ wire(t) = wire(u)
    BY <1>5, ShownFields
  <1>7. \A t \in tools : wire(t) \in Seq(Nat)
    BY <1>1, <1>6 DEF Named
  <1>8. \A t, v \in tools : wire(t) = wire(v) => t = v
    BY <1>1, <1>6 DEF Named
  <1> QED BY <1>4, <1>5, <1>7, <1>8 DEF Named

LEMMA OverlayFollows ==
    ASSUME CatalogInv
    PROVE  OverlayExact
  <1> SUFFICES ASSUME NEW t \in tools
               PROVE  /\ t.description = (IF wire(t) \in DOMAIN description_overrides
                                          THEN description_overrides[wire(t)] ELSE Source(t).text)
                      /\ (IF wire(t) \in DOMAIN original_descriptions THEN original_descriptions[wire(t)]
                          ELSE t.description) = Source(t).text
    BY DEF OverlayExact
  <1>1. PICK u \in Base : t = Shown(description_overrides, u)
    BY ToolsNamed
  <1>2. /\ wire(t) = wire(u) /\ t.name = u.name
        /\ wire(u) \in DOMAIN description_overrides => t.description = description_overrides[wire(u)]
        /\ wire(u) \notin DOMAIN description_overrides => t.description = u.description
    BY <1>1, ShownFields
  <1>3. Source(t).text = u.description
    <2>1. PICK api, mcp : api = upstream.api /\ mcp = upstream.mcp
      OBVIOUS
    <2>2. Apart(api, mcp)
      BY <2>1 DEF CatalogInv, DistinctNames
    <2>3. PICK e \in api \cup mcp : ToolName(e) = u.name /\ e.text = u.description
      BY <2>1, BaseNamed DEF FromOne
    <2>4. Source(t) = CHOOSE f \in api \cup mcp : ToolName(f) = u.name
      BY <1>2, <2>1 DEF Source
    <2>5. Source(t) \in api \cup mcp /\ ToolName(Source(t)) = ToolName(e)
      BY <2>3, <2>4
    <2>6. Source(t) = e
      BY <2>2, <2>3, <2>5 DEF Apart
    <2> QED BY <2>3, <2>6
  <1>4. CASE wire(u) \in DOMAIN description_overrides
    <2>1. wire(u) \in DOMAIN original_descriptions /\ original_descriptions[wire(u)] = u.description
      BY <1>4 DEF CatalogInv
    <2> QED BY <1>2, <1>3, <1>4, <2>1
  <1>5. CASE wire(u) \notin DOMAIN description_overrides
    <2>1. wire(u) \notin DOMAIN original_descriptions
      BY <1>5 DEF CatalogInv
    <2> QED BY <1>2, <1>3, <1>5, <2>1
  <1> QED BY <1>4, <1>5

AnyQualifier == [domain |-> <<>>, provider |-> <<>>]

LEMMA AllQualify ==
    ASSUME NEW S
    PROVE  {t \in S : qualifiers_match(AnyQualifier, t)} = S
  BY DEF qualifiers_match, AnyQualifier

\* What one tier answers, when no scope is broken.
LEMMA TierAnswers ==
    ASSUME NEW S \in SUBSET tools, NEW scoped \in BOOLEAN, ~scope_error,
           NEW C, C = IF scoped THEN S \cap visible ELSE S
    PROVE  /\ C = {} => resolve_tier(S, AnyQualifier, scoped).res = "none"
           /\ \A t : C = {t} => /\ resolve_tier(S, AnyQualifier, scoped).res = "tool"
                                /\ resolve_tier(S, AnyQualifier, scoped).tool = t
  <1>1. PICK r : r = resolve_tier(S, AnyQualifier, scoped)
    OBVIOUS
  <1>2. ~(scoped /\ \E t \in S : key_can_use_tool(proxy_key, t) = "error")
    BY DEF scope_error
  <1>3. r = IF C = {} THEN [res |-> "none"]
            ELSE IF Cardinality(C) = 1 THEN [res |-> "tool", tool |-> CHOOSE t \in C : TRUE]
            ELSE [res |-> "ambiguous"]
    BY <1>1, <1>2, AllQualify DEF resolve_tier
  <1>4. ASSUME NEW t, C = {t}
        PROVE  r.res = "tool" /\ r.tool = t
    <2>1. Cardinality(C) = 1
      BY <1>4, FS_Singleton
    <2>2. C # {}
      BY <1>4
    <2>3. r = [res |-> "tool", tool |-> CHOOSE u \in C : TRUE]
      BY <1>3, <2>1, <2>2
    <2>4. (CHOOSE u \in C : TRUE) = t
      BY <1>4
    <2> QED BY <2>3, <2>4
  <1>5. C = {} => r.res = "none"
    BY <1>3
  <1> QED BY <1>1, <1>4, <1>5

LEMMA FreeNameResolves ==
    ASSUME IsFiniteSet(tools), ~scope_error, NEW t \in visible, NEW name, name_is_free(name, t),
           name = t.name.tool \/ name = two_segment_name(t)
    PROVE  resolve_for_key(name, AnyQualifier).res = "tool" /\ resolve_for_key(name, AnyQualifier).tool = t
  <1> DEFINE S0 == {u \in tools : wire(u) = name}
             S1 == {u \in tools : two_segment_name(u) = name}
             S2 == {u \in tools : u.name.tool = name}
             U == {u \in visible : u.name.tool = name \/ two_segment_name(u) = name}
  <1>0. visible \in SUBSET tools
    BY DEF visible
  <1>1. S0 = {}
    BY DEF name_is_free
  <1>2. U = {t}
    <2>1. Cardinality(U) = 1 /\ t \in U
      BY DEF name_is_free
    <2>2. IsFiniteSet(tools) /\ U \in SUBSET tools
      BY <1>0
    <2> HIDE DEF U
    <2>3. IsFiniteSet(U)
      BY <2>2, FS_Subset
    <2>4. PICK x : U = {x}
      BY <2>1, <2>3, FS_Singleton
    <2> QED BY <2>1, <2>4
  <1>3. PICK r0 : r0 = resolve_tier(S0, AnyQualifier, FALSE)
    OBVIOUS
  <1>4. PICK r1 : r1 = resolve_tier(S1, AnyQualifier, TRUE)
    OBVIOUS
  <1>5. PICK r2 : r2 = resolve_tier(S2, AnyQualifier, TRUE)
    OBVIOUS
  <1>6. resolve_for_key(name, AnyQualifier) =
          IF r0.res # "none" THEN r0 ELSE IF r1.res # "none" THEN r1 ELSE r2
    BY <1>3, <1>4, <1>5 DEF resolve_for_key
  <1>7. S0 \in SUBSET tools /\ S1 \in SUBSET tools /\ S2 \in SUBSET tools
    OBVIOUS
  <1>8. /\ two_segment_name(t) = name => S1 \cap visible = {t}
        /\ two_segment_name(t) # name => S1 \cap visible = {} /\ t.name.tool = name /\ S2 \cap visible = {t}
    BY <1>0, <1>2
  <1> HIDE DEF S0, S1, S2, U
  <1>9. r0.res = "none"
    <2>1. PICK C : C = IF FALSE THEN S0 \cap visible ELSE S0
      OBVIOUS
    <2>2. C = {}
      BY <1>1, <2>1
    <2> QED BY <1>3, <1>7, <2>1, <2>2, TierAnswers
  <1>10. CASE two_segment_name(t) = name
    <2>1. PICK C : C = IF TRUE THEN S1 \cap visible ELSE S1
      OBVIOUS
    <2>2. C = {t}
      BY <1>8, <1>10, <2>1
    <2>3. r1.res = "tool" /\ r1.tool = t
      BY <1>4, <1>7, <2>1, <2>2, TierAnswers
    <2> QED BY <1>6, <1>9, <2>3
  <1>11. CASE two_segment_name(t) # name
    <2>1. PICK C : C = IF TRUE THEN S1 \cap visible ELSE S1
      OBVIOUS
    <2>2. PICK D : D = IF TRUE THEN S2 \cap visible ELSE S2
      OBVIOUS
    <2>3. C = {} /\ D = {t}
      BY <1>8, <1>11, <2>1, <2>2
    <2>4. r1.res = "none"
      BY <1>4, <1>7, <2>1, <2>3, TierAnswers
    <2>5. r2.res = "tool" /\ r2.tool = t
      BY <1>5, <1>7, <2>2, <2>3, TierAnswers
    <2> QED BY <1>6, <1>9, <2>4, <2>5
  <1> QED BY <1>10, <1>11

LEMMA ExposedFollows ==
    ASSUME IsFiniteSet(tools)
    PROVE  ExposedNameResolves
  <1> SUFFICES ASSUME ~scope_error, NEW t \in visible, Unshared(t)
               PROVE  /\ resolve_for_key(shortest_exposed_name(t), AnyQualifier).res = "tool"
                      /\ resolve_for_key(shortest_exposed_name(t), AnyQualifier).tool = t
    BY DEF ExposedNameResolves, AnyQualifier
  <1>1. CASE name_is_free(t.name.tool, t)
    <2>1. shortest_exposed_name(t) = t.name.tool
      BY <1>1 DEF shortest_exposed_name
    <2> QED BY <1>1, <2>1, FreeNameResolves
  <1>2. CASE ~name_is_free(t.name.tool, t) /\ name_is_free(two_segment_name(t), t)
    <2>1. shortest_exposed_name(t) = two_segment_name(t)
      BY <1>2 DEF shortest_exposed_name
    <2> QED BY <1>2, <2>1, FreeNameResolves
  <1>3. CASE ~name_is_free(t.name.tool, t) /\ ~name_is_free(two_segment_name(t), t)
    <2>1. shortest_exposed_name(t) = wire(t)
      BY <1>3 DEF shortest_exposed_name
    <2>2. PICK S : S = {u \in tools : wire(u) = wire(t)}
      OBVIOUS
    <2>3. S = {t} /\ S \in SUBSET tools
      BY <2>2 DEF visible, Unshared
    <2>4. PICK r : r = resolve_tier(S, AnyQualifier, FALSE)
      OBVIOUS
    <2>5. PICK C : C = IF FALSE THEN S \cap visible ELSE S
      OBVIOUS
    <2>6. r.res = "tool" /\ r.tool = t
      BY <2>3, <2>4, <2>5, TierAnswers
    <2>7. resolve_for_key(wire(t), AnyQualifier) = r
      BY <2>2, <2>4, <2>6 DEF resolve_for_key
    <2> QED BY <2>1, <2>6, <2>7
  <1> QED BY <1>1, <1>2, <1>3

\* The descriptions on record after new tools came in.
LEMMA OriginalsAfter ==
    ASSUME NEW S, Named(S), NEW before, NEW after, after = overlay_originals(before, S)
    PROVE  /\ \A t \in S : wire(t) \in DOMAIN description_overrides =>
                  wire(t) \in DOMAIN after /\ after[wire(t)] = t.description
           /\ \A w \in DOMAIN before : (\A t \in S : wire(t) # w) =>
                  w \in DOMAIN after /\ after[w] = before[w]
           /\ \A w \in DOMAIN after : w \in DOMAIN before \/ w \in DOMAIN description_overrides
  <1>1. ASSUME NEW t \in S, wire(t) \in DOMAIN description_overrides
        PROVE  wire(t) \in DOMAIN after /\ after[wire(t)] = t.description
    <2>1. (CHOOSE u \in S : wire(u) = wire(t)) = t
      BY DEF Named
    <2> QED BY <1>1, <2>1 DEF overlay_originals
  <1>2. ASSUME NEW w \in DOMAIN before, \A t \in S : wire(t) # w
        PROVE  w \in DOMAIN after /\ after[w] = before[w]
    BY <1>2 DEF overlay_originals
  <1>3. \A w \in DOMAIN after : w \in DOMAIN before \/ w \in DOMAIN description_overrides
    BY DEF overlay_originals
  <1> QED BY <1>1, <1>2, <1>3

LEMMA PartNamed ==
    ASSUME NEW S, Named(S), NEW T \in SUBSET S
    PROVE  Named(T)
  <1>1. IsFiniteSet(T)
    BY FS_Subset DEF Named
  <1> QED BY <1>1 DEF Named

LEMMA ReplaceStep ==
    ASSUME CatalogInv, NEW offer \in McpOffers, replace_mcp_tools(offer), DistinctNames'
    PROVE  CatalogInv'
  <1>0. PICK api, mcp : /\ api = upstream.api /\ mcp = upstream.mcp /\ api \in ApiConfigs /\ mcp \in McpOffers
                        /\ upstream = [api |-> api, mcp |-> mcp]
    BY DEF CatalogInv
  <1>1. PICK o : o = description_overrides
    OBVIOUS
  <1>2. /\ tools' = {t \in tools : t.resource_id # McpServer} \cup {overlay_tool(o, t) : t \in McpPart(offer)}
        /\ original_descriptions' = overlay_originals(original_descriptions, McpPart(offer))
        /\ upstream' = [upstream EXCEPT !.mcp = offer] /\ description_overrides' = o
    BY <1>1 DEF replace_mcp_tools
  <1>3. upstream' = [api |-> api, mcp |-> offer]
    BY <1>0, <1>2
  <1>4. Base = Fresh(api, mcp) /\ Base' = Fresh(api, offer)
    BY <1>0, <1>3 DEF Base
  <1>5. Named(Fresh(api, offer)) /\ \A t \in Fresh(api, offer) : Plain(t)
    <2>1. Apart(api, offer)
      BY <1>3 DEF DistinctNames
    <2> QED BY <1>0, <2>1, FreshNamed
  <1>6. /\ \A t \in ApiPart(api) : t.resource_id # McpServer
        /\ \A t \in McpPart(mcp) : t.resource_id = McpServer
    <2>1. \A e \in api : e.resource # McpServer
      BY <1>0, CatalogAssumption
    <2> QED BY <2>1 DEF ApiPart, McpPart, tools_for_resource, wrap_tools
  <1>7. tools' = {Shown(o, t) : t \in Fresh(api, offer)}
    <2>1. \A t \in McpPart(offer) : overlay_tool(o, t) = Shown(o, t)
      BY <1>5, ShownIs DEF Fresh
    <2>2. tools = {Shown(o, t) : t \in Fresh(api, mcp)}
      BY <1>1, <1>4 DEF CatalogInv
    <2>3. {t \in tools : t.resource_id # McpServer} = {Shown(o, t) : t \in ApiPart(api)}
      <3>1. \A t \in Fresh(api, mcp) : Shown(o, t).resource_id = t.resource_id
        BY ShownFields
      <3> QED BY <1>6, <2>2, <3>1 DEF Fresh
    <2>4. {overlay_tool(o, t) : t \in McpPart(offer)} = {Shown(o, t) : t \in McpPart(offer)}
      BY <2>1
    <2> QED BY <1>2, <2>3, <2>4 DEF Fresh
  <1>8. PICK before : before = original_descriptions
    OBVIOUS
  <1>9. PICK after : after = overlay_originals(before, McpPart(offer))
    OBVIOUS
  <1>10. Named(McpPart(offer))
    <2>1. McpPart(offer) \in SUBSET Fresh(api, offer)
      BY DEF Fresh
    <2> QED BY <1>5, <2>1, PartNamed
  <1>11. /\ \A t \in McpPart(offer) : wire(t) \in DOMAIN o =>
                  wire(t) \in DOMAIN after /\ after[wire(t)] = t.description
         /\ \A w \in DOMAIN before : (\A t \in McpPart(offer) : wire(t) # w) =>
                  w \in DOMAIN after /\ after[w] = before[w]
         /\ \A w \in DOMAIN after : w \in DOMAIN before \/ w \in DOMAIN o
    BY <1>1, <1>9, <1>10, OriginalsAfter
  <1>12. ASSUME NEW t \in Fresh(api, offer), wire(t) \in DOMAIN o
         PROVE  wire(t) \in DOMAIN after /\ after[wire(t)] = t.description
    <2>1. CASE t \in McpPart(offer)
      BY <2>1, <1>11, <1>12
    <2>2. CASE t \in ApiPart(api) /\ t \notin McpPart(offer)
      <3>1. wire(t) \in DOMAIN before /\ before[wire(t)] = t.description
        BY <2>2, <1>1, <1>4, <1>8, <1>12 DEF CatalogInv, Fresh
      <3>2. \A u \in McpPart(offer) : wire(u) # wire(t)
        BY <2>2, <1>5 DEF Named, Fresh
      <3> QED BY <3>1, <3>2, <1>11
    <2> QED BY <2>1, <2>2 DEF Fresh
  <1>13. DOMAIN after \subseteq DOMAIN o
    BY <1>1, <1>8, <1>11 DEF CatalogInv
  <1>14. original_descriptions' = after /\ upstream'.api = api /\ upstream'.mcp = offer
    BY <1>2, <1>3, <1>8, <1>9
  <1> QED BY <1>0, <1>2, <1>3, <1>4, <1>7, <1>12, <1>13, <1>14 DEF CatalogInv

LEMMA ConfigStep ==
    ASSUME CatalogInv, NEW eps \in ApiConfigs, from_config(eps), DistinctNames'
    PROVE  CatalogInv'
  <1>0. PICK api, mcp : /\ api = upstream.api /\ mcp = upstream.mcp /\ api \in ApiConfigs /\ mcp \in McpOffers
                        /\ upstream = [api |-> api, mcp |-> mcp]
    BY DEF CatalogInv
  <1>1. PICK o : o = description_overrides
    OBVIOUS
  <1>2. /\ tools' = {overlay_tool(o, t) : t \in Fresh(eps, mcp)}
        /\ original_descriptions' = overlay_originals(NoFcn, Fresh(eps, mcp))
        /\ upstream' = [upstream EXCEPT !.api = eps] /\ description_overrides' = o
    BY <1>0, <1>1 DEF from_config, Fresh
  <1>3. upstream' = [api |-> eps, mcp |-> mcp]
    BY <1>0, <1>2
  <1>4. Base' = Fresh(eps, mcp)
    BY <1>3 DEF Base
  <1>5. Named(Fresh(eps, mcp)) /\ \A t \in Fresh(eps, mcp) : Plain(t)
    <2>1. Apart(eps, mcp)
      BY <1>3 DEF DistinctNames
    <2> QED BY <1>0, <2>1, FreshNamed
  <1>6. tools' = {Shown(o, t) : t \in Fresh(eps, mcp)}
    <2>1. \A t \in Fresh(eps, mcp) : overlay_tool(o, t) = Shown(o, t)
      BY <1>5, ShownIs
    <2> QED BY <1>2, <2>1
  <1>7. PICK after : after = overlay_originals(NoFcn, Fresh(eps, mcp))
    OBVIOUS
  <1>8. /\ \A t \in Fresh(eps, mcp) : wire(t) \in DOMAIN o =>
                  wire(t) \in DOMAIN after /\ after[wire(t)] = t.description
        /\ \A w \in DOMAIN after : w \in DOMAIN NoFcn \/ w \in DOMAIN o
    BY <1>1, <1>5, <1>7, OriginalsAfter
  <1>9. DOMAIN NoFcn = {}
    BY DEF NoFcn
  <1>10. original_descriptions' = after /\ upstream'.api = eps /\ upstream'.mcp = mcp
    BY <1>2, <1>3, <1>7
  <1> QED BY <1>0, <1>2, <1>3, <1>4, <1>6, <1>8, <1>9, <1>10 DEF CatalogInv

LEMMA DescribedIs ==
    ASSUME CatalogInv, NEW w, NEW text, Described(w, text),
           NEW o, \A v : v # w => (v \in DOMAIN o <=> v \in DOMAIN description_overrides),
           \A v \in DOMAIN o : v # w => o[v] = description_overrides[v],
           \A t \in Base : wire(t) = w =>
               (w \in DOMAIN o => o[w] = text) /\ (w \notin DOMAIN o => t.description = text)
    PROVE  tools' = {Shown(o, t) : t \in Base}
  <1>1. PICK old : old = description_overrides
    OBVIOUS
  <1> DEFINE Now(t) == IF wire(t) = w THEN [t EXCEPT !.description = text] ELSE t
             First(t) == IF wire(t) = w /\ t = (CHOOSE u \in tools : wire(u) = w)
                         THEN [t EXCEPT !.description = text] ELSE t
  <1>0. \A t \in tools : First(t) = Now(t)
    <2> SUFFICES ASSUME NEW t \in tools PROVE First(t) = Now(t)
      OBVIOUS
    <2>1. wire(t) = w => t = (CHOOSE u \in tools : wire(u) = w)
      BY ToolsNamed DEF Named
    <2> QED BY <2>1
  <1>2. tools = {Shown(old, t) : t \in Base} /\ tools' = {Now(t) : t \in tools}
    <2>1. tools' = {First(t) : t \in tools}
      BY DEF Described
    <2> HIDE DEF First, Now
    <2> QED BY <1>0, <1>1, <2>1 DEF CatalogInv
  <1>3. ASSUME NEW t \in Base
        PROVE  Now(Shown(old, t)) = Shown(o, t)
    <2>0. wire(Shown(old, t)) = wire(t)
      BY ShownFields
    <2>1. CASE wire(t) = w
      <3>1. PICK d : Shown(old, t) = [name |-> t.name, resource_id |-> t.resource_id, description |-> d]
        BY DEF Shown
      <3>2. PICK name, id : name = t.name /\ id = t.resource_id
        OBVIOUS
      <3>3. PICK s : s = [name |-> name, resource_id |-> id, description |-> d]
        OBVIOUS
      <3>4. [s EXCEPT !.description = text] = [name |-> name, resource_id |-> id, description |-> text]
        BY <3>3
      <3>5. Shown(o, t) = [name |-> name, resource_id |-> id, description |-> text]
        BY <2>1, <3>2 DEF Shown
      <3>6. Shown(old, t) = s
        BY <3>1, <3>2, <3>3
      <3> QED BY <2>0, <2>1, <3>4, <3>5, <3>6
    <2>2. CASE wire(t) # w
      <3>1. Shown(o, t) = Shown(old, t)
        BY <1>1, <2>2 DEF Shown
      <3> QED BY <2>0, <2>2, <3>1
    <2> QED BY <2>1, <2>2
  <1> HIDE DEF Now
  <1> QED BY <1>2, <1>3

LEMMA SetStep ==
    ASSUME CatalogInv, NEW w, NEW text, set_description_override(w, text)
    PROVE  CatalogInv'
  <1>1. PICK old : old = description_overrides
    OBVIOUS
  <1>2. PICK o : o = With(old, w, text)
    OBVIOUS
  <1>3. DOMAIN o = DOMAIN old \cup {w} /\ o[w] = text /\ \A v \in DOMAIN old : v # w => o[v] = old[v]
    BY <1>2 DEF With
  <1>4. upstream' = upstream /\ description_overrides' = o /\ Base' = Base /\ DistinctNames'
    BY <1>1, <1>2 DEF set_description_override, Base, CatalogInv, DistinctNames
  <1>5. PICK before : before = original_descriptions
    OBVIOUS
  <1>6. DOMAIN before \subseteq DOMAIN old
        /\ \A t \in Base : wire(t) \in DOMAIN old =>
               wire(t) \in DOMAIN before /\ before[wire(t)] = t.description
    BY <1>1, <1>5 DEF CatalogInv
  <1>7. CASE \E t \in tools : wire(t) = w
    <2>1. Described(w, text)
      BY <1>7 DEF set_description_override
    <2>2. tools' = {Shown(o, t) : t \in Base}
      <3>1. \A v : v # w => (v \in DOMAIN o <=> v \in DOMAIN description_overrides)
        BY <1>1, <1>3
      <3>2. \A v \in DOMAIN o : v # w => o[v] = description_overrides[v]
        BY <1>1, <1>3
      <3>3. \A t \in Base : wire(t) = w =>
               (w \in DOMAIN o => o[w] = text) /\ (w \notin DOMAIN o => t.description = text)
        BY <1>3
      <3> QED BY <2>1, <3>1, <3>2, <3>3, DescribedIs
    <2>3. CASE w \in DOMAIN before
      <3>1. original_descriptions' = before
        BY <1>5, <1>7, <2>3 DEF set_description_override
      <3>2. \A t \in Base : wire(t) \in DOMAIN o =>
               wire(t) \in DOMAIN before /\ before[wire(t)] = t.description
        BY <1>3, <1>6, <2>3
      <3>3. DOMAIN before \subseteq DOMAIN o
        BY <1>3, <1>6
      <3> QED BY <1>4, <2>2, <3>1, <3>2, <3>3 DEF CatalogInv
    <2>4. CASE w \notin DOMAIN before
      <3>1. PICK first : first = CHOOSE t \in tools : wire(t) = w
        OBVIOUS
      <3>2. first \in tools /\ wire(first) = w
        BY <1>7, <3>1
      <3>3. PICK after : after = With(before, w, first.description)
        OBVIOUS
      <3>4. original_descriptions' = after
        BY <1>5, <1>7, <2>4, <3>1, <3>3 DEF set_description_override
      <3>5. DOMAIN after = DOMAIN before \cup {w} /\ after[w] = first.description
            /\ \A v \in DOMAIN before : v # w => after[v] = before[v]
        BY <3>3 DEF With
      <3>6. PICK u \in Base : first = Shown(old, u)
        BY <1>1, <3>2, ToolsNamed
      <3>7. wire(u) = w /\ (w \notin DOMAIN old => first.description = u.description)
        BY <3>2, <3>6, ShownFields
      <3>8. first.description = u.description
        BY <1>6, <2>4, <3>7
      <3>9. \A t \in Base : wire(t) = w => t = u
        BY <3>7, BaseNamed DEF Named
      <3>10. \A t \in Base : wire(t) \in DOMAIN o =>
               wire(t) \in DOMAIN after /\ after[wire(t)] = t.description
        BY <1>3, <1>6, <3>5, <3>8, <3>9
      <3>11. DOMAIN after \subseteq DOMAIN o
        BY <1>3, <1>6, <3>5
      <3> QED BY <1>4, <2>2, <3>4, <3>10, <3>11 DEF CatalogInv
    <2> QED BY <2>3, <2>4
  <1>8. CASE ~\E t \in tools : wire(t) = w
    <2>1. tools' = tools /\ original_descriptions' = before
      BY <1>5, <1>8 DEF set_description_override
    <2>2. \A t \in Base : wire(t) # w
      <3> SUFFICES ASSUME NEW t \in Base PROVE wire(t) # w
        OBVIOUS
      <3>1. Shown(old, t) \in tools
        BY <1>1 DEF CatalogInv
      <3> QED BY <1>8, <3>1, ShownFields
    <2>3. \A t \in Base : Shown(o, t) = Shown(old, t)
      BY <1>3, <2>2 DEF Shown
    <2>4. tools' = {Shown(o, t) : t \in Base}
      BY <1>1, <2>1, <2>3 DEF CatalogInv
    <2>5. DOMAIN before \subseteq DOMAIN o
          /\ \A t \in Base : wire(t) \in DOMAIN o =>
               wire(t) \in DOMAIN before /\ before[wire(t)] = t.description
      BY <1>3, <1>6, <2>2
    <2> QED BY <1>4, <2>1, <2>4, <2>5 DEF CatalogInv
  <1> QED BY <1>7, <1>8

LEMMA RemoveStep ==
    ASSUME CatalogInv, NEW w, remove_description_override(w)
    PROVE  CatalogInv'
  <1>1. PICK old : old = description_overrides
    OBVIOUS
  <1>2. PICK o : o = Without(old, w)
    OBVIOUS
  <1>3. DOMAIN o = DOMAIN old \ {w} /\ \A v \in DOMAIN o : o[v] = old[v]
    BY <1>2 DEF Without
  <1>4. upstream' = upstream /\ description_overrides' = o /\ Base' = Base /\ DistinctNames'
    BY <1>1, <1>2 DEF remove_description_override, Base, CatalogInv, DistinctNames
  <1>5. PICK before : before = original_descriptions
    OBVIOUS
  <1>6. DOMAIN before \subseteq DOMAIN old
        /\ \A t \in Base : wire(t) \in DOMAIN old =>
               wire(t) \in DOMAIN before /\ before[wire(t)] = t.description
    BY <1>1, <1>5 DEF CatalogInv
  <1>7. PICK after : after = Without(before, w)
    OBVIOUS
  <1>8. original_descriptions' = after /\ w \in DOMAIN old
    BY <1>1, <1>5, <1>7 DEF remove_description_override
  <1>9. DOMAIN after = DOMAIN before \ {w} /\ \A v \in DOMAIN after : after[v] = before[v]
    BY <1>7 DEF Without
  <1>10. tools' = {Shown(o, t) : t \in Base}
    <2>1. CASE w \in DOMAIN before
      <3>1. PICK text : text = before[w]
        OBVIOUS
      <3>2. Described(w, text)
        BY <1>5, <2>1, <3>1 DEF remove_description_override
      <3>3. \A v : v # w => (v \in DOMAIN o <=> v \in DOMAIN description_overrides)
        BY <1>1, <1>3
      <3>4. \A v \in DOMAIN o : v # w => o[v] = description_overrides[v]
        BY <1>1, <1>3
      <3>5. \A t \in Base : wire(t) = w =>
               (w \in DOMAIN o => o[w] = text) /\ (w \notin DOMAIN o => t.description = text)
        BY <1>3, <1>6, <1>8, <3>1
      <3> QED BY <3>2, <3>3, <3>4, <3>5, DescribedIs
    <2>2. CASE w \notin DOMAIN before
      <3>1. tools' = tools
        BY <1>5, <2>2 DEF remove_description_override
      <3>2. \A t \in Base : wire(t) # w
        BY <1>6, <1>8, <2>2
      <3>3. \A t \in Base : Shown(o, t) = Shown(old, t)
        BY <1>3, <3>2 DEF Shown
      <3> QED BY <1>1, <3>1, <3>3 DEF CatalogInv
    <2> QED BY <2>1, <2>2
  <1>11. DOMAIN after \subseteq DOMAIN o
         /\ \A t \in Base : wire(t) \in DOMAIN o =>
               wire(t) \in DOMAIN after /\ after[wire(t)] = t.description
    BY <1>3, <1>6, <1>9
  <1> QED BY <1>4, <1>8, <1>10, <1>11 DEF CatalogInv

(* Tool catalog: pages                                                         *)

IsList(f) == \E V : f \in Seq(V)

LEMMA ListIs ==
    ASSUME NEW n \in Nat, NEW f, f = [i \in 1 .. n |-> f[i]]
    PROVE  IsList(f)
  <1>1. PICK V : V = {f[i] : i \in 1 .. n}
    OBVIOUS
  <1>2. f \in [1 .. n -> V]
    BY <1>1
  <1>3. f \in Seq(V)
    BY <1>2
  <1> QED BY <1>3 DEF IsList

PageOf(all, c, n, end) ==
    /\ n \in Nat /\ end \in Nat /\ end <= n /\ SubSeq(all, 1, n) = all
    /\ c <= n => SubSeq(all, 1, c) \o SubSeq(all, c + 1, end) = SubSeq(all, 1, end)

LEMMA PageTaken ==
    ASSUME NEW all, IsList(all), NEW c \in Nat, NEW limit \in Nat, limit > 0,
           NEW n, n = Len(all), NEW end, end = PageEnd(c, limit, n)
    PROVE  PageOf(all, c, n, end)
  <1>1. PICK V : all \in Seq(V)
    BY DEF IsList
  <1>2. n \in Nat
    BY <1>1
  <1>4. end \in Nat /\ end <= n /\ (c <= n => c <= end)
    BY <1>2 DEF PageEnd
  <1>6. SubSeq(all, 1, n) = all
    BY <1>1, <1>2
  <1>7. ASSUME c <= n
        PROVE  SubSeq(all, 1, c) \o SubSeq(all, c + 1, end) = SubSeq(all, 1, end)
    BY <1>1, <1>2, <1>4, <1>7
  <1> QED BY <1>2, <1>4, <1>6, <1>7 DEF PageOf

LEMMA ResultsList ==
    ASSUME CatalogInv
    PROVE  IsList(Listing)
  <1>0. Named(tools) /\ visible \in SUBSET tools
    BY ToolsNamed DEF visible
  <1>1. ASSUME NEW S \in SUBSET tools
        PROVE  IsList(sort_by_wire_name(S))
    <2>1. sort_by_wire_name(S) \in Seq(S)
      BY <1>0, <1>1, PartNamed, SortLists
    <2> QED BY <2>1 DEF IsList
  <1>2. IsList(Filtered(pager.filter))
    <2>1. PICK S : S = {t \in visible : request_filter(pager.filter, t)}
      OBVIOUS
    <2>2. S \in SUBSET tools
      BY <1>0, <2>1
    <2> QED BY <1>1, <2>1, <2>2 DEF Filtered
  <1>3. IsList(search_for_key(pager.query))
    <2>0. PICK q : q = pager.query
      OBVIOUS
    <2>1. CASE q.words = << >>
      BY <1>0, <1>1, <2>0, <2>1 DEF search_for_key
    <2>2. CASE q.words # << >>
      <3>1. PICK S : S = {t \in visible : score(q, t) > 0}
        OBVIOUS
      <3>2. S \in SUBSET tools /\ IsFiniteSet(tools)
        BY <1>0, <3>1 DEF Named
      <3>3. IsFiniteSet(S)
        BY <3>2, FS_Subset
      <3>4. PICK n \in Nat : n = Cardinality(S)
        BY <3>3, FS_CardinalityType
      <3>5. PICK f : f = search_for_key(q)
        OBVIOUS
      <3>6. f = [i \in 1 .. n |-> CHOOSE x \in S :
                   Cardinality({y \in S : \/ score(q, y) > score(q, x)
                                          \/ score(q, y) = score(q, x) /\ Before(wire(y), wire(x))}) = i - 1]
        BY <2>2, <3>1, <3>4, <3>5 DEF search_for_key, Ordered
      <3> DEFINE At(i) == CHOOSE x \in S :
                   Cardinality({y \in S : \/ score(q, y) > score(q, x)
                                          \/ score(q, y) = score(q, x) /\ Before(wire(y), wire(x))}) = i - 1
      <3>7. f = [i \in 1 .. n |-> At(i)]
        BY <3>6
      <3> HIDE DEF At
      <3>8. f = [i \in 1 .. n |-> f[i]]
        BY <3>7
      <3> QED BY <2>0, <3>5, <3>8, ListIs
    <2> QED BY <2>1, <2>2
  <1> QED BY <1>2, <1>3 DEF Listing

PagerIs(kind, filter, query, cursor, open, seen, stale, said) ==
    [kind |-> kind, filter |-> filter, query |-> query, cursor |-> cursor, open |-> open,
     seen |-> seen, stale |-> stale, answer |-> said]

PagerInv ==
    /\ pager = PagerIs(pager.kind, pager.filter, pager.query, pager.cursor, pager.open,
                       pager.seen, pager.stale, pager.answer)
    /\ pager.cursor \in Nat
    /\ ~pager.stale => pager.cursor <= Len(Listing) /\ pager.seen = SubSeq(Listing, 1, pager.cursor)
    /\ PagesComplete

LEMMA ResultsSame ==
    ASSUME tools' = tools, proxy_key' = proxy_key, pager'.kind = pager.kind,
           pager'.filter = pager.filter, pager'.query = pager.query
    PROVE  Listing' = Listing
  <1>1. visible' = visible
    BY DEF visible
  <1>2. Filtered(pager.filter)' = Filtered(pager.filter)
    BY <1>1 DEF Filtered
  <1>3. search_for_key(pager.query)' = search_for_key(pager.query)
    BY <1>1 DEF search_for_key, Ordered
  <1> QED BY <1>2, <1>3 DEF Listing

LEMMA PagerKept ==
    ASSUME PagerInv, tools' = tools, proxy_key' = proxy_key, pager' = pager
    PROVE  PagerInv'
  <1>1. Listing' = Listing
    BY ResultsSame
  <1> QED BY <1>1 DEF PagerInv, PagesComplete

LEMMA PagerMoves ==
    ASSUME PagerInv
    PROVE  \E kind, filter, query, cursor, open, seen, stale, said :
             /\ pager = PagerIs(kind, filter, query, cursor, open, seen, stale, said)
             /\ cursor \in Nat
             /\ ~stale => cursor <= Len(Listing) /\ seen = SubSeq(Listing, 1, cursor)
  BY DEF PagerInv

LEMMA PagerStale ==
    ASSUME PagerInv, Changed
    PROVE  PagerInv'
  <1>1. PICK kind, filter, query, cursor, open, seen, stale, said :
             /\ pager = PagerIs(kind, filter, query, cursor, open, seen, stale, said)
             /\ cursor \in Nat
    BY PagerMoves
  <1>2. pager' = PagerIs(kind, filter, query, cursor, open, seen, TRUE, said)
    BY <1>1 DEF Changed, PagerIs
  <1>3. pager'.stale = TRUE /\ pager'.cursor \in Nat
        /\ pager' = PagerIs(pager'.kind, pager'.filter, pager'.query, pager'.cursor, pager'.open,
                       pager'.seen, pager'.stale, pager'.answer)
    BY <1>1, <1>2 DEF PagerIs
  <1> QED BY <1>3 DEF PagerInv, PagesComplete

LEMMA PagerSteps ==
    ASSUME CatalogInv, PagerInv, NEW limit \in {1, 2}, list_for_key(limit) \/ search_response(limit)
    PROVE  PagerInv'
  <1>1. PICK kind, filter, query, cursor, open, seen, stale, said :
             /\ pager = PagerIs(kind, filter, query, cursor, open, seen, stale, said)
             /\ cursor \in Nat
             /\ ~stale => cursor <= Len(Listing) /\ seen = SubSeq(Listing, 1, cursor)
    BY PagerMoves
  <1>2. tools' = tools /\ proxy_key' = proxy_key /\ (EndPager("error") \/ NextPage(limit))
    BY DEF list_for_key, search_response
  <1>3. PICK all : all = Listing
    OBVIOUS
  <1>4. IsList(all)
    BY <1>3, ResultsList
  <1>5. CASE EndPager("error")
    <2>1. pager' = PagerIs(kind, filter, query, cursor, FALSE, seen, stale, "error")
      BY <1>1, <1>5 DEF EndPager, PagerIs
    <2>2. /\ pager'.kind = kind /\ pager'.filter = filter /\ pager'.query = query /\ pager'.cursor = cursor
          /\ pager'.seen = seen /\ pager'.stale = stale /\ pager'.answer = "error"
          /\ pager' = PagerIs(pager'.kind, pager'.filter, pager'.query, pager'.cursor, pager'.open,
                       pager'.seen, pager'.stale, pager'.answer)
      BY <2>1 DEF PagerIs
    <2>3. pager.kind = kind /\ pager.filter = filter /\ pager.query = query
      BY <1>1 DEF PagerIs
    <2>4. Listing' = Listing
      BY <1>2, <2>2, <2>3, ResultsSame
    <2> QED BY <1>1, <2>2, <2>4 DEF PagerInv, PagesComplete
  <1>6. CASE NextPage(limit)
    <2>1. PICK n : n = Len(all)
      OBVIOUS
    <2>2. PICK end : end = PageEnd(cursor, limit, n)
      OBVIOUS
    <2>3. PICK now : now = seen \o SubSeq(all, cursor + 1, end)
      OBVIOUS
    <2>4. pager' = PagerIs(kind, filter, query, end, end < n, now, stale, said)
      BY <1>1, <1>3, <1>6, <2>1, <2>2, <2>3 DEF NextPage, PagerIs, next_cursor
    <2>5. /\ pager'.kind = kind /\ pager'.filter = filter /\ pager'.query = query /\ pager'.cursor = end
          /\ pager'.seen = now /\ pager'.stale = stale /\ pager'.open = (end < n)
          /\ pager' = PagerIs(pager'.kind, pager'.filter, pager'.query, pager'.cursor, pager'.open,
                       pager'.seen, pager'.stale, pager'.answer)
      BY <2>4 DEF PagerIs
    <2>6. pager.kind = kind /\ pager.filter = filter /\ pager.query = query
      BY <1>1 DEF PagerIs
    <2>7. Listing' = all
      BY <1>2, <1>3, <2>5, <2>6, ResultsSame
    <2>8. limit \in Nat /\ limit > 0
      OBVIOUS
    <2>9. /\ n \in Nat /\ end \in Nat /\ end <= n /\ SubSeq(all, 1, n) = all
          /\ cursor <= n => SubSeq(all, 1, cursor) \o SubSeq(all, cursor + 1, end) = SubSeq(all, 1, end)
      <3>1. cursor \in Nat
        BY <1>1
      <3>2. PICK m : m = limit
        OBVIOUS
      <3>3. m \in Nat /\ m > 0 /\ end = PageEnd(cursor, m, n)
        BY <2>2, <2>8, <3>2
      <3>4. PageOf(all, cursor, n, end)
        BY <1>4, <2>1, <3>1, <3>3, PageTaken
      <3> QED BY <3>4 DEF PageOf
    <2>10. ~stale => now = SubSeq(all, 1, end)
      BY <1>1, <1>3, <2>1, <2>3, <2>9
    <2>11. ~(end < n) => end = n
      BY <2>9
    <2>12. ~stale /\ ~(end < n) => now = all
      BY <2>9, <2>10, <2>11
    <2> QED BY <2>1, <2>5, <2>7, <2>9, <2>10, <2>12 DEF PagerInv, PagesComplete
  <1> QED BY <1>2, <1>5, <1>6

(* Tool catalog: rankings                                                      *)

RankIs(step, candidates, missing, ranked) ==
    [step |-> step, candidates |-> candidates, missing |-> missing, result |-> ranked]
Covered(r, vectors) == \A t \in r.candidates : wire(t) \in DOMAIN vectors
Asked(r, vectors) ==
    /\ IsList(r.missing)
    /\ \A t \in r.candidates :
           wire(t) \in DOMAIN vectors \/ \E i \in DOMAIN r.missing : r.missing[i] = t
RankOk(r, vectors) ==
    /\ r = RankIs(r.step, r.candidates, r.missing, r.result)
    /\ r.step = "embed" => Asked(r, vectors)
    /\ r.step = "query" => Covered(r, vectors)
    /\ r.step = "done" => r.result = r.candidates
VectorsTrue(vectors) ==
    \A w \in DOMAIN vectors : /\ wire(vectors[w].vector) = w
                              /\ vectors[w].vector.description = vectors[w].text
AllSearchers(f) == f = [s \in Searchers |-> f[s]]
RankInv ==
    /\ AllSearchers(ranking) /\ \A s \in Searchers : RankOk(ranking[s], cached_vectors)
    /\ VectorsTrue(cached_vectors)

LEMMA RankFollows ==
    ASSUME RankInv
    PROVE  RankComplete
  BY DEF RankInv, RankOk, VectorsTrue, RankComplete

LEMMA RankGrows ==
    ASSUME NEW r, NEW old, NEW new, RankOk(r, old), DOMAIN old \subseteq DOMAIN new
    PROVE  RankOk(r, new)
  <1>1. Asked(r, old) => Asked(r, new)
    BY DEF Asked
  <1>2. Covered(r, old) => Covered(r, new)
    BY DEF Covered
  <1> QED BY <1>1, <1>2 DEF RankOk

Moved(f, g, s, r) == g = [f EXCEPT ![s] = r]

LEMMA RankMoves ==
    ASSUME RankInv, NEW s \in Searchers, NEW r, Moved(ranking, ranking', s, r),
           DOMAIN cached_vectors \subseteq DOMAIN cached_vectors', VectorsTrue(cached_vectors'),
           RankOk(r, cached_vectors')
    PROVE  RankInv'
  <1>1. PICK f : f = ranking
    OBVIOUS
  <1>2. PICK g : g = [f EXCEPT ![s] = r]
    OBVIOUS
  <1>3. ranking' = g
    BY <1>1, <1>2 DEF Moved
  <1>4. f = [x \in Searchers |-> f[x]]
    BY <1>1 DEF RankInv, AllSearchers
  <1>5. AllSearchers(g)
    BY <1>2, <1>4 DEF AllSearchers
  <1>6. g[s] = r /\ \A x \in Searchers : x # s => g[x] = f[x]
    BY <1>2, <1>4
  <1>7. PICK old, new : old = cached_vectors /\ new = cached_vectors'
    OBVIOUS
  <1>8. ASSUME NEW x \in Searchers
        PROVE  RankOk(g[x], new)
    <2>1. CASE x = s
      BY <1>6, <1>7, <2>1
    <2>2. CASE x # s
      <3>1. RankOk(f[x], old)
        BY <1>1, <1>7 DEF RankInv
      <3>2. DOMAIN old \subseteq DOMAIN new
        BY <1>7
      <3> QED BY <1>6, <2>2, <3>1, <3>2, RankGrows
    <2> QED BY <2>1, <2>2
  <1>9. AllSearchers(ranking')
    BY <1>3, <1>5
  <1>10. \A x \in Searchers : RankOk(ranking'[x], cached_vectors')
    BY <1>3, <1>7, <1>8
  <1> QED BY <1>9, <1>10 DEF RankInv, AllSearchers

LEMMA RankBegins ==
    ASSUME CatalogInv, RankInv, NEW s \in Searchers, rank(s)
    PROVE  RankInv'
  <1> DEFINE Old(t) == wire(t) \notin DOMAIN cached_vectors
                       \/ cached_vectors[wire(t)].text # t.description
  <1>1. PICK all : all = visible
    OBVIOUS
  <1>2. PICK M : M = {t \in all : Old(t)}
    OBVIOUS
  <1>3. PICK list : list = sort_by_wire_name(M)
    OBVIOUS
  <1>4. PICK r : r = RankIs(IF M = {} THEN "query" ELSE "embed", all, list, {})
    OBVIOUS
  <1>5. Moved(ranking, ranking', s, r) /\ cached_vectors' = cached_vectors
    BY <1>1, <1>2, <1>3, <1>4 DEF rank, Moved, RankIs
  <1>6. M \in SUBSET tools
    BY <1>1, <1>2 DEF visible
  <1>7. Named(M)
    BY <1>6, ToolsNamed, PartNamed
  <1>8. IsList(list) /\ \A t \in M : \E i \in DOMAIN list : list[i] = t
    BY <1>3, <1>7, SortLists DEF IsList
  <1>9. \A t \in all : t \notin M => wire(t) \in DOMAIN cached_vectors
    BY <1>2
  <1>10. /\ r.step = (IF M = {} THEN "query" ELSE "embed") /\ r.candidates = all
         /\ r.missing = list /\ r.result = {} /\ r = RankIs(r.step, r.candidates, r.missing, r.result)
    BY <1>4 DEF RankIs
  <1>11. Asked(r, cached_vectors)
    BY <1>8, <1>9, <1>10 DEF Asked
  <1>12. r.step = "query" => Covered(r, cached_vectors)
    BY <1>9, <1>10 DEF Covered
  <1>13. r.step # "done"
    BY <1>10
  <1>14. RankOk(r, cached_vectors)
    BY <1>10, <1>11, <1>12, <1>13 DEF RankOk
  <1>15. VectorsTrue(cached_vectors)
    BY DEF RankInv
  <1>16. RankOk(r, cached_vectors') /\ VectorsTrue(cached_vectors') /\ DOMAIN cached_vectors \subseteq DOMAIN cached_vectors'
    BY <1>5, <1>14, <1>15
  <1> QED BY <1>5, <1>16, RankMoves

LEMMA RankEmbeds ==
    ASSUME RankInv, NEW s \in Searchers, embed(s)
    PROVE  RankInv'
  <1>1. PICK step, candidates, m, ranked : ranking[s] = RankIs(step, candidates, m, ranked)
    BY DEF RankInv, RankOk
  <1>2. /\ ranking[s].step = step /\ ranking[s].candidates = candidates /\ ranking[s].missing = m
        /\ ranking[s].result = ranked
    BY <1>1 DEF RankIs
  <1>3. step = "embed" /\ RankOk(ranking[s], cached_vectors)
    BY <1>2 DEF embed, RankInv
  <1>4. IsList(m) /\ \A t \in candidates : wire(t) \in DOMAIN cached_vectors \/ \E i \in DOMAIN m : m[i] = t
    BY <1>2, <1>3 DEF RankOk, Asked
  <1>5. PICK T : m \in Seq(T)
    BY <1>4 DEF IsList
  <1>6. PICK A : A = {wire(m[i]) : i \in DOMAIN m}
    OBVIOUS
  <1>7. PICK p \in Orders(Len(m)) :
          cached_vectors' = [w \in DOMAIN cached_vectors \cup A |->
              IF w \in A
              THEN Filed(m, in_input_order([i \in DOMAIN m |-> [index |-> p[i], vector |-> m[p[i]]]]), w)
              ELSE cached_vectors[w]]
    BY <1>2, <1>6 DEF embed
  <1>8. PICK said : said = [i \in DOMAIN m |-> [index |-> p[i], vector |-> m[p[i]]]]
    OBVIOUS
  <1>9. PICK back : back = in_input_order(said)
    OBVIOUS
  <1>10. PICK old, new : old = cached_vectors /\ new = cached_vectors'
    OBVIOUS
  <1>11. new = [w \in DOMAIN old \cup A |-> IF w \in A THEN Filed(m, back, w) ELSE old[w]]
    BY <1>7, <1>8, <1>9, <1>10
  <1>12. DOMAIN new = DOMAIN old \cup A /\ (\A w \in A : new[w] = Filed(m, back, w))
         /\ \A w \in DOMAIN old : w \notin A => new[w] = old[w]
    BY <1>11
  <1>13. \A k \in DOMAIN m : back[k] = Numbered(m, k)
    BY <1>5, <1>8, <1>9, InputOrder
  <1>14. ASSUME NEW w \in A
         PROVE  wire(new[w].vector) = w /\ new[w].vector.description = new[w].text
    <2>1. PICK i : i = CHOOSE j \in DOMAIN m : wire(m[j]) = w
      OBVIOUS
    <2>2. i \in DOMAIN m /\ wire(m[i]) = w
      BY <1>6, <2>1
    <2>3. back[i].vector = m[i]
      <3>1. Numbered(m, i).vector = m[i]
        BY DEF Numbered
      <3> QED BY <1>13, <2>2, <3>1
    <2>4. new[w] = [text |-> m[i].description, vector |-> m[i]]
      BY <1>12, <2>1, <2>3 DEF Filed
    <2> QED BY <2>2, <2>4
  <1>15. VectorsTrue(old)
    BY <1>10 DEF RankInv
  <1>16. VectorsTrue(new)
    BY <1>12, <1>14, <1>15 DEF VectorsTrue
  <1>17. PICK r : r = RankIs("query", candidates, m, ranked)
    OBVIOUS
  <1>18. Moved(ranking, ranking', s, r)
    <2>1. ranking' = [ranking EXCEPT ![s] = [ranking[s] EXCEPT !.step = "query"]]
      BY DEF embed
    <2>2. [ranking[s] EXCEPT !.step = "query"] = r
      BY <1>1, <1>17 DEF RankIs
    <2> QED BY <2>1, <2>2 DEF Moved
  <1>19. /\ r.step = "query" /\ r.candidates = candidates
         /\ r = RankIs(r.step, r.candidates, r.missing, r.result)
    BY <1>17 DEF RankIs
  <1>20. Covered(r, new)
    <2>1. \A i \in DOMAIN m : wire(m[i]) \in A
      BY <1>6
    <2> QED BY <1>4, <1>10, <1>12, <1>19, <2>1 DEF Covered
  <1>21. RankOk(r, new)
    BY <1>19, <1>20 DEF RankOk
  <1>22. RankOk(r, cached_vectors') /\ VectorsTrue(cached_vectors') /\ DOMAIN cached_vectors \subseteq DOMAIN cached_vectors'
    BY <1>10, <1>12, <1>16, <1>21
  <1> QED BY <1>18, <1>22, RankMoves

LEMMA RankFallsBack ==
    ASSUME RankInv, NEW s \in Searchers, handle_search_semantic(s)
    PROVE  RankInv'
  <1>1. PICK r : r = RankIs("keyword", {}, << >>, {})
    OBVIOUS
  <1>2. [NotRanking EXCEPT !.step = "keyword"] = r
    <2>1. PICK none, empty : none = {} /\ empty = << >>
      OBVIOUS
    <2>2. NotRanking = [step |-> "idle", candidates |-> none, missing |-> empty, result |-> none]
      BY <2>1 DEF NotRanking
    <2>3. [NotRanking EXCEPT !.step = "keyword"]
            = [step |-> "keyword", candidates |-> none, missing |-> empty, result |-> none]
      BY <2>2
    <2> QED BY <1>1, <2>1, <2>3 DEF RankIs
  <1>3. Moved(ranking, ranking', s, r) /\ cached_vectors' = cached_vectors
    BY <1>2 DEF handle_search_semantic, Moved
  <1>4. r.step = "keyword" /\ r = RankIs(r.step, r.candidates, r.missing, r.result)
    BY <1>1 DEF RankIs
  <1>5. RankOk(r, cached_vectors)
    BY <1>4 DEF RankOk
  <1>6. VectorsTrue(cached_vectors)
    BY DEF RankInv
  <1>7. RankOk(r, cached_vectors') /\ VectorsTrue(cached_vectors') /\ DOMAIN cached_vectors \subseteq DOMAIN cached_vectors'
    BY <1>3, <1>5, <1>6
  <1> QED BY <1>3, <1>7, RankMoves

LEMMA RankEnds ==
    ASSUME RankInv, NEW s \in Searchers, score_candidates(s)
    PROVE  RankInv'
  <1>1. PICK step, candidates, m, ranked : ranking[s] = RankIs(step, candidates, m, ranked)
    BY DEF RankInv, RankOk
  <1>2. ranking[s].step = step /\ ranking[s].candidates = candidates
    BY <1>1 DEF RankIs
  <1>3. step = "query" /\ RankOk(ranking[s], cached_vectors)
    BY <1>2 DEF score_candidates, RankInv
  <1>4. \A t \in candidates : wire(t) \in DOMAIN cached_vectors
    BY <1>2, <1>3 DEF RankOk, Covered
  <1>5. {t \in candidates : wire(t) \in DOMAIN cached_vectors} = candidates
    BY <1>4
  <1>6. PICK r : r = RankIs("done", candidates, m, candidates)
    OBVIOUS
  <1>7. Moved(ranking, ranking', s, r) /\ cached_vectors' = cached_vectors
    <2>1. ranking' = [ranking EXCEPT ![s] = [ranking[s] EXCEPT !.step = "done", !.result = candidates]]
      <3>1. AllSearchers(ranking)
        BY DEF RankInv
      <3> QED BY <1>2, <1>5, <3>1 DEF score_candidates, AllSearchers
    <2>2. [ranking[s] EXCEPT !.step = "done", !.result = candidates] = r
      <3>1. PICK q : q = ranking[s]
        OBVIOUS
      <3>2. q = [step |-> step, candidates |-> candidates, missing |-> m, result |-> ranked]
        BY <1>1, <3>1 DEF RankIs
      <3>3. [q EXCEPT !.step = "done"]
              = [step |-> "done", candidates |-> candidates, missing |-> m, result |-> ranked]
        BY <3>2
      <3>4. [[q EXCEPT !.step = "done"] EXCEPT !.result = candidates] = r
        <4>1. PICK word : word = "done"
          OBVIOUS
        <4>2. PICK x : x = [q EXCEPT !.step = "done"]
          OBVIOUS
        <4>3. x = [step |-> word, candidates |-> candidates, missing |-> m, result |-> ranked]
          BY <3>3, <4>1, <4>2
        <4>4. [x EXCEPT !.result = candidates]
                = [step |-> word, candidates |-> candidates, missing |-> m, result |-> candidates]
          BY <4>3
        <4> QED BY <1>6, <4>1, <4>2, <4>4 DEF RankIs
      <3> QED BY <3>1, <3>2, <3>4
    <2> QED BY <2>1, <2>2 DEF Moved, score_candidates
  <1>8. r.step = "done" /\ r.result = r.candidates /\ r = RankIs(r.step, r.candidates, r.missing, r.result)
    BY <1>6 DEF RankIs
  <1>9. RankOk(r, cached_vectors)
    BY <1>8 DEF RankOk
  <1>10. VectorsTrue(cached_vectors)
    BY DEF RankInv
  <1>11. RankOk(r, cached_vectors') /\ VectorsTrue(cached_vectors') /\ DOMAIN cached_vectors \subseteq DOMAIN cached_vectors'
    BY <1>7, <1>9, <1>10
  <1> QED BY <1>7, <1>11, RankMoves

LEMMA CatalogKept ==
    ASSUME CatalogInv, tools' = tools, description_overrides' = description_overrides,
           original_descriptions' = original_descriptions, upstream' = upstream
    PROVE  CatalogInv'
  <1>1. Base' = Base /\ (DistinctNames <=> DistinctNames')
    BY DEF Base, DistinctNames
  <1> QED BY <1>1 DEF CatalogInv

LEMMA RankKept ==
    ASSUME RankInv, ranking' = ranking, cached_vectors' = cached_vectors
    PROVE  RankInv'
  BY DEF RankInv, AllSearchers

LEMMA CatalogBegins ==
    ASSUME CatInit, DistinctNames
    PROVE  CatalogInv /\ PagerInv /\ RankInv
  <1>1. PICK api \in ApiConfigs, mcp \in McpOffers : upstream = [api |-> api, mcp |-> mcp]
    BY DEF CatInit
  <1>2. upstream.api = api /\ upstream.mcp = mcp /\ Base = Fresh(api, mcp)
    BY <1>1 DEF Base
  <1>3. CatalogInv
    <2>1. DOMAIN description_overrides = {} /\ DOMAIN original_descriptions = {}
      BY DEF CatInit, NoFcn
    <2>2. \A t \in Base : Shown(description_overrides, t) = t
      <3>1. \A t \in Base : Plain(t)
        BY <1>2, FreshNamed DEF DistinctNames
      <3> QED BY <2>1, <3>1 DEF Shown, Plain
    <2>3. tools = Base
      BY <1>2 DEF CatInit, Fresh
    <2>4. tools = {Shown(description_overrides, t) : t \in Base}
      BY <2>2, <2>3
    <2>5. upstream = [api |-> upstream.api, mcp |-> upstream.mcp]
      BY <1>1
    <2> QED BY <1>2, <2>1, <2>4, <2>5 DEF CatalogInv
  <1>4. PagerInv
    <2>1. PICK kind, filter, query :
            pager = PagerIs(kind, filter, query, 0, TRUE, << >>, FALSE, "page")
      BY DEF CatInit, PagerIs
    <2>2. /\ pager.cursor = 0 /\ pager.open = TRUE /\ pager.seen = << >>
          /\ pager = PagerIs(pager.kind, pager.filter, pager.query, pager.cursor, pager.open,
                             pager.seen, pager.stale, pager.answer)
      BY <2>1 DEF PagerIs
    <2>3. PICK all : all = Listing
      OBVIOUS
    <2>4. PICK V : all \in Seq(V)
      BY <1>3, <2>3, ResultsList DEF IsList
    <2>5. 0 <= Len(all) /\ SubSeq(all, 1, 0) = << >>
      BY <2>4
    <2> QED BY <2>2, <2>3, <2>5 DEF PagerInv, PagesComplete
  <1>5. RankInv
    <2>1. ranking = [s \in Searchers |-> NotRanking] /\ DOMAIN cached_vectors = {}
      BY DEF CatInit, NoFcn
    <2>2. NotRanking.step = "idle" /\ NotRanking =
            RankIs(NotRanking.step, NotRanking.candidates, NotRanking.missing, NotRanking.result)
      BY DEF NotRanking, RankIs
    <2>3. RankOk(NotRanking, cached_vectors)
      BY <2>2 DEF RankOk
    <2>4. AllSearchers(ranking)
      BY <2>1 DEF AllSearchers
    <2> QED BY <2>1, <2>3, <2>4 DEF RankInv, VectorsTrue
  <1> QED BY <1>3, <1>4, <1>5

LEMMA CatalogSteps ==
    ASSUME CatalogInv, PagerInv, RankInv, [CatNext]_catVars, DistinctNames'
    PROVE  CatalogInv' /\ PagerInv' /\ RankInv'
  <1>1. ASSUME NEW offer \in McpOffers, replace_mcp_tools(offer)
        PROVE  CatalogInv' /\ PagerInv' /\ RankInv'
    <2>1. Changed /\ ranking' = ranking /\ cached_vectors' = cached_vectors
      BY <1>1 DEF replace_mcp_tools
    <2> QED BY <1>1, <2>1, ReplaceStep, PagerStale, RankKept
  <1>2. ASSUME NEW eps \in ApiConfigs, from_config(eps)
        PROVE  CatalogInv' /\ PagerInv' /\ RankInv'
    <2>1. Changed /\ ranking' = ranking /\ cached_vectors' = cached_vectors
      BY <1>2 DEF from_config
    <2> QED BY <1>2, <2>1, ConfigStep, PagerStale, RankKept
  <1>3. ASSUME NEW w, NEW text, set_description_override(w, text)
        PROVE  CatalogInv' /\ PagerInv' /\ RankInv'
    <2>1. Changed /\ ranking' = ranking /\ cached_vectors' = cached_vectors
      BY <1>3 DEF set_description_override
    <2> QED BY <1>3, <2>1, SetStep, PagerStale, RankKept
  <1>4. ASSUME NEW w, remove_description_override(w)
        PROVE  CatalogInv' /\ PagerInv' /\ RankInv'
    <2>1. Changed /\ ranking' = ranking /\ cached_vectors' = cached_vectors
      BY <1>4 DEF remove_description_override
    <2> QED BY <1>4, <2>1, RemoveStep, PagerStale, RankKept
  <1>5. ASSUME NEW limit \in {1, 2}, list_for_key(limit) \/ search_response(limit)
        PROVE  CatalogInv' /\ PagerInv' /\ RankInv'
    <2>1. /\ tools' = tools /\ description_overrides' = description_overrides
          /\ original_descriptions' = original_descriptions /\ upstream' = upstream
          /\ ranking' = ranking /\ cached_vectors' = cached_vectors
      BY <1>5 DEF list_for_key, search_response
    <2> QED BY <1>5, <2>1, CatalogKept, PagerSteps, RankKept
  <1>6. ASSUME NEW s \in Searchers,
               rank(s) \/ embed(s) \/ handle_search_semantic(s) \/ score_candidates(s)
        PROVE  CatalogInv' /\ PagerInv' /\ RankInv'
    <2>1. /\ tools' = tools /\ description_overrides' = description_overrides
          /\ original_descriptions' = original_descriptions /\ upstream' = upstream
          /\ pager' = pager /\ proxy_key' = proxy_key
      BY <1>6 DEF rank, embed, handle_search_semantic, score_candidates, RankVars
    <2>2. CatalogInv' /\ PagerInv'
      BY <2>1, CatalogKept, PagerKept
    <2>3. RankInv'
      BY <1>6, RankBegins, RankEmbeds, RankFallsBack, RankEnds
    <2> QED BY <2>2, <2>3
  <1>7. ASSUME UNCHANGED catVars
        PROVE  CatalogInv' /\ PagerInv' /\ RankInv'
    BY <1>7, CatalogKept, PagerKept, RankKept DEF catVars
  <1> QED BY <1>1, <1>2, <1>3, <1>4, <1>5, <1>6, <1>7 DEF CatNext

(* Whatever endpoints are configured and whatever the MCP server lists, names *)
(* that tools share included, a tool whose full name no other has is resolved *)
(* from the name under which a key is shown it.                               *)
THEOREM NamesAlwaysResolve == CatSpec => []ExposedNameResolves
  <1> DEFINE Inv == /\ upstream = [api |-> upstream.api, mcp |-> upstream.mcp]
                    /\ upstream.api \in ApiConfigs /\ upstream.mcp \in McpOffers
                    /\ IsFiniteSet(tools)
  <1>0. \A c \in ApiConfigs, o \in McpOffers :
          /\ IsFiniteSet(c) /\ IsFiniteSet(o)
          /\ IsFiniteSet(McpPart(o)) /\ IsFiniteSet(Fresh(c, o))
    BY CatalogAssumption, PartsFinite
  <1>1. CatInit => Inv
    <2> SUFFICES ASSUME CatInit PROVE Inv
      OBVIOUS
    <2>1. PICK api \in ApiConfigs, mcp \in McpOffers : upstream = [api |-> api, mcp |-> mcp]
      BY DEF CatInit
    <2>2. tools = Fresh(api, mcp)
      BY <2>1 DEF CatInit, Fresh
    <2> QED BY <1>0, <2>1, <2>2
  <1>2. Inv /\ [CatNext]_catVars => Inv'
    <2> SUFFICES ASSUME Inv, [CatNext]_catVars PROVE Inv'
      OBVIOUS
    <2>0. PICK api, mcp : /\ api \in ApiConfigs /\ mcp \in McpOffers
                          /\ upstream = [api |-> api, mcp |-> mcp] /\ IsFiniteSet(tools)
      OBVIOUS
    <2>1. ASSUME NEW offer \in McpOffers, replace_mcp_tools(offer) PROVE Inv'
      <3>1. PICK f : f = [t \in McpPart(offer) |-> overlay_tool(description_overrides, t)]
        OBVIOUS
      <3>2. PICK A, B : A = {t \in tools : t.resource_id # McpServer} /\ B = {f[t] : t \in McpPart(offer)}
        OBVIOUS
      <3>3. A \in SUBSET tools /\ IsFiniteSet(B)
        BY <1>0, <2>0, <3>2, ImageFinite
      <3>4. IsFiniteSet(A \cup B)
        BY <2>0, <3>3, FS_Subset, FS_Union
      <3>5. B = {overlay_tool(description_overrides, t) : t \in McpPart(offer)}
        BY <3>1, <3>2
      <3>6. tools' = A \cup B /\ upstream' = [upstream EXCEPT !.mcp = offer]
        BY <2>1, <3>2, <3>5 DEF replace_mcp_tools
      <3>7. upstream' = [api |-> api, mcp |-> offer]
        BY <2>0, <3>6
      <3> QED BY <2>0, <3>4, <3>6, <3>7
    <2>2. ASSUME NEW eps \in ApiConfigs, from_config(eps) PROVE Inv'
      <3>1. PICK F : F = Fresh(eps, mcp)
        OBVIOUS
      <3>2. PICK f : f = [t \in F |-> overlay_tool(description_overrides, t)]
        OBVIOUS
      <3>3. tools' = {overlay_tool(description_overrides, t) : t \in F}
            /\ upstream' = [upstream EXCEPT !.api = eps]
        BY <2>0, <2>2, <3>1 DEF from_config, Fresh
      <3>4. tools' = {f[t] : t \in F}
        BY <3>2, <3>3
      <3>5. IsFiniteSet(tools')
        BY <1>0, <2>0, <3>1, <3>4, ImageFinite
      <3>6. upstream' = [api |-> eps, mcp |-> mcp]
        BY <2>0, <3>3
      <3> QED BY <2>0, <3>5, <3>6
    <2>3. ASSUME NEW w, NEW text, Described(w, text) \/ tools' = tools, upstream' = upstream PROVE Inv'
      <3>1. IsFiniteSet(tools')
        <4>1. CASE Described(w, text)
          <5> DEFINE Now(t) == IF wire(t) = w /\ t = (CHOOSE u \in tools : wire(u) = w)
                               THEN [t EXCEPT !.description = text] ELSE t
          <5>1. tools' = {Now(t) : t \in tools}
            BY <4>1 DEF Described
          <5> HIDE DEF Now
          <5>2. PICK f : f = [t \in tools |-> Now(t)]
            OBVIOUS
          <5>3. tools' = {f[t] : t \in tools}
            BY <5>1, <5>2
          <5> QED BY <2>0, <5>3, ImageFinite
        <4>2. CASE tools' = tools
          BY <2>0, <4>2
        <4> QED BY <2>3, <4>1, <4>2
      <3> QED BY <2>0, <2>3, <3>1
    <2>4. ASSUME NEW w, NEW text, set_description_override(w, text) PROVE Inv'
      <3>1. (Described(w, text) \/ tools' = tools) /\ upstream' = upstream
        BY <2>4 DEF set_description_override
      <3> QED BY <2>3, <3>1
    <2>5. ASSUME NEW w, remove_description_override(w) PROVE Inv'
      <3>1. (Described(w, original_descriptions[w]) \/ tools' = tools) /\ upstream' = upstream
        BY <2>5 DEF remove_description_override
      <3> QED BY <2>3, <3>1
    <2>6. ASSUME tools' = tools, upstream' = upstream PROVE Inv'
      BY <2>0, <2>6
    <2>7. ASSUME NEW limit, list_for_key(limit) \/ search_response(limit) PROVE Inv'
      BY <2>6, <2>7 DEF list_for_key, search_response
    <2>8. ASSUME NEW s, rank(s) \/ embed(s) \/ handle_search_semantic(s) \/ score_candidates(s)
          PROVE  Inv'
      BY <2>6, <2>8 DEF rank, embed, handle_search_semantic, score_candidates, RankVars
    <2>9. CASE UNCHANGED catVars
      BY <2>6, <2>9 DEF catVars
    <2> QED BY <2>1, <2>2, <2>4, <2>5, <2>7, <2>8, <2>9 DEF CatNext
  <1>3. Inv => ExposedNameResolves
    BY ExposedFollows
  <1> QED BY <1>1, <1>2, <1>3, PTL DEF CatSpec

(* While refreshes, configuration swaps and an administrator's overrides      *)
(* change the catalog under its readers, and as long as no two of its tools   *)
(* share a full name, every name a key is shown resolves to the tool it was   *)
(* shown for, every description is the override or else what the upstream     *)
(* says, pages read without a change in between are the whole result, and a   *)
(* semantic search ranks every tool it began with by a vector of that tool's  *)
(* own text: for every configuration, listing, key, filter and number of      *)
(* searches.                                                                  *)
THEOREM CatalogAlwaysExact == CatSpec /\ []DistinctNames => []CatalogExact
  <1>1. CatInit /\ DistinctNames => CatalogInv /\ PagerInv /\ RankInv
    BY CatalogBegins
  <1>2. CatalogInv /\ PagerInv /\ RankInv /\ [CatNext]_catVars /\ DistinctNames'
          => (CatalogInv /\ PagerInv /\ RankInv)'
    BY CatalogSteps
  <1>3. CatalogInv /\ PagerInv /\ RankInv => CatalogExact
    <2> SUFFICES ASSUME CatalogInv, PagerInv, RankInv PROVE CatalogExact
      OBVIOUS
    <2>1. ExposedNameResolves
      BY ToolsNamed, ExposedFollows DEF Named
    <2>2. OverlayExact
      BY OverlayFollows
    <2>3. PagesComplete
      BY DEF PagerInv
    <2>4. RankComplete
      BY RankFollows
    <2> QED BY <2>1, <2>2, <2>3, <2>4 DEF CatalogExact
  <1> QED BY <1>1, <1>2, <1>3, PTL DEF CatSpec

(* OpenAPI discovery: segments                                                 *)

SameBefore(raw, i) == {j \in DOMAIN raw : j <= i /\ raw[j] = raw[i]}

LEMMA SegmentsDiffer ==
    ASSUME NEW D, IsFiniteSet(D), D \in SUBSET Nat, NEW raw, DOMAIN raw = D,
           \A i \in D : \E T : raw[i] \in Seq(T),
           NEW i \in D, NEW j \in D, i < j, raw[i] = raw[j]
    PROVE  dedup_segment(raw, i) # dedup_segment(raw, j)
  <1>1. PICK P, Q : P = SameBefore(raw, i) /\ Q = SameBefore(raw, j)
    OBVIOUS
  <1>2. P \in SUBSET Q /\ Q \in SUBSET D /\ j \in Q /\ j \notin P /\ i \in P
    <2>1. i \in Nat /\ j \in Nat
      OBVIOUS
    <2> QED BY <1>1, <2>1 DEF SameBefore
  <1>3. IsFiniteSet(Q) /\ IsFiniteSet(P)
    BY <1>2, FS_Subset
  <1>4. Cardinality(P) <= Cardinality(Q) /\ (Cardinality(Q) = Cardinality(P) => Q = P)
    BY <1>2, <1>3, FS_Subset
  <1>5. PICK m \in Nat, n \in Nat : m = Cardinality(P) /\ n = Cardinality(Q)
    BY <1>3, FS_CardinalityType
  <1>6. m < n /\ m # 0
    <2>1. m # n /\ m <= n
      BY <1>2, <1>4, <1>5
    <2>2. m # 0
      BY <1>2, <1>3, <1>5, FS_EmptySet
    <2> QED BY <2>1, <2>2, <1>5
  <1>7. PICK w, T : w = raw[i] /\ w \in Seq(T)
    OBVIOUS
  <1>8. /\ dedup_segment(raw, i) = IF m = 1 THEN w ELSE Append(w, m)
        /\ dedup_segment(raw, j) = IF n = 1 THEN w ELSE Append(w, n)
    BY <1>1, <1>5, <1>7 DEF dedup_segment, SameBefore
  <1>9. n # 1
    BY <1>5, <1>6
  <1>10. Len(w) \in Nat /\ Len(Append(w, n)) = Len(w) + 1 /\ Append(w, n)[Len(w) + 1] = n
         /\ Append(w, m)[Len(w) + 1] = m
    BY <1>7
  <1>11. CASE m = 1
    <2>1. Append(w, n) # w
      BY <1>10
    <2> QED BY <1>8, <1>9, <1>11, <2>1
  <1>12. CASE m # 1
    <2>1. Append(w, n) # Append(w, m)
      BY <1>5, <1>6, <1>10
    <2> QED BY <1>8, <1>9, <1>12, <2>1
  <1> QED BY <1>11, <1>12

LEMMA AppendsSame ==
    ASSUME NEW T, NEW U, NEW w \in Seq(T), NEW v \in Seq(U), NEW m, NEW n,
           Append(w, m) = Append(v, n)
    PROVE  w = v
  <1>1. Len(w) \in Nat /\ Len(v) \in Nat /\ Len(w) = Len(v)
    <2>1. Len(w) \in Nat /\ Len(v) \in Nat
      OBVIOUS
    <2>2. Len(Append(w, m)) = Len(w) + 1 /\ Len(Append(v, n)) = Len(v) + 1
      OBVIOUS
    <2> QED BY <2>1, <2>2
  <1>2. \A k \in 1 .. Len(w) : w[k] = v[k]
    <2> SUFFICES ASSUME NEW k \in 1 .. Len(w) PROVE w[k] = v[k]
      OBVIOUS
    <2>1. Append(w, m)[k] = w[k] /\ Append(v, n)[k] = v[k]
      BY <1>1
    <2> QED BY <2>1
  <1>3. PICK W : W = T \cup U
    OBVIOUS
  <1>4. w \in Seq(W) /\ v \in Seq(W)
    <2>1. w \in [1 .. Len(w) -> W] /\ v \in [1 .. Len(v) -> W]
      BY <1>3
    <2> QED BY <1>1, <2>1
  <1> QED BY <1>1, <1>2, <1>4

LEMMA CountWithin ==
    ASSUME NEW D, IsFiniteSet(D), NEW raw, DOMAIN raw = D, D \in SUBSET Nat, NEW i \in D
    PROVE  Cardinality(SameBefore(raw, i)) \in 1 .. Cardinality(D)
  <1>1. PICK P : P = SameBefore(raw, i)
    OBVIOUS
  <1>2. P \in SUBSET D /\ i \in P
    <2>1. i \in Nat
      OBVIOUS
    <2> QED BY <1>1, <2>1 DEF SameBefore
  <1>3. IsFiniteSet(P) /\ Cardinality(P) <= Cardinality(D)
    BY <1>2, FS_Subset
  <1>4. Cardinality(P) \in Nat /\ Cardinality(D) \in Nat
    BY <1>3, FS_CardinalityType
  <1>5. Cardinality(P) # 0
    BY <1>2, <1>3, FS_EmptySet
  <1> QED BY <1>1, <1>3, <1>4, <1>5

\* Equal segments: one id is the other with a number.
LEMMA SegmentsCollide ==
    ASSUME NEW D, IsFiniteSet(D), D \in SUBSET Nat, NEW raw, DOMAIN raw = D,
           \A i \in D : \E T : raw[i] \in Seq(T),
           NEW i \in D, NEW j \in D, i # j, dedup_segment(raw, i) = dedup_segment(raw, j)
    PROVE  NumberApart(raw[i], raw[j], Cardinality(D))
  <1>1. raw[i] # raw[j]
    <2>1. i \in Nat /\ j \in Nat
      OBVIOUS
    <2>2. CASE i < j
      BY <2>2, SegmentsDiffer
    <2>3. CASE j < i
      BY <2>3, SegmentsDiffer
    <2> QED BY <2>1, <2>2, <2>3
  <1>2. PICK m, n : m = Cardinality(SameBefore(raw, i)) /\ n = Cardinality(SameBefore(raw, j))
    OBVIOUS
  <1>3. m \in 1 .. Cardinality(D) /\ n \in 1 .. Cardinality(D) /\ Cardinality(D) \in Nat
    BY <1>2, CountWithin, FS_CardinalityType
  <1>4. PICK w, T, v, U : w = raw[i] /\ w \in Seq(T) /\ v = raw[j] /\ v \in Seq(U)
    OBVIOUS
  <1>5. (IF m = 1 THEN w ELSE Append(w, m)) = (IF n = 1 THEN v ELSE Append(v, n))
    BY <1>2, <1>4 DEF dedup_segment, SameBefore
  <1>6. CASE m = 1 /\ n = 1
    BY <1>1, <1>4, <1>5, <1>6
  <1>7. CASE m = 1 /\ n # 1
    BY <1>3, <1>4, <1>5, <1>7 DEF NumberApart
  <1>8. CASE m # 1 /\ n = 1
    BY <1>3, <1>4, <1>5, <1>8 DEF NumberApart
  <1>9. CASE m # 1 /\ n # 1
    <2>1. w = v
      BY <1>4, <1>5, <1>9, AppendsSame
    <2> QED BY <1>1, <1>4, <2>1
  <1> QED BY <1>6, <1>7, <1>8, <1>9

\* What discovery makes of one operation, and what a call makes of it.
IsEndpoint(e) ==
    /\ e.op \in Operations /\ e.schema = build_input_schema(e.op)
IsRequest(r) ==
    /\ r.endpoint \in DOMAIN endpoints
    /\ \A h \in r.rest.headers : h.name \in endpoints[r.endpoint].schema.header_params
DocInv ==
    /\ document \in UNION {[1 .. n -> Operations] : n \in 1 .. MaxOperations}
    /\ discovered \in BOOLEAN /\ request.made \in BOOLEAN
    /\ ~discovered => endpoints = << >>
    /\ \A i \in DOMAIN endpoints : IsEndpoint(endpoints[i])
    /\ SegmentsDistinct
    /\ request.made => discovered /\ IsRequest(request)

LEMMA HeaderParams ==
    ASSUME NEW op, NEW b, b = build_input_schema(op)
    PROVE  b.header_params = {p.name : p \in {q \in add_parameter(op) : q.location = "header"}}
  BY DEF build_input_schema

\* What is sent as a header is one of the parameters that stay exposed.
LEMMA HeadersDeclared ==
    ASSUME NEW e, NEW args, NEW h \in apply_params(e, args).headers
    PROVE  h.name \in e.schema.header_params
  <1>1. h \in SentHeaders(e, args, TRUE)
    BY DEF apply_params
  <1>2. PICK P : P = e.schema.header_params
    OBVIOUS
  <1>3. PICK Q : Q = {m \in P : /\ [header |-> TRUE, name |-> m] \in DOMAIN args
                               /\ args[[header |-> TRUE, name |-> m]].json = "string"
                               /\ args[[header |-> TRUE, name |-> m]].header_ok /\ m.valid}
    OBVIOUS
  <1>4. Q \in SUBSET P
    BY <1>3
  <1>5. h \in {[name |-> n, value |-> args[[header |-> TRUE, name |-> n]].text] : n \in Q}
    BY <1>1, <1>2, <1>3, Zenon DEF SentHeaders
  <1>6. PICK n \in Q : h = [name |-> n, value |-> args[[header |-> TRUE, name |-> n]].text]
    BY <1>5
  <1> QED BY <1>2, <1>4, <1>6

LEMMA HiddenFollows ==
    ASSUME DocInv
    PROVE  CredentialHeadersHidden
  <1>1. ASSUME NEW i \in DOMAIN endpoints, NEW n \in endpoints[i].schema.header_params
        PROVE  n.lower \notin AUTH_HEADERS
    <2>1. PICK op : endpoints[i].schema = build_input_schema(op)
      BY DEF DocInv, IsEndpoint
    <2>2. PICK p \in add_parameter(op) : p.location = "header" /\ p.name = n
      BY <2>1, HeaderParams
    <2> QED BY <2>2 DEF add_parameter, hidden_header
  <1>2. ASSUME request.made, NEW h \in request.rest.headers
        PROVE  h.name.lower \notin AUTH_HEADERS
    BY <1>1, <1>2 DEF DocInv, IsRequest
  <1> QED BY <1>1, <1>2 DEF CredentialHeadersHidden

LEMMA RawIsList ==
    ASSUME NEW op \in Operations
    PROVE  \E T : normalize_operation_id(op) \in Seq(T)
  <1>1. CASE op.operation_id = << >>
    <2>1. PICK a, b : a = op.method /\ b = op.path
      OBVIOUS
    <2>2. <<a, b>> \in Seq({a, b})
      OBVIOUS
    <2> QED BY <1>1, <2>1, <2>2 DEF normalize_operation_id
  <1>2. CASE op.operation_id # << >>
    <2>1. PICK w, n : w = op.operation_id /\ n = Len(w)
      OBVIOUS
    <2>2. n \in Nat /\ w = [i \in 1 .. n |-> w[i]]
      BY <2>1, DocumentAssumption
    <2>3. PICK V : V = {w[i] : i \in 1 .. n}
      OBVIOUS
    <2>4. w \in [1 .. n -> V]
      BY <2>2, <2>3
    <2>5. w \in Seq(V)
      BY <2>2, <2>4
    <2> QED BY <1>2, <2>1, <2>5 DEF normalize_operation_id
  <1> QED BY <1>1, <1>2

LEMMA Discovered ==
    ASSUME DocInv, discover_endpoints
    PROVE  DocInv'
  <1>1. /\ document' = document /\ request' = request /\ discovered' = TRUE /\ ~discovered
    BY DEF discover_endpoints
  <1>2. PICK n \in Nat : document \in [1 .. n -> Operations]
    BY DEF DocInv
  <1>3. PICK C : C = {i \in DOMAIN document : is_operation_selected(document[i], discovery)}
    OBVIOUS
  <1>4. PICK raw : raw = [i \in C |-> normalize_operation_id(document[i])]
    OBVIOUS
  <1>5. endpoints' = [i \in C |->
                 [op |-> document[i], raw |-> raw[i], tool_segment |-> dedup_segment(raw, i),
                  schema |-> build_input_schema(document[i])]]
    BY <1>3, <1>4 DEF discover_endpoints
  <1>6. C \in SUBSET (1 .. n) /\ \A i \in C : document[i] \in Operations
    BY <1>2, <1>3
  <1>7. IsFiniteSet(C) /\ C \in SUBSET Nat
    <2>1. IsFiniteSet(1 .. n)
      <3>1. 1 \in Int /\ n \in Int
        OBVIOUS
      <3> QED BY <3>1, FS_Interval
    <2>2. PICK I : I = 1 .. n
      OBVIOUS
    <2>3. IsFiniteSet(I) /\ C \in SUBSET I
      BY <1>6, <2>1, <2>2
    <2>4. IsFiniteSet(C)
      BY <2>3, FS_Subset
    <2> QED BY <1>6, <2>4
  <1>8. DOMAIN endpoints' = C
        /\ \A i \in C : /\ endpoints'[i].op = document[i] /\ endpoints'[i].raw = raw[i]
                        /\ endpoints'[i].tool_segment = dedup_segment(raw, i)
                        /\ endpoints'[i].schema = build_input_schema(document[i])
    BY <1>5
  <1>9. \A i \in C : IsEndpoint(endpoints'[i])
    BY <1>6, <1>8 DEF IsEndpoint
  <1>10. DOMAIN raw = C /\ \A i \in C : \E T : raw[i] \in Seq(T)
    BY <1>4, <1>6, RawIsList
  <1>11. ASSUME NEW i \in C, NEW j \in C, i # j, dedup_segment(raw, i) = dedup_segment(raw, j)
         PROVE  NumberApart(raw[i], raw[j], Cardinality(C))
    BY <1>7, <1>10, <1>11, SegmentsCollide
  <1>12. SegmentsDistinct'
    BY <1>8, <1>11 DEF SegmentsDistinct
  <1>13. ~request.made
    BY <1>1 DEF DocInv
  <1> QED BY <1>1, <1>8, <1>9, <1>12, <1>13 DEF DocInv

LEMMA Called ==
    ASSUME DocInv, NEW i, Call(i)
    PROVE  DocInv'
  <1>1. /\ document' = document /\ discovered' = discovered /\ endpoints' = endpoints
        /\ discovered /\ i \in DOMAIN endpoints
    BY DEF Call
  <1>2. PICK e : e = endpoints[i]
    OBVIOUS
  <1>3. PICK given \in SUBSET Known(e) : \E a \in [given -> Values] :
          request' = [made |-> TRUE, endpoint |-> i, args |-> a,
                      url |-> build_url(e, a), rest |-> apply_params(e, a)]
    BY <1>2 DEF Call
  <1>4. PICK args \in [given -> Values] :
          request' = [made |-> TRUE, endpoint |-> i, args |-> args,
                      url |-> build_url(e, args), rest |-> apply_params(e, args)]
    BY <1>3
  <1>5. /\ request'.made = TRUE /\ request'.endpoint = i
        /\ request'.rest = apply_params(e, args)
    BY <1>4
  <1>6. \A h \in request'.rest.headers : h.name \in e.schema.header_params
    BY <1>5, HeadersDeclared
  <1>7. IsRequest(request)'
    BY <1>1, <1>2, <1>5, <1>6 DEF IsRequest
  <1>8. SegmentsDistinct'
    BY <1>1 DEF SegmentsDistinct, DocInv
  <1> QED BY <1>1, <1>5, <1>7, <1>8 DEF DocInv

(* Whatever operations an OpenAPI document has, whichever the discovery       *)
(* section selects and whatever arguments a call brings, two tools share a    *)
(* segment only when the id of one is the other's with a number, and no tool  *)
(* offers or sends a credential header (dedup_segment, add_parameter,         *)
(* apply_params).                                                             *)
THEOREM DiscoveryAlwaysFaithful ==
    DocSpec => [](SegmentsDistinct /\ CredentialHeadersHidden)
  <1>1. DocInit => DocInv
    <2> SUFFICES ASSUME DocInit PROVE DocInv
      OBVIOUS
    <2>1. /\ document \in UNION {[1 .. n -> Operations] : n \in 1 .. MaxOperations}
          /\ discovered = FALSE /\ endpoints = << >> /\ request.made = FALSE
      BY DEF DocInit, NoRequest
    <2>2. DOMAIN endpoints = {}
      BY <2>1
    <2> QED BY <2>1, <2>2 DEF DocInv, SegmentsDistinct
  <1>2. DocInv /\ [DocNext]_docVars => DocInv'
    <2> SUFFICES ASSUME DocInv, [DocNext]_docVars PROVE DocInv'
      OBVIOUS
    <2>1. CASE discover_endpoints
      BY <2>1, Discovered
    <2>2. ASSUME NEW i, Call(i) PROVE DocInv'
      BY <2>2, Called
    <2>3. CASE UNCHANGED docVars
      BY <2>3 DEF DocInv, docVars, SegmentsDistinct, IsRequest
    <2> QED BY <2>1, <2>2, <2>3 DEF DocNext
  <1>3. DocInv => SegmentsDistinct /\ CredentialHeadersHidden
    BY HiddenFollows DEF DocInv
  <1> QED BY <1>1, <1>2, <1>3, PTL DEF DocSpec
=============================================================================
