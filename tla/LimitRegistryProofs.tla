------------------------ MODULE LimitRegistryProofs ------------------------
(* Theorems about LimitRegistry for every number of invocations, registries    *)
(* and limits.                                                                 *)
EXTENDS LimitRegistry, FiniteSetTheorems, TLAPS

\* The counter operations keep a registry well formed and say what becomes of total.
LEMMA RecordCall ==
    ASSUME NEW r \in Registry, NEW d \in Nat
    PROVE  /\ record_call(r, d) \in Registry
           /\ record_call(r, d).total = r.total + 1
           /\ record_call(r, d).lim = r.lim /\ record_call(r, d).base = r.base
           /\ record_call(r, d).commits = r.commits
    <1> DEFINE n == today_on(r, d) + 1
               t == r.total + 1
    <1>1. n \in Nat /\ t \in Nat
      BY DEF Registry, today_on
    <1>2. record_call(r, d) = [r EXCEPT !.total = t, !.day = d, !.today = n]
      BY DEF record_call
    <1> HIDE DEF n
    <1> QED BY <1>1, <1>2 DEF Registry

LEMMA RefundCall ==
    ASSUME NEW r \in Registry, NEW d \in Nat
    PROVE  /\ refund_call(r, d) \in Registry
           /\ refund_call(r, d).total = saturating_sub(r.total)
           /\ refund_call(r, d).lim = r.lim /\ refund_call(r, d).base = r.base
           /\ refund_call(r, d).commits = r.commits
    <1> DEFINE n == IF r.day = d THEN saturating_sub(r.today) ELSE r.today
               t == saturating_sub(r.total)
    <1>1. n \in Nat /\ t \in Nat /\ r.day \in Nat
      BY DEF Registry, saturating_sub
    <1>2. refund_call(r, d) = [r EXCEPT !.total = t, !.today = n]
      BY DEF refund_call
    <1> HIDE DEF n, t
    <1>3. /\ refund_call(r, d) \in Registry
          /\ refund_call(r, d).total = t
          /\ refund_call(r, d).lim = r.lim /\ refund_call(r, d).base = r.base
          /\ refund_call(r, d).commits = r.commits
      BY <1>1, <1>2 DEF Registry
    <1> QED BY <1>3 DEF t

\* A registry created with counters is well formed.
LEMMA FreshOK ==
    ASSUME NEW lim \in Limits, NEW total \in Nat, NEW d \in Nat, NEW today \in Nat
    PROVE  /\ Fresh(lim, total, d, today) \in Registry
           /\ Fresh(lim, total, d, today).lim = lim
           /\ Fresh(lim, total, d, today).total = total
           /\ Fresh(lim, total, d, today).base = total
           /\ Fresh(lim, total, d, today).commits = 0
    BY DEF Registry, Fresh

\* The success rows and the committed calls are finite in number: both sets only grow
\* by one element at a time.
FiniteHistory == IsFiniteSet(events)

\* TypeOK is an invariant, together with the finiteness of the event table that the
\* restart counts.
THEOREM TypeCorrect == Spec => [](TypeOK /\ FiniteHistory)
  <1>1. Init => TypeOK /\ FiniteHistory
    <2> SUFFICES ASSUME Init PROVE TypeOK /\ FiniteHistory
      OBVIOUS
    <2>1. PICK lim \in Limits : regs = [r \in RegIds |-> Fresh(lim, 0, 0, 0)]
      BY DEF Init
    <2>2. Fresh(lim, 0, 0, 0) \in Registry
      BY FreshOK
    <2>3. FiniteHistory
      BY FS_EmptySet DEF Init, FiniteHistory
    <2> QED BY <2>1, <2>2, <2>3, RegIdsAssumption DEF Init, TypeOK, Labels, NoReg
  <1>2. TypeOK /\ FiniteHistory /\ [Next]_vars => TypeOK' /\ FiniteHistory'
    <2> SUFFICES ASSUME TypeOK, FiniteHistory, [Next]_vars PROVE TypeOK' /\ FiniteHistory'
      OBVIOUS
    <2> USE RegIdsAssumption DEF NoReg
    <2>1. ASSUME NEW c \in Calls, Start(c) \/ Admit(c) PROVE TypeOK' /\ FiniteHistory'
      <3>1. CASE Start(c)
        BY <3>1 DEF Start, Goto, TypeOK, Labels, FiniteHistory
      <3>2. CASE Admit(c)
        BY <3>2 DEF Admit, Goto, TypeOK, Labels, FiniteHistory
      <3> QED BY <2>1, <3>1, <3>2
    <2>2. ASSUME NEW c \in Calls, EnterUpstream(c) PROVE TypeOK' /\ FiniteHistory'
      <3>1. reg[c] \in RegIds
        BY <2>2 DEF EnterUpstream, TypeOK
      <3>2. record_call(regs[reg[c]], stamp[c]) \in Registry
        BY <3>1, RecordCall DEF TypeOK
      <3> QED BY <2>2, <3>1, <3>2 DEF EnterUpstream, Goto, TypeOK, Labels, FiniteHistory
    <2>3. ASSUME NEW c \in Calls, Reject(c) \/ QueueTimeout(c) \/ CancelQueued(c) \/ ReleasePermit(c)
          PROVE  TypeOK' /\ FiniteHistory'
      <3>1. /\ Finish(c)
            /\ UNCHANGED <<day, regs, current, incoming, started, restarts, events, succeeded, recorded>>
        BY <2>3 DEF Reject, QueueTimeout, CancelQueued, ReleasePermit
      <3> QED BY <3>1 DEF Finish, Goto, TypeOK, Labels, FiniteHistory
    <2>4. ASSUME NEW c \in Calls, Succeed(c) PROVE TypeOK' /\ FiniteHistory'
      <3>1. reg[c] \in RegIds
        BY <2>4 DEF Succeed, TypeOK
      <3>2. [regs[reg[c]] EXCEPT !.commits = @ + 1] \in Registry
        BY <3>1 DEF TypeOK, Registry
      <3>3. regs' = [regs EXCEPT ![reg[c]] = [regs[reg[c]] EXCEPT !.commits = @ + 1]]
        BY <2>4 DEF Succeed
      <3>4. regs' \in [RegIds -> Registry]
        BY <3>1, <3>2, <3>3 DEF TypeOK
      <3>5. succeeded' \subseteq Stamp
        BY <2>4 DEF Succeed, TypeOK, Stamp
      <3> QED BY <2>4, <3>4, <3>5 DEF Succeed, Goto, TypeOK, Labels, FiniteHistory
    <2>5. ASSUME NEW c \in Calls, RecordSuccess(c) PROVE TypeOK' /\ FiniteHistory'
      <3>1. events' \subseteq Stamp
        BY <2>5 DEF RecordSuccess, TypeOK, Stamp
      <3>2. FiniteHistory'
        BY <2>5, FS_AddElement DEF RecordSuccess, FiniteHistory
      <3> QED BY <2>5, <3>1, <3>2 DEF RecordSuccess, Goto, TypeOK, Labels
    <2>6. ASSUME NEW c \in Calls, RecordLost(c) \/ Fail(c) PROVE TypeOK' /\ FiniteHistory'
      BY <2>6 DEF RecordLost, Fail, Goto, TypeOK, Labels, FiniteHistory
    <2>7. ASSUME NEW c \in Calls, Refund(c) PROVE TypeOK' /\ FiniteHistory'
      <3>1. reg[c] \in RegIds
        BY <2>7 DEF Refund, TypeOK
      <3>2. refund_call(regs[reg[c]], day) \in Registry
        BY <3>1, RefundCall DEF TypeOK
      <3> QED BY <2>7, <3>1, <3>2 DEF Refund, Goto, TypeOK, Labels, FiniteHistory
    <2>8. ASSUME NEW r \in RegIds, NEW lim \in Limits, BuildRegistry(r, lim)
          PROVE  TypeOK' /\ FiniteHistory'
      <3> DEFINE old == regs[current]
      <3>1. old.total \in Nat /\ old.day \in Nat /\ old.today \in Nat
        BY DEF TypeOK, Registry
      <3>2. Fresh(lim, old.total, old.day, old.today) \in Registry
        BY <3>1, FreshOK
      <3> QED BY <2>8, <3>2 DEF BuildRegistry, Held, TypeOK, FiniteHistory, calls
    <2>9. CASE AbortReload \/ InstallRegistry \/ Midnight
      <3>1. CASE AbortReload
        BY <3>1 DEF AbortReload, TypeOK, FiniteHistory, calls
      <3>2. CASE InstallRegistry
        BY <3>2 DEF InstallRegistry, TypeOK, FiniteHistory, calls
      <3>3. CASE Midnight
        BY <3>3, BoundsAssumption DEF Midnight, TypeOK, FiniteHistory, calls
      <3> QED BY <2>9, <3>1, <3>2, <3>3
    <2>10. CASE Purge
      <3>1. events' \subseteq events
        BY <2>10 DEF Purge
      <3>2. FiniteHistory'
        BY <3>1, FS_Subset DEF FiniteHistory
      <3> QED BY <2>10, <3>1, <3>2 DEF Purge, TypeOK, calls
    <2>11. ASSUME NEW lim \in Limits, Restart(lim) PROVE TypeOK' /\ FiniteHistory'
      <3>1. PICK total \in {0, SeedCallCount}, today \in {0, SeedDaily} :
              regs' = [r \in RegIds |-> Fresh(lim, total, day, today)]
        BY <2>11 DEF Restart
      <3>2. total \in Nat /\ today \in Nat
        <4>1. IsFiniteSet({e \in events : e.day = day})
          BY FS_Subset DEF FiniteHistory
        <4> QED BY <4>1, FS_CardinalityType DEF FiniteHistory, SeedCallCount, SeedDaily
      <3>3. Fresh(lim, total, day, today) \in Registry
        BY <3>2, FreshOK DEF TypeOK
      <3>4. regs' \in [RegIds -> Registry]
        BY <3>1, <3>3 DEF TypeOK
      <3> QED BY <2>11, <3>4 DEF Restart, TypeOK, Labels, FiniteHistory
    <2>12. CASE UNCHANGED vars
      BY <2>12 DEF vars, calls, TypeOK, FiniteHistory
    <2> QED BY <2>1, <2>2, <2>3, <2>4, <2>5, <2>6, <2>7, <2>8, <2>9, <2>10, <2>11, <2>12
            DEF Next, CallStep
  <1> QED BY <1>1, <1>2, PTL DEF Spec

-----------------------------------------------------------------------------
(* CountsExact                                                                *)

\* What one registry must satisfy.
Exact(r) == regs[r].total = regs[r].base + regs[r].commits + Cardinality(InFlight(r))

\* Sets of invocations are finite, and an invocation joins or leaves one by one.
LEMMA InFlightFinite ==
    ASSUME NEW r \in RegIds
    PROVE  IsFiniteSet(InFlight(r)) /\ Cardinality(InFlight(r)) \in Nat
    <1>1. InFlight(r) \subseteq Calls
      BY DEF InFlight
    <1> QED BY <1>1, CallsFinite, FS_Subset, FS_CardinalityType

\* A registry whose record and whose counted calls do not change stays exact.
LEMMA ExactStable ==
    ASSUME NEW r \in RegIds, Exact(r), InFlight(r)' = InFlight(r), regs'[r] = regs[r]
    PROVE  Exact(r)'
    BY DEF Exact

\* Every admitted call is counted exactly once and refunded exactly once unless it
\* commits: the counters of every registry are exact in every behaviour.
THEOREM QuotaCountsExact == Spec => []CountsExact
  <1>1. Init => CountsExact
    <2> SUFFICES ASSUME Init, NEW r \in RegIds PROVE Exact(r)
      BY DEF CountsExact, Exact
    <2>1. PICK lim \in Limits : regs = [q \in RegIds |-> Fresh(lim, 0, 0, 0)]
      BY DEF Init
    <2>2. InFlight(r) = {}
      BY DEF Init, InFlight
    <2> QED BY <2>1, <2>2, FreshOK, FS_EmptySet DEF Exact
  <1>2. TypeOK /\ TypeOK' /\ FiniteHistory /\ CountsExact /\ [Next]_vars => CountsExact'
    <2> SUFFICES ASSUME TypeOK, TypeOK', FiniteHistory, CountsExact, [Next]_vars, NEW r \in RegIds
                 PROVE  Exact(r)'
      BY DEF CountsExact, Exact
    <2> USE RegIdsAssumption DEF NoReg
    <2>0. /\ Exact(r) /\ regs[r] \in Registry
          /\ IsFiniteSet(InFlight(r)) /\ Cardinality(InFlight(r)) \in Nat
          /\ regs[r].total \in Nat /\ regs[r].base \in Nat /\ regs[r].commits \in Nat
      BY InFlightFinite DEF CountsExact, Exact, TypeOK, Registry
    <2>1. ASSUME NEW c \in Calls, Start(c) \/ Admit(c) PROVE Exact(r)'
      <3>1. InFlight(r)' = InFlight(r) /\ regs'[r] = regs[r]
        BY <2>1 DEF Start, Admit, Goto, InFlight, TypeOK
      <3> QED BY <2>0, <3>1, ExactStable
    <2>2. ASSUME NEW c \in Calls, EnterUpstream(c) PROVE Exact(r)'
      <3>1. CASE reg[c] # r
        <4>1. InFlight(r)' = InFlight(r) /\ regs'[r] = regs[r]
          BY <2>2, <3>1 DEF EnterUpstream, Goto, InFlight, TypeOK
        <4> QED BY <2>0, <4>1, ExactStable
      <3>2. CASE reg[c] = r
        <4>1. InFlight(r)' = InFlight(r) \cup {c} /\ c \notin InFlight(r)
          BY <2>2, <3>2 DEF EnterUpstream, Goto, InFlight, TypeOK
        <4>2. Cardinality(InFlight(r)') = Cardinality(InFlight(r)) + 1
          BY <2>0, <4>1, FS_AddElement
        <4>3. regs'[r] = record_call(regs[r], stamp[c]) /\ stamp[c] \in Nat
          BY <2>2, <3>2 DEF EnterUpstream, TypeOK
        <4>4. /\ regs'[r].total = regs[r].total + 1
              /\ regs'[r].base = regs[r].base /\ regs'[r].commits = regs[r].commits
          <5> DEFINE q == record_call(regs[r], stamp[c])
          <5>1. q.total = regs[r].total + 1 /\ q.base = regs[r].base /\ q.commits = regs[r].commits
            BY <2>0, <4>3, RecordCall
          <5> HIDE DEF q
          <5>2. regs'[r] = q
            BY <4>3 DEF q
          <5> QED BY <5>1, <5>2
        <4> QED BY <2>0, <4>2, <4>4 DEF Exact
      <3> QED BY <3>1, <3>2
    <2>3. ASSUME NEW c \in Calls, Reject(c) \/ QueueTimeout(c) \/ CancelQueued(c) \/ ReleasePermit(c)
          PROVE  Exact(r)'
      <3>1. Finish(c) /\ regs' = regs /\ pc[c] \in {"resolving", "queued", "leaving"}
        BY <2>3 DEF Reject, QueueTimeout, CancelQueued, ReleasePermit
      <3>2. InFlight(r)' = InFlight(r)
        BY <3>1 DEF Finish, Goto, InFlight, TypeOK
      <3> QED BY <2>0, <3>1, <3>2, ExactStable
    <2>4. ASSUME NEW c \in Calls, Succeed(c) PROVE Exact(r)'
      <3>1. CASE reg[c] # r
        <4>1. InFlight(r)' = InFlight(r) /\ regs'[r] = regs[r]
          BY <2>4, <3>1 DEF Succeed, Goto, InFlight, TypeOK
        <4> QED BY <2>0, <4>1, ExactStable
      <3>2. CASE reg[c] = r
        <4>1. InFlight(r)' = InFlight(r) \ {c} /\ c \in InFlight(r)
          BY <2>4, <3>2 DEF Succeed, Goto, InFlight, TypeOK
        <4>2. Cardinality(InFlight(r)') = Cardinality(InFlight(r)) - 1
          BY <2>0, <4>1, FS_RemoveElement
        <4>3. regs'[r] = [regs[r] EXCEPT !.commits = @ + 1]
          BY <2>4, <3>2 DEF Succeed, TypeOK
        <4>4. /\ regs'[r].total = regs[r].total
              /\ regs'[r].base = regs[r].base /\ regs'[r].commits = regs[r].commits + 1
          BY <2>0, <4>3 DEF Registry
        <4> QED BY <2>0, <4>2, <4>4 DEF Exact
      <3> QED BY <3>1, <3>2
    <2>5. ASSUME NEW c \in Calls, RecordSuccess(c) \/ RecordLost(c) \/ Fail(c) PROVE Exact(r)'
      <3>1. InFlight(r)' = InFlight(r) /\ regs'[r] = regs[r]
        BY <2>5 DEF RecordSuccess, RecordLost, Fail, Goto, InFlight, TypeOK
      <3> QED BY <2>0, <3>1, ExactStable
    <2>6. ASSUME NEW c \in Calls, Refund(c) PROVE Exact(r)'
      <3>1. CASE reg[c] # r
        <4>1. InFlight(r)' = InFlight(r) /\ regs'[r] = regs[r]
          BY <2>6, <3>1 DEF Refund, Goto, InFlight, TypeOK
        <4> QED BY <2>0, <4>1, ExactStable
      <3>2. CASE reg[c] = r
        <4>1. InFlight(r)' = InFlight(r) \ {c} /\ c \in InFlight(r)
          BY <2>6, <3>2 DEF Refund, Goto, InFlight, TypeOK
        <4>2. Cardinality(InFlight(r)') = Cardinality(InFlight(r)) - 1
          BY <2>0, <4>1, FS_RemoveElement
        <4>3. IsFiniteSet(InFlight(r)') /\ Cardinality(InFlight(r)') \in Nat
          BY <2>0, <4>1, FS_RemoveElement, FS_CardinalityType
        <4>4. regs[r].total > 0
          BY <2>0, <4>2, <4>3 DEF Exact
        <4>5. regs'[r] = refund_call(regs[r], day) /\ day \in Nat
          BY <2>6, <3>2 DEF Refund, TypeOK
        <4>6. /\ regs'[r].total = saturating_sub(regs[r].total)
              /\ regs'[r].base = regs[r].base /\ regs'[r].commits = regs[r].commits
          <5> DEFINE q == refund_call(regs[r], day)
          <5>1. q.total = saturating_sub(regs[r].total) /\ q.base = regs[r].base /\ q.commits = regs[r].commits
            BY <2>0, <4>5, RefundCall
          <5> HIDE DEF q
          <5>2. regs'[r] = q
            BY <4>5 DEF q
          <5> QED BY <5>1, <5>2
        <4> QED BY <2>0, <4>2, <4>4, <4>6 DEF Exact, saturating_sub
      <3> QED BY <3>1, <3>2
    <2>7. ASSUME NEW q \in RegIds, NEW lim \in Limits, BuildRegistry(q, lim) PROVE Exact(r)'
      <3>1. InFlight(r)' = InFlight(r)
        BY <2>7 DEF BuildRegistry, calls, InFlight
      <3>2. CASE q # r
        BY <2>0, <2>7, <3>1, <3>2, ExactStable DEF BuildRegistry, TypeOK
      <3>3. CASE q = r
        <4>1. InFlight(r) = {}
          BY <2>7, <3>3 DEF BuildRegistry, Held, InFlight
        <4> DEFINE old == regs[current]
        <4>2. old.total \in Nat /\ old.day \in Nat /\ old.today \in Nat
          BY DEF TypeOK, Registry
        <4>3. regs'[r] = Fresh(lim, old.total, old.day, old.today)
          BY <2>7, <3>3 DEF BuildRegistry, TypeOK
        <4>4. regs'[r].total = regs'[r].base /\ regs'[r].base \in Nat /\ regs'[r].commits = 0
          BY <4>2, <4>3, FreshOK
        <4> QED BY <3>1, <4>1, <4>4, FS_EmptySet DEF Exact
      <3> QED BY <3>2, <3>3
    <2>8. CASE AbortReload \/ InstallRegistry \/ Midnight \/ Purge
      <3>1. InFlight(r)' = InFlight(r) /\ regs' = regs
        BY <2>8 DEF AbortReload, InstallRegistry, Midnight, Purge, calls, InFlight
      <3> QED BY <2>0, <3>1, ExactStable
    <2>9. ASSUME NEW lim \in Limits, Restart(lim) PROVE Exact(r)'
      <3>1. PICK total \in {0, SeedCallCount}, today \in {0, SeedDaily} :
              regs' = [q \in RegIds |-> Fresh(lim, total, day, today)]
        BY <2>9 DEF Restart
      <3>2. total \in Nat
        BY FS_CardinalityType DEF FiniteHistory, SeedCallCount
      <3>3. regs'[r].total = total /\ regs'[r].base = total /\ regs'[r].commits = 0
        BY <3>1 DEF Fresh
      <3>4. InFlight(r)' = {}
        BY <2>9 DEF Restart, InFlight
      <3> QED BY <3>2, <3>3, <3>4, FS_EmptySet DEF Exact
    <2>10. CASE UNCHANGED vars
      BY <2>0, <2>10, ExactStable DEF vars, calls, InFlight
    <2> QED BY <2>1, <2>2, <2>3, <2>4, <2>5, <2>6, <2>7, <2>8, <2>9, <2>10 DEF Next, CallStep
  <1> QED BY <1>1, <1>2, TypeCorrect, PTL DEF Spec

-----------------------------------------------------------------------------
(* OvershootBounded                                                           *)

\* The conjunct of OvershootInv for one registry.
Within(r) ==
    regs[r].lim.max_calls # None =>
        IF regs[r].base >= regs[r].lim.max_calls
        THEN regs[r].total = regs[r].base /\ Queued(r) = {} /\ InFlight(r) = {}
        ELSE regs[r].total + Cardinality(Queued(r)) < regs[r].lim.max_calls + Cardinality(Calls)

LEMMA QueuedFinite ==
    ASSUME NEW r \in RegIds
    PROVE  /\ IsFiniteSet(Queued(r)) /\ Cardinality(Queued(r)) \in Nat
           /\ Cardinality(Queued(r)) <= Cardinality(Calls) /\ Cardinality(Calls) \in Nat
    <1>1. Queued(r) \subseteq Calls
      BY DEF Queued
    <1> QED BY <1>1, CallsFinite, FS_Subset, FS_CardinalityType

\* A step that leaves a registry's record alone, adds nobody to its counted calls
\* and nobody to its queue keeps Within.
LEMMA WithinStable ==
    ASSUME NEW r \in RegIds, TypeOK, Within(r), regs'[r] = regs[r],
           InFlight(r)' \subseteq InFlight(r), Queued(r)' \subseteq Queued(r)
    PROVE  Within(r)'
    <1>1. /\ regs[r].lim.max_calls \in Nat /\ regs[r].total \in Nat
          /\ Cardinality(Queued(r)) \in Nat /\ Cardinality(Calls) \in Nat
      BY QueuedFinite, LimitsAssumption DEF TypeOK, Registry
    <1>2. /\ Cardinality(Queued(r)') \in Nat
          /\ Cardinality(Queued(r)') <= Cardinality(Queued(r))
      BY QueuedFinite, FS_Subset, FS_CardinalityType
    <1>3. CASE regs[r].base >= regs[r].lim.max_calls
      BY <1>3 DEF Within
    <1>4. CASE ~(regs[r].base >= regs[r].lim.max_calls)
      <2>1. regs'[r].total = regs[r].total /\ regs'[r].lim = regs[r].lim /\ regs'[r].base = regs[r].base
        OBVIOUS
      <2> QED BY <1>1, <1>2, <1>4, <2>1 DEF Within
    <1> QED BY <1>3, <1>4

\* A new registry that nobody is queued at or counted by is within its bound.
LEMMA FreshWithin ==
    ASSUME NEW r \in RegIds, NEW lim \in Limits, NEW total \in Nat, NEW d \in Nat, NEW today \in Nat,
           regs'[r] = Fresh(lim, total, d, today), Queued(r)' = {}, InFlight(r)' = {}
    PROVE  Within(r)'
    <1>1. regs'[r].lim = lim /\ regs'[r].total = total /\ regs'[r].base = total
      BY FreshOK
    <1>2. lim.max_calls \in Nat /\ Cardinality(Calls) \in Nat
      BY LimitsAssumption, QueuedFinite
    <1>3. Cardinality(Queued(r)') = 0
      BY FS_EmptySet
    <1> QED BY <1>1, <1>2, <1>3 DEF Within

\* OvershootInv is inductive: a check and the count that follows it are apart, but
\* whoever passed the check waits in Queued until it is counted.
THEOREM OvershootInductive == Spec => []OvershootInv
  <1>1. Init => OvershootInv
    <2> SUFFICES ASSUME Init, NEW r \in RegIds PROVE Within(r)
      BY DEF OvershootInv, Within
    <2>1. PICK lim \in Limits : regs = [q \in RegIds |-> Fresh(lim, 0, 0, 0)]
      BY DEF Init
    <2>2. InFlight(r) = {} /\ Queued(r) = {}
      BY DEF Init, InFlight, Queued
    <2>3. Cardinality(Queued(r)) = 0
      BY <2>2, FS_EmptySet
    <2>4. lim.max_calls \in Nat /\ Cardinality(Calls) \in Nat
      BY LimitsAssumption, QueuedFinite
    <2>5. regs[r].lim = lim /\ regs[r].total = 0 /\ regs[r].base = 0
      BY <2>1, FreshOK
    <2> QED BY <2>2, <2>3, <2>4, <2>5 DEF Within
  <1>2. TypeOK /\ TypeOK' /\ FiniteHistory /\ OvershootInv /\ [Next]_vars => OvershootInv'
    <2> SUFFICES ASSUME TypeOK, TypeOK', FiniteHistory, OvershootInv, [Next]_vars, NEW r \in RegIds
                 PROVE  Within(r)'
      BY DEF OvershootInv, Within
    <2> USE RegIdsAssumption DEF NoReg
    <2>0. /\ Within(r) /\ regs[r] \in Registry
          /\ regs[r].total \in Nat /\ regs[r].base \in Nat /\ regs[r].lim.max_calls \in Nat
          /\ IsFiniteSet(Queued(r)) /\ Cardinality(Queued(r)) \in Nat /\ Cardinality(Calls) \in Nat
      BY QueuedFinite, LimitsAssumption DEF OvershootInv, Within, TypeOK, Registry
    <2>1. ASSUME NEW c \in Calls, Admit(c) PROVE Within(r)'
      <3>1. InFlight(r)' = InFlight(r) /\ regs'[r] = regs[r]
        BY <2>1 DEF Admit, Goto, InFlight, TypeOK
      <3>2. CASE reg[c] # r
        <4>1. Queued(r)' = Queued(r)
          BY <2>1, <3>2 DEF Admit, Goto, Queued, TypeOK
        <4> QED BY <2>0, <3>1, <4>1, WithinStable
      <3>3. CASE reg[c] = r
        <4>1. Queued(r)' = Queued(r) \cup {c} /\ c \notin Queued(r)
          BY <2>1, <3>3 DEF Admit, Goto, Queued, TypeOK
        <4>2. Cardinality(Queued(r)') = Cardinality(Queued(r)) + 1
          BY <2>0, <4>1, FS_AddElement
        <4>3. Cardinality(Queued(r)') <= Cardinality(Calls)
          <5>1. Queued(r)' \subseteq Calls
            BY DEF Queued
          <5> QED BY <5>1, CallsFinite, FS_Subset
        <4>4. regs[r].lim.max_calls # None => regs[r].total < regs[r].lim.max_calls
          BY <2>1, <3>3 DEF Admit, check_call_quotas
        <4>5. /\ regs'[r].total = regs[r].total /\ regs'[r].lim = regs[r].lim
              /\ regs'[r].base = regs[r].base
          BY <3>1
        <4> QED BY <2>0, <3>1, <4>2, <4>3, <4>4, <4>5 DEF Within
      <3> QED BY <3>2, <3>3
    <2>2. ASSUME NEW c \in Calls, EnterUpstream(c) PROVE Within(r)'
      <3>1. CASE reg[c] # r
        <4>1. InFlight(r)' = InFlight(r) /\ Queued(r)' = Queued(r) /\ regs'[r] = regs[r]
          BY <2>2, <3>1 DEF EnterUpstream, Goto, InFlight, Queued, TypeOK
        <4> QED BY <2>0, <4>1, WithinStable
      <3>2. CASE reg[c] = r
        <4>1. Queued(r)' = Queued(r) \ {c} /\ c \in Queued(r)
          BY <2>2, <3>2 DEF EnterUpstream, Goto, Queued, TypeOK
        <4>2. Cardinality(Queued(r)') = Cardinality(Queued(r)) - 1
          BY <2>0, <4>1, FS_RemoveElement
        <4>3. regs'[r] = record_call(regs[r], stamp[c]) /\ stamp[c] \in Nat
          BY <2>2, <3>2 DEF EnterUpstream, TypeOK
        <4> DEFINE q == record_call(regs[r], stamp[c])
        <4>4. q.total = regs[r].total + 1 /\ q.base = regs[r].base /\ q.lim = regs[r].lim
          BY <2>0, <4>3, RecordCall
        <4> HIDE DEF q
        <4>5. regs'[r] = q
          BY <4>3 DEF q
        <4>6. /\ regs'[r].total = regs[r].total + 1 /\ regs'[r].lim = regs[r].lim
              /\ regs'[r].base = regs[r].base
          BY <4>4, <4>5
        <4> QED BY <2>0, <4>1, <4>2, <4>6 DEF Within
      <3> QED BY <3>1, <3>2
    <2>3. ASSUME NEW c \in Calls, Reject(c) \/ QueueTimeout(c) \/ CancelQueued(c) \/ ReleasePermit(c)
          PROVE  Within(r)'
      <3>1. Finish(c) /\ regs' = regs
        BY <2>3 DEF Reject, QueueTimeout, CancelQueued, ReleasePermit
      <3>2. InFlight(r)' \subseteq InFlight(r) /\ Queued(r)' \subseteq Queued(r)
        BY <3>1 DEF Finish, Goto, InFlight, Queued, TypeOK
      <3> QED BY <2>0, <3>1, <3>2, WithinStable
    <2>4. ASSUME NEW c \in Calls, Succeed(c) PROVE Within(r)'
      <3>1. InFlight(r)' \subseteq InFlight(r) /\ Queued(r)' = Queued(r)
        BY <2>4 DEF Succeed, Goto, InFlight, Queued, TypeOK
      <3>2. CASE reg[c] # r
        <4>1. regs'[r] = regs[r]
          BY <2>4, <3>2 DEF Succeed, TypeOK
        <4> QED BY <2>0, <3>1, <4>1, WithinStable
      <3>3. CASE reg[c] = r
        <4>1. regs'[r] = [regs[r] EXCEPT !.commits = @ + 1] /\ InFlight(r) # {}
          BY <2>4, <3>3 DEF Succeed, InFlight, TypeOK
        <4>2. /\ regs'[r].total = regs[r].total /\ regs'[r].lim = regs[r].lim
              /\ regs'[r].base = regs[r].base
          BY <2>0, <4>1 DEF Registry
        <4> QED BY <2>0, <3>1, <4>1, <4>2 DEF Within
      <3> QED BY <3>2, <3>3
    <2>5. ASSUME NEW c \in Calls, RecordSuccess(c) \/ RecordLost(c) \/ Fail(c) PROVE Within(r)'
      <3>1. InFlight(r)' = InFlight(r) /\ Queued(r)' = Queued(r) /\ regs'[r] = regs[r]
        BY <2>5 DEF RecordSuccess, RecordLost, Fail, Goto, InFlight, Queued, TypeOK
      <3> QED BY <2>0, <3>1, WithinStable
    <2>6. ASSUME NEW c \in Calls, Refund(c) PROVE Within(r)'
      <3>1. InFlight(r)' \subseteq InFlight(r) /\ Queued(r)' = Queued(r)
        BY <2>6 DEF Refund, Goto, InFlight, Queued, TypeOK
      <3>2. CASE reg[c] # r
        <4>1. regs'[r] = regs[r]
          BY <2>6, <3>2 DEF Refund, TypeOK
        <4> QED BY <2>0, <3>1, <4>1, WithinStable
      <3>3. CASE reg[c] = r
        <4>1. regs'[r] = refund_call(regs[r], day) /\ day \in Nat /\ InFlight(r) # {}
          BY <2>6, <3>3 DEF Refund, InFlight, TypeOK
        <4> DEFINE q == refund_call(regs[r], day)
        <4>2. q.total = saturating_sub(regs[r].total) /\ q.base = regs[r].base /\ q.lim = regs[r].lim
          BY <2>0, <4>1, RefundCall
        <4> HIDE DEF q
        <4>3. regs'[r] = q
          BY <4>1 DEF q
        <4>4. /\ regs'[r].total \in Nat /\ regs'[r].total <= regs[r].total
              /\ regs'[r].lim = regs[r].lim /\ regs'[r].base = regs[r].base
          BY <2>0, <4>2, <4>3 DEF saturating_sub
        <4> QED BY <2>0, <3>1, <4>1, <4>4 DEF Within
      <3> QED BY <3>2, <3>3
    <2>7. ASSUME NEW n \in RegIds, NEW lim \in Limits, BuildRegistry(n, lim) PROVE Within(r)'
      <3>1. InFlight(r)' = InFlight(r) /\ Queued(r)' = Queued(r)
        BY <2>7 DEF BuildRegistry, calls, InFlight, Queued
      <3>2. CASE n # r
        BY <2>0, <2>7, <3>1, <3>2, WithinStable DEF BuildRegistry, TypeOK
      <3>3. CASE n = r
        <4>1. InFlight(r) = {} /\ Queued(r) = {}
          BY <2>7, <3>3 DEF BuildRegistry, Held, InFlight, Queued
        <4> DEFINE old == regs[current]
        <4>2. old.total \in Nat /\ old.day \in Nat /\ old.today \in Nat
          BY DEF TypeOK, Registry
        <4>3. regs'[r] = Fresh(lim, old.total, old.day, old.today)
          BY <2>7, <3>3 DEF BuildRegistry, TypeOK
        <4> QED BY <3>1, <4>1, <4>2, <4>3, FreshWithin
      <3> QED BY <3>2, <3>3
    <2>8. CASE AbortReload \/ InstallRegistry \/ Midnight \/ Purge
      <3>1. InFlight(r)' = InFlight(r) /\ Queued(r)' = Queued(r) /\ regs' = regs
        BY <2>8 DEF AbortReload, InstallRegistry, Midnight, Purge, calls, InFlight, Queued
      <3> QED BY <2>0, <3>1, WithinStable
    <2>9. ASSUME NEW lim \in Limits, Restart(lim) PROVE Within(r)'
      <3>1. PICK total \in {0, SeedCallCount}, today \in {0, SeedDaily} :
              regs' = [q \in RegIds |-> Fresh(lim, total, day, today)]
        BY <2>9 DEF Restart
      <3>2. total \in Nat /\ today \in Nat /\ day \in Nat
        <4>1. IsFiniteSet({e \in events : e.day = day})
          BY FS_Subset DEF FiniteHistory
        <4> QED BY <4>1, FS_CardinalityType DEF FiniteHistory, SeedCallCount, SeedDaily, TypeOK
      <3>3. InFlight(r)' = {} /\ Queued(r)' = {}
        BY <2>9 DEF Restart, InFlight, Queued
      <3> QED BY <3>1, <3>2, <3>3, FreshWithin
    <2>11. ASSUME NEW c \in Calls, Start(c) PROVE Within(r)'
      <3>1. InFlight(r)' = InFlight(r) /\ Queued(r)' = Queued(r) /\ regs' = regs
        BY <2>11 DEF Start, Goto, InFlight, Queued, TypeOK
      <3> QED BY <2>0, <3>1, WithinStable
    <2>10. CASE UNCHANGED vars
      <3>1. InFlight(r)' = InFlight(r) /\ Queued(r)' = Queued(r) /\ regs' = regs
        BY <2>10 DEF vars, calls, InFlight, Queued
      <3> QED BY <2>0, <3>1, WithinStable
    <2> QED BY <2>1, <2>2, <2>3, <2>4, <2>5, <2>6, <2>7, <2>8, <2>9, <2>10, <2>11
            DEF Next, CallStep
  <1> QED BY <1>1, <1>2, TypeCorrect, PTL DEF Spec

\* max_calls is overshot by less than the number of concurrent invocations, for every
\* number of invocations, registries and reloads, as the comment in admit_at promises.
THEOREM QuotaOvershootBounded == Spec => []OvershootBounded
  <1>1. TypeOK /\ OvershootInv => OvershootBounded
    <2> SUFFICES ASSUME TypeOK, OvershootInv, NEW r \in RegIds, regs[r].lim.max_calls # None
                 PROVE  \/ regs[r].total < regs[r].lim.max_calls + Cardinality(Calls)
                        \/ regs[r].total = regs[r].base /\ regs[r].base >= regs[r].lim.max_calls
      BY DEF OvershootBounded
    <2>1. /\ regs[r].total \in Nat /\ regs[r].lim.max_calls \in Nat
          /\ Cardinality(Queued(r)) \in Nat /\ Cardinality(Calls) \in Nat
      BY QueuedFinite, LimitsAssumption DEF TypeOK, Registry
    <2> QED BY <2>1 DEF OvershootInv
  <1> QED BY <1>1, TypeCorrect, OvershootInductive, PTL

-----------------------------------------------------------------------------
(* The histories: committed calls, success rows, and what a restart reads      *)

IdsOf(S) == {s.id : s \in S}

\* An invocation has the number of its admission from the check to its end.
Numbered == Labels \ {"idle", "resolving"}

\* No two admissions share a number.
NumbersInv ==
    /\ \A c \in Calls : pc[c] \in Numbered => seq[c] \in 1..started
    /\ \A b, c \in Calls : pc[b] \in Numbered /\ pc[c] \in Numbered /\ seq[b] = seq[c] => b = c

\* An invocation commits once, and is written down once, after it committed.
Written(label, n, succ, rec) ==
    /\ label \in {"queued", "running", "failing"} => n \notin IdsOf(succ)
    /\ label = "recording" => n \in IdsOf(succ) /\ n \notin rec

\* One committed call per number, one row per call written, and no row for a call
\* that did not commit; without retention no row is ever lost.
Tables(ev, succ, rec) ==
    /\ IsFiniteSet(ev) /\ IsFiniteSet(succ) /\ IsFiniteSet(rec) /\ IsFiniteSet(IdsOf(succ))
    /\ Cardinality(IdsOf(succ)) = Cardinality(succ)
    /\ rec \subseteq IdsOf(succ)
    /\ IdsOf(ev) \subseteq rec
    /\ Cardinality(ev) <= Cardinality(rec)
    /\ RetentionDays = 0 => Cardinality(ev) = Cardinality(rec)

HistoryInv ==
    /\ NumbersInv
    /\ \A c \in Calls : Written(pc[c], seq[c], succeeded, recorded)
    /\ IdsOf(succeeded) \subseteq 1..started
    /\ Tables(events, succeeded, recorded)

\* The classes of steps, on values: a committed call, a row written, rows purged.
LEMMA IdsAdded ==
    ASSUME NEW S, NEW n, NEW d
    PROVE  IdsOf(S \cup {[id |-> n, day |-> d]}) = IdsOf(S) \cup {n}
  <1> DEFINE x == [id |-> n, day |-> d]
  <1>1. x.id = n
    OBVIOUS
  <1> HIDE DEF x
  <1>2. IdsOf(S \cup {x}) = IdsOf(S) \cup {n}
    BY <1>1 DEF IdsOf
  <1> QED BY <1>2 DEF x

LEMMA Committed ==
    ASSUME NEW ev, NEW succ, NEW rec, NEW n, NEW d, Tables(ev, succ, rec), n \notin IdsOf(succ)
    PROVE  Tables(ev, succ \cup {[id |-> n, day |-> d]}, rec)
  <1> DEFINE x == [id |-> n, day |-> d]
             S == succ \cup {x}
             I == IdsOf(succ) \cup {n}
  <1>1. IdsOf(S) = I /\ x \notin succ
    BY DEF IdsOf
  <1> HIDE DEF x
  <1>2. IsFiniteSet(S) /\ Cardinality(S) = Cardinality(succ) + 1
    BY <1>1, FS_AddElement DEF Tables
  <1>3. IsFiniteSet(I) /\ Cardinality(I) = Cardinality(IdsOf(succ)) + 1
    BY FS_AddElement DEF Tables
  <1>4. IdsOf(succ) \subseteq I
    OBVIOUS
  <1> HIDE DEF S, I
  <1>5. Tables(ev, S, rec)
    BY <1>1, <1>2, <1>3, <1>4 DEF Tables
  <1> QED BY <1>5 DEF S, x

LEMMA CommittedOne ==
    ASSUME NEW succ, NEW n, NEW d, IsFiniteSet(succ), n \notin IdsOf(succ)
    PROVE  Cardinality(succ \cup {[id |-> n, day |-> d]}) = Cardinality(succ) + 1
  <1> DEFINE x == [id |-> n, day |-> d]
  <1>1. x \notin succ
    BY DEF IdsOf
  <1> HIDE DEF x
  <1>2. Cardinality(succ \cup {x}) = Cardinality(succ) + 1
    BY <1>1, FS_AddElement
  <1> QED BY <1>2 DEF x

LEMMA RowWritten ==
    ASSUME NEW ev, NEW succ, NEW rec, NEW n, NEW d, Tables(ev, succ, rec),
           n \in IdsOf(succ), n \notin rec
    PROVE  Tables(ev \cup {[id |-> n, day |-> d]}, succ, rec \cup {n})
  <1> DEFINE x == [id |-> n, day |-> d]
             E == ev \cup {x}
             R == rec \cup {n}
  <1>1. IdsOf(E) = IdsOf(ev) \cup {n} /\ x \notin ev
    BY DEF IdsOf, Tables
  <1> HIDE DEF x
  <1>2. /\ IsFiniteSet(E) /\ Cardinality(E) = Cardinality(ev) + 1
        /\ IsFiniteSet(R) /\ Cardinality(R) = Cardinality(rec) + 1
        /\ Cardinality(ev) \in Nat /\ Cardinality(rec) \in Nat
    BY <1>1, FS_AddElement, FS_CardinalityType DEF Tables
  <1>3. Tables(E, succ, R)
    BY <1>1, <1>2 DEF Tables
  <1> QED BY <1>3 DEF x

LEMMA RowsPurged ==
    ASSUME NEW ev, NEW succ, NEW rec, NEW E \in SUBSET ev, Tables(ev, succ, rec), RetentionDays # 0
    PROVE  Tables(E, succ, rec)
  <1>1. IsFiniteSet(E) /\ Cardinality(E) <= Cardinality(ev) /\ IdsOf(E) \subseteq IdsOf(ev)
    BY FS_Subset DEF Tables, IdsOf
  <1>2. Cardinality(E) \in Nat /\ Cardinality(ev) \in Nat /\ Cardinality(rec) \in Nat
    BY <1>1, FS_CardinalityType DEF Tables
  <1> QED BY <1>1, <1>2 DEF Tables

LEMMA NoTables == Tables({}, {}, {}) /\ IdsOf({}) = {}
  <1>1. IdsOf({}) = {}
    BY DEF IdsOf
  <1> QED BY <1>1, FS_EmptySet DEF Tables

\* Every committed call has a number of its own and leaves one row at most, across
\* failures, lost writes, reloads, purges and restarts.
THEOREM HistoryHolds == Spec => []HistoryInv
  <1>1. Init => HistoryInv
    BY NoTables DEF Init, HistoryInv, NumbersInv, Numbered, Written
  <1>2. TypeOK /\ HistoryInv /\ [Next]_vars => HistoryInv'
    <2> SUFFICES ASSUME TypeOK, HistoryInv, [Next]_vars PROVE HistoryInv'
      OBVIOUS
    <2>0. pc \in [Calls -> Labels] /\ seq \in [Calls -> Nat] /\ started \in Nat
      BY DEF TypeOK
    \* A step of one call that keeps its number, or gives it up, and writes nothing.
    <2>1. ASSUME NEW c \in Calls, UNCHANGED <<started, events, succeeded, recorded>>,
                 \A b \in Calls \ {c} : pc'[b] = pc[b] /\ seq'[b] = seq[b],
                 pc'[c] \in Numbered => pc[c] \in Numbered /\ seq'[c] = seq[c],
                 Written(pc'[c], seq'[c], succeeded, recorded)
          PROVE  HistoryInv'
      <3>1. NumbersInv'
        <4>1. \A b \in Calls : pc'[b] \in Numbered => pc[b] \in Numbered /\ seq'[b] = seq[b]
          BY <2>1
        <4> QED BY <2>1, <4>1 DEF HistoryInv, NumbersInv
      <3>2. \A b \in Calls : Written(pc'[b], seq'[b], succeeded, recorded)
        BY <2>1 DEF HistoryInv
      <3> QED BY <2>1, <3>1, <3>2 DEF HistoryInv
    <2>2. ASSUME NEW c \in Calls, Start(c) PROVE HistoryInv'
      <3>1. /\ UNCHANGED <<started, events, succeeded, recorded>> /\ pc'[c] = "resolving"
            /\ \A b \in Calls \ {c} : pc'[b] = pc[b] /\ seq'[b] = seq[b]
        BY <2>2, <2>0 DEF Start, Goto
      <3>2. Written(pc'[c], seq'[c], succeeded, recorded) /\ pc'[c] \notin Numbered
        BY <3>1 DEF Written, Numbered
      <3> QED BY <2>1, <3>1, <3>2
    <2>3. ASSUME NEW c \in Calls, Admit(c) PROVE HistoryInv'
      <3>1. /\ UNCHANGED <<events, succeeded, recorded>> /\ started' = started + 1
            /\ pc'[c] = "queued" /\ seq'[c] = started'
            /\ \A b \in Calls \ {c} : pc'[b] = pc[b] /\ seq'[b] = seq[b]
        BY <2>3, <2>0 DEF Admit, Goto
      <3>2. 1..started \subseteq 1..started' /\ started' \in 1..started' /\ started' \notin 1..started
        BY <2>0, <3>1
      <3>3. NumbersInv'
        <4>1. ASSUME NEW b \in Calls, pc'[b] \in Numbered
              PROVE  /\ seq'[b] \in 1..started'
                     /\ b # c => pc[b] \in Numbered /\ seq'[b] = seq[b] /\ seq'[b] # seq'[c]
          BY <3>1, <3>2, <4>1 DEF HistoryInv, NumbersInv
        <4>2. ASSUME NEW a \in Calls, NEW b \in Calls, pc'[a] \in Numbered, pc'[b] \in Numbered,
                     seq'[a] = seq'[b]
              PROVE  a = b
          BY <4>1, <4>2 DEF HistoryInv, NumbersInv
        <4> QED BY <4>1, <4>2 DEF NumbersInv
      <3>4. Written(pc'[c], seq'[c], succeeded, recorded)
        BY <3>1, <3>2 DEF HistoryInv, Written
      <3>5. \A b \in Calls : Written(pc'[b], seq'[b], succeeded, recorded)
        BY <3>1, <3>4 DEF HistoryInv
      <3> QED BY <3>1, <3>2, <3>3, <3>5 DEF HistoryInv
    <2>4. ASSUME NEW c \in Calls, Reject(c) \/ QueueTimeout(c) \/ CancelQueued(c) \/ ReleasePermit(c)
          PROVE  HistoryInv'
      <3>1. Finish(c) /\ UNCHANGED <<started, events, succeeded, recorded>>
        BY <2>4 DEF Reject, QueueTimeout, CancelQueued, ReleasePermit
      <3>2. /\ pc'[c] = "idle"
            /\ \A b \in Calls \ {c} : pc'[b] = pc[b] /\ seq'[b] = seq[b]
        BY <3>1, <2>0 DEF Finish, Goto
      <3>3. Written(pc'[c], seq'[c], succeeded, recorded) /\ pc'[c] \notin Numbered
        BY <3>2 DEF Written, Numbered
      <3> QED BY <2>1, <3>1, <3>2, <3>3
    <2>5. ASSUME NEW c \in Calls, EnterUpstream(c) \/ Fail(c) \/ Refund(c) \/ RecordLost(c)
          PROVE  HistoryInv'
      <3>1. /\ UNCHANGED <<started, events, succeeded, recorded, seq>>
            /\ \A b \in Calls \ {c} : pc'[b] = pc[b]
        BY <2>5, <2>0 DEF EnterUpstream, Fail, Refund, RecordLost, Goto
      <3>2. \/ pc[c] \in {"queued", "running"} /\ pc'[c] \in {"running", "failing"}
            \/ pc[c] \in {"failing", "recording"} /\ pc'[c] = "leaving"
        BY <2>5, <2>0 DEF EnterUpstream, Fail, Refund, RecordLost, Goto
      <3>3. pc[c] \in Numbered /\ Written(pc'[c], seq[c], succeeded, recorded)
        BY <3>2 DEF HistoryInv, Written, Numbered, Labels
      <3> QED BY <2>1, <3>1, <3>3
    <2>6. ASSUME NEW c \in Calls, Succeed(c) PROVE HistoryInv'
      <3>1. /\ UNCHANGED <<started, events, recorded, seq>> /\ pc[c] = "running" /\ pc'[c] = "recording"
            /\ \A b \in Calls \ {c} : pc'[b] = pc[b]
            /\ succeeded' = succeeded \cup {[id |-> seq[c], day |-> stamp[c]]}
        BY <2>6, <2>0 DEF Succeed, Goto
      <3>2. seq[c] \notin IdsOf(succeeded) /\ pc[c] \in Numbered
        BY <3>1 DEF HistoryInv, Written, Numbered, Labels
      <3>3. /\ Tables(events, succeeded', recorded) /\ IdsOf(succeeded') = IdsOf(succeeded) \cup {seq[c]}
        <4>1. Tables(events, succeeded, recorded)
          BY DEF HistoryInv
        <4>2. Tables(events, succeeded', recorded)
          BY <3>1, <3>2, <4>1, Committed
        <4>3. IdsOf(succeeded') = IdsOf(succeeded) \cup {seq[c]}
          BY <3>1, IdsAdded
        <4> QED BY <4>2, <4>3
      <3>4. NumbersInv'
        <4>1. \A b \in Calls : pc'[b] \in Numbered => pc[b] \in Numbered
          BY <3>1, <3>2
        <4> QED BY <3>1, <4>1 DEF HistoryInv, NumbersInv
      <3>5. ASSUME NEW b \in Calls PROVE Written(pc'[b], seq'[b], succeeded', recorded)
        <4>1. CASE b = c
          <5>1. seq[c] \notin recorded
            BY <3>2 DEF HistoryInv, Tables
          <5> QED BY <3>1, <3>3, <4>1, <5>1 DEF Written
        <4>2. CASE b # c
          <5>1. pc[b] \in {"queued", "running", "failing"} => seq[b] # seq[c]
            BY <3>2, <4>2 DEF HistoryInv, NumbersInv, Numbered, Labels
          <5>2. Written(pc[b], seq[b], succeeded, recorded)
            BY DEF HistoryInv
          <5> QED BY <3>1, <3>3, <4>2, <5>1, <5>2 DEF Written
        <4> QED BY <4>1, <4>2
      <3>6. IdsOf(succeeded') \subseteq 1..started'
        BY <3>1, <3>2, <3>3 DEF HistoryInv, NumbersInv
      <3> QED BY <3>1, <3>3, <3>4, <3>5, <3>6 DEF HistoryInv
    <2>7. ASSUME NEW c \in Calls, RecordSuccess(c) PROVE HistoryInv'
      <3>1. /\ UNCHANGED <<started, succeeded, seq>> /\ pc[c] = "recording" /\ pc'[c] = "leaving"
            /\ \A b \in Calls \ {c} : pc'[b] = pc[b]
            /\ events' = events \cup {[id |-> seq[c], day |-> day]}
            /\ recorded' = recorded \cup {seq[c]}
        BY <2>7, <2>0 DEF RecordSuccess, Goto
      <3>2. seq[c] \in IdsOf(succeeded) /\ seq[c] \notin recorded /\ pc[c] \in Numbered
        BY <3>1 DEF HistoryInv, Written, Numbered, Labels
      <3>3. Tables(events', succeeded, recorded')
        BY <3>1, <3>2, RowWritten DEF HistoryInv
      <3>4. NumbersInv'
        <4>1. \A b \in Calls : pc'[b] \in Numbered => pc[b] \in Numbered
          BY <3>1, <3>2
        <4> QED BY <3>1, <4>1 DEF HistoryInv, NumbersInv
      <3>5. ASSUME NEW b \in Calls PROVE Written(pc'[b], seq'[b], succeeded, recorded')
        <4>1. CASE b = c
          BY <3>1, <4>1 DEF Written
        <4>2. CASE b # c
          <5>1. pc[b] = "recording" => seq[b] # seq[c]
            BY <3>2, <4>2 DEF HistoryInv, NumbersInv, Numbered, Labels
          <5>2. Written(pc[b], seq[b], succeeded, recorded)
            BY DEF HistoryInv
          <5> QED BY <3>1, <4>2, <5>1, <5>2 DEF Written
        <4> QED BY <4>1, <4>2
      <3> QED BY <3>1, <3>3, <3>4, <3>5 DEF HistoryInv
    <2>8. ASSUME UNCHANGED <<pc, seq, started, events, succeeded, recorded>> PROVE HistoryInv'
      BY <2>8 DEF HistoryInv, NumbersInv
    <2>9. ASSUME NEW r \in RegIds, NEW lim \in Limits, BuildRegistry(r, lim) PROVE HistoryInv'
      BY <2>8, <2>9 DEF BuildRegistry, calls
    <2>10. CASE AbortReload \/ InstallRegistry \/ Midnight \/ UNCHANGED vars
      BY <2>8, <2>10 DEF AbortReload, InstallRegistry, Midnight, vars, calls
    <2>11. CASE Purge
      <3>1. /\ RetentionDays # 0 /\ events' \in SUBSET events
            /\ UNCHANGED <<pc, seq, started, succeeded, recorded>>
        BY <2>11 DEF Purge, calls
      <3>2. Tables(events', succeeded, recorded)
        BY <3>1, RowsPurged DEF HistoryInv
      <3> QED BY <3>1, <3>2 DEF HistoryInv, NumbersInv
    <2>12. ASSUME NEW lim \in Limits, Restart(lim) PROVE HistoryInv'
      <3>1. /\ UNCHANGED <<started, events, succeeded, recorded>>
            /\ \A c \in Calls : pc'[c] = "idle"
        BY <2>12 DEF Restart
      <3>2. NumbersInv' /\ \A c \in Calls : Written(pc'[c], seq'[c], succeeded, recorded)
        BY <3>1 DEF NumbersInv, Numbered, Written
      <3> QED BY <3>1, <3>2 DEF HistoryInv
    <2> QED BY <2>2, <2>3, <2>4, <2>5, <2>6, <2>7, <2>9, <2>10, <2>11, <2>12 DEF Next, CallStep
  <1> QED BY <1>1, <1>2, TypeCorrect, PTL DEF Spec

\* max_calls survives a restart when events are kept for ever: unless the seeding query
\* fails, the key starts with every success that was ever written to the store.
THEOREM RestartsKeepCount == ASSUME RetentionDays = 0 PROVE Spec => RestartKeepsCount
  <1>1. TypeOK /\ HistoryInv /\ [Next]_vars
          => (restarts' # restarts => regs'[current].total \in {0, Cardinality(recorded)})
    <2> SUFFICES ASSUME TypeOK, HistoryInv, [Next]_vars, restarts' # restarts
                 PROVE  regs'[current].total \in {0, Cardinality(recorded)}
      OBVIOUS
    <2>1. PICK lim \in Limits : Restart(lim)
      BY DEF Next, CallStep, Start, Admit, Reject, EnterUpstream, QueueTimeout, CancelQueued,
             Succeed, RecordSuccess, RecordLost, Fail, Refund, ReleasePermit, BuildRegistry,
             AbortReload, InstallRegistry, Midnight, Purge, vars
    <2>2. PICK total \in {0, SeedCallCount}, today \in {0, SeedDaily} :
            regs' = [r \in RegIds |-> Fresh(lim, total, day, today)]
      BY <2>1 DEF Restart
    <2>3. regs'[current].total = total
      BY <2>2 DEF TypeOK, Fresh
    <2>4. SeedCallCount = Cardinality(recorded)
      BY DEF SeedCallCount, HistoryInv, Tables
    <2> QED BY <2>3, <2>4
  <1> QED BY <1>1, TypeCorrect, HistoryHolds, PTL DEF Spec, RestartKeepsCount

-----------------------------------------------------------------------------
(* Charges and permits                                                         *)

\* A call is charged to the registry it was admitted by.  The counters a reload copies
\* include the calls in flight, whose refunds reach the old registry only, so the bound
\* below is stated for a process whose limits are not reloaded: one allocation.
Charged == regs[current].base + regs[current].commits <= Cardinality(succeeded)

\* Every registry hands out at most max_concurrent permits at a time, whatever reloads
\* and restarts do.
PermitsInv ==
    \A r \in RegIds : regs[r].lim.max_concurrent # None =>
        Cardinality(Permits(r)) <= regs[r].lim.max_concurrent

\* The record of a committed call.
LEMMA CommitCounted ==
    ASSUME NEW r \in Registry
    PROVE  LET q == [r EXCEPT !.commits = @ + 1]
           IN  q.lim = r.lim /\ q.base = r.base /\ q.commits = r.commits + 1
  BY DEF Registry

\* While the limits are not reloaded a key is never charged for a call that did not
\* succeed and is not under way, across failures, cancellations, midnights, purges and
\* any number of restarts.
THEOREM KeysNeverOvercharged ==
    ASSUME NEW r, RegIds = {r} PROVE Spec => []NeverOvercharged
  <1>1. TypeOK => current = r /\ \A c \in Calls : reg[c] \in {r, NoReg}
    BY DEF TypeOK
  <1>2. Init => Charged
    <2> SUFFICES ASSUME Init PROVE Charged
      OBVIOUS
    <2>1. regs[current].base = 0 /\ regs[current].commits = 0
      BY DEF Init, Fresh
    <2>2. Cardinality(succeeded) = 0
      BY FS_EmptySet DEF Init
    <2> QED BY <2>1, <2>2 DEF Charged
  <1>3. TypeOK /\ FiniteHistory /\ HistoryInv /\ Charged /\ [Next]_vars => Charged'
    <2> SUFFICES ASSUME TypeOK, FiniteHistory, HistoryInv, Charged, [Next]_vars PROVE Charged'
      OBVIOUS
    <2> USE RegIdsAssumption DEF NoReg
    <2>0. /\ current = r /\ r \in RegIds /\ regs[r] \in Registry /\ regs \in [RegIds -> Registry]
          /\ regs[r].base \in Nat /\ regs[r].commits \in Nat
          /\ IsFiniteSet(succeeded) /\ Cardinality(succeeded) \in Nat
      BY <1>1, FS_CardinalityType DEF TypeOK, Registry, HistoryInv, Tables
    <2>1. ASSUME current' = current, regs'[r].base = regs[r].base, regs'[r].commits = regs[r].commits,
                 succeeded' = succeeded
          PROVE  Charged'
      BY <2>0, <2>1 DEF Charged
    <2>2. ASSUME NEW c \in Calls, Start(c) \/ Admit(c) \/ Reject(c) \/ QueueTimeout(c) \/ CancelQueued(c)
                                  \/ RecordSuccess(c) \/ RecordLost(c) \/ Fail(c) \/ ReleasePermit(c)
          PROVE  Charged'
      <3>1. UNCHANGED <<regs, current, succeeded>>
        BY <2>2 DEF Start, Admit, Reject, QueueTimeout, CancelQueued, RecordSuccess, RecordLost, Fail,
                    ReleasePermit
      <3> QED BY <2>1, <3>1
    <2>3. ASSUME NEW c \in Calls, EnterUpstream(c) PROVE Charged'
      <3> DEFINE q == record_call(regs[r], stamp[c])
      <3>1. reg[c] = r /\ stamp[c] \in Nat
        BY <1>1, <2>3 DEF EnterUpstream, TypeOK
      <3>2. q.base = regs[r].base /\ q.commits = regs[r].commits
        BY <2>0, <3>1, RecordCall
      <3>3. regs'[r] = q /\ UNCHANGED <<current, succeeded>>
        BY <2>0, <2>3, <3>1 DEF EnterUpstream
      <3> HIDE DEF q
      <3> QED BY <2>1, <3>2, <3>3
    <2>4. ASSUME NEW c \in Calls, Refund(c) PROVE Charged'
      <3> DEFINE q == refund_call(regs[r], day)
      <3>1. reg[c] = r /\ day \in Nat
        BY <1>1, <2>4 DEF Refund, TypeOK
      <3>2. q.base = regs[r].base /\ q.commits = regs[r].commits
        BY <2>0, <3>1, RefundCall
      <3>3. regs'[r] = q /\ UNCHANGED <<current, succeeded>>
        BY <2>0, <2>4, <3>1 DEF Refund
      <3> HIDE DEF q
      <3> QED BY <2>1, <3>2, <3>3
    <2>5. ASSUME NEW c \in Calls, Succeed(c) PROVE Charged'
      <3>1. reg[c] = r /\ pc[c] = "running" /\ current' = current
        BY <1>1, <2>5 DEF Succeed, TypeOK
      <3>2. regs'[r] = [regs[r] EXCEPT !.commits = @ + 1]
        BY <2>0, <2>5, <3>1 DEF Succeed
      <3>3. regs'[r].base = regs[r].base /\ regs'[r].commits = regs[r].commits + 1
        BY <2>0, <3>2, CommitCounted
      <3>4. IsFiniteSet(succeeded) /\ seq[c] \notin IdsOf(succeeded)
        BY <2>0, <3>1 DEF HistoryInv, Written
      <3>5. Cardinality(succeeded') = Cardinality(succeeded) + 1
        BY <2>5, <3>4, CommittedOne DEF Succeed
      <3> QED BY <2>0, <3>1, <3>3, <3>5 DEF Charged
    <2>6. ASSUME NEW n \in RegIds, NEW lim \in Limits, BuildRegistry(n, lim) PROVE Charged'
      BY <2>0, <2>6 DEF BuildRegistry, Held
    <2>7. CASE AbortReload \/ Midnight \/ Purge \/ UNCHANGED vars
      <3>1. UNCHANGED <<regs, current, succeeded>>
        BY <2>7 DEF AbortReload, Midnight, Purge, vars
      <3> QED BY <2>1, <3>1
    <2>8. CASE InstallRegistry
      BY <2>0, <2>8 DEF InstallRegistry, TypeOK
    <2>9. ASSUME NEW lim \in Limits, Restart(lim) PROVE Charged'
      <3>1. PICK total \in {0, SeedCallCount}, today \in {0, SeedDaily} :
              regs' = [q \in RegIds |-> Fresh(lim, total, day, today)]
        BY <2>9 DEF Restart
      <3>2. regs'[r].base = total /\ regs'[r].commits = 0
        BY <2>0, <3>1 DEF Fresh
      <3>3. SeedCallCount \in Nat /\ SeedCallCount <= Cardinality(succeeded)
        <4>1. /\ Cardinality(events) <= Cardinality(recorded) /\ IsFiniteSet(events)
              /\ IsFiniteSet(recorded) /\ recorded \in SUBSET IdsOf(succeeded)
              /\ IsFiniteSet(IdsOf(succeeded))
              /\ Cardinality(IdsOf(succeeded)) = Cardinality(succeeded)
          BY DEF HistoryInv, Tables
        <4>2. Cardinality(recorded) <= Cardinality(IdsOf(succeeded))
          BY <4>1, FS_Subset
        <4>3. Cardinality(events) \in Nat /\ Cardinality(recorded) \in Nat
          BY <4>1, FS_CardinalityType
        <4> QED BY <2>0, <4>1, <4>2, <4>3 DEF SeedCallCount
      <3>4. current' = current /\ succeeded' = succeeded
        BY <2>9 DEF Restart
      <3> QED BY <2>0, <3>2, <3>3, <3>4 DEF Charged
    <2> QED BY <2>2, <2>3, <2>4, <2>5, <2>6, <2>7, <2>8, <2>9 DEF Next, CallStep
  <1>4. TypeOK /\ HistoryInv /\ Charged /\ CountsExact => NeverOvercharged
    <2> SUFFICES ASSUME TypeOK, HistoryInv, Charged, CountsExact PROVE NeverOvercharged
      OBVIOUS
    <2>1. /\ regs[current].total = regs[current].base + regs[current].commits
                                     + Cardinality(InFlight(current))
          /\ regs[current].base \in Nat /\ regs[current].commits \in Nat
      BY DEF CountsExact, TypeOK, Registry
    <2>2. Cardinality(InFlight(current)) \in Nat /\ Cardinality(succeeded) \in Nat
      BY InFlightFinite, FS_CardinalityType DEF TypeOK, HistoryInv, Tables
    <2> QED BY <2>1, <2>2 DEF Charged, NeverOvercharged
  <1> QED BY <1>2, <1>3, <1>4, TypeCorrect, HistoryHolds, QuotaCountsExact, PTL DEF Spec

\* A queue of max_concurrent permits never has more calls past it, for every number of
\* invocations and registries.
THEOREM PermitsBounded == Spec => []PermitsInv
  <1> DEFINE Ok(q) == regs[q].lim.max_concurrent # None =>
                         Cardinality(Permits(q)) <= regs[q].lim.max_concurrent
  <1>0. \A q \in RegIds : IsFiniteSet(Permits(q)) /\ Cardinality(Permits(q)) \in Nat
    <2>1. \A q \in RegIds : Permits(q) \in SUBSET Calls
      BY DEF Permits
    <2> QED BY <2>1, CallsFinite, FS_Subset, FS_CardinalityType
  <1>1. Init => PermitsInv
    <2> SUFFICES ASSUME Init, NEW q \in RegIds PROVE Ok(q)
      BY DEF PermitsInv
    <2>1. Permits(q) = {}
      BY DEF Init, Permits
    <2>2. regs[q].lim.max_concurrent \in Nat
      BY LimitsAssumption DEF Init, Fresh
    <2> QED BY <2>1, <2>2, FS_EmptySet
  <1>2. TypeOK /\ TypeOK' /\ PermitsInv /\ [Next]_vars => PermitsInv'
    <2> SUFFICES ASSUME TypeOK, TypeOK', PermitsInv, [Next]_vars, NEW q \in RegIds PROVE Ok(q)'
      BY DEF PermitsInv
    <2> USE RegIdsAssumption DEF NoReg
    <2>0. /\ Ok(q) /\ regs[q] \in Registry /\ regs[q].lim.max_concurrent \in Nat
          /\ regs'[q].lim.max_concurrent \in Nat
          /\ IsFiniteSet(Permits(q)) /\ Cardinality(Permits(q)) \in Nat
      BY <1>0, LimitsAssumption DEF PermitsInv, TypeOK, Registry
    <2>1. ASSUME regs'[q].lim = regs[q].lim, Permits(q)' \subseteq Permits(q) PROVE Ok(q)'
      <3>1. Cardinality(Permits(q)') <= Cardinality(Permits(q)) /\ Cardinality(Permits(q)') \in Nat
        BY <2>0, <2>1, FS_Subset, FS_CardinalityType
      <3> QED BY <2>0, <2>1, <3>1
    <2>2. ASSUME NEW c \in Calls, Start(c) \/ Admit(c) \/ RecordSuccess(c) \/ RecordLost(c) \/ Fail(c)
          PROVE  Ok(q)'
      <3>1. regs'[q] = regs[q] /\ Permits(q)' \subseteq Permits(q)
        BY <2>2 DEF Start, Admit, RecordSuccess, RecordLost, Fail, Goto, Permits, TypeOK
      <3> QED BY <2>1, <3>1
    <2>3. ASSUME NEW c \in Calls, Reject(c) \/ QueueTimeout(c) \/ CancelQueued(c) \/ ReleasePermit(c)
          PROVE  Ok(q)'
      <3>1. Finish(c) /\ regs' = regs
        BY <2>3 DEF Reject, QueueTimeout, CancelQueued, ReleasePermit
      <3>2. Permits(q)' \subseteq Permits(q)
        BY <3>1 DEF Finish, Goto, Permits, TypeOK
      <3> QED BY <2>1, <3>1, <3>2
    <2>4. ASSUME NEW c \in Calls, Succeed(c) PROVE Ok(q)'
      <3>1. Permits(q)' \subseteq Permits(q)
        BY <2>4 DEF Succeed, Goto, Permits, TypeOK
      <3>2. regs'[q] = regs[q] \/ regs'[q] = [regs[q] EXCEPT !.commits = @ + 1]
        BY <2>4 DEF Succeed, TypeOK
      <3>3. [regs[q] EXCEPT !.commits = @ + 1].lim = regs[q].lim
        BY <2>0, CommitCounted
      <3> QED BY <2>1, <3>1, <3>2, <3>3
    <2>5. ASSUME NEW c \in Calls, Refund(c) PROVE Ok(q)'
      <3>1. Permits(q)' \subseteq Permits(q)
        BY <2>5 DEF Refund, Goto, Permits, TypeOK
      <3> DEFINE z == refund_call(regs[q], day)
      <3>2. regs'[q] = regs[q] \/ regs'[q] = z
        BY <2>5 DEF Refund, TypeOK
      <3>3. z.lim = regs[q].lim
        BY <2>0, RefundCall DEF TypeOK
      <3> HIDE DEF z
      <3> QED BY <2>1, <3>1, <3>2, <3>3
    <2>6. ASSUME NEW c \in Calls, EnterUpstream(c) PROVE Ok(q)'
      <3>1. CASE reg[c] # q
        <4>1. regs'[q] = regs[q] /\ Permits(q)' = Permits(q)
          BY <2>6, <3>1 DEF EnterUpstream, Goto, Permits, TypeOK
        <4> QED BY <2>1, <4>1
      <3>2. CASE reg[c] = q
        <4>1. Permits(q)' = Permits(q) \cup {c} /\ c \notin Permits(q)
          BY <2>6, <3>2 DEF EnterUpstream, Goto, Permits, TypeOK
        <4>2. Cardinality(Permits(q)') = Cardinality(Permits(q)) + 1
          BY <2>0, <4>1, FS_AddElement
        <4>3. regs[q].lim.max_concurrent # None => Cardinality(Permits(q)) < regs[q].lim.max_concurrent
          BY <2>6, <3>2 DEF EnterUpstream
        <4> DEFINE z == record_call(regs[q], stamp[c])
        <4>4. regs'[q] = z
          BY <2>6, <3>2 DEF EnterUpstream, TypeOK
        <4>5. z.lim = regs[q].lim
          BY <2>0, RecordCall DEF TypeOK
        <4> HIDE DEF z
        <4>6. regs'[q].lim = regs[q].lim
          BY <4>4, <4>5
        <4> QED BY <2>0, <4>2, <4>3, <4>6
      <3> QED BY <3>1, <3>2
    <2>7. ASSUME NEW n \in RegIds, NEW lim \in Limits, BuildRegistry(n, lim) PROVE Ok(q)'
      <3>1. CASE n # q
        <4>1. regs'[q] = regs[q] /\ Permits(q)' = Permits(q)
          BY <2>7, <3>1 DEF BuildRegistry, calls, Permits, TypeOK
        <4> QED BY <2>1, <4>1
      <3>2. CASE n = q
        <4>1. Permits(q)' = {}
          BY <2>7, <3>2 DEF BuildRegistry, Held, calls, Permits
        <4> QED BY <2>0, <4>1, FS_EmptySet
      <3> QED BY <3>1, <3>2
    <2>8. CASE AbortReload \/ InstallRegistry \/ Midnight \/ Purge \/ UNCHANGED vars
      <3>1. regs' = regs /\ Permits(q)' = Permits(q)
        BY <2>8 DEF AbortReload, InstallRegistry, Midnight, Purge, vars, calls, Permits
      <3> QED BY <2>1, <3>1
    <2>9. ASSUME NEW lim \in Limits, Restart(lim) PROVE Ok(q)'
      <3>1. Permits(q)' = {}
        BY <2>9 DEF Restart, Permits
      <3> QED BY <2>0, <3>1, FS_EmptySet
    <2> QED BY <2>2, <2>3, <2>4, <2>5, <2>6, <2>7, <2>8, <2>9 DEF Next, CallStep
  <1> QED BY <1>1, <1>2, TypeCorrect, PTL DEF Spec
=============================================================================
