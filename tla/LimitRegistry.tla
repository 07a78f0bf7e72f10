--------------------------- MODULE LimitRegistry ---------------------------
(* Call quotas and concurrency of one proxy key on one upstream:              *)
(* src/limits/{registry,queue,seed}.rs, the admission and accounting steps of  *)
(* src/proxy/invoke and src/mcp/downstream.rs, the registry replacement in     *)
(* src/admin/crud.rs and the retention of src/store/retention.rs.              *)
(*                                                                            *)
(* A registry is an Arc: a call keeps the one it was admitted by, an admin    *)
(* write builds a new one, copies the counters and installs it.  RegIds names  *)
(* the allocations; one that nobody holds can be reused.  The GCRA rps / rpm   *)
(* buckets refuse a call or let it pass and are never refunded: Reject stands   *)
(* for every refusal.                                                          *)
EXTENDS Integers, FiniteSets

CONSTANTS
    Calls,         \* concurrent invocations
    RegIds,        \* registry allocations
    Limits,        \* [max_calls, per_day, max_concurrent] records; 0 is None
    RetentionDays, \* request_event_retention_days; 0 keeps events for ever
    MaxStarts,     \* bound: admissions in a behaviour
    MaxDay,        \* bound: the last UTC day
    MaxRestarts    \* bound: process restarts

NoReg == 0
None == 0

ASSUME RegIdsAssumption == RegIds \subseteq Nat \ {NoReg}
ASSUME CallsFinite == IsFiniteSet(Calls)
\* from_config refuses a limit of 0.
ASSUME LimitsAssumption ==
    Limits \subseteq [max_calls : Nat, per_day : Nat, max_concurrent : Nat]
ASSUME BoundsAssumption ==
    MaxStarts \in Nat /\ MaxDay \in Nat /\ MaxRestarts \in Nat /\ RetentionDays \in Nat

VARIABLES
    day,       \* Utc::now().date_naive()
    regs,      \* registry allocation -> limits and KeyCounters of the key
    current,   \* AppState.limit_registry
    incoming,  \* the registry an admin write has built and not yet installed
    pc,        \* where each invocation stands
    reg,       \* the registry the invocation was admitted by
    stamp,     \* the day of the `now' its admission captured
    seq,       \* the number of its admission
    started,   \* admissions so far
    restarts,  \* restarts so far
    events,    \* request_events: the success rows, [id, day]
    succeeded, \* history: [id, day] of every committed call, by admission day
    recorded   \* history: the ids of the success rows ever written

calls == <<pc, reg, stamp, seq>>
vars == <<day, regs, current, incoming, calls, started, restarts, events, succeeded, recorded>>

-----------------------------------------------------------------------------
(* KeyCounters.  base and commits are history: what the registry was created   *)
(* with, and how many of its calls committed.                                  *)

Fresh(lim, total, onDay, today) ==
    [lim |-> lim, total |-> total, day |-> onDay, today |-> today,
     base |-> total, commits |-> 0]

today_on(r, d) == IF r.day = d THEN r.today ELSE 0

\* roll_to, then count the call
record_call(r, d) ==
    [r EXCEPT !.total = @ + 1, !.day = d, !.today = today_on(r, d) + 1]

saturating_sub(n) == IF n > 0 THEN n - 1 ELSE 0

refund_call(r, d) ==
    [r EXCEPT !.total = saturating_sub(@),
              !.today = IF r.day = d THEN saturating_sub(@) ELSE @]

\* Mutant: the comparison is off by one.
check_call_quotas_inclusive(r, d) ==
    /\ r.lim.max_calls # None => r.total <= r.lim.max_calls
    /\ r.lim.per_day # None => today_on(r, d) <= r.lim.per_day

check_call_quotas(r, d) ==
    /\ r.lim.max_calls # None => r.total < r.lim.max_calls
    /\ r.lim.per_day # None => today_on(r, d) < r.lim.per_day

\* The invocations that hold a QueuePermit of registry r.
Permits(r) == {c \in Calls : reg[c] = r /\ pc[c] \in {"running", "recording", "failing", "leaving"}}

-----------------------------------------------------------------------------
Init ==
    /\ day = 0
    /\ current \in RegIds
    /\ \E lim \in Limits : regs = [r \in RegIds |-> Fresh(lim, 0, 0, 0)]
    /\ incoming = NoReg
    /\ pc = [c \in Calls |-> "idle"]
    /\ reg = [c \in Calls |-> NoReg]
    /\ stamp = [c \in Calls |-> 0]
    /\ seq = [c \in Calls |-> 0]
    /\ started = 0 /\ restarts = 0
    /\ events = {} /\ succeeded = {} /\ recorded = {}

Goto(c, label) == pc' = [pc EXCEPT ![c] = label]

\* The invocation returns or its future is dropped.
Finish(c) ==
    /\ Goto(c, "idle")
    /\ reg' = [reg EXCEPT ![c] = NoReg]
    /\ stamp' = [stamp EXCEPT ![c] = 0]
    /\ seq' = [seq EXCEPT ![c] = 0]

\* limit_registry_snapshot: the executor of the request takes the registry.
Start(c) ==
    /\ pc[c] = "idle"
    /\ Goto(c, "resolving")
    /\ reg' = [reg EXCEPT ![c] = current]
    /\ UNCHANGED <<day, regs, current, incoming, stamp, seq, started, restarts, events, succeeded, recorded>>

\* admit_at up to the first await: `now' is captured, the quotas are checked
\* against the counters, nothing is reserved.
Admit(c) ==
    /\ pc[c] = "resolving" /\ started < MaxStarts
    /\ check_call_quotas(regs[reg[c]], day)
    /\ Goto(c, "queued")
    /\ stamp' = [stamp EXCEPT ![c] = day]
    /\ seq' = [seq EXCEPT ![c] = started + 1]
    /\ started' = started + 1
    /\ UNCHANGED <<day, regs, current, incoming, reg, restarts, events, succeeded, recorded>>

\* The tool is unknown, quarantined or out of scope, a rate or a quota refuses the
\* call, or the client goes away.
Reject(c) ==
    /\ pc[c] = "resolving"
    /\ Finish(c)
    /\ UNCHANGED <<day, regs, current, incoming, started, restarts, events, succeeded, recorded>>

\* admit_upstream returns a permit, then record_call with the captured `now'.
EnterUpstream(c) ==
    /\ pc[c] = "queued"
    /\ LET lim == regs[reg[c]].lim
       IN  lim.max_concurrent # None => Cardinality(Permits(reg[c])) < lim.max_concurrent
    /\ regs' = [regs EXCEPT ![reg[c]] = record_call(@, stamp[c])]
    /\ Goto(c, "running")
    /\ UNCHANGED <<day, current, incoming, reg, stamp, seq, started, restarts, events, succeeded, recorded>>

\* Mutant: the timeout around the semaphore is missing.
QueueWithoutTimeout(c) ==
    /\ pc[c] = "queued" /\ FALSE
    /\ UNCHANGED vars

\* RequestQueue::admit: the timeout fires.
QueueTimeout(c) ==
    /\ pc[c] = "queued"
    /\ regs[reg[c]].lim.max_concurrent # None
    /\ Finish(c)
    /\ UNCHANGED <<day, regs, current, incoming, started, restarts, events, succeeded, recorded>>

\* The upstream call succeeded: Admission::commit.
Succeed(c) ==
    /\ pc[c] = "running"
    /\ regs' = [regs EXCEPT ![reg[c]].commits = @ + 1]
    /\ succeeded' = succeeded \cup {[id |-> seq[c], day |-> stamp[c]]}
    /\ Goto(c, "recording")
    /\ UNCHANGED <<day, current, incoming, reg, stamp, seq, started, restarts, events, recorded>>

\* record_event of the success; its timestamp is the current time.
RecordSuccess(c) ==
    /\ pc[c] = "recording"
    /\ events' = events \cup {[id |-> seq[c], day |-> day]}
    /\ Goto(c, "leaving")
    /\ recorded' = recorded \cup {seq[c]}
    /\ UNCHANGED <<day, regs, current, incoming, reg, stamp, seq, started, restarts, succeeded>>

\* persist_request_event only warns when the store fails, or the client goes away
\* while the row is written.
RecordLost(c) ==
    /\ pc[c] = "recording"
    /\ Goto(c, "leaving")
    /\ UNCHANGED <<day, regs, current, incoming, reg, stamp, seq, started, restarts, events, succeeded, recorded>>

\* Mutant: the guard is committed whatever the outcome.
FailCommits(c) ==
    /\ pc[c] = "running"
    /\ Goto(c, "leaving")
    /\ UNCHANGED <<day, regs, current, incoming, reg, stamp, seq, started, restarts, events, succeeded, recorded>>

\* The secret cannot be resolved, the upstream fails, or the client goes away
\* during the call: the guard will be dropped uncommitted.
Fail(c) ==
    /\ pc[c] = "running"
    /\ Goto(c, "failing")
    /\ UNCHANGED <<day, regs, current, incoming, reg, stamp, seq, started, restarts, events, succeeded, recorded>>

\* Drop for CallQuotaGuard, on the registry the guard holds.
Refund(c) ==
    /\ pc[c] = "failing"
    /\ regs' = [regs EXCEPT ![reg[c]] = refund_call(@, day)]
    /\ Goto(c, "leaving")
    /\ UNCHANGED <<day, current, incoming, reg, stamp, seq, started, restarts, events, succeeded, recorded>>

\* Drop for QueuePermit, after the quota guard.
ReleasePermit(c) ==
    /\ pc[c] = "leaving"
    /\ Finish(c)
    /\ UNCHANGED <<day, regs, current, incoming, started, restarts, events, succeeded, recorded>>

\* The client goes away while the call waits for a permit.
CancelQueued(c) ==
    /\ pc[c] = "queued"
    /\ Finish(c)
    /\ UNCHANGED <<day, regs, current, incoming, started, restarts, events, succeeded, recorded>>

Held(r) == r = current \/ r = incoming \/ \E c \in Calls : reg[c] = r

\* swap_config_and_catalog: from_config and carry_counts_from.
BuildRegistry(r, lim) ==
    /\ incoming = NoReg /\ ~Held(r)
    /\ LET old == regs[current]
       IN  regs' = [regs EXCEPT ![r] = Fresh(lim, old.total, old.day, old.today)]
    /\ incoming' = r
    /\ UNCHANGED <<day, current, calls, started, restarts, events, succeeded, recorded>>

\* GatewayAuth::from_config or the key pools refuse the configuration.
AbortReload ==
    /\ incoming # NoReg
    /\ incoming' = NoReg
    /\ UNCHANGED <<day, regs, current, calls, started, restarts, events, succeeded, recorded>>

\* *state.limit_registry.write().await = new
InstallRegistry ==
    /\ incoming # NoReg
    /\ current' = incoming
    /\ incoming' = NoReg
    /\ UNCHANGED <<day, regs, calls, started, restarts, events, succeeded, recorded>>

Midnight ==
    /\ day < MaxDay
    /\ day' = day + 1
    /\ UNCHANGED <<regs, current, incoming, calls, started, restarts, events, succeeded, recorded>>

\* purge_expired_request_events
Purge ==
    /\ RetentionDays # 0
    /\ events' = {e \in events : e.day + RetentionDays >= day}
    /\ UNCHANGED <<day, regs, current, incoming, calls, started, restarts, succeeded, recorded>>

\* seed_from_store: the success rows of the key, all of them and those since midnight.
SeedDaily == Cardinality({e \in events : e.day = day})

SeedCallCount == Cardinality(events)

\* The process stops at any point and starts again: from_config, then
\* seed_from_store.  Either of its two queries may fail with a warning.
Restart(lim) ==
    /\ restarts < MaxRestarts
    /\ restarts' = restarts + 1
    /\ \E total \in {0, SeedCallCount}, today \in {0, SeedDaily} :
         regs' = [r \in RegIds |-> Fresh(lim, total, day, today)]
    /\ incoming' = NoReg
    /\ pc' = [c \in Calls |-> "idle"]
    /\ reg' = [c \in Calls |-> NoReg]
    /\ stamp' = [c \in Calls |-> 0]
    /\ seq' = [c \in Calls |-> 0]
    /\ UNCHANGED <<day, current, started, events, succeeded, recorded>>

CallStep(c) ==
    \/ EnterUpstream(c) \/ QueueTimeout(c) \/ CancelQueued(c)
    \/ Succeed(c) \/ RecordSuccess(c) \/ RecordLost(c)
    \/ Fail(c) \/ Refund(c) \/ ReleasePermit(c)

Next ==
    \/ \E c \in Calls : Start(c) \/ Admit(c) \/ Reject(c) \/ CallStep(c)
    \/ \E r \in RegIds, lim \in Limits : BuildRegistry(r, lim)
    \/ AbortReload \/ InstallRegistry \/ Midnight \/ Purge
    \/ \E lim \in Limits : Restart(lim)

Spec == Init /\ [][Next]_vars

\* A queued call gets a permit or its timeout fires (without max_concurrent it
\* never waits), the store answers, and drops always run.  Nothing is assumed of the
\* upstream: a call may run for ever.
Fairness ==
    \A c \in Calls : /\ WF_vars(EnterUpstream(c) \/ QueueTimeout(c))
                     /\ WF_vars(RecordSuccess(c) \/ RecordLost(c))
                     /\ WF_vars(Refund(c))
                     /\ WF_vars(ReleasePermit(c))

FairSpec == Spec /\ Fairness

-----------------------------------------------------------------------------
(* Properties                                                                 *)

Labels == {"idle", "resolving", "queued", "running", "recording", "failing", "leaving"}

Registry == [lim : Limits, total : Nat, day : Nat, today : Nat, base : Nat, commits : Nat]

Stamp == [id : Nat, day : Nat]

\* The shapes of the variables; an invocation holds a registry exactly while it is
\* under way, and the registry being installed is nobody's yet.
TypeOK ==
    /\ day \in Nat /\ started \in Nat /\ restarts \in Nat
    /\ regs \in [RegIds -> Registry]
    /\ current \in RegIds /\ incoming \in RegIds \cup {NoReg}
    /\ incoming # current
    /\ pc \in [Calls -> Labels]
    /\ reg \in [Calls -> RegIds \cup {NoReg}]
    /\ stamp \in [Calls -> Nat] /\ seq \in [Calls -> Nat]
    /\ events \subseteq Stamp /\ succeeded \subseteq Stamp /\ recorded \subseteq Nat
    /\ \A c \in Calls : /\ pc[c] = "idle" <=> reg[c] = NoReg
                        /\ incoming # NoReg => reg[c] # incoming

\* Admitted and counted, neither committed nor refunded.
InFlight(r) == {c \in Calls : reg[c] = r /\ pc[c] \in {"running", "failing"}}

\* Checked against the quota, not yet counted.
Queued(r) == {c \in Calls : reg[c] = r /\ pc[c] = "queued"}

\* What keeps the overshoot bounded: a registry created at or over its limit admits
\* nobody, in the others the calls counted and the calls waiting stay together below
\* the limit plus the number of invocations.
OvershootInv ==
    \A r \in RegIds : regs[r].lim.max_calls # None =>
        IF regs[r].base >= regs[r].lim.max_calls
        THEN regs[r].total = regs[r].base /\ Queued(r) = {} /\ InFlight(r) = {}
        ELSE regs[r].total + Cardinality(Queued(r)) < regs[r].lim.max_calls + Cardinality(Calls)

\* In every registry, each admitted call is counted exactly once and given back
\* exactly once unless it committed, whatever the order of commits, failures,
\* cancellations and midnights.  So a refund never meets a counter at zero, and
\* saturating_sub never hides a missing call.
CountsExact ==
    \A r \in RegIds : regs[r].total = regs[r].base + regs[r].commits + Cardinality(InFlight(r))

\* The overshoot of max_calls is bounded by the calls in flight, as the comment in
\* admit_at promises: checks and counts are apart, but all the calls that passed the
\* check together exceed the limit by less than the number of invocations.
OvershootBounded ==
    \A r \in RegIds : regs[r].lim.max_calls # None =>
        \/ regs[r].total < regs[r].lim.max_calls + Cardinality(Calls)
        \/ regs[r].total = regs[r].base /\ regs[r].base >= regs[r].lim.max_calls

\* A key is never charged for a call that did not succeed and is not under way,
\* across failures, cancellations, midnights, purges and restarts.
NeverOvercharged ==
    regs[current].total <= Cardinality(succeeded) + Cardinality(InFlight(current))

\* max_calls_per_day may be overshot by calls in flight, never by calls that are
\* over: no call is admitted once the day's quota of calls has completed.
DailyQuotaEnforced ==
    [][\A c \in Calls : pc[c] = "resolving" /\ pc'[c] = "queued" =>
          LET quota == regs[reg[c]].lim.per_day
          IN  quota # None => Cardinality({s \in succeeded : s.day = day}) < quota]_vars

\* max_calls survives a restart: unless the seeding query fails, the key starts with
\* every success that was ever written to the store.
RestartKeepsCount ==
    [][restarts' # restarts => regs'[current].total \in {0, Cardinality(recorded)}]_vars

\* Nothing waits for a permit for ever, even when the upstream never answers those
\* who hold one; and an invocation whose outcome is known gives its permit back.
CallsFinish ==
    \A c \in Calls :
        /\ pc[c] = "queued" ~> pc[c] # "queued"
        /\ pc[c] \in {"recording", "failing", "leaving"} ~> pc[c] = "idle"
=============================================================================
