----------------------------- MODULE RetryLoop -----------------------------
(* One HTTP invocation's attempts on its upstream: execute_with_retry and the  *)
(* operations it is made of, src/proxy/retry.rs, running over the key pool of  *)
(* module KeyPool.  Several invocations share the pool; each await of the code *)
(* (secret resolution, send, body, backoff) ends an action, and the client may *)
(* go away at each of them.                                                    *)
(*                                                                            *)
(* A call keeps the pool it started with, so a hot replacement (KeyPool) does  *)
(* not touch it and is left out here.                                          *)
EXTENDS Integers, FiniteSets, Sequences

CONSTANTS
    Calls, PoolIds, Secrets, Configs, Cooldowns, DEFAULT_COOLDOWN, Latencies, CursorMod,
    max_attempts,   \* attempts a GET may make
    Methods         \* the HTTP methods that are called; only "GET" is idempotent

ASSUME AttemptsAssumption == max_attempts \in Nat \ {0}
ASSUME MethodsAssumption == Methods \subseteq {"GET", "POST"}

VARIABLES
    pools, current, incoming, handle, guard,  \* see KeyPool
    phase,   \* where the loop of each call stands
    method,  \* its HTTP method
    attempt, \* the attempt under way, from 1
    retry_count,
    answer,  \* the class of the status received: AttemptOutcome before the body
    result,  \* what execute_with_retry returns
    sends    \* history: requests handed to the HTTP client

loop == <<phase, method, attempt, retry_count, answer, result, sends>>
pool == <<pools, current, incoming, handle, guard>>
vars == <<pool, loop>>

KP == INSTANCE KeyPool

\* What the pool's module assumes of its parameters.
ASSUME PoolAssumption ==
    /\ IsFiniteSet(Calls) /\ PoolIds \subseteq Nat \ {KP!NoPool}
    /\ DEFAULT_COOLDOWN \in Nat /\ Cooldowns \subseteq Nat /\ Latencies \subseteq Nat
    /\ CursorMod \in Nat \ {0}
    /\ \A cf \in Configs :
         cf.strategy \in KP!Strategies /\ cf.refs \in Seq(Secrets) /\ cf.refs # <<>>

-----------------------------------------------------------------------------
\* The classes of statuses: 2xx, RETRYABLE_STATUSES, the others.
Statuses == {"ok", "retryable", "fatal"}

is_retryable_status(status) == status = "retryable"

\* Mutant: the method does not matter.
retry_attempt_limit_any(m) == max_attempts

retry_attempt_limit(m) == IF m = "GET" THEN max_attempts ELSE 1

can_retry(c) == attempt[c] < retry_attempt_limit(method[c])

\* Mutant: the first failure already counts as retries spent.
final_status_error_eager(status, retries) ==
    IF is_retryable_status(status) THEN "RetryExhausted" ELSE "UpstreamError"

final_status_error(status, retries) ==
    IF retries > 0 /\ is_retryable_status(status) THEN "RetryExhausted" ELSE "UpstreamError"

Init ==
    /\ KP!Init
    /\ phase = [c \in Calls |-> "idle"]
    /\ method = [c \in Calls |-> "none"]
    /\ attempt = [c \in Calls |-> 0]
    /\ retry_count = [c \in Calls |-> 0]
    /\ answer = [c \in Calls |-> "none"]
    /\ result = [c \in Calls |-> "none"]
    /\ sends = [c \in Calls |-> 0]

Goto(c, label) == phase' = [phase EXCEPT ![c] = label]

\* The loop returns r; locals, the guard among them, are still to be dropped.
Return(c, r) ==
    /\ Goto(c, "leaving")
    /\ result' = [result EXCEPT ![c] = r]

\* resolve_upstream_secret finds a pool for the resource, or none.
Start(c, m, pooled) ==
    /\ phase[c] = "idle"
    /\ Goto(c, "picking")
    /\ method' = [method EXCEPT ![c] = m]
    /\ attempt' = [attempt EXCEPT ![c] = 1]
    /\ IF pooled THEN KP!Open(c) ELSE UNCHANGED pool
    /\ UNCHANGED <<retry_count, answer, result, sends>>

\* acquire_pool_key up to the resolution of the secret
PickKey(c) ==
    /\ phase[c] = "picking"
    /\ KP!Acquire(c)
    /\ Goto(c, "resolving")
    /\ UNCHANGED <<method, attempt, retry_count, answer, result, sends>>

\* Mutant: the call waits for a key instead of failing.
PickWaits(c) ==
    /\ phase[c] = "picking"
    /\ KP!AcquireFails(c)
    /\ UNCHANGED loop

\* NoAvailableKey
PickFails(c) ==
    /\ phase[c] = "picking"
    /\ KP!AcquireFails(c)
    /\ Return(c, "NoAvailableKey")
    /\ UNCHANGED <<method, attempt, retry_count, answer, sends>>

\* Without a pool the resource's own secret, resolved before, is used.
PickNothing(c) ==
    /\ phase[c] = "picking" /\ handle[c] = KP!NoPool
    /\ Goto(c, "sending")
    /\ UNCHANGED <<pool, method, attempt, retry_count, answer, result, sends>>

Resolve(c) ==
    /\ phase[c] = "resolving"
    /\ Goto(c, "sending")
    /\ UNCHANGED <<pool, method, attempt, retry_count, answer, result, sends>>

\* Neither cools the key nor retries.
ResolveFails(c) ==
    /\ phase[c] = "resolving"
    /\ Return(c, "SecretError")
    /\ UNCHANGED <<pool, method, attempt, retry_count, answer, sends>>

\* send_attempt: egress_block lets the URL pass and the request is sent.
Send(c) ==
    /\ phase[c] = "sending"
    /\ Goto(c, "inflight")
    /\ sends' = [sends EXCEPT ![c] = @ + 1]
    /\ UNCHANGED <<pool, method, attempt, retry_count, answer, result>>

\* egress_block, or later the resolver or a redirect, refuses the address.
EgressBlocked(c) ==
    /\ phase[c] \in {"sending", "inflight"}
    /\ Return(c, "EgressBlocked")
    /\ UNCHANGED <<pool, method, attempt, retry_count, answer, sends>>

\* The upstream's status line and headers arrive.
Headers(c, status) ==
    /\ phase[c] = "inflight"
    /\ Goto(c, "reading")
    /\ answer' = [answer EXCEPT ![c] = status]
    /\ UNCHANGED <<pool, method, attempt, retry_count, result, sends>>

\* cool_key: nothing without a pool
cool_key(c, d) == IF handle[c] = KP!NoPool THEN UNCHANGED pool ELSE KP!MarkCooling(c, d)

\* Timeout or connection failure: the key cools whether or not a retry follows.
TransportError(c) ==
    /\ phase[c] = "inflight"
    /\ cool_key(c, DEFAULT_COOLDOWN)
    /\ IF can_retry(c) THEN Goto(c, "retrying") /\ UNCHANGED result
       ELSE Return(c, "TransportError")
    /\ UNCHANGED <<method, attempt, retry_count, answer, sends>>

\* The body is read (a broken one counts as empty) and the status is 2xx.
Success(c) ==
    /\ phase[c] = "reading" /\ answer[c] = "ok"
    /\ IF handle[c] = KP!NoPool THEN UNCHANGED pool
       ELSE \E ms \in Latencies : KP!RecordLatency(c, ms)
    /\ Return(c, "Ok")
    /\ UNCHANGED <<method, attempt, retry_count, answer, sends>>

Retryable(c) == can_retry(c) /\ is_retryable_status(answer[c])

\* A status that is not retried: the key is not cooled.
StatusFinal(c) ==
    /\ phase[c] = "reading" /\ answer[c] # "ok"
    /\ ~Retryable(c)
    /\ Return(c, final_status_error(answer[c], retry_count[c]))
    /\ UNCHANGED <<pool, method, attempt, retry_count, answer, sends>>

\* A status that is retried: the key cools for Retry-After or the default.
StatusRetried(c, d) ==
    /\ phase[c] = "reading"
    /\ Retryable(c)
    /\ cool_key(c, d)
    /\ Goto(c, "retrying")
    /\ UNCHANGED <<method, attempt, retry_count, answer, result, sends>>

\* Mutant: the guard is forgotten, not dropped.
ForgetGuard(c) ==
    /\ guard' = [guard EXCEPT ![c] = KP!NoKey]
    /\ UNCHANGED <<pools, current, incoming, handle>>

\* drop(key_guard), or the end of the guard's scope
DropGuard(c) == IF guard[c] = KP!NoKey THEN UNCHANGED pool ELSE KP!Release(c)

\* drop(key_guard) before the backoff
StopAttempt(c) ==
    /\ phase[c] = "retrying"
    /\ DropGuard(c)
    /\ Goto(c, "backoff")
    /\ UNCHANGED <<method, attempt, retry_count, answer, result, sends>>

\* The sleep ends; retry_count += 1 and the next attempt begins.
NextAttempt(c) ==
    /\ phase[c] = "backoff"
    /\ Goto(c, "picking")
    /\ retry_count' = [retry_count EXCEPT ![c] = @ + 1]
    /\ attempt' = [attempt EXCEPT ![c] = @ + 1]
    /\ answer' = [answer EXCEPT ![c] = "none"]
    /\ UNCHANGED <<pool, method, result, sends>>

\* The client goes away: the future is dropped at an await.
Cancel(c) ==
    /\ phase[c] \in {"resolving", "inflight", "reading", "backoff"}
    /\ Return(c, "Cancelled")
    /\ UNCHANGED <<pool, method, attempt, retry_count, answer, sends>>

Leave(c) ==
    /\ phase[c] = "leaving"
    /\ DropGuard(c)
    /\ Goto(c, "returned")
    /\ UNCHANGED <<method, attempt, retry_count, answer, result, sends>>

\* The executor, and with it the call's Arc of the pools, goes away.
Finish(c) ==
    /\ phase[c] = "returned"
    /\ IF handle[c] = KP!NoPool THEN UNCHANGED pool ELSE KP!Close(c)
    /\ Goto(c, "idle")
    /\ attempt' = [attempt EXCEPT ![c] = 0]
    /\ retry_count' = [retry_count EXCEPT ![c] = 0]
    /\ answer' = [answer EXCEPT ![c] = "none"]
    /\ result' = [result EXCEPT ![c] = "none"]
    /\ sends' = [sends EXCEPT ![c] = 0]
    /\ method' = [method EXCEPT ![c] = "none"]

Tick == KP!Tick /\ UNCHANGED loop

Step(c) ==
    \/ \E m \in Methods, pooled \in BOOLEAN : Start(c, m, pooled)
    \/ PickKey(c) \/ PickFails(c) \/ PickNothing(c)
    \/ Resolve(c) \/ ResolveFails(c)
    \/ Send(c) \/ EgressBlocked(c)
    \/ \E status \in Statuses : Headers(c, status)
    \/ TransportError(c) \/ Success(c) \/ StatusFinal(c)
    \/ \E d \in Cooldowns \cup {DEFAULT_COOLDOWN} : StatusRetried(c, d)
    \/ StopAttempt(c) \/ NextAttempt(c) \/ Cancel(c) \/ Leave(c) \/ Finish(c)

Next == Tick \/ \E c \in Calls : Step(c)

Spec == Init /\ [][Next]_vars

\* What the runtime drives without help from outside: synchronous steps, the timeout
\* around send and the backoff timer.  The secret backend and the body of a response
\* are read without a timeout.
Driven(c) ==
    \/ PickKey(c) \/ PickFails(c) \/ PickNothing(c) \/ Send(c) \/ TransportError(c)
    \/ StopAttempt(c) \/ NextAttempt(c) \/ Leave(c) \/ Finish(c)

FairSpec == Spec /\ \A c \in Calls : WF_vars(Driven(c))

-----------------------------------------------------------------------------
(* Properties                                                                 *)

Phases == {"idle", "picking", "resolving", "sending", "inflight", "reading", "retrying",
           "backoff", "leaving", "returned"}

Results == {"none", "Ok", "NoAvailableKey", "SecretError", "EgressBlocked", "TransportError",
            "UpstreamError", "RetryExhausted", "Cancelled"}

\* Between acquire and drop.
Attempting == {"resolving", "sending", "inflight", "reading", "retrying"}

\* The shapes of the variables; a call on a pool holds a guard exactly while an
\* attempt is under way, and no idle call holds a pool.
TypeOK ==
    /\ KP!TypeOK
    /\ phase \in [Calls -> Phases]
    /\ method \in [Calls -> Methods \cup {"none"}]
    /\ attempt \in [Calls -> Nat] /\ retry_count \in [Calls -> Nat] /\ sends \in [Calls -> Nat]
    /\ answer \in [Calls -> Statuses \cup {"none"}]
    /\ result \in [Calls -> Results]
    /\ \A c \in Calls :
         /\ phase[c] = "idle" => handle[c] = KP!NoPool
         /\ phase[c] = "idle" <=> method[c] = "none"
         /\ phase[c] \in Attempting => (guard[c] = KP!NoKey <=> handle[c] = KP!NoPool)
         /\ guard[c] # KP!NoKey => phase[c] \in Attempting \cup {"leaving"}

\* A request that may have side effects is never replayed: whatever fails, and
\* however the attempts of other calls interleave, it is handed to the HTTP client at
\* most once (architecture.md, retry).
NonIdempotentSentOnce == \A c \in Calls : method[c] # "GET" => sends[c] <= 1

\* retry_exhausted means what it says: a GET used all its attempts, each of them was
\* sent, and there was more than one.
ExhaustedIsHonest ==
    \A c \in Calls : result[c] = "RetryExhausted" =>
        method[c] = "GET" /\ sends[c] = max_attempts /\ max_attempts > 1

\* No exit path keeps a lease: when no call is under way no key of any pool is leased,
\* after successes, errors, cancellations and keys that cooled while they were leased.
PoolDrains ==
    (\A c \in Calls : phase[c] = "idle") =>
        \A g \in PoolIds : \A k \in DOMAIN pools[g].state : KP!active_count(pools[g].state[k]) = 0

\* Guards are held exactly during attempts and every lease comes back: the two above
\* (KeyGuard::drop on each way out of execute_with_retry).
LeasesReturned == TypeOK /\ PoolDrains

\* The loop uses the pool only through its operations.
KeyPoolSpec == KP!Spec

\* Every call returns, unless the secret backend or the upstream's body keeps it
\* waiting for ever: the loop itself neither spins nor waits for another call.
LoopEnds ==
    \A c \in Calls :
        \/ phase[c] # "idle" ~> phase[c] = "idle"
        \/ <>[](phase[c] \in {"resolving", "reading"})

\* An attempt ends by its timeout once the request is sent.
AttemptEnds ==
    \A c \in Calls : phase[c] \in {"inflight", "reading"} ~> phase[c] \notin {"inflight", "reading"}
=============================================================================
