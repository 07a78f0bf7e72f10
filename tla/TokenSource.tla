---------------------------- MODULE TokenSource -----------------------------
(* Client credentials: the requests to one upstream share an access token that *)
(* is exchanged on the request path, before it expires or after the upstream   *)
(* refused it.  A mutex is held across the exchange.                           *)
EXTENDS Naturals, FiniteSets

CONSTANTS Requests,
          Lifetimes,          \* lifetimes of tokens; NoLifetime: not told
          NoLifetime,
          MAX_RENEW_MARGIN,
          MaxTokens,          \* bound on tokens issued
          MaxTnow             \* bound on the clock

ASSUME TokenSourceAssumption ==
    /\ Lifetimes \ {NoLifetime} \subseteq Nat
    /\ MAX_RENEW_MARGIN \in Nat /\ MaxTokens \in Nat /\ MaxTnow \in Nat
    /\ "free" \notin Requests

VARIABLES tnow, holder,       \* the request that holds the mutex, or "free"
          cached,             \* CachedToken
          tokens,             \* number of tokens issued
          lives,              \* the lifetime of each token
          born,               \* when the authorization server issued each token
          came,               \* history: when the answer with each token arrived
          req,                \* requests: [pc, token, tries]
          refused             \* history: tokens the upstream refused

tvars == <<tnow, holder, cached, tokens, lives, born, came, req, refused>>

NoToken == [value |-> 0, renew_at |-> 0]
Never == MaxTnow + 10

Lesser(a, b) == IF a < b THEN a ELSE b

\* Mutant: the margin whatever the lifetime is.
renew_margin_full(lifetime) == MAX_RENEW_MARGIN

renew_margin(lifetime) == Lesser(MAX_RENEW_MARGIN, lifetime \div 2)

\* The upstream counts the lifetime from the issue of the token ...
Expiry(t) == IF lives[t] = NoLifetime THEN Never ELSE born[t] + lives[t]
\* ... and CachedToken::new from the arrival of the answer.
CachedToken(value, lifetime) ==
    [value |-> value,
     renew_at |-> IF lifetime = NoLifetime THEN Never
                  ELSE (tnow + lifetime) - renew_margin(lifetime)]
is_fresh(t) == t # NoToken /\ tnow < t.renew_at

Go(r, rec) == req' = [req EXCEPT ![r] = rec]
TUnchanged == UNCHANGED <<tnow, tokens, lives, born, came, refused>>

\* with_token: the first call of current() is the connection's own.
with_token(r) ==
    /\ req[r].pc = "idle"
    /\ Go(r, [req[r] EXCEPT !.pc = "lock"])
    /\ UNCHANGED <<holder, cached>> /\ TUnchanged

\* Mutant: looks at the cache before it has the mutex, then exchanges.
lock_late(r) ==
    /\ req[r].pc = "lock" /\ holder = "free"
    /\ holder' = r
    /\ Go(r, [req[r] EXCEPT !.pc = "exchange"])
    /\ UNCHANGED cached /\ TUnchanged

\* current() and renew_rejected() take the mutex and look at the cache again: a
\* fresh token, or one that another request has exchanged since, is used.
lock(r) ==
    LET usable == IF req[r].tries = 0 THEN is_fresh(cached)
                  ELSE cached # NoToken /\ cached.value # req[r].token
    IN /\ req[r].pc = "lock" /\ holder = "free"
       /\ IF usable
          THEN /\ Go(r, [req[r] EXCEPT !.pc = "call", !.token = cached.value])
               /\ UNCHANGED holder
          ELSE holder' = r /\ Go(r, [req[r] EXCEPT !.pc = "exchange"])
       /\ UNCHANGED cached /\ TUnchanged

\* The authorization server answers the exchange with a token ...
issue_token(r) ==
    /\ req[r].pc = "exchange" /\ holder = r
    /\ tokens < MaxTokens /\ tokens' = tokens + 1
    /\ \E life \in Lifetimes : lives' = [lives EXCEPT ![tokens + 1] = life]
    /\ born' = [born EXCEPT ![tokens + 1] = tnow]
    /\ Go(r, [req[r] EXCEPT !.pc = "answer"])
    /\ UNCHANGED <<tnow, holder, cached, came, refused>>

\* ... which the request awaits with the mutex in its hands, so that no other
\* token is issued before it arrives.
exchange_token(r) ==
    /\ req[r].pc = "answer" /\ holder = r
    /\ holder' = "free"
    /\ cached' = CachedToken(tokens, lives[tokens])
    /\ came' = [came EXCEPT ![tokens] = tnow]
    /\ Go(r, [req[r] EXCEPT !.pc = "call", !.token = tokens])
    /\ UNCHANGED <<tnow, tokens, lives, born, refused>>

\* The exchange fails, before a token was issued or after; the mutex is released.
exchange_fails(r) ==
    /\ req[r].pc \in {"exchange", "answer"} /\ holder = r
    /\ holder' = "free"
    /\ Go(r, [req[r] EXCEPT !.pc = "error"])
    /\ UNCHANGED cached /\ TUnchanged

\* The upstream accepts a live token, or refuses any with 401 (a revoked one
\* too); the first refusal leads to one more try.
call_upstream(r) ==
    /\ req[r].pc = "call"
    /\ \/ /\ tnow < Expiry(req[r].token)
          /\ Go(r, [req[r] EXCEPT !.pc = "done"]) /\ UNCHANGED refused
       \/ /\ refused' = refused \cup {req[r].token}
          /\ Go(r, IF req[r].tries = 0
                   THEN [req[r] EXCEPT !.pc = "lock", !.tries = 1]
                   ELSE [req[r] EXCEPT !.pc = "error"])
    /\ UNCHANGED <<tnow, tokens, lives, born, came, holder, cached>>

\* A caller that goes away drops the future, and the guard with it.
drop_request(r) ==
    /\ req[r].pc \in {"lock", "exchange", "answer", "call"}
    /\ holder' = IF holder = r THEN "free" ELSE holder
    /\ Go(r, [req[r] EXCEPT !.pc = "error"])
    /\ UNCHANGED cached /\ TUnchanged

TTick ==
    /\ tnow < MaxTnow /\ tnow' = tnow + 1
    /\ UNCHANGED <<holder, cached, tokens, lives, born, came, req, refused>>

TInit ==
    /\ tnow = 0 /\ holder = "free" /\ cached = NoToken /\ tokens = 0
    /\ lives = [t \in 1..MaxTokens |-> NoLifetime] /\ born = [t \in 1..MaxTokens |-> 0]
    /\ came = [t \in 1..MaxTokens |-> 0]
    /\ req = [r \in Requests |-> [pc |-> "idle", token |-> 0, tries |-> 0]]
    /\ refused = {}
TNext ==
    \/ TTick
    \/ \E r \in Requests : with_token(r) \/ lock(r) \/ issue_token(r) \/ exchange_token(r)
                           \/ exchange_fails(r) \/ call_upstream(r) \/ drop_request(r)
TSpec == TInit /\ [][TNext]_tvars

----------------------------------------------------------------------------
(* Properties.                                                                *)

\* Types of the state; a request tries at most twice, and whoever exchanges
\* holds the mutex.
TTypeOK ==
    /\ cached.value \in 0..tokens
    /\ \A r \in Requests :
          /\ req[r].token \in 0..tokens /\ req[r].tries \in 0..1
          /\ req[r].pc = "call" => req[r].token > 0
          /\ req[r].pc \in {"exchange", "answer"} <=> holder = r

\* Concurrent requests exchange once: a token is replaced only when it is due
\* for renewal or the upstream refused it, never because two requests found the
\* same one wanting (TokenSource::renew_rejected).
ExchangedOnce ==
    [][cached' # cached /\ cached # NoToken
       => ~is_fresh(cached) \/ cached.value \in refused]_tvars

\* The margin pays for the time the answer was under way, which the gateway
\* cannot see.  An answer that took at most the margin and half of the lifetime
\* never lets a token the upstream no longer accepts pass for fresh; a slower one
\* does so for no longer than it took.  And a short-lived token is not exchanged
\* for every request: for the first half of its lifetime it is always reused
\* (renew_margin, CachedToken::new).
MarginSound ==
    LET t == cached.value
        delay == came[t] - born[t]
    IN cached # NoToken =>
         /\ is_fresh(cached) => tnow < Expiry(t) + delay
         /\ is_fresh(cached) /\ delay <= MAX_RENEW_MARGIN
              /\ (lives[t] = NoLifetime \/ 2 * delay <= lives[t]) => tnow < Expiry(t)
         /\ lives[t] = NoLifetime \/ 2 * (tnow - came[t]) < lives[t] => is_fresh(cached)
=============================================================================
