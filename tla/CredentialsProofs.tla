------------------------- MODULE CredentialsProofs --------------------------
(* Theorems about TokenSource, SecretStore and UpstreamOAuth, and about their  *)
(* composition, for every number of requests, workers, servers, secrets and    *)
(* lifetimes.                                                                  *)
EXTENDS Credentials, TLAPS

----------------------------------------------------------------------------
(* TokenSource.                                                               *)

TPcs == {"idle", "lock", "exchange", "answer", "call", "done", "error"}

Request == [pc : TPcs, token : 0..MaxTokens, tries : 0..1]

\* The state has its types, and a token that is cached was issued.
TTyped ==
    /\ tnow \in 0..MaxTnow /\ tokens \in 0..MaxTokens
    /\ holder \in Requests \cup {"free"}
    /\ cached \in [value : 0..MaxTokens, renew_at : Nat]
    /\ cached.value \in 0..tokens
    /\ cached # NoToken => cached.value > 0
    /\ lives \in [1..MaxTokens -> Lifetimes \cup {NoLifetime}]
    /\ born \in [1..MaxTokens -> Nat] /\ came \in [1..MaxTokens -> Nat]
    /\ req \in [Requests -> Request]
    /\ \A r \in Requests : /\ req[r].token \in 0..tokens
                           /\ req[r].pc = "call" => req[r].token > 0
                           /\ req[r].pc = "answer" => tokens > 0

\* Whoever exchanges holds the mutex.
Mutex == \A r \in Requests : req[r].pc \in {"exchange", "answer"} <=> holder = r

\* Tokens are issued in the past, and a token is cached under the time of its renewal,
\* which counts from its arrival.  While an answer is under way the cached token is
\* not the one that was issued last.
RenewAt(t) == IF lives[t] = NoLifetime THEN Never ELSE (came[t] + lives[t]) - renew_margin(lives[t])
RenewalPlaced ==
    /\ \A t \in 1..tokens : born[t] <= tnow
    /\ cached # NoToken => /\ cached.renew_at = RenewAt(cached.value)
                           /\ born[cached.value] <= came[cached.value]
    /\ \A r \in Requests : req[r].pc = "answer" => cached.value < tokens

\* A request that comes back for another token was refused the one it has, and
\* the holder of the mutex has seen that the cached one is of no use.
Wanting == cached = NoToken \/ ~is_fresh(cached) \/ cached.value \in refused
HolderWants ==
    \A r \in Requests :
        /\ req[r].tries = 1 /\ req[r].pc \in {"lock", "exchange", "answer"} => req[r].token \in refused
        /\ req[r].pc \in {"exchange", "answer"} => Wanting
        /\ req[r].pc = "idle" => req[r].tries = 0

TInv == TTyped /\ Mutex /\ RenewalPlaced /\ HolderWants

\* The margin is at most half of the lifetime (renew_margin).
LEMMA MarginHalf ==
    ASSUME NEW life \in Nat
    PROVE  renew_margin(life) \in Nat /\ 2 * renew_margin(life) <= life
    BY TokenSourceAssumption DEF renew_margin, Lesser

\* A token that has just arrived is cached with the time of its renewal.
LEMMA CachedPlaced ==
    ASSUME NEW life \in Lifetimes \cup {NoLifetime}, NEW v \in 1..MaxTokens, tnow \in 0..MaxTnow
    PROVE  LET c == CachedToken(v, life)
           IN /\ c \in [value : 0..MaxTokens, renew_at : Nat] /\ c.value = v
              /\ c.renew_at = IF life = NoLifetime THEN Never
                              ELSE (tnow + life) - renew_margin(life)
    <1>1. CASE life = NoLifetime
      BY <1>1, TokenSourceAssumption DEF CachedToken, Never
    <1>2. CASE life # NoLifetime
      <2>1. life \in Nat
        BY <1>2, TokenSourceAssumption
      <2> DEFINE m == renew_margin(life)
      <2>2. m \in Nat /\ 2 * m <= life
        BY <2>1, MarginHalf
      <2> HIDE DEF m
      <2>3. CachedToken(v, life) = [value |-> v, renew_at |-> (tnow + life) - m]
        BY <1>2 DEF CachedToken, m
      <2>4. (tnow + life) - m \in Nat
        BY <2>1, <2>2, TokenSourceAssumption
      <2> QED BY <1>2, <2>3, <2>4 DEF m
    <1> QED BY <1>1, <1>2

\* Only the record of r changes, to q.
Becomes(r, q) ==
    /\ req' \in [Requests -> Request] /\ req'[r] = q
    /\ \A x \in Requests \ {r} : req'[x] = req[x]

LEMMA GoBecomes ==
    ASSUME NEW r \in Requests, TTyped, NEW q \in Request, Go(r, q)
    PROVE  Becomes(r, q)
    BY DEF TTyped, Go, Becomes

LEMMA TInitInv == TInit => TInv
    BY TokenSourceAssumption DEF TInit, TInv, Request, TTyped, Mutex, RenewalPlaced, HolderWants,
       NoToken, TPcs

\* Every step of a request, and the clock, keeps the invariant.
LEMMA TStepInv == TInv /\ [TNext]_tvars => TInv'
    <1> SUFFICES ASSUME TInv, [TNext]_tvars PROVE TInv'
      OBVIOUS
    <1> USE TokenSourceAssumption DEF TInv, TUnchanged
    <1>1. ASSUME TTick PROVE TInv'
      BY <1>1 DEF TTick, TTyped, Mutex, RenewalPlaced, RenewAt, Never, HolderWants, Wanting, is_fresh, NoToken
    <1>2. ASSUME NEW r \in Requests, with_token(r) PROVE TInv'
      <2>r. req[r] \in Request
        BY DEF TTyped
      <2> DEFINE q == [req[r] EXCEPT !.pc = "lock"]
      <2>1a. q \in Request /\ q.pc = "lock" /\ q.token = req[r].token /\ q.tries = req[r].tries
        BY <2>r DEF Request, TPcs
      <2>1b. Go(r, q)
        BY <1>2 DEF with_token, q
      <2> HIDE DEF q
      <2>1. Becomes(r, q)
        BY <2>1a, <2>1b, GoBecomes
      <2>2. req[r].pc = "idle" /\ UNCHANGED <<holder, cached, tnow, tokens, lives, born, came, refused>>
        BY <1>2 DEF with_token
      <2>3. TTyped' /\ RenewalPlaced'
        BY <2>1a, <2>1, <2>2 DEF TTyped, RenewalPlaced, RenewAt, Never, Becomes
      <2>4. Mutex'
        BY <2>1a, <2>1, <2>2 DEF Mutex, Becomes
      <2>5. HolderWants'
        BY <2>1a, <2>1, <2>2 DEF HolderWants, Wanting, is_fresh, Becomes
      <2> QED BY <2>3, <2>4, <2>5
    <1>3. ASSUME NEW r \in Requests, lock(r) PROVE TInv'
      <2>r. req[r] \in Request
        BY DEF TTyped
      <2>0. /\ req[r].pc = "lock" /\ holder = "free"
            /\ UNCHANGED <<cached, tnow, tokens, lives, born, came, refused>>
        BY <1>3 DEF lock
      <2>1. CASE IF req[r].tries = 0 THEN is_fresh(cached)
                 ELSE cached # NoToken /\ cached.value # req[r].token
        <3>1. cached.value \in 0..MaxTokens /\ cached.value > 0
          BY <2>1 DEF TTyped, is_fresh
        <3> DEFINE q == [req[r] EXCEPT !.pc = "call", !.token = cached.value]
        <3>2a. q \in Request /\ q.pc = "call" /\ q.token = cached.value /\ q.tries = req[r].tries
          BY <2>r, <3>1 DEF Request, TPcs
        <3>2b. Go(r, q)
          BY <1>3, <2>1 DEF lock, q
        <3> HIDE DEF q
        <3>2. Becomes(r, q)
          BY <3>2a, <3>2b, GoBecomes
        <3>3. UNCHANGED holder
          BY <1>3, <2>1 DEF lock
        <3>4. TTyped'
          BY <2>0, <3>1, <3>2a, <3>2, <3>3 DEF TTyped, Becomes
        <3>5. Mutex' /\ RenewalPlaced'
          BY <2>0, <3>2a, <3>2, <3>3 DEF Mutex, RenewalPlaced, RenewAt, Never, Becomes
        <3>6. HolderWants'
          BY <2>0, <3>2a, <3>2, <3>3 DEF HolderWants, Wanting, is_fresh, Becomes
        <3> QED BY <3>4, <3>5, <3>6
      <2>2. CASE ~(IF req[r].tries = 0 THEN is_fresh(cached)
                   ELSE cached # NoToken /\ cached.value # req[r].token)
        <3> DEFINE q == [req[r] EXCEPT !.pc = "exchange"]
        <3>1a. q \in Request /\ q.pc = "exchange" /\ q.token = req[r].token /\ q.tries = req[r].tries
          BY <2>r DEF Request, TPcs
        <3>1b. Go(r, q)
          BY <1>3, <2>2 DEF lock, q
        <3> HIDE DEF q
        <3>1. Becomes(r, q)
          BY <3>1a, <3>1b, GoBecomes
        <3>2. req[r].tries # 0 => req[r].token \in refused
          BY <2>0, <2>r DEF HolderWants, Request
        <3>3. Wanting
          BY <2>2, <3>2 DEF Wanting
        <3>4. holder' = r
          BY <1>3, <2>2 DEF lock
        <3>5. TTyped' /\ Mutex' /\ RenewalPlaced'
          BY <2>0, <3>1a, <3>1, <3>4 DEF TTyped, Mutex, RenewalPlaced, RenewAt, Never, Becomes
        <3>6. HolderWants'
          BY <2>0, <3>1a, <3>1, <3>3, <3>4 DEF TTyped, HolderWants, Wanting, is_fresh, Becomes
        <3> QED BY <3>5, <3>6
      <2> QED BY <2>1, <2>2
    <1>4. ASSUME NEW r \in Requests, issue_token(r) PROVE TInv'
      <2>r. req[r] \in Request
        BY DEF TTyped
      <2>0. /\ req[r].pc = "exchange" /\ holder = r /\ tokens < MaxTokens /\ tokens' = tokens + 1
            /\ born' = [born EXCEPT ![tokens + 1] = tnow]
            /\ UNCHANGED <<tnow, holder, cached, came, refused>>
        BY <1>4 DEF issue_token
      <2>1. PICK life \in Lifetimes : lives' = [lives EXCEPT ![tokens + 1] = life]
        BY <1>4 DEF issue_token
      <2> DEFINE q == [req[r] EXCEPT !.pc = "answer"]
      <2>2a. q \in Request /\ q.pc = "answer" /\ q.token = req[r].token /\ q.tries = req[r].tries
        BY <2>r DEF Request, TPcs
      <2>2b. Go(r, q)
        BY <1>4 DEF issue_token, q
      <2> HIDE DEF q
      <2>2. Becomes(r, q)
        BY <2>2a, <2>2b, GoBecomes
      <2>3. tokens \in Nat /\ tokens + 1 \in 1..MaxTokens /\ 0..tokens \subseteq 0..tokens'
        BY <2>0 DEF TTyped
      <2>4. lives' \in [1..MaxTokens -> Lifetimes \cup {NoLifetime}] /\ born' \in [1..MaxTokens -> Nat]
        <3>1. tnow \in Nat
          BY DEF TTyped
        <3> QED BY <2>0, <2>1, <2>3, <3>1 DEF TTyped
      <2>5. TTyped'
        <3>1. \A z \in Requests : /\ req'[z].token \in 0..tokens'
                                  /\ req'[z].pc = "call" => req'[z].token > 0
                                  /\ req'[z].pc = "answer" => tokens' > 0
          <4>1. ASSUME NEW z \in Requests
                PROVE  req'[z].token = req[z].token /\ (req'[z].pc = "call" => req[z].pc = "call")
            BY <2>2a, <2>2 DEF Becomes
          <4>2. tokens' > 0
            BY <2>0, <2>3
          <4>3. \A z \in Requests : req[z].token \in 0..tokens' /\ (req[z].pc = "call" => req[z].token > 0)
            BY <2>3 DEF TTyped
          <4> QED BY <4>1, <4>2, <4>3
        <3>2. tokens' \in 0..MaxTokens /\ cached'.value \in 0..tokens'
          BY <2>0, <2>3 DEF TTyped
        <3> QED BY <2>0, <2>2, <2>4, <3>1, <3>2 DEF TTyped, Becomes
      <2>6. Mutex'
        BY <2>0, <2>2a, <2>2 DEF Mutex, Becomes
      <2>7. RenewalPlaced'
        <3>1. \A t \in 1..tokens : born'[t] = born[t] /\ lives'[t] = lives[t]
          BY <2>0, <2>1, <2>3 DEF TTyped
        <3>2. \A t \in 1..tokens' : born'[t] <= tnow'
          <4>1. born'[tokens + 1] = tnow /\ tnow \in Nat
            BY <2>0, <2>3 DEF TTyped
          <4>2. \A t \in 1..tokens' : t \in 1..tokens \/ t = tokens + 1
            BY <2>0, <2>3
          <4> QED BY <2>0, <3>1, <4>1, <4>2 DEF RenewalPlaced
        <3>3. ASSUME cached # NoToken
              PROVE  cached.renew_at = RenewAt(cached.value)' /\ born'[cached.value] <= came[cached.value]
          <4>1. cached.value \in 1..tokens
            BY <2>3, <3>3 DEF TTyped
          <4> QED BY <2>0, <3>1, <3>3, <4>1 DEF RenewalPlaced, RenewAt, Never
        <3>4. cached.value < tokens'
          BY <2>0, <2>3 DEF TTyped
        <3> QED BY <2>0, <3>2, <3>3, <3>4 DEF RenewalPlaced, NoToken
      <2>8. HolderWants'
        BY <2>0, <2>2a, <2>2 DEF HolderWants, Wanting, is_fresh, NoToken, Becomes
      <2> QED BY <2>5, <2>6, <2>7, <2>8
    <1>8. ASSUME NEW r \in Requests, exchange_token(r) PROVE TInv'
      <2>r. req[r] \in Request
        BY DEF TTyped
      <2>0. /\ req[r].pc = "answer" /\ holder = r /\ holder' = "free"
            /\ cached' = CachedToken(tokens, lives[tokens]) /\ came' = [came EXCEPT ![tokens] = tnow]
            /\ UNCHANGED <<tnow, tokens, lives, born, refused>>
        BY <1>8 DEF exchange_token
      <2>1. tokens \in 1..MaxTokens /\ tnow \in 0..MaxTnow /\ lives[tokens] \in Lifetimes \cup {NoLifetime}
        BY <2>0 DEF TTyped
      <2> DEFINE x == req[r]
                 t == tokens
                 p == "call"
                 q == [x EXCEPT !.pc = p, !.token = t]
      <2>3p. x \in Request /\ p \in TPcs /\ t \in 0..MaxTokens
        BY <2>r, <2>1 DEF TPcs
      <2>3b. Go(r, q)
        BY <1>8 DEF exchange_token
      <2> HIDE DEF x, t, p
      <2>3c. q \in Request /\ q.pc = p /\ q.token = t /\ q.tries = x.tries
        BY <2>3p DEF Request
      <2> HIDE DEF q
      <2>3a. q \in Request /\ q.pc = "call" /\ q.token = tokens /\ q.tries = req[r].tries
        BY <2>3c DEF x, t, p
      <2>3. Becomes(r, q)
        BY <2>3a, <2>3b, GoBecomes
      <2>4. /\ cached' \in [value : 0..MaxTokens, renew_at : Nat] /\ cached'.value = tokens
            /\ cached'.renew_at = IF lives[tokens] = NoLifetime THEN Never
                                  ELSE (tnow + lives[tokens]) - renew_margin(lives[tokens])
        BY <2>0, <2>1, CachedPlaced
      <2>5. came' \in [1..MaxTokens -> Nat] /\ came'[tokens] = tnow
        <3>1. tnow \in Nat
          BY <2>1
        <3> QED BY <2>0, <2>1, <3>1 DEF TTyped
      <2>9. \A z \in Requests : z # r => ~(req[z].pc \in {"exchange", "answer"})
        BY <2>0 DEF Mutex
      <2>6. TTyped'
        <3>1. tokens \in 0..tokens /\ tokens > 0 /\ tokens \in Nat
          BY <2>1
        <3>2. \A z \in Requests : /\ req'[z].token \in 0..tokens
                                  /\ req'[z].pc = "call" => req'[z].token > 0
                                  /\ req'[z].pc = "answer" => tokens > 0
          BY <2>3a, <2>3, <3>1 DEF TTyped, Becomes
        <3> QED BY <2>0, <2>3, <2>4, <2>5, <3>1, <3>2 DEF TTyped, Becomes
      <2>7. Mutex'
        BY <2>0, <2>3a, <2>3, <2>9 DEF TTyped, Mutex, Becomes
      <2>8. RenewalPlaced'
        <3>1. (cached.renew_at = RenewAt(cached.value))'
          BY <2>0, <2>4, <2>5 DEF RenewAt, Never
        <3>2. born[tokens] <= tnow
          <4>1. tokens \in 1..tokens
            BY <2>1
          <4> QED BY <4>1 DEF RenewalPlaced
        <3>3. \A z \in Requests : req'[z].pc # "answer"
          BY <2>3a, <2>3, <2>9 DEF Becomes
        <3> QED BY <2>0, <2>4, <2>5, <3>1, <3>2, <3>3 DEF RenewalPlaced
      <2>10. HolderWants'
        BY <2>0, <2>3a, <2>3, <2>9 DEF TTyped, Mutex, HolderWants, Becomes
      <2> QED BY <2>6, <2>7, <2>8, <2>10
    <1>9. ASSUME NEW r \in Requests, exchange_fails(r) PROVE TInv'
      <2>r. req[r] \in Request
        BY DEF TTyped
      <2> DEFINE q == [req[r] EXCEPT !.pc = "error"]
      <2>1a. q \in Request /\ q.pc = "error" /\ q.token = req[r].token /\ q.tries = req[r].tries
        BY <2>r DEF Request, TPcs
      <2>1b. Go(r, q)
        BY <1>9 DEF exchange_fails, q
      <2> HIDE DEF q
      <2>1. Becomes(r, q)
        BY <2>1a, <2>1b, GoBecomes
      <2>2. holder = r /\ holder' = "free" /\ UNCHANGED <<cached, tnow, tokens, lives, born, came, refused>>
        BY <1>9 DEF exchange_fails
      <2> QED BY <2>1a, <2>1, <2>2 DEF TTyped, Mutex, RenewalPlaced, RenewAt, Never, HolderWants, Wanting, is_fresh, Becomes
    <1>5. ASSUME NEW r \in Requests, call_upstream(r) PROVE TInv'
      <2>r. req[r] \in Request
        BY DEF TTyped
      <2>0. req[r].pc = "call" /\ UNCHANGED <<tnow, tokens, lives, born, came, holder, cached>>
        BY <1>5 DEF call_upstream
      <2>1. CASE Go(r, [req[r] EXCEPT !.pc = "done"]) /\ UNCHANGED refused
        <3> DEFINE q == [req[r] EXCEPT !.pc = "done"]
        <3>1a. q \in Request /\ q.pc = "done" /\ q.token = req[r].token /\ q.tries = req[r].tries
          BY <2>r DEF Request, TPcs
        <3>1b. Go(r, q)
          BY <2>1 DEF q
        <3> HIDE DEF q
        <3>1. Becomes(r, q)
          BY <3>1a, <3>1b, GoBecomes
        <3>2. UNCHANGED refused
          BY <2>1
        <3> QED BY <2>0, <3>1a, <3>1, <3>2 DEF TTyped, Mutex, RenewalPlaced, RenewAt, Never, HolderWants, Wanting, is_fresh, Becomes
      <2>2. CASE /\ refused' = refused \cup {req[r].token}
                 /\ Go(r, IF req[r].tries = 0
                          THEN [req[r] EXCEPT !.pc = "lock", !.tries = 1]
                          ELSE [req[r] EXCEPT !.pc = "error"])
        <3>0. refused' = refused \cup {req[r].token}
          BY <2>2
        <3>1. CASE req[r].tries = 0
          <4> DEFINE x == req[r]
                     n == 1
                     p == "lock"
                     q == [x EXCEPT !.pc = p, !.tries = n]
          <4>1p. x \in Request /\ p \in TPcs /\ n \in 0..1
            BY <2>r DEF TPcs
          <4>1b. Go(r, q)
            BY <2>2, <3>1
          <4> HIDE DEF x, n, p
          <4>1c. q \in Request /\ q.pc = p /\ q.token = x.token /\ q.tries = n
            BY <4>1p DEF Request
          <4> HIDE DEF q
          <4>1a. q \in Request /\ q.pc = "lock" /\ q.token = req[r].token /\ q.tries = 1
            BY <4>1c DEF x, n, p
          <4>1. Becomes(r, q)
            BY <4>1a, <4>1b, GoBecomes
          <4> QED BY <2>0, <3>0, <4>1a, <4>1 DEF TTyped, Mutex, RenewalPlaced, RenewAt, Never, HolderWants, Wanting, is_fresh, Becomes
        <3>2. CASE req[r].tries # 0
          <4> DEFINE q == [req[r] EXCEPT !.pc = "error"]
          <4>1a. q \in Request /\ q.pc = "error" /\ q.token = req[r].token /\ q.tries = req[r].tries
            BY <2>r DEF Request, TPcs
          <4>1b. Go(r, q)
            BY <2>2, <3>2 DEF q
          <4> HIDE DEF q
          <4>1. Becomes(r, q)
            BY <4>1a, <4>1b, GoBecomes
          <4> QED BY <2>0, <3>0, <4>1a, <4>1 DEF TTyped, Mutex, RenewalPlaced, RenewAt, Never, HolderWants, Wanting, is_fresh, Becomes
        <3> QED BY <3>1, <3>2
      <2> QED BY <1>5, <2>1, <2>2 DEF call_upstream
    <1>6. ASSUME NEW r \in Requests, drop_request(r) PROVE TInv'
      <2>r. req[r] \in Request
        BY DEF TTyped
      <2> DEFINE q == [req[r] EXCEPT !.pc = "error"]
      <2>1a. q \in Request /\ q.pc = "error" /\ q.token = req[r].token /\ q.tries = req[r].tries
        BY <2>r DEF Request, TPcs
      <2>1b. Go(r, q)
        BY <1>6 DEF drop_request, q
      <2> HIDE DEF q
      <2>1. Becomes(r, q)
        BY <2>1a, <2>1b, GoBecomes
      <2>2. /\ holder' = IF holder = r THEN "free" ELSE holder
            /\ UNCHANGED <<cached, tnow, tokens, lives, born, came, refused>>
        BY <1>6 DEF drop_request
      <2> QED BY <2>1a, <2>1, <2>2 DEF TTyped, Mutex, RenewalPlaced, RenewAt, Never, HolderWants, Wanting, is_fresh, Becomes
    <1>7. CASE UNCHANGED tvars
      BY <1>7 DEF tvars, TTyped, Mutex, RenewalPlaced, RenewAt, Never, HolderWants, Wanting, is_fresh
    <1> QED BY <1>1, <1>2, <1>3, <1>4, <1>5, <1>6, <1>7, <1>8, <1>9 DEF TNext

LEMMA TInvariant == TSpec => []TInv
    BY TInitInv, TStepInv, PTL DEF TSpec

\* The margin pays for an answer that took no longer than it, a slower one never
\* makes a token outlive its end by more than it took, and a token in the first
\* half of its lifetime is always reused, for every lifetime, margin and delay
\* (renew_margin, CachedToken::new).
THEOREM MarginAlwaysSound == TSpec => []MarginSound
    <1>1. TInv => MarginSound
      <2> SUFFICES ASSUME TInv, cached # NoToken PROVE MarginSound
        BY DEF MarginSound
      <2> DEFINE t == cached.value
                 life == lives[t]
                 b == born[t]
                 c == came[t]
      <2>1. t \in 1..MaxTokens /\ t \in 1..tokens
        BY TokenSourceAssumption DEF TInv, TTyped
      <2>2. b \in Nat /\ c \in Nat /\ tnow \in 0..MaxTnow /\ life \in Lifetimes \cup {NoLifetime}
        BY <2>1 DEF TInv, TTyped
      <2>3. b <= c /\ cached.renew_at = RenewAt(t)
        BY DEF TInv, RenewalPlaced
      <2>4. is_fresh(cached) <=> tnow < RenewAt(t)
        BY <2>3 DEF is_fresh
      <2>5. CASE life = NoLifetime
        <3>1. Expiry(t) = Never /\ RenewAt(t) = Never
          BY <2>5 DEF Expiry, RenewAt
        <3>2. tnow < Never /\ Never \in Nat
          BY <2>2, TokenSourceAssumption DEF Never
        <3> HIDE DEF b, c, t
        <3>3. tnow < Never + (c - b)
          BY <2>2, <2>3, <3>2
        <3> QED BY <2>4, <2>5, <3>1, <3>2, <3>3 DEF MarginSound, b, c, t
      <2>6. CASE life # NoLifetime
        <3>1. life \in Nat
          BY <2>2, <2>6, TokenSourceAssumption
        <3> DEFINE m == renew_margin(life)
        <3>2. m \in Nat /\ 2 * m <= life
          BY <3>1, MarginHalf
        <3>3. \A d \in Nat : d <= MAX_RENEW_MARGIN /\ 2 * d <= life => d <= m
          BY <3>1, TokenSourceAssumption DEF renew_margin, Lesser
        <3>4. Expiry(t) = b + life /\ RenewAt(t) = (c + life) - m
          BY <2>6 DEF Expiry, RenewAt
        <3> HIDE DEF m, life, b, c
        <3>5. tnow < (c + life) - m => tnow < (b + life) + (c - b)
          BY <2>2, <3>1, <3>2
        <3>6. tnow < (c + life) - m /\ c - b <= m => tnow < b + life
          BY <2>2, <3>1, <3>2
        <3>7. c - b \in Nat
          BY <2>2, <2>3
        <3>8. 2 * (tnow - c) < life => tnow < (c + life) - m
          BY <2>2, <3>1, <3>2
        <3>9. c - b <= MAX_RENEW_MARGIN /\ 2 * (c - b) <= life => c - b <= m
          BY <3>3, <3>7
        <3> HIDE DEF t
        <3> QED BY <2>4, <2>6, <3>4, <3>5, <3>6, <3>8, <3>9 DEF MarginSound, t, life, b, c
      <2> QED BY <2>5, <2>6
    <1> QED BY <1>1, TInvariant, PTL

\* However many requests find the token wanting, it is exchanged once: only the
\* holder of the mutex replaces it, and it looked again (TokenSource::current,
\* renew_rejected).
THEOREM TokenExchangedOnce == TSpec => ExchangedOnce
    <1>1. TInv /\ [TNext]_tvars =>
            [cached' # cached /\ cached # NoToken
               => ~is_fresh(cached) \/ cached.value \in refused]_tvars
      <2> SUFFICES ASSUME TInv, TNext, cached' # cached, cached # NoToken
                   PROVE  ~is_fresh(cached) \/ cached.value \in refused
        BY DEF tvars
      <2>1. PICK r \in Requests : exchange_token(r)
        BY DEF TNext, TTick, with_token, lock, issue_token, exchange_fails, call_upstream, drop_request
      <2> QED BY <2>1 DEF exchange_token, TInv, HolderWants, Wanting
    <1> QED BY <1>1, TInvariant, PTL DEF TSpec, ExchangedOnce

----------------------------------------------------------------------------
(* SecretStore.                                                               *)

Answer == [value : 0..MaxVersions, ref : Refs, at : Nat]
Resolving == [pc : {"idle", "send", "back"}, ref : Refs, tries : 0..RemoteRetries,
              value : 0..MaxVersions, read : Nat]
Kept == [value : 0..MaxVersions, expires_at : Nat]
Bound(f) == IF BackendOf[f] \in Remote THEN Ttl + MaxDelay ELSE 0

\* Version v of f, if it was replaced, was replaced no earlier than b before t.
Fits(f, v, t, b) == v > 0 /\ v < current[f] => t <= since[f][v + 1] + b

STyped ==
    /\ snow \in 0..MaxSnow
    /\ configured \in [Remote -> {"absent", "refused", "env", "file"}]
    /\ current \in [Refs -> 1..MaxVersions]
    /\ since \in [Refs -> [1..MaxVersions -> Nat]]
    /\ cache \in [Refs -> Kept]
    /\ resolver \in [Resolvers -> Resolving]
    /\ result \in [Resolvers -> Answer]

\* What was handed out, what is kept and what is on its way is at most as far
\* behind as its bound says.
ResultFits(r) ==
    r.at <= snow /\ r.value <= current[r.ref] /\ Fits(r.ref, r.value, r.at, Bound(r.ref))
EntryFits(f, e) ==
    /\ e.value <= current[f] /\ e.expires_at <= snow + Ttl
    /\ Fits(f, e.value, e.expires_at, Ttl + MaxDelay)
AnswerFits(a) ==
    /\ a.pc # "idle" => BackendOf[a.ref] \in Remote
    /\ a.pc = "back" =>
          /\ a.value \in 1..current[a.ref]
          /\ a.read <= snow /\ snow <= a.read + MaxDelay
          /\ Fits(a.ref, a.value, a.read, 0)

SInv ==
    /\ STyped
    /\ \A x \in Resolvers : ResultFits(result[x]) /\ AnswerFits(resolver[x])
    /\ \A f \in Refs : EntryFits(f, cache[f])

\* A resolver that is idle waits for nothing.
LEMMA IdleFacts == IdleR \in Resolving /\ IdleR.pc = "idle" /\ IdleR.ref \in Refs
    <1>1. (CHOOSE f \in Refs : TRUE) \in Refs
      BY SecretStoreAssumption
    <1> QED BY <1>1, SecretStoreAssumption DEF IdleR, Resolving

\* A backend is absent, refused or has a token of its own
\* (secret_store_from_config).
LEMMA AssembledKinds ==
    secret_store_from_config \subseteq {"absent", "refused", "env", "file"}
    BY DEF secret_store_from_config, resolve_bootstrap_token

LEMMA SInitInv == SInit => SInv
    <1> SUFFICES ASSUME SInit PROVE SInv
      OBVIOUS
    <1>1. STyped
      <2>1. configured \in [Remote -> {"absent", "refused", "env", "file"}]
        BY AssembledKinds DEF SInit
      <2>2. snow \in 0..MaxSnow /\ cache \in [Refs -> Kept]
        BY SecretStoreAssumption DEF SInit, Kept, NoEntry
      <2>3. current \in [Refs -> 1..MaxVersions] /\ since \in [Refs -> [1..MaxVersions -> Nat]]
        BY SecretStoreAssumption DEF SInit
      <2>4. resolver \in [Resolvers -> Resolving] /\ result \in [Resolvers -> Answer]
        BY SecretStoreAssumption, IdleFacts DEF SInit, Answer
      <2> QED BY <2>1, <2>2, <2>3, <2>4 DEF STyped
    <1>2. \A x \in Resolvers : ResultFits(result[x]) /\ AnswerFits(resolver[x])
      BY SecretStoreAssumption, IdleFacts DEF SInit, ResultFits, AnswerFits, Fits
    <1>3. \A f \in Refs : EntryFits(f, cache[f])
      BY SecretStoreAssumption DEF SInit, EntryFits, Fits, NoEntry
    <1> QED BY <1>1, <1>2, <1>3 DEF SInv

\* A replaced version was current up to now.
LEMMA RotateFits ==
    ASSUME STyped, NEW g \in Refs, Rotate(g),
           NEW f \in Refs, NEW v \in 0..MaxVersions, NEW t \in Nat, NEW b \in Nat,
           v <= current[f], t <= snow + b, Fits(f, v, t, b)
    PROVE  /\ v <= current'[f]
           /\ v > 0 /\ v < current'[f] => t <= since'[f][v + 1] + b
    <1>1. /\ current[g] \in 1..MaxVersions /\ current[f] \in 1..MaxVersions
          /\ current[g] < MaxVersions /\ snow \in Nat
          /\ since[f] \in [1..MaxVersions -> Nat]
      BY DEF STyped, Rotate
    <1>2. current'[f] = IF f = g THEN current[f] + 1 ELSE current[f]
      BY DEF STyped, Rotate
    <1>3. since'[f] = IF f = g THEN [since[f] EXCEPT ![current[f] + 1] = snow] ELSE since[f]
      BY DEF STyped, Rotate
    <1>4. CASE f # g
      BY <1>1, <1>2, <1>3, <1>4 DEF Fits
    <1>5. CASE f = g
      <2>1. CASE v < current[f]
        <3>1. since'[f][v + 1] = since[f][v + 1]
          BY <1>1, <1>3, <1>5, <2>1, SecretStoreAssumption
        <3> QED BY <1>1, <1>2, <1>5, <2>1, <3>1 DEF Fits
      <2>2. CASE v = current[f]
        <3>1. since'[f][v + 1] = snow
          BY <1>1, <1>3, <1>5, <2>2, SecretStoreAssumption
        <3> QED BY <1>1, <1>2, <1>5, <2>2, <3>1 DEF Fits
      <2> QED BY <1>1, <2>1, <2>2
    <1> QED BY <1>4, <1>5

\* A version that is current is not behind.
LEMMA CurrentFits ==
    ASSUME STyped, NEW f \in Refs, NEW t, NEW b
    PROVE  Fits(f, current[f], t, b) /\ Fits(f, 0, t, b)
    BY SecretStoreAssumption DEF Fits, STyped

\* A step that leaves the clock and the secrets alone is judged in its own state.
LEMMA StillFits ==
    ASSUME SInv, UNCHANGED <<snow, configured, current, since>>,
           cache' \in [Refs -> Kept], resolver' \in [Resolvers -> Resolving],
           result' \in [Resolvers -> Answer],
           \A x \in Resolvers : ResultFits(result'[x]) /\ AnswerFits(resolver'[x]),
           \A f \in Refs : EntryFits(f, cache'[f])
    PROVE  SInv'
    BY DEF SInv, STyped, ResultFits, AnswerFits, EntryFits, Fits, Bound

\* Giving version v of the resolver's reference, or nothing, ends the resolution.
LEMMA GiveFits ==
    ASSUME SInv, NEW x \in Resolvers, NEW v \in 0..MaxVersions, Give(x, v),
           v <= current[resolver[x].ref],
           Fits(resolver[x].ref, v, snow, Bound(resolver[x].ref))
    PROVE  /\ resolver' \in [Resolvers -> Resolving] /\ result' \in [Resolvers -> Answer]
           /\ \A y \in Resolvers : ResultFits(result'[y]) /\ AnswerFits(resolver'[y])
    <1> DEFINE r == [value |-> v, ref |-> resolver[x].ref, at |-> snow]
    <1>1. snow \in Nat /\ resolver[x].ref \in Refs /\ snow <= snow
      BY DEF SInv, STyped, Resolving
    <1>2. r \in Answer /\ ResultFits(r)
      BY <1>1 DEF Answer, ResultFits
    <1>3. AnswerFits(IdleR) /\ IdleR \in Resolving
      BY IdleFacts DEF AnswerFits
    <1>4. resolver' = [resolver EXCEPT ![x] = IdleR] /\ result' = [result EXCEPT ![x] = r]
      BY DEF Give, Set1
    <1> HIDE DEF r
    <1> QED BY <1>2, <1>3, <1>4 DEF SInv, STyped

LEMMA SStepInv == SInv /\ [SNext]_svars => SInv'
    <1> SUFFICES ASSUME SInv, [SNext]_svars PROVE SInv'
      OBVIOUS
    <1>0. STyped /\ snow \in Nat
      BY DEF SInv, STyped
    <1>1. ASSUME STick PROVE SInv'
      <2>1. /\ snow' = snow + 1 /\ snow < MaxSnow
            /\ UNCHANGED <<configured, current, since, cache, resolver, result>>
        BY <1>1 DEF STick
      <2>2. STyped' /\ snow' \in Nat
        BY <1>0, <2>1, SecretStoreAssumption DEF STyped
      <2>3. ASSUME NEW x \in Resolvers PROVE ResultFits(result[x])'
        <3>1. result[x].at \in Nat /\ ResultFits(result[x])
          BY <1>0 DEF SInv, STyped, Answer
        <3> QED BY <1>0, <2>1, <3>1 DEF ResultFits, Fits, Bound
      <2>4. ASSUME NEW x \in Resolvers PROVE AnswerFits(resolver[x])'
        <3>1. resolver[x].read \in Nat /\ AnswerFits(resolver[x])
              /\ (resolver[x].pc = "back" => snow - resolver[x].read < MaxDelay)
          BY <1>0, <1>1 DEF SInv, STyped, Resolving, STick
        <3> QED BY <1>0, <2>1, <3>1, SecretStoreAssumption DEF AnswerFits, Fits
      <2>5. ASSUME NEW f \in Refs PROVE EntryFits(f, cache[f])'
        <3>1. cache[f].expires_at \in Nat /\ EntryFits(f, cache[f])
          BY <1>0 DEF SInv, STyped, Kept
        <3> QED BY <1>0, <2>1, <3>1, SecretStoreAssumption DEF EntryFits, Fits
      <2> QED BY <2>2, <2>3, <2>4, <2>5 DEF SInv
    <1>2. ASSUME NEW g \in Refs, Rotate(g) PROVE SInv'
      <2>0. UNCHANGED <<snow, configured, cache, resolver, result>>
        BY <1>2 DEF Rotate
      <2>1. STyped'
        <3>1. current' \in [Refs -> 1..MaxVersions]
          <4>1. current[g] + 1 \in 1..MaxVersions /\ current \in [Refs -> 1..MaxVersions]
            BY <1>0, <1>2, SecretStoreAssumption DEF STyped, Rotate
          <4>2. current' = [current EXCEPT ![g] = current[g] + 1]
            BY <1>0, <1>2 DEF STyped, Rotate
          <4> QED BY <4>1, <4>2
        <3>2. since[g] \in [1..MaxVersions -> Nat]
          BY <1>0 DEF STyped
        <3>3. [since[g] EXCEPT ![current[g] + 1] = snow] \in [1..MaxVersions -> Nat]
          BY <1>0, <3>2
        <3>4. since' = [since EXCEPT ![g] = [since[g] EXCEPT ![current[g] + 1] = snow]]
          BY <1>0, <1>2 DEF STyped, Rotate
        <3>5. since' \in [Refs -> [1..MaxVersions -> Nat]]
          BY <1>0, <3>3, <3>4 DEF STyped
        <3> QED BY <1>0, <2>0, <3>1, <3>5 DEF STyped
      <2>2. ASSUME NEW x \in Resolvers PROVE ResultFits(result[x])'
        <3> DEFINE r == result[x]
        <3>1. r \in Answer /\ ResultFits(r)
          BY <1>0 DEF SInv, STyped
        <3>2. r.ref \in Refs /\ r.value \in 0..MaxVersions /\ r.at \in Nat
              /\ Bound(r.ref) \in Nat /\ r.at <= snow + Bound(r.ref)
          BY <1>0, <3>1, SecretStoreAssumption DEF Answer, ResultFits, Bound
        <3>3. /\ r.value <= current'[r.ref]
              /\ r.value > 0 /\ r.value < current'[r.ref]
                   => r.at <= since'[r.ref][r.value + 1] + Bound(r.ref)
          BY <1>0, <1>2, <3>1, <3>2, RotateFits DEF ResultFits
        <3>4. result'[x] = r /\ snow' = snow /\ Bound(r.ref)' = Bound(r.ref)
          BY <2>0 DEF Bound
        <3>5. Bound(result'[x].ref) = Bound(r.ref)
          BY <3>4
        <3> HIDE DEF r
        <3> QED BY <3>1, <3>3, <3>4, <3>5 DEF ResultFits, Fits
      <2>3. ASSUME NEW x \in Resolvers PROVE AnswerFits(resolver[x])'
        <3> DEFINE a == resolver[x]
        <3>1. a \in Resolving /\ AnswerFits(a)
          BY <1>0 DEF SInv, STyped
        <3>2. CASE a.pc = "back"
          <4>1. a.ref \in Refs /\ a.value \in 0..MaxVersions /\ a.read \in Nat
                /\ a.read <= snow + 0 /\ a.value <= current[a.ref]
            BY <1>0, <3>1, <3>2 DEF Resolving, AnswerFits, STyped
          <4>2. /\ a.value <= current'[a.ref]
                /\ a.value > 0 /\ a.value < current'[a.ref]
                     => a.read <= since'[a.ref][a.value + 1] + 0
            BY <1>0, <1>2, <3>1, <3>2, <4>1, RotateFits DEF AnswerFits
          <4>3. current'[a.ref] \in Nat
            BY <2>1, <4>1 DEF STyped
          <4>4. resolver'[x] = a /\ snow' = snow
            BY <2>0
          <4> HIDE DEF a
          <4> QED BY <3>1, <3>2, <4>1, <4>2, <4>3, <4>4 DEF AnswerFits, Fits
        <3>3. CASE a.pc # "back"
          BY <2>0, <3>1, <3>3 DEF AnswerFits
        <3> QED BY <3>2, <3>3
      <2>4. ASSUME NEW f \in Refs PROVE EntryFits(f, cache[f])'
        <3> DEFINE e == cache[f]
        <3>1. e \in Kept /\ EntryFits(f, e)
          BY <1>0 DEF SInv, STyped
        <3>2. e.value \in 0..MaxVersions /\ e.expires_at \in Nat /\ Ttl + MaxDelay \in Nat
              /\ e.expires_at <= snow + (Ttl + MaxDelay)
          BY <1>0, <3>1, SecretStoreAssumption DEF Kept, EntryFits
        <3>3. /\ e.value <= current'[f]
              /\ e.value > 0 /\ e.value < current'[f]
                   => e.expires_at <= since'[f][e.value + 1] + (Ttl + MaxDelay)
          BY <1>0, <1>2, <3>1, <3>2, RotateFits DEF EntryFits
        <3>4. cache'[f] = e /\ snow' = snow
          BY <2>0
        <3> HIDE DEF e
        <3> QED BY <3>1, <3>3, <3>4 DEF EntryFits, Fits
      <2> QED BY <2>1, <2>2, <2>3, <2>4 DEF SInv
    <1>3. ASSUME NEW x \in Resolvers, fetch_remote(x) PROVE SInv'
      <2> DEFINE f == resolver[x].ref
                 b == [resolver[x] EXCEPT !.pc = "back", !.value = current[f], !.read = snow]
                 n == [resolver[x] EXCEPT !.tries = @ + 1]
      <2>0. /\ resolver[x].pc = "send" /\ f \in Refs /\ resolver[x] \in Resolving
            /\ AnswerFits(resolver[x]) /\ current[f] \in 1..MaxVersions
            /\ UNCHANGED <<snow, configured, current, since, cache>>
        BY <1>0, <1>3 DEF fetch_remote, SInv, STyped, Resolving
      <2>1. ASSUME NEW q \in Resolving, AnswerFits(q), Set1(x, q), UNCHANGED result
            PROVE  SInv'
        <3>1. resolver' = [resolver EXCEPT ![x] = q]
          BY <2>1 DEF Set1
        <3> QED BY <1>0, <2>0, <2>1, <3>1, StillFits DEF SInv, STyped
      <2>2. CASE Set1(x, b) /\ UNCHANGED result
        <3> DEFINE y == resolver[x]
                   p == "back"
                   v == current[f]
                   q == [y EXCEPT !.pc = p, !.value = v, !.read = snow]
        <3>1. y \in Resolving /\ p \in {"idle", "send", "back"} /\ v \in 0..MaxVersions
              /\ y.ref = f
          BY <2>0, SecretStoreAssumption
        <3>2. Set1(x, q) /\ UNCHANGED result
          BY <2>2
        <3> HIDE DEF y, p, v
        <3>3. q \in Resolving /\ q.pc = p /\ q.value = v /\ q.read = snow /\ q.ref = y.ref
          BY <1>0, <3>1 DEF Resolving
        <3> HIDE DEF q
        <3>4. AnswerFits(q)
          BY <1>0, <2>0, <3>1, <3>3, CurrentFits, SecretStoreAssumption DEF AnswerFits, p, v, y
        <3> QED BY <2>1, <3>2, <3>3, <3>4
      <2>3. CASE resolver[x].tries < RemoteRetries /\ Set1(x, n) /\ UNCHANGED result
        <3> DEFINE y == resolver[x]
                   t == resolver[x].tries + 1
                   q == [y EXCEPT !.tries = t]
        <3>1. y \in Resolving /\ t \in 0..RemoteRetries
          BY <2>0, <2>3, SecretStoreAssumption DEF Resolving
        <3>2. Set1(x, q) /\ UNCHANGED result
          BY <2>3
        <3> HIDE DEF y, t
        <3>3. q \in Resolving /\ q.pc = y.pc /\ q.ref = y.ref
          BY <3>1 DEF Resolving
        <3> HIDE DEF q
        <3>4. AnswerFits(q)
          BY <2>0, <3>3 DEF AnswerFits, y
        <3> QED BY <2>1, <3>2, <3>3, <3>4
      <2>4. CASE Give(x, 0)
        <3>1. 0 \in 0..MaxVersions /\ 0 <= current[f] /\ Fits(f, 0, snow, Bound(f))
          BY <1>0, <2>0, CurrentFits, SecretStoreAssumption
        <3>2. /\ resolver' \in [Resolvers -> Resolving] /\ result' \in [Resolvers -> Answer]
              /\ \A y \in Resolvers : ResultFits(result'[y]) /\ AnswerFits(resolver'[y])
          BY <2>4, <3>1, GiveFits
        <3> QED BY <1>0, <2>0, <3>2, StillFits DEF SInv, STyped
      <2> QED BY <1>3, <2>2, <2>3, <2>4 DEF fetch_remote
    <1>4. ASSUME NEW x \in Resolvers, resolve_remote(x) PROVE SInv'
      <2> DEFINE a == resolver[x]
                 e == [value |-> a.value, expires_at |-> snow + Ttl]
      <2>0. /\ a \in Resolving /\ AnswerFits(a) /\ a.pc = "back" /\ Give(x, a.value)
            /\ cache' = SInsert(a.ref, a.value)
            /\ UNCHANGED <<snow, configured, current, since>>
        BY <1>0, <1>4 DEF resolve_remote, SInv, STyped
      <2>1. /\ a.ref \in Refs /\ a.value \in 1..MaxVersions /\ a.read \in Nat
            /\ a.value <= current[a.ref] /\ current[a.ref] \in 1..MaxVersions
            /\ since[a.ref] \in [1..MaxVersions -> Nat]
        <3>1. a.ref \in Refs /\ a.value \in 0..MaxVersions /\ a.read \in Nat
          BY <2>0 DEF Resolving
        <3>2. current[a.ref] \in 1..MaxVersions /\ since[a.ref] \in [1..MaxVersions -> Nat]
          BY <1>0, <3>1 DEF STyped
        <3>3. a.value \in 1..current[a.ref]
          BY <2>0 DEF AnswerFits
        <3> QED BY <3>1, <3>2, <3>3, SecretStoreAssumption
      <2>2. Bound(a.ref) = Ttl + MaxDelay
        BY <2>0 DEF AnswerFits, Bound
      <2>3. /\ Fits(a.ref, a.value, snow, Ttl + MaxDelay)
            /\ Fits(a.ref, a.value, snow + Ttl, Ttl + MaxDelay)
        <3>1. /\ snow <= a.read + MaxDelay /\ Fits(a.ref, a.value, a.read, 0)
          BY <2>0 DEF AnswerFits
        <3> DEFINE v == a.value
                   z == since[a.ref]
                   w == current[a.ref]
                   t == a.read
        <3>2. /\ v \in 1..MaxVersions /\ w \in 1..MaxVersions /\ t \in Nat
              /\ z \in [1..MaxVersions -> Nat] /\ (v > 0 /\ v < w => t <= z[v + 1] + 0)
              /\ snow <= t + MaxDelay
          BY <2>1, <3>1 DEF Fits
        <3> HIDE DEF v, z, w, t
        <3>3. v > 0 /\ v < w => v + 1 \in 1..MaxVersions
          BY <3>2, SecretStoreAssumption
        <3>4. v > 0 /\ v < w => /\ snow <= z[v + 1] + (Ttl + MaxDelay)
                               /\ snow + Ttl <= z[v + 1] + (Ttl + MaxDelay)
          BY <1>0, <3>2, <3>3, SecretStoreAssumption
        <3> QED BY <3>4 DEF Fits, v, z, w
      <2>4. e \in Kept /\ EntryFits(a.ref, e)
        <3>1. a.value \in 0..MaxVersions /\ snow + Ttl \in Nat /\ snow + Ttl <= snow + Ttl
          BY <1>0, <2>1, SecretStoreAssumption
        <3>2. e.value = a.value /\ e.expires_at = snow + Ttl
          OBVIOUS
        <3> QED BY <2>1, <2>3, <3>1, <3>2 DEF Kept, EntryFits
      <2>5. cache' = cache \/ cache' = [cache EXCEPT ![a.ref] = e]
        BY <2>0 DEF SInsert
      <2> HIDE DEF e
      <2>6. cache' \in [Refs -> Kept] /\ \A f \in Refs : EntryFits(f, cache'[f])
        BY <1>0, <2>4, <2>5 DEF SInv, STyped
      <2>7. a.value \in 0..MaxVersions
        BY <2>1, SecretStoreAssumption
      <2>8. /\ resolver' \in [Resolvers -> Resolving] /\ result' \in [Resolvers -> Answer]
            /\ \A y \in Resolvers : ResultFits(result'[y]) /\ AnswerFits(resolver'[y])
        BY <2>0, <2>1, <2>2, <2>3, <2>7, GiveFits
      <2> QED BY <2>0, <2>6, <2>8, StillFits
    <1>5. ASSUME NEW x \in Resolvers, NEW f \in Refs, resolve(x, f) PROVE SInv'
      <2>0. current[f] \in 1..MaxVersions /\ UNCHANGED <<snow, configured, current, since>>
        BY <1>0, <1>5 DEF resolve, STyped
      <2>1. ASSUME NEW v \in 0..MaxVersions, v <= current[f], Fits(f, v, snow, Bound(f)),
                   result' = [result EXCEPT ![x] = [value |-> v, ref |-> f, at |-> snow]]
            PROVE  result' \in [Resolvers -> Answer]
                   /\ \A y \in Resolvers : ResultFits(result'[y])
        <3> DEFINE r == [value |-> v, ref |-> f, at |-> snow]
        <3>1. r \in Answer /\ ResultFits(r)
          BY <1>0, <2>1 DEF Answer, ResultFits
        <3> HIDE DEF r
        <3>2. result' = [result EXCEPT ![x] = r]
          BY <2>1 DEF r
        <3> QED BY <1>0, <3>1, <3>2 DEF SInv, STyped
      <2>2. CASE BackendOf[f] \notin Remote
        <3>1. PICK v \in {0, current[f]} :
                 result' = [result EXCEPT ![x] = [value |-> v, ref |-> f, at |-> snow]]
          BY <1>5, <2>2 DEF resolve
        <3>2. UNCHANGED <<resolver, cache>>
          BY <1>5, <2>2 DEF resolve
        <3>3. v \in 0..MaxVersions /\ v <= current[f] /\ Fits(f, v, snow, Bound(f))
          BY <1>0, <2>0, CurrentFits, SecretStoreAssumption
        <3> QED BY <1>0, <2>0, <2>1, <3>1, <3>2, <3>3, StillFits DEF SInv, STyped
      <2>3. CASE BackendOf[f] \in Remote
        <3>1. cache' = [cache EXCEPT ![f] = get(f)]
          BY <1>5, <2>3 DEF resolve, Looked
        <3>2. get(f) \in Kept /\ EntryFits(f, get(f))
          <4>1. NoEntry \in Kept /\ EntryFits(f, NoEntry)
            BY <1>0, <2>0, SecretStoreAssumption DEF NoEntry, Kept, EntryFits, Fits
          <4>2. cache[f] \in Kept /\ EntryFits(f, cache[f])
            BY <1>0 DEF SInv, STyped
          <4> QED BY <4>1, <4>2 DEF get
        <3>3. cache' \in [Refs -> Kept] /\ \A g \in Refs : EntryFits(g, cache'[g])
          BY <1>0, <3>1, <3>2 DEF SInv, STyped
        <3>4. CASE get(f) # NoEntry
          <4> DEFINE v == get(f).value
          <4>1. result' = [result EXCEPT ![x] = [value |-> v, ref |-> f, at |-> snow]]
                /\ UNCHANGED resolver
            BY <1>5, <2>3, <3>4 DEF resolve
          <4>2. snow < get(f).expires_at
            BY <3>4 DEF get
          <4>3. v \in 0..MaxVersions /\ get(f).expires_at \in Nat /\ v <= current[f]
                /\ Fits(f, v, get(f).expires_at, Ttl + MaxDelay)
            BY <3>2 DEF Kept, EntryFits
          <4>4. since[f] \in [1..MaxVersions -> Nat]
            BY <1>0 DEF STyped
          <4>5. Fits(f, v, snow, Bound(f))
            BY <1>0, <2>0, <2>3, <4>2, <4>3, <4>4, SecretStoreAssumption DEF Fits, Bound
          <4> QED BY <1>0, <2>0, <2>1, <3>3, <4>1, <4>3, <4>5, StillFits DEF SInv, STyped
        <3>5. CASE get(f) = NoEntry
          <4> DEFINE i == IdleR
                     p == "send"
                     q == [i EXCEPT !.pc = p, !.ref = f]
          <4>1. i \in Resolving /\ p \in {"idle", "send", "back"}
            BY IdleFacts
          <4>2. Set1(x, q) /\ UNCHANGED result
            BY <1>5, <2>3, <3>5 DEF resolve
          <4> HIDE DEF i, p
          <4>3. q \in Resolving /\ q.pc = p /\ q.ref = f
            BY <4>1 DEF Resolving
          <4> HIDE DEF q
          <4>4. AnswerFits(q)
            BY <2>3, <4>3 DEF AnswerFits, p
          <4>5. resolver' = [resolver EXCEPT ![x] = q]
            BY <4>2 DEF Set1
          <4> QED BY <1>0, <2>0, <3>3, <4>2, <4>3, <4>4, <4>5, StillFits DEF SInv, STyped
        <3> QED BY <3>4, <3>5
      <2> QED BY <2>2, <2>3
    <1>7. CASE UNCHANGED svars
      BY <1>7 DEF svars, SInv, STyped, ResultFits, AnswerFits, EntryFits, Fits, Bound
    <1> QED BY <1>1, <1>2, <1>3, <1>4, <1>5, <1>7 DEF SNext

LEMMA SInvariant == SSpec => []SInv
    BY SInitInv, SStepInv, PTL DEF SSpec

\* A replaced secret is handed out for at most the life of a cache entry and the
\* way of an answer, whatever answers overtake each other (resolve_remote).
THEOREM StalenessBounded == SSpec => []StaleBounded
    <1>1. SInv => StaleBounded
      BY DEF SInv, ResultFits, Fits, Bound, StaleBounded
    <1> QED BY <1>1, SInvariant, PTL

----------------------------------------------------------------------------
(* UpstreamOAuth.                                                             *)

Maybe == Servers \cup {"none"}
Cred == [rt : 0..MaxRt, key : EncKeys \cup {"none"}]
Slot == [gen : Nat, rt : 0..MaxRt]
Link == [server : Maybe, expires : Nat, gen : Nat]
Worker == [pc : {"idle", "load", "token", "save"}, server : Maybe, rt : 0..MaxRt,
           gen : Nat, kind : {"connect", "use"}]
Revocation == [pc : {"idle", "delete", "reconnect"}, server : Maybe, links : SUBSET States]

OTyped ==
    /\ onow \in Nat /\ sealed \in BOOLEAN /\ encKey \in EncKeys
    /\ row \in [Servers -> Cred] /\ memory \in [Servers -> Slot]
    /\ pending \in [States -> Link] /\ exchange \in [States -> Link]
    /\ started \in 0..MaxStates /\ issued \in 0..MaxRt
    /\ valid \in [Servers -> SUBSET Nat]
    /\ admin \in Revocation /\ (admin.pc # "idle" => admin.server \in Servers)
    /\ want \subseteq Servers /\ worker \in [Workers -> Worker]
    /\ health \in [Servers -> {"none", "auth_required", "failed", "live"}]
    /\ used \in [States -> Nat]

\* Tokens that somebody has were issued; a worker at work has a server.
Issued ==
    /\ \A w \in Workers :
          /\ worker[w].pc # "idle" => worker[w].server \in Servers
          /\ worker[w].pc \in {"token", "save"} => worker[w].rt \in 1..issued
    /\ \A s \in Servers : /\ row[s].rt <= issued /\ memory[s].rt <= issued
                          /\ row[s] # NoCred => row[s].rt > 0

\* A link that can still be used was not used or revoked before, and was given out.
LinksFresh ==
    \A st \in States :
        /\ used[st] <= (IF st \in dead THEN 0 ELSE 1)
        /\ pending[st] # NoLink => /\ pending[st].server # "none"
                                   /\ used[st] = 0 /\ st \notin dead /\ st <= started
        /\ st > started => used[st] = 0 /\ st \notin dead

Stored(s) == IF sealed THEN row[s].rt ELSE memory[s].rt

\* A worker is about to store a token of s where the next load will find it.
Saving(w, s) ==
    /\ worker[w].pc = "save" /\ worker[w].server = s
    /\ sealed \/ worker[w].gen = memory[s].gen

\* A token that is about to be stored is accepted and nobody else has it.
SavedFresh ==
    \A w \in Workers : worker[w].pc = "save" =>
        /\ worker[w].rt \in valid[worker[w].server]
        /\ \A s \in Servers : row[s].rt # worker[w].rt /\ memory[s].rt # worker[w].rt
        /\ \A v \in Workers \ {w} : worker[v].pc \in {"token", "save"}
                                     => worker[v].rt # worker[w].rt

\* Whoever has the token of the memory store belongs to its generation.
SameGeneration ==
    \A w \in Workers : worker[w].pc = "token" =>
        (memory[worker[w].server].rt = worker[w].rt =>
           worker[w].gen = memory[worker[w].server].gen)

StoredCovered ==
    \A s \in Servers : Stored(s) > 0 =>
        Stored(s) \in valid[s] \/ s \in lost \/ \E w \in Workers : Saving(w, s)

Tokens == Issued /\ SavedFresh /\ SameGeneration /\ StoredCovered
OInv == OTyped /\ LinksFresh /\ Tokens

LEMMA OInitInv == OInit => OInv
    <1> SUFFICES ASSUME OInit PROVE OInv
      OBVIOUS
    <1>1. (CHOOSE k \in EncKeys : TRUE) \in EncKeys
      BY UpstreamOAuthAssumption
    <1>2. NoCred \in Cred /\ NoLink \in Link /\ NoRevoke \in Revocation /\ IdleW \in Worker
          /\ [gen |-> 0, rt |-> 0] \in Slot
      BY UpstreamOAuthAssumption DEF NoCred, Cred, NoLink, Link, NoRevoke, Revocation, IdleW,
         Worker, Slot, Maybe
    <1>3. OTyped
      BY <1>1, <1>2, UpstreamOAuthAssumption DEF OInit, OTyped, States, NoRevoke
    <1>4. LinksFresh
      BY DEF OInit, LinksFresh, States
    <1>5. Tokens
      BY UpstreamOAuthAssumption DEF OInit, Tokens, Issued, SavedFresh, SameGeneration, StoredCovered, Stored, Saving, IdleW, NoCred
    <1> QED BY <1>3, <1>4, <1>5 DEF OInv

\* Links and tokens do not depend on the other half of the state.
LEMMA LinksFrame ==
    ASSUME LinksFresh, UNCHANGED <<used, dead, pending, started>>
    PROVE  LinksFresh'
    BY DEF LinksFresh

LEMMA TokensFrame ==
    ASSUME Tokens, UNCHANGED <<row, memory, worker, valid, issued, sealed, lost>>
    PROVE  Tokens'
    BY DEF Tokens, Issued, SavedFresh, SameGeneration, StoredCovered, Stored, Saving

LEMMA WorkerSet ==
    ASSUME OTyped, NEW w \in Workers, NEW q \in Worker, worker' = [worker EXCEPT ![w] = q]
    PROVE  /\ worker' \in [Workers -> Worker] /\ worker'[w] = q
           /\ \A v \in Workers \ {w} : worker'[v] = worker[v]
    BY DEF OTyped

\* A worker without a token to store may take up or give up anything.
LEMMA WorkerRests ==
    ASSUME OTyped, Tokens, NEW w \in Workers, NEW q \in Worker,
           worker' = [worker EXCEPT ![w] = q], worker[w].pc # "save",
           q.pc = "idle" \/ (q.pc = "load" /\ q.server \in Servers),
           UNCHANGED <<row, memory, valid, issued, sealed, lost>>
    PROVE  Tokens'
    <1>1. /\ worker'[w] = q /\ q.pc \notin {"token", "save"}
          /\ \A v \in Workers \ {w} : worker'[v] = worker[v]
      BY WorkerSet
    <1>2. Issued'
      BY <1>1 DEF Tokens, Issued
    <1>3. SavedFresh'
      BY <1>1 DEF Tokens, SavedFresh
    <1>4. SameGeneration'
      BY <1>1 DEF Tokens, SameGeneration
    <1>5. StoredCovered'
      BY <1>1 DEF Tokens, StoredCovered, Stored, Saving
    <1> QED BY <1>2, <1>3, <1>4, <1>5 DEF Tokens

\* An attempt without a token to store ends.
LEMMA OutcomeRests ==
    ASSUME OTyped, Tokens, NEW w \in Workers, worker[w].pc \in {"load", "token"},
           NEW h \in {"none", "auth_required", "failed", "live"}, Outcome(w, h),
           UNCHANGED <<row, memory, valid, issued, sealed, lost>>
    PROVE  /\ Tokens' /\ worker' \in [Workers -> Worker]
           /\ health' \in [Servers -> {"none", "auth_required", "failed", "live"}]
    <1>1. IdleW \in Worker /\ IdleW.pc = "idle"
      BY UpstreamOAuthAssumption DEF IdleW, Worker, Maybe
    <1>2. worker' = [worker EXCEPT ![w] = IdleW]
      BY DEF Outcome
    <1>3. Tokens' /\ worker' \in [Workers -> Worker]
      BY <1>1, <1>2, WorkerRests, WorkerSet
    <1>4. health' \in [Servers -> {"none", "auth_required", "failed", "live"}]
      BY DEF Outcome, OTyped
    <1> QED BY <1>3, <1>4

\* A save puts the token into the row, or into the memory store of its generation.
LEMMA SaveCases ==
    ASSUME OTyped, NEW s \in Servers, NEW rt \in 0..MaxRt, NEW gen, save(s, rt, gen)
    PROVE  /\ row' \in [Servers -> Cred] /\ memory' \in [Servers -> Slot]
           /\ \A z \in Servers \ {s} : row'[z] = row[z] /\ memory'[z] = memory[z]
           /\ memory'[s].gen = memory[s].gen
           /\ \/ sealed /\ row'[s].rt = rt /\ UNCHANGED memory
              \/ ~sealed /\ gen = memory[s].gen /\ memory'[s].rt = rt /\ UNCHANGED row
              \/ ~sealed /\ gen # memory[s].gen /\ UNCHANGED <<row, memory>>
    <1>1. CASE sealed
      <2> DEFINE c == [rt |-> rt, key |-> encKey]
      <2>1. c \in Cred /\ c.rt = rt
        BY DEF Cred, OTyped
      <2>2. row' = [row EXCEPT ![s] = c] /\ UNCHANGED memory
        BY <1>1 DEF save
      <2> HIDE DEF c
      <2> QED BY <1>1, <2>1, <2>2 DEF OTyped
    <1>2. CASE ~sealed
      <2> DEFINE m == memory[s]
                 v == IF gen = memory[s].gen THEN rt ELSE memory[s].rt
                 q == [m EXCEPT !.rt = v]
      <2>1. m \in Slot /\ v \in 0..MaxRt
        BY DEF OTyped, Slot
      <2>2. memory' = [memory EXCEPT ![s] = q] /\ UNCHANGED row
        BY <1>2 DEF save
      <2> HIDE DEF m, v
      <2>3. q \in Slot /\ q.gen = m.gen /\ q.rt = v
        BY <2>1 DEF Slot
      <2>4. m.rt = v => q = m
        BY <2>1 DEF Slot
      <2> HIDE DEF q
      <2>5. memory' \in [Servers -> Slot] /\ memory'[s] = q
            /\ \A z \in Servers \ {s} : memory'[z] = memory[z]
        BY <2>2, <2>3 DEF OTyped
      <2>6. CASE gen = memory[s].gen
        BY <1>2, <2>2, <2>3, <2>5, <2>6 DEF OTyped, m, v
      <2>7. CASE gen # memory[s].gen
        <3>1. q = memory[s]
          BY <2>4, <2>7 DEF m, v
        <3>2. memory' = memory
          BY <2>2, <3>1 DEF OTyped
        <3> QED BY <1>2, <2>2, <2>5, <2>7, <3>1, <3>2 DEF OTyped
      <2> QED BY <2>6, <2>7
    <1> QED BY <1>1, <1>2

LEMMA OStepInv == OInv /\ [ONext]_ovars => OInv'
    <1> SUFFICES ASSUME OInv, [ONext]_ovars PROVE OInv'
      OBVIOUS
    <1>0. OTyped /\ LinksFresh /\ Tokens
      BY DEF OInv
    <1>n. /\ NoCred \in Cred /\ NoLink \in Link /\ NoRevoke \in Revocation
          /\ NoRevoke.pc = "idle" /\ IdleW \in Worker /\ IdleW.pc = "idle"
          /\ [gen |-> 0, rt |-> 0] \in Slot
      BY UpstreamOAuthAssumption DEF NoCred, Cred, NoLink, Link, NoRevoke, Revocation, IdleW,
         Worker, Slot, Maybe
    <1>1. ASSUME OTick PROVE OInv'
      <2>1. OTyped'
        BY <1>0, <1>1, UpstreamOAuthAssumption DEF OTick, OTyped
      <2> QED BY <1>0, <1>1, <2>1, LinksFrame, TokensFrame DEF OTick, OInv
    <1>2. ASSUME Restart PROVE OInv'
      <2>1. OTyped'
        BY <1>0, <1>2, <1>n DEF Restart, OTyped
      <2>2. LinksFresh'
        BY <1>0, <1>2 DEF Restart, LinksFresh
      <2>3. \A w \in Workers : worker'[w].pc = "idle"
        BY <1>2, <1>n DEF Restart
      <2>4. Issued'
        BY <1>0, <1>2, <2>3, UpstreamOAuthAssumption DEF Restart, Tokens, Issued, OTyped
      <2>5. SavedFresh' /\ SameGeneration'
        BY <2>3 DEF SavedFresh, SameGeneration
      <2>6. StoredCovered'
        BY <1>0, <1>2 DEF Restart, Tokens, StoredCovered, Stored, Saving
      <2> QED BY <2>1, <2>2, <2>4, <2>5, <2>6 DEF OInv, Tokens
    <1>3. ASSUME delete_sealed_credentials PROVE OInv'
      <2>0. LinksFresh'
        BY <1>0, <1>3, LinksFrame DEF delete_sealed_credentials
      <2>1. CASE admin' = NoRevoke /\ UNCHANGED <<row, revoked>>
        BY <1>0, <1>3, <1>n, <2>0, <2>1, TokensFrame DEF delete_sealed_credentials, OInv, OTyped
      <2>2. CASE /\ row' = [row EXCEPT ![admin.server] = NoCred]
                 /\ admin' = [admin EXCEPT !.pc = "reconnect"]
        <3> DEFINE s == admin.server
        <3>1. s \in Servers
          BY <1>0, <1>3 DEF delete_sealed_credentials, OTyped
        <3>2. admin' \in Revocation /\ admin'.server = s
          BY <1>0, <2>2 DEF OTyped, Revocation
        <3>3. row' \in [Servers -> Cred] /\ row'[s] = NoCred
              /\ \A z \in Servers \ {s} : row'[z] = row[z]
          BY <1>0, <1>n, <2>2, <3>1 DEF OTyped
        <3>4. UNCHANGED <<onow, sealed, encKey, memory, pending, started, exchange, valid,
                          issued, want, worker, health, crashes, used, dead, lost>>
          BY <1>3 DEF delete_sealed_credentials
        <3> HIDE DEF s
        <3>5. OTyped'
          BY <1>0, <3>1, <3>2, <3>3, <3>4 DEF OTyped
        <3>6. NoCred.rt = 0
          BY DEF NoCred
        <3>7. Issued'
          BY <1>0, <3>1, <3>3, <3>4, <3>6 DEF Tokens, Issued, OTyped
        <3>8. SavedFresh' /\ SameGeneration'
          BY <1>0, <3>1, <3>3, <3>4, <3>6 DEF Tokens, Issued, SavedFresh, SameGeneration
        <3>9. StoredCovered'
          BY <1>0, <3>1, <3>3, <3>4, <3>6 DEF Tokens, StoredCovered, Stored, Saving
        <3> QED BY <2>0, <3>5, <3>7, <3>8, <3>9 DEF OInv, Tokens
      <2> QED BY <1>3, <2>1, <2>2 DEF delete_sealed_credentials
    <1>4. ASSUME deauthorize PROVE OInv'
      <2>1. OTyped'
        BY <1>0, <1>4, <1>n DEF deauthorize, OTyped
      <2> QED BY <1>0, <1>4, <2>1, LinksFrame, TokensFrame DEF deauthorize, OInv
    <1>5. ASSUME NEW s \in Servers, start_authorization(s) PROVE OInv'
      <2> DEFINE n == started + 1
                 l == [server |-> s, expires |-> onow + AUTHORIZATION_TTL, gen |-> memory[s].gen]
      <2>0. n \in States /\ n \in 0..MaxStates
        BY <1>0, <1>5, UpstreamOAuthAssumption DEF start_authorization, OTyped, States
      <2>1. l \in Link /\ l.server # "none"
        BY <1>0, UpstreamOAuthAssumption DEF OTyped, Link, Maybe, Slot
      <2>2. pending' = [Alive(pending) EXCEPT ![n] = l] /\ started' = n
        BY <1>5 DEF start_authorization, insert
      <2>3. UNCHANGED <<onow, sealed, encKey, row, memory, exchange, valid, issued, admin, want,
                        worker, health, used, dead, lost>>
        BY <1>5 DEF start_authorization
      <2> HIDE DEF l
      <2>4. Alive(pending) \in [States -> Link]
            /\ \A st \in States : Alive(pending)[st] \in {pending[st], NoLink}
        BY <1>0, <1>n DEF Alive, OTyped
      <2>5. /\ pending' \in [States -> Link] /\ pending'[n] = l
            /\ \A st \in States \ {n} : pending'[st] \in {pending[st], NoLink}
        BY <2>0, <2>1, <2>2, <2>4
      <2>6. OTyped'
        BY <1>0, <2>0, <2>2, <2>3, <2>5 DEF OTyped
      <2>7. LinksFresh'
        <3>1. used[n] = 0 /\ n \notin dead /\ started \in Nat
          BY <1>0, <2>0 DEF LinksFresh, OTyped
        <3> QED BY <1>0, <2>0, <2>1, <2>2, <2>3, <2>5, <3>1 DEF LinksFresh, States
      <2> QED BY <1>0, <2>3, <2>6, <2>7, TokensFrame DEF OInv
    <1>6. ASSUME NEW s \in Servers, clear_credentials(s) PROVE OInv'
      <2> DEFINE m == [gen |-> memory[s].gen + 1, rt |-> 0]
                 a == [pc |-> "delete", server |-> s,
                       links |-> {st \in 1..started : linkOf[st] = s}]
      <2>1. m \in Slot /\ m.rt = 0
        BY <1>0, UpstreamOAuthAssumption DEF OTyped, Slot
      <2>2. a \in Revocation /\ a.server = s
        <3>1. 1..started \subseteq States
          BY <1>0, UpstreamOAuthAssumption DEF OTyped, States
        <3>2. {st \in 1..started : linkOf[st] = s} \in SUBSET States
          BY <3>1
        <3> QED BY <3>2 DEF Revocation, Maybe
      <2>3. /\ memory' = [memory EXCEPT ![s] = m] /\ admin' = a
            /\ pending' = [st \in States |->
                             IF pending[st].server = s THEN NoLink ELSE pending[st]]
            /\ dead' = dead \cup {st \in 1..started : pending[st].server = s}
            /\ UNCHANGED <<onow, sealed, encKey, row, started, exchange, valid, issued, want,
                           worker, health, used, lost>>
        BY <1>6 DEF clear_credentials, discard_server
      <2> HIDE DEF m, a
      <2>4. memory' \in [Servers -> Slot] /\ memory'[s] = m
            /\ \A z \in Servers \ {s} : memory'[z] = memory[z]
        BY <1>0, <2>1, <2>3 DEF OTyped
      <2>5. OTyped'
        BY <1>0, <1>n, <2>2, <2>3, <2>4 DEF OTyped
      <2>6. LinksFresh'
        <3>1. \A st \in States : pending[st].server = s => pending[st] # NoLink
          BY UpstreamOAuthAssumption DEF NoLink
        <3> QED BY <1>0, <2>3, <3>1 DEF LinksFresh, OTyped, States
      <2>7. Issued'
        BY <1>0, <2>1, <2>3, <2>4 DEF Tokens, Issued, OTyped
      <2>8. SavedFresh'
        BY <1>0, <2>1, <2>3, <2>4 DEF Tokens, Issued, SavedFresh
      <2>9. SameGeneration'
        BY <1>0, <2>1, <2>3, <2>4 DEF Tokens, Issued, SameGeneration
      <2>10. StoredCovered'
        BY <1>0, <2>1, <2>3, <2>4 DEF Tokens, StoredCovered, Stored, Saving
      <2> QED BY <2>5, <2>6, <2>7, <2>8, <2>9, <2>10 DEF OInv, Tokens
    <1>7. ASSUME NEW st \in States, complete_authorization(st) PROVE OInv'
      <2>1. UNCHANGED <<onow, sealed, encKey, row, memory, started, valid, issued, admin, want,
                        worker, health, dead, lost>>
        BY <1>7 DEF complete_authorization
      <2>2. /\ pending' \in [States -> Link] /\ pending'[st] = NoLink
            /\ \A z \in States : pending'[z] \in {pending[z], NoLink}
        <3> DEFINE p == [pending EXCEPT ![st] = NoLink]
        <3>1. p \in [States -> Link] /\ p[st] = NoLink
              /\ \A z \in States : p[z] \in {pending[z], NoLink}
          BY <1>0, <1>n DEF OTyped
        <3>2. pending' = Alive(p)
          BY <1>7 DEF complete_authorization, take
        <3> HIDE DEF p
        <3> QED BY <1>n, <3>1, <3>2 DEF Alive
      <2>3. \/ UNCHANGED <<exchange, used>>
            \/ /\ pending[st] # NoLink
               /\ exchange' = [exchange EXCEPT ![st] = pending[st]]
               /\ used' = [used EXCEPT ![st] = @ + 1]
        BY <1>7 DEF complete_authorization
      <2>4. OTyped'
        BY <1>0, <2>1, <2>2, <2>3 DEF OTyped
      <2>5. LinksFresh'
        <3>1. CASE UNCHANGED used
          BY <1>0, <2>1, <2>2, <3>1 DEF LinksFresh
        <3>2. CASE pending[st] # NoLink /\ used' = [used EXCEPT ![st] = @ + 1]
          <4>1. used'[st] = 1 /\ \A z \in States \ {st} : used'[z] = used[z]
            BY <1>0, <3>2 DEF LinksFresh, OTyped
          <4>2. st \notin dead /\ st <= started /\ started \in Nat /\ st \in Nat
            BY <1>0, <3>2 DEF LinksFresh, OTyped, States
          <4> QED BY <1>0, <2>1, <2>2, <4>1, <4>2 DEF LinksFresh
        <3> QED BY <2>3, <3>1, <3>2
      <2> QED BY <1>0, <2>1, <2>4, <2>5, TokensFrame DEF OInv
    <1>8. ASSUME NEW st \in States, handle_callback(st) PROVE OInv'
      <2> DEFINE s == exchange[st].server
                 n == issued + 1
                 g == exchange[st].gen
      <2>0. /\ s \in Servers /\ n \in 1..MaxRt /\ issued \in Nat
            /\ exchange' = [exchange EXCEPT ![st] = NoLink]
            /\ UNCHANGED <<onow, sealed, encKey, pending, started, admin, worker, health,
                           used, dead, lost>>
        BY <1>0, <1>8, UpstreamOAuthAssumption DEF handle_callback, OTyped, Link, Maybe
      <2>1. exchange' \in [States -> Link] /\ LinksFresh'
        BY <1>0, <1>n, <2>0, LinksFrame DEF OTyped
      <2>2. CASE UNCHANGED <<issued, valid, row, memory, want>>
        BY <1>0, <2>0, <2>1, <2>2, TokensFrame DEF OInv, OTyped
      <2>3. CASE issued' = n /\ valid' = [valid EXCEPT ![s] = @ \cup {n}]
        <3>1. /\ valid' \in [Servers -> SUBSET Nat] /\ n \in valid'[s] /\ issued' = n
              /\ \A z \in Servers : valid[z] \subseteq valid'[z]
          BY <1>0, <2>0, <2>3 DEF OTyped
        <3>2. CASE UNCHANGED <<row, memory, want>>
          <4>1. OTyped'
            BY <1>0, <2>0, <2>1, <3>1, <3>2 DEF OTyped
          <4>2. Issued'
            BY <1>0, <2>0, <3>1, <3>2 DEF Tokens, Issued, OTyped, Cred, Slot
          <4>3. SavedFresh' /\ SameGeneration'
            BY <1>0, <2>0, <3>1, <3>2 DEF Tokens, SavedFresh, SameGeneration, Issued
          <4>4. StoredCovered'
            BY <1>0, <2>0, <3>1, <3>2 DEF Tokens, StoredCovered, Stored, Saving
          <4> QED BY <2>1, <4>1, <4>2, <4>3, <4>4 DEF OInv, Tokens
        <3>3. CASE save(s, n, g) /\ want' = want \cup {s}
          <4> HIDE DEF s, n, g
          <4>1. /\ row' \in [Servers -> Cred] /\ memory' \in [Servers -> Slot]
                /\ \A z \in Servers \ {s} : row'[z] = row[z] /\ memory'[z] = memory[z]
                /\ memory'[s].gen = memory[s].gen
                /\ \/ sealed /\ row'[s].rt = n /\ UNCHANGED memory
                   \/ ~sealed /\ g = memory[s].gen /\ memory'[s].rt = n /\ UNCHANGED row
                   \/ ~sealed /\ g # memory[s].gen /\ UNCHANGED <<row, memory>>
            BY <1>0, <2>0, <3>3, SaveCases
          <4>2. OTyped'
            BY <1>0, <2>0, <2>1, <3>1, <3>3, <4>1 DEF OTyped
          <4>3. n > issued
            BY <2>0 DEF n
          <4>4. Issued'
            BY <1>0, <2>0, <3>1, <4>1, <4>3 DEF Tokens, Issued, OTyped, Cred, Slot
          <4>5. SavedFresh'
            BY <1>0, <2>0, <3>1, <4>1, <4>3 DEF Tokens, SavedFresh, Issued
          <4>6. SameGeneration'
            BY <1>0, <2>0, <3>1, <4>1, <4>3 DEF Tokens, SameGeneration, Issued
          <4>7. StoredCovered'
            BY <1>0, <2>0, <3>1, <4>1 DEF Tokens, StoredCovered, Stored, Saving
          <4> QED BY <2>1, <4>2, <4>4, <4>5, <4>6, <4>7 DEF OInv, Tokens
        <3> QED BY <1>8, <2>3, <3>2, <3>3 DEF handle_callback
      <2> QED BY <1>8, <2>2, <2>3 DEF handle_callback
    <1>9. ASSUME NEW w \in Workers, NEW s \in Servers, reconnect(w, s) \/ use_live(w, s)
          PROVE OInv'
      <2> DEFINE k == IF worker' = [worker EXCEPT ![w] = [IdleW EXCEPT !.pc = "load", !.server = s]]
                      THEN "connect" ELSE "use"
                 q == [pc |-> "load", server |-> s, rt |-> 0, gen |-> 0, kind |-> k]
      <2>1. worker' = [worker EXCEPT ![w] = q] /\ q.pc = "load" /\ q.server = s
        BY <1>9 DEF reconnect, use_live, IdleW
      <2>2. q \in Worker
        BY UpstreamOAuthAssumption DEF Worker, Maybe
      <2>3. worker[w].pc # "save" /\ want' \subseteq want
            /\ UNCHANGED <<onow, sealed, encKey, row, memory, pending, started, exchange,
                           valid, issued, admin, health, used, dead, lost>>
        BY <1>9, <1>n DEF reconnect, use_live
      <2> HIDE DEF q
      <2>4. Tokens' /\ worker' \in [Workers -> Worker]
        BY <1>0, <2>1, <2>2, <2>3, WorkerRests, WorkerSet
      <2>5. OTyped'
        BY <1>0, <2>3, <2>4 DEF OTyped
      <2> QED BY <1>0, <2>3, <2>4, <2>5, LinksFrame DEF OInv
    <1>10. ASSUME NEW w \in Workers, preflight(w) PROVE OInv'
      <2> DEFINE s == worker[w].server
      <2>0. /\ worker[w].pc = "load" /\ s \in Servers /\ LinksFresh'
            /\ UNCHANGED <<onow, sealed, encKey, row, memory, pending, started, exchange,
                           valid, issued, admin, want, used, dead, lost>>
        BY <1>0, <1>10, LinksFrame DEF preflight, Tokens, Issued
      <2>1. ASSUME NEW h \in {"none", "auth_required", "failed", "live"}, Outcome(w, h) PROVE OInv'
        BY <1>0, <2>0, <2>1, OutcomeRests DEF OInv, OTyped
      <2>2. CASE /\ load_stored(s) = "ok" /\ UNCHANGED health
                 /\ worker' = [worker EXCEPT ![w] = [worker[w] EXCEPT !.pc = "token",
                                 !.rt = LoadedRt(s), !.gen = memory[s].gen]]
        <3> DEFINE o == worker[w]
                   p == "token"
                   t == LoadedRt(s)
                   g == memory[s].gen
                   q == [o EXCEPT !.pc = p, !.rt = t, !.gen = g]
        <3>1. t = Stored(s) /\ t \in 1..issued
          <4>1. CASE sealed
            <5>1. row[s] # NoCred /\ row[s] \in Cred /\ t = row[s].rt
              BY <1>0, <2>0, <2>2, <4>1 DEF load_stored, LoadedRt, OTyped
            <5> QED BY <1>0, <2>0, <4>1, <5>1 DEF Stored, Tokens, Issued, Cred
          <4>2. CASE ~sealed
            <5>1. t = memory[s].rt /\ t # 0 /\ memory[s] \in Slot
              BY <1>0, <2>0, <2>2, <4>2 DEF load_stored, LoadedRt, OTyped
            <5> QED BY <1>0, <2>0, <4>2, <5>1 DEF Stored, Tokens, Issued, Slot
          <4> QED BY <4>1, <4>2
        <3>2. o \in Worker /\ p \in {"idle", "load", "token", "save"} /\ t \in 0..MaxRt
              /\ g \in Nat /\ o.server = s /\ t \in Nat
          BY <1>0, <2>0, <3>1, UpstreamOAuthAssumption DEF OTyped, Slot
        <3>3. worker' = [worker EXCEPT ![w] = q]
          BY <2>2
        <3> HIDE DEF o, p, t, g
        <3>4. q \in Worker /\ q.pc = p /\ q.rt = t /\ q.gen = g /\ q.server = o.server
          BY <3>2 DEF Worker
        <3> HIDE DEF q
        <3>5. /\ worker' \in [Workers -> Worker] /\ worker'[w] = q
              /\ \A v \in Workers \ {w} : worker'[v] = worker[v]
          BY <1>0, <3>3, <3>4, WorkerSet
        <3>6. q.pc = "token" /\ q.rt = Stored(s) /\ q.gen = memory[s].gen /\ q.server = s
              /\ Stored(s) \in 1..issued
          BY <3>1, <3>2, <3>4 DEF p, g
        <3> HIDE DEF s
        <3>7. OTyped'
          BY <1>0, <2>0, <2>2, <3>5 DEF OTyped
        <3>8. Issued'
          BY <1>0, <2>0, <3>5, <3>6 DEF Tokens, Issued
        <3>9. SavedFresh'
          BY <1>0, <2>0, <3>5, <3>6 DEF Tokens, SavedFresh, Stored
        <3>10. SameGeneration'
          BY <1>0, <2>0, <3>5, <3>6 DEF Tokens, SameGeneration
        <3>11. StoredCovered'
          <4>1. worker[w].pc # "save"
            BY <2>0
          <4> QED BY <1>0, <2>0, <3>5, <3>6, <4>1 DEF Tokens, StoredCovered, Stored, Saving
        <3> QED BY <2>0, <3>7, <3>8, <3>9, <3>10, <3>11 DEF OInv, Tokens
      <2> QED BY <1>10, <2>1, <2>2 DEF preflight
    <1>11. ASSUME NEW w \in Workers, get_access_token(w) PROVE OInv'
      <2> DEFINE s == worker[w].server
                 u == worker[w].rt
                 n == issued + 1
      <2>0. /\ worker[w].pc = "token" /\ s \in Servers /\ LinksFresh' /\ u \in 1..issued
            /\ UNCHANGED <<onow, sealed, encKey, row, memory, pending, started, exchange,
                           admin, want, used, dead, lost>>
        BY <1>0, <1>11, LinksFrame DEF get_access_token, Tokens, Issued
      <2>1. ASSUME NEW h \in {"none", "auth_required", "failed", "live"}, Outcome(w, h), UNCHANGED <<valid, issued>> PROVE OInv'
        BY <1>0, <2>0, <2>1, OutcomeRests DEF OInv, OTyped
      <2>2. CASE /\ u \in valid[s] /\ issued < MaxRt /\ issued' = n /\ UNCHANGED health
                 /\ valid' = [valid EXCEPT ![s] = (valid[s] \ {u}) \cup {n}]
                 /\ worker' = [worker EXCEPT ![w] = [worker[w] EXCEPT !.pc = "save", !.rt = n]]
        <3> DEFINE o == worker[w]
                   p == "save"
                   q == [o EXCEPT !.pc = p, !.rt = n]
        <3>1. n \in 1..MaxRt /\ n \in Nat /\ issued \in Nat /\ n > issued /\ issued' = n
          BY <1>0, <2>2, UpstreamOAuthAssumption DEF OTyped
        <3>2. o \in Worker /\ p \in {"idle", "load", "token", "save"} /\ n \in 0..MaxRt
          BY <1>0, <3>1, UpstreamOAuthAssumption DEF OTyped
        <3>3. worker' = [worker EXCEPT ![w] = q]
          BY <2>2
        <3>a. /\ valid' \in [Servers -> SUBSET Nat] /\ n \in valid'[s]
              /\ \A z \in Servers \ {s} : valid'[z] = valid[z]
              /\ \A t \in valid[s] : t # u => t \in valid'[s]
          BY <1>0, <2>0, <2>2, <3>1 DEF OTyped
        <3>b. s = o.server /\ worker[w].gen = o.gen
          OBVIOUS
        <3> HIDE DEF o, p, n
        <3>4. q \in Worker /\ q.pc = p /\ q.rt = n /\ q.gen = o.gen /\ q.server = o.server
          BY <3>2 DEF Worker
        <3> HIDE DEF q
        <3>5. /\ worker' \in [Workers -> Worker] /\ worker'[w] = q
              /\ \A v \in Workers \ {w} : worker'[v] = worker[v]
          BY <1>0, <3>3, <3>4, WorkerSet
        <3>6. q.pc = "save" /\ q.rt = n /\ q.gen = worker[w].gen /\ q.server = s
          BY <3>b, <3>4 DEF p
        <3>7. OTyped'
          BY <1>0, <2>0, <2>2, <3>1, <3>2, <3>5, <3>a DEF OTyped
        <3>8. Issued'
          BY <1>0, <2>0, <3>1, <3>5, <3>6 DEF Tokens, Issued, OTyped, Cred, Slot
        <3>9. SavedFresh'
          <4>1. ASSUME NEW v \in Workers \ {w}, worker[v].pc = "save"
                PROVE  /\ worker[v].rt \in valid'[worker[v].server] /\ worker[v].rt # n
                       /\ worker[v].rt \in 1..issued
            <5>1. worker[v].rt # u /\ worker[v].rt \in valid[worker[v].server]
                  /\ worker[v].server \in Servers /\ worker[v].rt \in 1..issued
              BY <1>0, <2>0, <4>1 DEF Tokens, SavedFresh, Issued
            <5> QED BY <3>1, <3>a, <5>1
          <4>2. \A z \in Servers : row[z].rt # n /\ memory[z].rt # n
            BY <1>0, <3>1 DEF Tokens, Issued, OTyped, Cred, Slot
          <4>3. \A v \in Workers : worker[v].pc \in {"token", "save"} => worker[v].rt # n
            BY <1>0, <3>1 DEF Tokens, Issued
          <4> QED BY <1>0, <2>0, <3>5, <3>6, <3>a, <4>1, <4>2, <4>3 DEF Tokens, SavedFresh
        <3>10. SameGeneration'
          BY <1>0, <2>0, <3>5, <3>6 DEF Tokens, SameGeneration
        <3>11. StoredCovered'
          <4> SUFFICES ASSUME NEW z \in Servers, Stored(z) > 0
                       PROVE  \/ Stored(z) \in valid'[z] \/ z \in lost
                              \/ \E v \in Workers : Saving(v, z)'
            BY <2>0 DEF StoredCovered, Stored
          <4>1. CASE Stored(z) \in valid[z] /\ (z # s \/ Stored(z) # u)
            BY <3>a, <4>1
          <4>2. CASE z = s /\ Stored(z) = u
            <5>1. sealed \/ worker[w].gen = memory[s].gen
              BY <1>0, <2>0, <4>2 DEF Tokens, SameGeneration, Stored
            <5>2. Saving(w, z)'
              BY <2>0, <3>5, <3>6, <4>2, <5>1 DEF Saving
            <5> QED BY <5>2
          <4>3. ASSUME NEW v \in Workers, Saving(v, z) PROVE Saving(v, z)'
            BY <2>0, <3>5, <4>3 DEF Saving
          <4> QED BY <1>0, <4>1, <4>2, <4>3 DEF Tokens, StoredCovered
        <3> QED BY <2>0, <3>7, <3>8, <3>9, <3>10, <3>11 DEF OInv, Tokens
      <2> QED BY <1>11, <2>1, <2>2 DEF get_access_token
    <1>12. ASSUME NEW w \in Workers, save_rotated(w) PROVE OInv'
      <2> DEFINE s == worker[w].server
                 t == worker[w].rt
                 g == worker[w].gen
      <2>0. /\ worker[w].pc = "save" /\ s \in Servers /\ LinksFresh' /\ t \in 1..issued
            /\ t \in 0..MaxRt
            /\ UNCHANGED <<onow, sealed, encKey, pending, started, exchange, valid, issued,
                           admin, want, used, dead>>
        BY <1>0, <1>12, LinksFrame DEF save_rotated, Tokens, Issued, OTyped, Worker
      <2>1. /\ worker' \in [Workers -> Worker] /\ worker'[w].pc = "idle"
            /\ \A v \in Workers \ {w} : worker'[v] = worker[v]
            /\ health' \in [Servers -> {"none", "auth_required", "failed", "live"}]
        <3>1. PICK h \in {"none", "auth_required", "failed", "live"} : Outcome(w, h)
          BY <1>12 DEF save_rotated
        <3>2. worker' = [worker EXCEPT ![w] = IdleW]
          BY <3>1 DEF Outcome
        <3>3. health' \in [Servers -> {"none", "auth_required", "failed", "live"}]
          BY <1>0, <3>1 DEF Outcome, OTyped
        <3> QED BY <1>0, <1>n, <3>2, <3>3, WorkerSet
      <2>2. /\ t \in valid[s]
            /\ \A v \in Workers \ {w} : worker[v].pc \in {"token", "save"} => worker[v].rt # t
        BY <1>0, <2>0 DEF Tokens, SavedFresh
      <2>3. CASE save(s, t, g) /\ UNCHANGED lost
        <3> HIDE DEF s, t, g
        <3>1. /\ row' \in [Servers -> Cred] /\ memory' \in [Servers -> Slot]
              /\ \A z \in Servers \ {s} : row'[z] = row[z] /\ memory'[z] = memory[z]
              /\ memory'[s].gen = memory[s].gen
              /\ \/ sealed /\ row'[s].rt = t /\ UNCHANGED memory
                 \/ ~sealed /\ g = memory[s].gen /\ memory'[s].rt = t /\ UNCHANGED row
                 \/ ~sealed /\ g # memory[s].gen /\ UNCHANGED <<row, memory>>
          BY <1>0, <2>0, <2>3, SaveCases
        <3>2. OTyped'
          BY <1>0, <2>0, <2>1, <3>1 DEF OTyped
        <3>3. Issued'
          <4>1. \A z \in Servers : row'[z].rt \in 0..issued /\ memory'[z].rt \in 0..issued
            BY <1>0, <2>0, <3>1 DEF Tokens, Issued, OTyped, Cred, Slot
          <4>2. \A z \in Servers : row'[z] # NoCred => row'[z].rt > 0
            <5>1. CASE sealed
              BY <1>0, <2>0, <3>1, <5>1 DEF Tokens, Issued
            <5>2. CASE ~sealed
              BY <1>0, <3>1, <5>2 DEF Tokens, Issued
            <5> QED BY <5>1, <5>2
          <4> QED BY <1>0, <2>0, <2>1, <4>1, <4>2 DEF Tokens, Issued
        <3>4. SavedFresh'
          BY <1>0, <2>0, <2>1, <2>2, <3>1 DEF Tokens, SavedFresh
        <3>5. SameGeneration'
          BY <1>0, <2>0, <2>1, <2>2, <3>1 DEF Tokens, SameGeneration, Issued
        <3>6. StoredCovered'
          <4> SUFFICES ASSUME NEW z \in Servers, Stored(z)' > 0
                       PROVE  \/ Stored(z)' \in valid[z] \/ z \in lost
                              \/ \E v \in Workers : Saving(v, z)'
            BY <2>0, <2>3 DEF StoredCovered
          <4>1. CASE Stored(z)' = t /\ z = s
            BY <2>2, <4>1
          <4>2. CASE Stored(z)' = Stored(z) /\ (z = s => ~sealed /\ g # memory[s].gen)
            <5>1. ASSUME NEW v \in Workers, Saving(v, z) PROVE Saving(v, z)'
              <6>1. v # w
                BY <4>2, <5>1 DEF Saving, s, g
              <6> QED BY <2>0, <2>1, <3>1, <5>1, <6>1 DEF Saving
            <5> QED BY <1>0, <4>2, <5>1 DEF Tokens, StoredCovered
          <4>3. \/ Stored(z)' = t /\ z = s
                \/ Stored(z)' = Stored(z) /\ (z = s => ~sealed /\ g # memory[s].gen)
            BY <2>0, <3>1 DEF Stored
          <4> QED BY <4>1, <4>2, <4>3
        <3> QED BY <2>0, <3>2, <3>3, <3>4, <3>5, <3>6 DEF OInv, Tokens
      <2>4. CASE lost' = lost \cup {s} /\ UNCHANGED <<row, memory>>
        <3>1. OTyped'
          BY <1>0, <2>0, <2>1, <2>4 DEF OTyped
        <3>2. Issued' /\ SavedFresh' /\ SameGeneration'
          BY <1>0, <2>0, <2>1, <2>4 DEF Tokens, Issued, SavedFresh, SameGeneration
        <3>3. StoredCovered'
          <4>1. ASSUME NEW z \in Servers, NEW v \in Workers, Saving(v, z), z # s
                PROVE  Saving(v, z)'
            BY <2>0, <2>1, <2>4, <4>1 DEF Saving
          <4> QED BY <1>0, <2>0, <2>4, <4>1 DEF Tokens, StoredCovered, Stored
        <3> QED BY <2>0, <3>1, <3>2, <3>3 DEF OInv, Tokens
      <2> QED BY <1>12, <2>3, <2>4 DEF save_rotated
    <1>z. CASE UNCHANGED ovars
      <2>1. OTyped'
        BY <1>0, <1>z DEF ovars, OTyped
      <2> QED BY <1>0, <1>z, <2>1, LinksFrame, TokensFrame DEF ovars, OInv
    <1> QED BY <1>1, <1>2, <1>3, <1>4, <1>5, <1>6, <1>7, <1>8, <1>9,
           <1>10, <1>11, <1>12, <1>z
        DEF ONext, Working

LEMMA OInvariant == OSpec => []OInv
    BY OInitInv, OStepInv, PTL DEF OSpec

\* However often the browser comes back, a link starts one exchange at most, and
\* none once a revocation found it unused (PendingStore::take, discard_server).
THEOREM LinksUsedOnce == OSpec => []LinkUsedOnce
    <1>1. OInv => LinkUsedOnce
      BY DEF OInv, LinksFresh, LinkUsedOnce
    <1> QED BY <1>1, OInvariant, PTL

\* What the console shows as authorized is accepted by the authorization server,
\* or a rotation of it is being written, or its write was lost: for every number
\* of connections, servers, callbacks and restarts (CredentialStore::save).
THEOREM StoredAlwaysUsable == OSpec => []StoredUsable
    <1>1. OInv => StoredUsable
      <2> SUFFICES ASSUME OInv, NEW s \in Servers, load_stored(s) = "ok"
                   PROVE  \/ LoadedRt(s) \in valid[s] \/ s \in lost
                          \/ \E w \in Workers : worker[w].pc = "save" /\ worker[w].server = s
        BY DEF StoredUsable, oauth_view
      <2>1. LoadedRt(s) = Stored(s) /\ Stored(s) > 0
        BY DEF OInv, OTyped, Tokens, Issued, load_stored, LoadedRt, Stored, Slot
      <2> QED BY <2>1 DEF OInv, Tokens, StoredCovered, Saving
    <1> QED BY <1>1, OInvariant, PTL

----------------------------------------------------------------------------
(* The three together.                                                        *)

\* The state has its types, a request tries a refused token once more, a remote
\* secret is asked for RemoteRetries times more, and only the holder of the mutex
\* exchanges (renew_rejected, fetch_remote).
THEOREM TriesAlwaysBounded == CSpec => []TriesBounded
    <1>1. CInit => OInv /\ TInv /\ SInv
      BY OInitInv, TInitInv, SInitInv DEF CInit
    <1>2. OInv /\ TInv /\ SInv /\ [CNext]_cvars => OInv' /\ TInv' /\ SInv'
      <2> SUFFICES ASSUME OInv, TInv, SInv, [CNext]_cvars PROVE OInv' /\ TInv' /\ SInv'
        OBVIOUS
      <2>1. [ONext]_ovars /\ [TNext]_tvars /\ [SNext]_svars
        BY DEF CNext, cvars
      <2> QED BY <2>1, OStepInv, TStepInv, SStepInv
    <1>3. OInv => OTypeOK
      BY DEF OInv, OTyped, Tokens, Issued, Cred, Slot, Link, Maybe, Worker, OTypeOK
    <1>4. TInv => TTypeOK
      BY DEF TInv, TTyped, Mutex, Request, TTypeOK
    <1>5. SInv => STypeOK
      BY DEF SInv, STyped, Resolving, Answer, Kept, EntryFits, STypeOK
    <1> QED BY <1>1, <1>2, <1>3, <1>4, <1>5, PTL DEF CSpec, TriesBounded
=============================================================================
