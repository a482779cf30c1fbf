--------------------------- MODULE HybridLimiter ----------------------------
(***************************************************************************)
(* The rate limit of one route when it is shared through Redis             *)
(* (cmd/proxy/redisrl.go): one bucket per client in Redis, updated by an   *)
(* atomic script, a breaker per proxy, and the proxy's own bucket when     *)
(* Redis fails or the breaker is open.  Every proxy reads its own clock.   *)
(***************************************************************************)
EXTENDS Buckets, FiniteSets

CONSTANTS
  Proxy,        \* proxies of the mesh
  Request,      \* requests in flight at once, of one client
  Ahead,        \* Ahead[p]: how far the clock of p is ahead
  rpm,          \* the route's rate, the same everywhere
  Threshold,    \* redisFailureThreshold
  Cooldown,     \* redisBreakerCooldown
  MaxClock,     \* bound: the clock
  MaxOutages    \* bound: how often Redis stops answering

HybridAssumption ==
  /\ Ahead \in [Proxy -> Nat]
  /\ \E p \in Proxy : \A o \in Proxy : Ahead[o] <= Ahead[p]
  /\ {rpm, Threshold, Cooldown, MaxClock, MaxOutages} \subseteq Nat

VARIABLES
  clock,     \* true time
  up,        \* whether Redis answers                         (external)
  outages,   \* how often it stopped, for MaxOutages
  shared,    \* the Redis hash of the client's bucket
  own,       \* own[p]: the client's bucket of p's fallback
  failures,  \* hybridLimiter.failures of each proxy
  openUntil, \* hybridLimiter.openUntil of each proxy, on its clock
  call,      \* what each request in hybridLimiter.Allow is doing
  viaRedis,  \* history: requests let through on a Redis token
  viaOwn     \* history: requests each proxy let through on its own

vars == <<clock, up, outages, shared, own, failures, openUntil, call, viaRedis, viaOwn>>

Bucket == [there : BOOLEAN, tokens : Nat, ts : Nat]
NoBucket == [there |-> FALSE, tokens |-> 0, ts |-> 0]
IdleCall == [pc |-> "idle", at |-> "none", now |-> 0, ok |-> FALSE]

TypeOK ==
  /\ clock \in 0 .. MaxClock
  /\ up \in BOOLEAN
  /\ outages \in 0 .. MaxOutages
  /\ shared \in Bucket /\ shared.tokens <= Capacity(rpm)
  /\ \A p \in Proxy : own[p] \in Bucket /\ own[p].tokens <= Capacity(rpm)
  /\ failures \in [Proxy -> Nat]
  /\ openUntil \in [Proxy -> Nat]
  /\ \A q \in Request : call[q].pc \in {"idle", "asked", "answered", "failed"}
  /\ viaRedis \in Nat
  /\ viaOwn \in [Proxy -> Nat]

Init ==
  /\ clock = 0
  /\ up = TRUE
  /\ outages = 0
  /\ shared = NoBucket
  /\ own = [p \in Proxy |-> NoBucket]
  /\ failures = [p \in Proxy |-> 0]
  /\ openUntil = [p \in Proxy |-> 0]
  /\ call = [q \in Request |-> IdleCall]
  /\ viaRedis = 0
  /\ viaOwn = [p \in Proxy |-> 0]

Now(p) == clock + Ahead[p]
Elapsed(b, now) == IF now < b.ts THEN 0 ELSE now - b.ts

\* tokens after the refill, in tokenBucketScript and in rateLimiter.Allow
Refilled(b, now) ==
  IF b.there THEN Refill(b.tokens, Elapsed(b, now), rpm) ELSE Capacity(rpm)

Allowed(b, now) == Refilled(b, now) >= Unit

\* The bucket after a request: the tokens left, and the caller's time.
Charged(b, now) ==
  [there |-> TRUE, ts |-> now,
   tokens |-> Refilled(b, now) - (IF Allowed(b, now) THEN Unit ELSE 0)]

\* fallback.Allow: the proxy's own bucket.
AllowOwn(p) ==
  /\ own' = [own EXCEPT ![p] = Charged(own[p], Now(p))]
  /\ viaOwn' = IF Allowed(own[p], Now(p))
               THEN [viaOwn EXCEPT ![p] = viaOwn[p] + 1] ELSE viaOwn

breakerOpen(p) == Now(p) < openUntil[p]

-----------------------------------------------------------------------------
(* hybridLimiter.Allow                                                     *)

\* The breaker is open: the fallback decides.
Degraded(q, p) ==
  /\ call[q].pc = "idle"
  /\ breakerOpen(p)
  /\ AllowOwn(p)
  /\ UNCHANGED <<clock, up, outages, shared, failures, openUntil, call, viaRedis>>

\* It is closed: redisLimiter.Allow reads the time and asks Redis.
Ask(q, p) ==
  /\ call[q].pc = "idle"
  /\ ~breakerOpen(p)
  /\ call' = [call EXCEPT ![q] =
       [pc |-> "asked", at |-> p, now |-> Now(p), ok |-> FALSE]]
  /\ UNCHANGED <<clock, up, outages, shared, own, failures, openUntil, viaRedis, viaOwn>>

\* Mutant: the script stores the tokens and leaves ts as it was.
ScriptKeepsTime(q) ==
  LET now == call[q].now IN
  /\ call[q].pc = "asked"
  /\ up
  /\ shared' = [Charged(shared, now) EXCEPT !.ts = shared.ts]
  /\ call' = [call EXCEPT ![q].pc = "answered", ![q].ok = Allowed(shared, now)]
  /\ UNCHANGED <<clock, up, outages, own, failures, openUntil, viaRedis, viaOwn>>

\* The script runs, with the time the proxy had read.
Script(q) ==
  LET now == call[q].now IN
  /\ call[q].pc = "asked"
  /\ up
  /\ shared' = Charged(shared, now)
  /\ call' = [call EXCEPT ![q].pc = "answered", ![q].ok = Allowed(shared, now)]
  /\ UNCHANGED <<clock, up, outages, own, failures, openUntil, viaRedis, viaOwn>>

\* Redis does not answer in time: the script did not run, or its answer is
\* lost with the token spent.
Timeout(q) ==
  /\ call[q].pc \in {"asked", "answered"}
  /\ ~up
  /\ call' = [call EXCEPT ![q].pc = "failed"]
  /\ UNCHANGED <<clock, up, outages, shared, own, failures, openUntil, viaRedis, viaOwn>>

\* recordSuccess closes the breaker; the script's verdict is returned.
Success(q) ==
  LET p == call[q].at IN
  /\ call[q].pc = "answered"
  /\ failures' = [failures EXCEPT ![p] = 0]
  /\ openUntil' = [openUntil EXCEPT ![p] = 0]
  /\ viaRedis' = IF call[q].ok THEN viaRedis + 1 ELSE viaRedis
  /\ call' = [call EXCEPT ![q] = IdleCall]
  /\ UNCHANGED <<clock, up, outages, shared, own, viaOwn>>

\* recordFailure, which opens it at the threshold, and then the fallback.
Failure(q) ==
  LET p == call[q].at IN
  /\ call[q].pc = "failed"
  /\ failures' = [failures EXCEPT ![p] = failures[p] + 1]
  /\ openUntil' = IF failures[p] + 1 >= Threshold
                  THEN [openUntil EXCEPT ![p] = Now(p) + Cooldown] ELSE openUntil
  /\ AllowOwn(p)
  /\ call' = [call EXCEPT ![q] = IdleCall]
  /\ UNCHANGED <<clock, up, outages, shared, viaRedis>>

-----------------------------------------------------------------------------
Outage ==
  /\ up
  /\ outages < MaxOutages
  /\ outages' = outages + 1
  /\ up' = FALSE
  /\ UNCHANGED <<clock, shared, own, failures, openUntil, call, viaRedis, viaOwn>>

Recovery ==
  /\ ~up
  /\ up' = TRUE
  /\ UNCHANGED <<clock, outages, shared, own, failures, openUntil, call, viaRedis, viaOwn>>

Tick ==
  /\ clock < MaxClock
  /\ clock' = clock + 1
  /\ UNCHANGED <<up, outages, shared, own, failures, openUntil, call, viaRedis, viaOwn>>

Next ==
  \/ \E q \in Request :
       \/ \E p \in Proxy : Degraded(q, p) \/ Ask(q, p)
       \/ Script(q) \/ Timeout(q) \/ Success(q) \/ Failure(q)
  \/ Outage \/ Recovery \/ Tick

Spec == Init /\ [][Next]_vars

-----------------------------------------------------------------------------
(* Properties                                                              *)

\* What a client may have got by now from one bucket: its capacity, and what
\* the time since has added on the clock that is furthest ahead.
Allowance ==
  LET furthest == CHOOSE p \in Proxy : \A o \in Proxy : Ahead[o] <= Ahead[p]
  IN Capacity(rpm) + Now(furthest) * rpm

\* redisrl.go: "every proxy instance in the mesh enforces one shared cap per
\* client IP per route instead of one cap per instance".
SharedCap == viaRedis * Unit <= Allowance

\* The comment on hybridLimiter: "never fail-open-to-unlimited".  Through any
\* sequence of outages, a proxy lets no more through on its own than the
\* route's rate allows.
OwnCap == \A p \in Proxy : viaOwn[p] * Unit <= Allowance

\* Shared and fallback enforcement together: a client gets from Redis, and from
\* each proxy on its own, what one bucket holds and no more.
RateKept == TypeOK /\ SharedCap /\ OwnCap
=============================================================================
