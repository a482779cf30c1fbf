---------------------------- MODULE RateLimiter -----------------------------
(***************************************************************************)
(* The in-memory rateLimiter of one route (cmd/proxy/ratelimit.go): lazily *)
(* refilled buckets, a bounded table, a gc goroutine that forgets idle     *)
(* clients, and SetRate, which Router.Set calls on every refresh.  Every   *)
(* method holds rateLimiter.mu, so each is one step.                       *)
(***************************************************************************)
EXTENDS Buckets, FiniteSets

CONSTANTS
  Client,       \* bucket keys (rlKey)
  Rates,        \* the rpm values operators set
  maxBuckets,   \* buckets a limiter tracks at most
  idleEvict,    \* ticks after which gc forgets a bucket
  MaxClock      \* bound: the clock

RateLimiterAssumption ==
  /\ Rates \subseteq Nat
  /\ maxBuckets \in Nat
  /\ idleEvict \in Nat /\ idleEvict >= Minute
  /\ MaxClock \in Nat

VARIABLES
  clock,    \* time.Now()
  rpm,      \* rateLimiter.capacity, and 60 times rateLimiter.rate
  tracked,  \* the keys of rateLimiter.buckets
  left,     \* left[c]: bucket.tokens, for c in tracked
  last,     \* last[c]: bucket.lastRefill and bucket.lastSeen
  answer    \* the client last answered, and the answer

vars == <<clock, rpm, tracked, left, last, answer>>

TypeOK ==
  /\ clock \in 0 .. MaxClock
  /\ rpm \in Rates
  /\ tracked \subseteq Client /\ Cardinality(tracked) <= maxBuckets
  /\ left \in [Client -> Nat]
  /\ \A c \in Client : \E r \in Rates : left[c] <= Capacity(r)
  /\ last \in [Client -> 0 .. MaxClock]
  /\ answer \in {<<>>} \cup (Client \X BOOLEAN)

\* newRateLimiter
Init ==
  /\ clock = 0
  /\ rpm \in Rates
  /\ tracked = {}
  /\ left = [c \in Client |-> 0]
  /\ last = [c \in Client |-> 0]
  /\ answer = <<>>

\* getOrCreate finds c, or has room for it.
roomFor(c) == c \in tracked \/ Cardinality(tracked) < maxBuckets

\* What client c has now: a tracked bucket refilled since lastRefill, or the
\* full bucket getOrCreate makes.
refilled(c) ==
  IF c \in tracked THEN Refill(left[c], clock - last[c], rpm) ELSE Capacity(rpm)

\* rateLimiter.Allow
Allow(c) ==
  \/ /\ ~roomFor(c)
     /\ answer' = <<c, FALSE>>
     /\ UNCHANGED <<clock, rpm, tracked, left, last>>
  \/ /\ roomFor(c)
     /\ tracked' = tracked \cup {c}
     /\ last' = [last EXCEPT ![c] = clock]
     /\ IF refilled(c) < Unit
        THEN /\ left' = [left EXCEPT ![c] = refilled(c)]
             /\ answer' = <<c, FALSE>>
        ELSE /\ left' = [left EXCEPT ![c] = refilled(c) - Unit]
             /\ answer' = <<c, TRUE>>
     /\ UNCHANGED <<clock, rpm>>

\* rateLimiter.SetRate: buckets are left as they are.
SetRate(r) ==
  /\ rpm' = r
  /\ UNCHANGED <<clock, tracked, left, last, answer>>

\* Mutant: every bucket not seen at this very moment is forgotten.
gcEager ==
  LET idle == {c \in tracked : last[c] < clock}
  IN /\ tracked' = tracked \ idle
     /\ left' = [c \in Client |-> IF c \in idle THEN 0 ELSE left[c]]
     /\ last' = [c \in Client |-> IF c \in idle THEN 0 ELSE last[c]]
     /\ UNCHANGED <<clock, rpm, answer>>

\* A pass of rateLimiter.gc.  A forgotten bucket's fields mean nothing.
gc ==
  LET idle == {c \in tracked : last[c] + idleEvict < clock}
  IN /\ tracked' = tracked \ idle
     /\ left' = [c \in Client |-> IF c \in idle THEN 0 ELSE left[c]]
     /\ last' = [c \in Client |-> IF c \in idle THEN 0 ELSE last[c]]
     /\ UNCHANGED <<clock, rpm, answer>>

Tick ==
  /\ clock < MaxClock
  /\ clock' = clock + 1
  /\ UNCHANGED <<rpm, tracked, left, last, answer>>

Next ==
  \/ \E c \in Client : Allow(c)
  \/ \E r \in Rates : SetRate(r)
  \/ gc
  \/ Tick

Spec == Init /\ [][Next]_vars

-----------------------------------------------------------------------------
(* Properties                                                              *)

Bucket == INSTANCE TokenBucket WITH tokens <- [c \in Client |-> refilled(c)]

\* The lazily refilled, bounded and garbage-collected table is a token bucket
\* per client: a request passes only against a token earned at the rate in
\* force, and forgetting an idle client changes nothing it may do.
IsTokenBucket == Bucket!Spec
=============================================================================
