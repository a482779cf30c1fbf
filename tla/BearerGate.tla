----------------------------- MODULE BearerGate -----------------------------
(***************************************************************************)
(* The gate of the proxy for routes with proxy.auth (cmd/proxy/auth.go)    *)
(* and its bounded cache of API tokens: the dashboard is asked about a     *)
(* token over a call that takes time and may fail, and its answer is kept. *)
(*                                                                         *)
(* Time is in units of callTime, the HTTP timeout of the call.             *)
(***************************************************************************)
EXTENDS Integers, FiniteSets

CONSTANTS
  Token,
  Request,      \* concurrent requests with a token
  Allowed,      \* tokens whose owner the route admits (proxy.auth.users)
  bearerPositiveTTL, bearerNegativeTTL, callTime,
  maxBearerCache,
  MaxTime       \* bound: the clock

GateAssumption == bearerPositiveTTL \in Nat /\ bearerNegativeTTL \in Nat

VARIABLES
  now,
  tokens,    \* the dashboard's: tokens that exist
  bearers,   \* the gate's cache, token to its entry
  req,       \* req[r]: a request waiting for the dashboard
  gone       \* history: gone[x]: when the token was deleted

vars == <<now, tokens, bearers, req, gone>>

Never == -1
Idle == [pc |-> "idle", arg |-> Never, at |-> 0, ok |-> FALSE]

Init ==
  /\ now = 0
  /\ tokens = Token
  /\ bearers = [x \in {} |-> 0]
  /\ req = [r \in Request |-> Idle]
  /\ gone = [x \in Token |-> Never]

\* DeleteToken, or DeleteUser of its owner.
DeleteToken(x) ==
  /\ x \in tokens
  /\ tokens' = tokens \ {x}
  /\ gone' = [gone EXCEPT ![x] = now]
  /\ UNCHANGED <<now, bearers, req>>

Cached(x) == x \in DOMAIN bearers /\ now < bearers[x].expires

\* authorize reaches verifyBearer for a request without a cookie from outside
\* the trusted networks. Unless the cache answers, the dashboard is asked.
Authorize(r, x) ==
  /\ req[r].pc = "idle"
  /\ ~ Cached(x)
  /\ req' = [req EXCEPT ![r] = [pc |-> "asked", arg |-> x, at |-> now, ok |-> FALSE]]
  /\ UNCHANGED <<now, tokens, bearers, gone>>

\* The cache answers, and the route is open to the token's owner.
Admits(x) == Cached(x) /\ bearers[x].good /\ x \in Allowed

\* /api/auth/verify-token answers; or nothing does within the timeout.
Answer(r, up) ==
  /\ req[r].pc = "asked"
  /\ req' = [req EXCEPT ![r].pc = "answered", ![r].ok = up /\ req[r].arg \in tokens]
  /\ UNCHANGED <<now, tokens, bearers, gone>>

\* What is left when an entry is added as of time t: at the limit, what has not
\* expired, or nothing when that is still too much.
KeptBearers(t) ==
  LET fresh == {x \in DOMAIN bearers : t <= bearers[x].expires} IN
  IF Cardinality(DOMAIN bearers) < maxBearerCache THEN DOMAIN bearers
  ELSE IF Cardinality(fresh) < maxBearerCache THEN fresh ELSE {}

\* Mutant: the answer is good for its TTL from when it arrived.
BearerEntryLate(c) ==
  [good |-> c.ok, expires |-> now + IF c.ok THEN bearerPositiveTTL ELSE bearerNegativeTTL]

\* now was read before the call, so the call's time counts against the TTL.
BearerEntry(c) ==
  [good |-> c.ok, expires |-> c.at + IF c.ok THEN bearerPositiveTTL ELSE bearerNegativeTTL]

\* The rest of verifyBearer: every outcome is stored, failures too.
BearerDone(r) ==
  LET c == req[r] IN
  /\ c.pc = "answered"
  /\ bearers' = [x \in KeptBearers(c.at) \cup {c.arg} |->
                   IF x = c.arg THEN BearerEntry(c) ELSE bearers[x]]
  /\ req' = [req EXCEPT ![r] = Idle]
  /\ UNCHANGED <<now, tokens, gone>>

\* A call ends within callTime of its start.
Tick ==
  /\ now < MaxTime
  /\ \A r \in Request : req[r].pc # "idle" => now < req[r].at + callTime
  /\ now' = now + 1
  /\ UNCHANGED <<tokens, bearers, req, gone>>

Next ==
  \/ \E x \in Token : DeleteToken(x)
  \/ \E r \in Request, x \in Token : Authorize(r, x)
  \/ \E r \in Request, up \in BOOLEAN : Answer(r, up)
  \/ \E r \in Request : BearerDone(r)
  \/ Tick

Spec == Init /\ [][Next]_vars

-----------------------------------------------------------------------------
(* Properties                                                              *)

\* However many requests verify a token at once, and whichever of them stores
\* its answer last, the gate honours a deleted token no longer than
\* bearerPositiveTTL after its deletion (verifyBearer).
RevocationBounded ==
  \A x \in Token \ tokens : Admits(x) => now < gone[x] + bearerPositiveTTL
=============================================================================
