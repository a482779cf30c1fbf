----------------------------- MODULE EdgeGossip -----------------------------
(***************************************************************************)
(* The edges' rate limiter (cmd/edge/ratelimit.go, peers.go): every edge    *)
(* keeps a token bucket of its own for a client and tells the others, tick  *)
(* by tick, how many requests it has let through; they drain as much.       *)
(* Messages are sent side by side, so they overtake each other, and a lost  *)
(* one is not sent again.                                                   *)
(*                                                                         *)
(* One client.  Time is counted in refills of one token.                    *)
(***************************************************************************)
EXTENDS Integers, FiniteSets, FiniteSetsExt

CONSTANTS Edge,
          Capacity,   \* the burst
          IdleEvict,  \* how long an unused bucket is kept
          Interval,   \* between two pushes
          Timeout,    \* of a gossip request
          MaxNow,     \* bound: the clock stops here
          MaxUsed,    \* bound: requests let through
          MaxRestarts

\* Half an hour outlasts a request and a push, and refills every bucket.
EdgeAssumption ==
    /\ Capacity > 0 /\ Interval > 0
    /\ IdleEvict >= Capacity /\ IdleEvict > Timeout /\ IdleEvict > Interval

VARIABLES
    now,
    bucket,  \* edge -> its bucket of the client; lastSeen is always lastRefill
    sent,    \* gossip requests under way
    used,    \* history: the requests let through by all edges
    missed,  \* history: edge -> of those, what it lost or forgot
    restarts

vars == <<now, bucket, sent, used, missed, restarts>>

newBucket == [tokens |-> Capacity, lastRefill |-> now, consumed |-> 0, lastPushed |-> 0]
NoBucket == [tokens |-> Capacity, lastRefill |-> -1, consumed |-> 0, lastPushed |-> 0]

Init ==
    /\ now = 0
    /\ bucket = [e \in Edge |-> NoBucket]
    /\ sent = {}
    /\ used = 0
    /\ missed = [e \in Edge |-> 0]
    /\ restarts = 0

Unpushed(e) == bucket[e].consumed - bucket[e].lastPushed

(* What the others have let through and e has yet to hear of. *)
Pending(e) ==
    MapThenSumSet(Unpushed, Edge \ {e})
    + MapThenSumSet(LAMBDA m : m.d, {m \in sent : m.to = e})

-----------------------------------------------------------------------------
(* The bucket. *)

getOrCreate(e) == IF bucket[e] = NoBucket THEN newBucket ELSE bucket[e]

Refilled(e) ==
    LET b == getOrCreate(e)
    IN [b EXCEPT !.tokens = Min({Capacity, @ + now - b.lastRefill}), !.lastRefill = now]

Allow(e) ==
    LET b == Refilled(e)
    IN \/ /\ b.tokens >= 1
          /\ used < MaxUsed
          /\ bucket' = [bucket EXCEPT ![e] = [b EXCEPT !.tokens = @ - 1, !.consumed = @ + 1]]
          /\ used' = used + 1
          /\ UNCHANGED <<now, sent, missed, restarts>>
       \/ /\ b.tokens < 1
          /\ bucket' = [bucket EXCEPT ![e] = b]
          /\ UNCHANGED <<now, sent, used, missed, restarts>>

\* Mutant: what a peer has let through is gossiped on as if let through here.
DrainedAndCounted(b, d) == [b EXCEPT !.tokens = Max({0, @ - d}), !.consumed = @ + d]

(* What a peer has let through drains tokens and is not told on. *)
ApplyRemote(b, d) == [b EXCEPT !.tokens = Max({0, @ - d})]

-----------------------------------------------------------------------------
(* Gossip. *)

tick(e) ==
    /\ Unpushed(e) > 0
    /\ sent' = sent \cup {[from |-> e, to |-> p, d |-> Unpushed(e), upto |-> bucket[e].consumed,
                           at |-> now] : p \in Edge \ {e}}
    /\ bucket' = [bucket EXCEPT ![e].lastPushed = bucket[e].consumed]
    /\ UNCHANGED <<now, used, missed, restarts>>

gossipHandler(m) ==
    /\ sent' = sent \ {m}
    /\ bucket' = [bucket EXCEPT ![m.to] = ApplyRemote(Refilled(m.to), m.d)]
    /\ UNCHANGED <<now, used, missed, restarts>>

(* The peer is unreachable: the delta is gone. *)
sendFails(m) ==
    /\ sent' = sent \ {m}
    /\ missed' = [missed EXCEPT ![m.to] = @ + m.d]
    /\ UNCHANGED <<now, bucket, used, restarts>>

-----------------------------------------------------------------------------
(* Time, clean-up and restarts. *)

(* A due push comes before the next moment, a request ends by its timeout. *)
Tick ==
    /\ now < MaxNow
    /\ (now + 1) % Interval = 0 => \A e \in Edge : Unpushed(e) = 0
    /\ \A m \in sent : now < m.at + Timeout
    /\ now' = now + 1
    /\ UNCHANGED <<bucket, sent, used, missed, restarts>>

gc(e) ==
    /\ bucket[e] # NoBucket
    /\ bucket[e].lastRefill < now - IdleEvict
    /\ bucket' = [bucket EXCEPT ![e] = NoBucket]
    /\ UNCHANGED <<now, sent, used, missed, restarts>>

(* A restart forgets the bucket and cuts the requests e was sending. *)
Restart(e) ==
    /\ restarts < MaxRestarts
    /\ restarts' = restarts + 1
    /\ sent' = {m \in sent : m.from # e}
    /\ bucket' = [bucket EXCEPT ![e] = NoBucket]
    /\ missed' = [p \in Edge |->
                    IF p = e THEN used - Pending(e)
                    ELSE missed[p] + Unpushed(e)
                         + MapThenSumSet(LAMBDA m : m.d, {m \in sent : m.from = e /\ m.to = p})]
    /\ UNCHANGED <<now, used>>

Next ==
    \/ Tick
    \/ \E e \in Edge : Allow(e) \/ tick(e) \/ gc(e) \/ Restart(e)
    \/ \E m \in sent : gossipHandler(m) \/ sendFails(m)

Spec == Init /\ [][Next]_vars

-----------------------------------------------------------------------------
(* Properties. *)

(* "Remote deltas must not feed back": every request let through anywhere      *)
(* costs an edge at most one token, so a client is refused only after the      *)
(* edges together have let through a burst of it; and it costs every edge that *)
(* has heard of it a token, but for what the bucket has refilled since, however *)
(* gossip is delayed, reordered or lost and edges restart.                      *)
UseCountsOnce ==
    \A e \in Edge :
      LET heard == used - Pending(e) - missed[e]
      IN /\ bucket[e].tokens >= Capacity - used
         /\ bucket[e].tokens <= Max({0, Capacity - heard}) + now
=============================================================================
