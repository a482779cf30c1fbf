------------------------------ MODULE MCProxy -------------------------------
(***************************************************************************)
(* What a request meets in the edge and the proxy.                         *)
(* Each part has state of its own that no other one reads, so a behaviour  *)
(* is a behaviour of one of them: part says of which.  The dispatch of a   *)
(* request is Dispatch itself, the others have v1, v2... as variables.     *)
(* Edges are interchangeable.                                              *)
(***************************************************************************)
EXTENDS Dispatch, TLC

CONSTANTS p1, p2, a1, a2, b1, Edge

\* Two meshed proxies; p1 runs two replicas of the service, p2 one.
MCHome == (a1 :> p1) @@ (a2 :> p1) @@ (b1 :> p2)
MCOrder == (p1 :> <<a1, a2, p2>>) @@ (p2 :> <<b1, p1>>)

\* A learned backend weighs what its proxy has: makePeerBackend's weight.
MCWeight == (a1 :> 1) @@ (a2 :> 1) @@ (b1 :> 1) @@ (p1 :> 2) @@ (p2 :> 1)

MCABHome == ("a1" :> "p") @@ ("a2" :> "q") @@ ("b1" :> "p")
MCVariant == ("a1" :> "A") @@ ("a2" :> "A") @@ ("b1" :> "B")

Symmetry == Permutations(Edge)

VARIABLES
  part,   \* the part of the system this behaviour is of
  v1, v2, v3, v4, v5, v6, v7, v8, v9, v10   \* its variables, if it is not Dispatch

state == <<vars, part, v1, v2, v3, v4, v5, v6, v7, v8, v9, v10>>

\* A host-wide route, one under it, and one under that.
Gap == INSTANCE RouteTable WITH
  Prefix <- {<<>>, <<"mcp">>, <<"mcp", "name">>},
  URLPath <- {<<"other">>, <<"mcp", "x">>, <<"mcp", "name", "x">>},
  Request <- {"q"}, TTL <- 2, MaxClock <- 4, clock <- v1, groups <- v2,
  tombs <- v3, req <- v4, goneAt <- v5

\* The limiter of one proxy: three clients, room for two.
Limit == INSTANCE RateLimiter WITH
  Client <- {"c1", "c2", "c3"}, Rates <- {1, 2}, maxBuckets <- 2,
  idleEvict <- 2, MaxClock <- 6, Minute <- 2, clock <- v1, rpm <- v2,
  tracked <- v3, left <- v4, last <- v5, answer <- v6

\* The limiter the mesh shares: two proxies whose clocks agree, one client.
Hybrid == INSTANCE HybridLimiter WITH
  Proxy <- {p1, p2}, Request <- {"q"}, Ahead <- [p \in {p1, p2} |-> 0],
  rpm <- 2, Threshold <- 2, Cooldown <- 2, MaxClock <- 3, MaxOutages <- 2,
  Minute <- 2, clock <- v1, up <- v2, outages <- v3, shared <- v4,
  own <- v5, failures <- v6, openUntil <- v7, call <- v8, viaRedis <- v9,
  viaOwn <- v10

\* An A/B test: an A container on each proxy, a B container on p.
AB == INSTANCE ABRequest WITH
  Backend <- {"a1", "a2", "b1"}, Home <- MCABHome, Variant <- MCVariant,
  Session <- {"s"}, Kinds <- {"page", "static", "excluded"},
  MaxRequests <- 2, MaxFails <- 1, MaxChanges <- 1, has <- v1, view <- v2,
  phase <- v3, sick <- v4, pin <- v5, req <- v6, counts <- v7, used <- v8

\* Two edges, one of which may restart, and a client of both.
Edges == INSTANCE EdgeGossip WITH
  Edge <- Edge, Capacity <- 2, IdleEvict <- 2, Interval <- 1, Timeout <- 1,
  MaxNow <- 4, MaxUsed <- 4, MaxRestarts <- 1, now <- v1, bucket <- v2,
  sent <- v3, used <- v4, missed <- v5, restarts <- v6

\* The variables beside Dispatch's.
others == <<v1, v2, v3, v4, v5, v6, v7, v8, v9, v10>>

OtherInit ==
  \/ part = "gap" /\ Gap!Init /\ v6 = 0 /\ v7 = 0 /\ v8 = 0 /\ v9 = 0 /\ v10 = 0
  \/ part = "limit" /\ Limit!Init /\ v7 = 0 /\ v8 = 0 /\ v9 = 0 /\ v10 = 0
  \/ part = "hybrid" /\ Hybrid!Init
  \/ part = "ab" /\ AB!Init /\ v9 = 0 /\ v10 = 0
  \/ part = "edge" /\ Edges!Init /\ v7 = 0 /\ v8 = 0 /\ v9 = 0 /\ v10 = 0

\* Dispatch at rest, in the behaviours of the other parts.
AtRest == Init /\ spread = FALSE /\ \A p \in Proxy : cursor[p] = 0

MCInit ==
  \/ part = "dispatch" /\ Init
     /\ v1 = 0 /\ v2 = 0 /\ v3 = 0 /\ v4 = 0 /\ v5 = 0
     /\ v6 = 0 /\ v7 = 0 /\ v8 = 0 /\ v9 = 0 /\ v10 = 0
  \/ AtRest /\ OtherInit

OtherNext ==
  \/ part = "gap" /\ Gap!Next /\ UNCHANGED <<v6, v7, v8, v9, v10>>
  \/ part = "limit" /\ Limit!Next /\ UNCHANGED <<v7, v8, v9, v10>>
  \/ part = "hybrid" /\ Hybrid!Next
  \/ part = "ab" /\ AB!Next /\ UNCHANGED <<v9, v10>>
  \/ part = "edge" /\ Edges!Next /\ UNCHANGED <<v7, v8, v9, v10>>

MCNext ==
  /\ UNCHANGED part
  /\ \/ part = "dispatch" /\ Next /\ UNCHANGED others
     \/ OtherNext /\ UNCHANGED vars

MCSpec == MCInit /\ [][MCNext]_state

ASSUME PartsAssumption ==
  /\ DispatchAssumption
  /\ Gap!RouteTableAssumption
  /\ Limit!RateLimiterAssumption /\ Limit!MinuteAssumption
  /\ Hybrid!HybridAssumption
  /\ Edges!EdgeAssumption
-----------------------------------------------------------------------------
(* The properties of the other parts *)

\* RouteTable: a request is answered for the most specific route that is live, or
\* that disappeared at most TTL ago.
MostSpecificWins ==
  /\ [](part = "gap" => Gap!TypeOK)
  /\ [][part = "gap" => Gap!MostSpecificWinsStep]_state

\* RateLimiter: the bounded, garbage-collected table implements one token bucket
\* per client (TokenBucket).
IsTokenBucket ==
  /\ [](part = "limit" => Limit!TypeOK)
  /\ part = "limit" => Limit!Bucket!Init
  /\ [][part = "limit" => [Limit!Bucket!Next]_(Limit!Bucket!vars)]_state

\* HybridLimiter: Redis and each proxy's fallback let through what one bucket
\* holds and no more, through any sequence of outages.
RateKept == part = "hybrid" => Hybrid!RateKept

\* ABRequest: a request of a test is counted at most once in the mesh, exactly
\* once when nothing moved, and for the variant of its session.
CountedOnce == part = "ab" => AB!CountedOnce /\ AB!CountedForItsSession

\* EdgeGossip: a request let through at one edge costs every edge that hears of it
\* one token, and no edge more, however gossip is delayed, reordered or lost.
UseCountsOnce == part = "edge" => Edges!UseCountsOnce
=============================================================================
