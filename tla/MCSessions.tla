----------------------------- MODULE MCSessions -----------------------------
(***************************************************************************)
(* What is good for a time: the grants and tokens of the portal, its       *)
(* sign-ins, the gate's cached verdicts, and the sessions that are pinned  *)
(* to a variant of an A/B test.  Each part has state of its own that no    *)
(* other one reads, so a behaviour is a behaviour of one of them: part     *)
(* says of which.  The grants are OAuth itself, the others have v1, v2...  *)
(* as variables.  Requests made at one time are interchangeable.           *)
(***************************************************************************)
EXTENDS OAuth, TLC

MCAuthUsers == "host" :> {} @@ "path" :> {"u1"}
MCTokenOwner == "t1" :> "u1" @@ "s1" :> "service"

Symmetry == Permutations(Request)

VARIABLES
  part,   \* the part of the system this behaviour is of
  v1, v2, v3, v4, v5, v6, v7, v8, v9   \* its variables, if it is not OAuth

state == <<vars, part, v1, v2, v3, v4, v5, v6, v7, v8, v9>>

\* A user with an API token, a service token, and two logins at once.
Login == INSTANCE SignIn WITH
  User <- {"u1"}, Token <- {"t1", "s1"}, TokenOwner <- MCTokenOwner,
  Service <- "service", Enrolled <- {"u1"}, Call <- Request, lifetime <- 2,
  ceremonyTTL <- 1, callTime <- 1, MaxTime <- 4, now <- v1, users <- v2,
  tokens <- v3, passkeys <- v4, ceremony <- v5, cookie <- v6, call <- v7,
  gone <- v8

\* Two requests, two tokens, a cache with room for one.
Gate == INSTANCE BearerGate WITH
  Token <- {1, 2}, Request <- Request, Allowed <- {1}, bearerPositiveTTL <- 2,
  bearerNegativeTTL <- 1, callTime <- 1, maxBearerCache <- 1, MaxTime <- 4,
  now <- v1, tokens <- v2, bearers <- v3, req <- v4, gone <- v5

\* A test of one B replica, its drain and one fault.
Manager == INSTANCE ABManager WITH
  Replicas <- 1, Idle <- 2, MaxSession <- 3, PinRefresh <- 1, MaxNow <- 4,
  MaxTests <- 1, MaxOps <- 2, MaxFaults <- 1, now <- v1, rec <- v2,
  job <- v3, bs <- v4, live <- v5, peer <- v6, exp <- v7, ses <- v8,
  used <- v9

\* The variables beside OAuth's.
others == <<v1, v2, v3, v4, v5, v6, v7, v8, v9>>

OtherInit ==
  \/ part = "login" /\ Login!Init /\ v9 = 0
  \/ part = "gate" /\ Gate!Init /\ v6 = 0 /\ v7 = 0 /\ v8 = 0 /\ v9 = 0
  \/ part = "manager" /\ Manager!Init

\* OAuth at rest, in the behaviours of the other parts.
AtRest == Init

MCInit ==
  \/ part = "oauth" /\ Init
     /\ v1 = 0 /\ v2 = 0 /\ v3 = 0 /\ v4 = 0 /\ v5 = 0
     /\ v6 = 0 /\ v7 = 0 /\ v8 = 0 /\ v9 = 0
  \/ AtRest /\ OtherInit

OtherNext ==
  \/ part = "login" /\ Login!Next /\ UNCHANGED <<v9>>
  \/ part = "gate" /\ Gate!Next /\ UNCHANGED <<v6, v7, v8, v9>>
  \/ part = "manager" /\ Manager!Next

MCNext ==
  /\ UNCHANGED part
  /\ \/ part = "oauth" /\ Next /\ UNCHANGED others
     \/ OtherNext /\ UNCHANGED vars

MCSpec == MCInit /\ [][MCNext]_state

ASSUME PartsAssumption ==
  OAuthAssumption /\ Login!SignInAssumption /\ Gate!GateAssumption
-----------------------------------------------------------------------------
(* The properties beside OAuth's GrantsSound *)

\* SignIn: no login signs in an account that is gone.
SessionNeedsAccount == part = "login" => Login!SessionNeedsAccount

\* BearerGate: a deleted token is honoured for bearerPositiveTTL at most.
RevocationBounded == part = "gate" => Gate!RevocationBounded

\* ABManager: the manager never decides, unforced, that a variant has drained
\* while a session pinned to it before the phase changed is alive whose pin some
\* proxy has seen.
DrainSound == [][part = "manager" => Manager!DrainSoundStep]_state
=============================================================================
