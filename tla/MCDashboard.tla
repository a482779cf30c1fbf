---------------------------- MODULE MCDashboard -----------------------------
(***************************************************************************)
(* What the dashboard does at a user's or a peer's request.  The parts     *)
(* share no state, so a behaviour is a behaviour of one of them: part says *)
(* of which.  The list of containers is ContainerCache itself, the others  *)
(* have v1, v2... as variables.  Calls made at one time are                *)
(* interchangeable, and so are hosts.                                      *)
(***************************************************************************)
EXTENDS ContainerCache, TLC

CONSTANTS Call, Host

MCNameOf == "a1" :> "n1" @@ "a2" :> "n2" @@ "a3" :> "n2"
MCOwner == "k1" :> "n1"
MCCreated == "i1" :> 1 @@ "i2" :> 2
MCFirst == <<[acct |-> "a1", creds |-> {"k1"}], [acct |-> "a2", creds |-> {}]>>

Symmetry == Permutations(Call) \cup Permutations(Host)

VARIABLES
  part,   \* the part of the system this behaviour is of
  v1, v2, v3, v4, v5, v6, v7, v8, v9, v10, v11   \* its variables, if it is not ContainerCache

state == <<vars, part, v1, v2, v3, v4, v5, v6, v7, v8, v9, v10, v11>>

\* Two dashboards, two accounts at the start and one more, two requests.
Users == INSTANCE Accounts WITH
  Host <- Host, Account <- {"a1", "a2", "a3"}, Name <- {"n1", "n2"},
  NameOf <- MCNameOf, Cred <- {"k1"}, Owner <- MCOwner,
  First <- MCFirst, Request <- Call, maxMutateRetries <- 1, MaxFaults <- 1,
  redis <- v1, local <- v2, file <- v3, pending <- v4, loop <- v5,
  lastRaw <- v6, req <- v7, spent <- v8, wipes <- v9, faults <- v10

\* Two requests at once beside the rolling job and the auto-updater.
Ops == INSTANCE ServiceOps WITH
  Ids <- 1..12, Handlers <- Call, PeerHealthy <- 0, Wants <- {1, 3},
  MaxFailures <- 1, MaxOps <- 2, MaxFaults <- 1, cont <- v1, op <- v2, rom <- v3, claim <- v4, failures <- v5,
  blocked <- v6, latest <- v7, pulled <- v8, floor <- v9, ops <- v10,
  faults <- v11

\* Two calls at once, four in all.
Far == INSTANCE Spread WITH
  Call <- Call, MaxReplicas <- 3, MaxCalls <- 4, MaxFaults <- 1, here <- v1,
  routes <- v2, call <- v3, calls <- v4, faults <- v5, most <- v6,
  shrunk <- v7

\* Four operations on an onboarded service.
Onboard == INSTANCE Onboarded WITH
  MaxIndex <- 3, MaxReplicas <- 2, MaxOps <- 4, live <- v1, svc <- v2,
  routes <- v3, proxy <- v4, op <- v5, lost <- v6, ops <- v7, debris <- v8

\* Two names, two images, two requests at once.
Panel == INSTANCE Images WITH
  Ref <- {"t1", "t2"}, Id <- {"i1", "i2"}, Created <- MCCreated,
  None <- "none", Call <- Call, KeepN <- {0, 1}, MaxOps <- 2, MaxNow <- 1,
  tags <- v1, disk <- v2, containers <- v3, image <- v4, marks <- v5,
  hist <- v6, now <- v7, ops <- v8, call <- v9, held <- v10

\* The variables beside ContainerCache's.
others == <<v1, v2, v3, v4, v5, v6, v7, v8, v9, v10, v11>>

OtherInit ==
  \/ part = "accounts" /\ Users!Init /\ v11 = 0
  \/ part = "ops" /\ Ops!Init
  \/ part = "spread" /\ Far!Init /\ v8 = 0 /\ v9 = 0 /\ v10 = 0 /\ v11 = 0
  \/ part = "onboarded" /\ Onboard!Init /\ v9 = 0 /\ v10 = 0 /\ v11 = 0
  \/ part = "images" /\ Panel!Init /\ v11 = 0

\* ContainerCache at rest, in the behaviours of the other parts.
AtRest == Init

MCInit ==
  \/ part = "list" /\ Init
     /\ v1 = 0 /\ v2 = 0 /\ v3 = 0 /\ v4 = 0 /\ v5 = 0 /\ v6 = 0
     /\ v7 = 0 /\ v8 = 0 /\ v9 = 0 /\ v10 = 0 /\ v11 = 0
  \/ AtRest /\ OtherInit

OtherNext ==
  \/ part = "accounts" /\ Users!Next /\ UNCHANGED <<v11>>
  \/ part = "ops" /\ Ops!Next
  \/ part = "spread" /\ Far!Next /\ UNCHANGED <<v8, v9, v10, v11>>
  \/ part = "onboarded" /\ Onboard!Next /\ UNCHANGED <<v9, v10, v11>>
  \/ part = "images" /\ Panel!Next /\ UNCHANGED <<v11>>

MCNext ==
  /\ UNCHANGED part
  /\ \/ part = "list" /\ Next /\ UNCHANGED others
     \/ OtherNext /\ UNCHANGED vars

MCSpec == MCInit /\ [][MCNext]_state

ASSUME PartsAssumption ==
  Users!AccountsAssumption /\ Ops!OpsAssumption /\ Far!SpreadAssumption
  /\ Panel!ImagesAssumption /\ CacheAssumption
-----------------------------------------------------------------------------
(* The properties of the other parts *)

\* Accounts: while Redis keeps its key, an acknowledged change holds whatever
\* other dashboards change at the same time; a credential every dashboard knows is
\* not lost unless someone asks to delete it; no two dashboards delete all users.
AccountsKept ==
  /\ [](part = "accounts" => Users!AcknowledgedHolds)
  /\ [][part = "accounts" => Users!KeptEverywhereStep /\ Users!NeverEmptiedStep]_state

\* ServiceOps: the service never runs fewer replicas than when the first of the
\* recreates in progress began; one that had the service for itself leaves as
\* many as it found; the two unattended mutators never work at once.
CapacityKept ==
  part = "ops" => Ops!CapacityKept /\ Ops!SoloOutcome /\ Ops!UnattendedApart

\* Spread: repeated and overlapping calls never place more replicas than the most
\* one of them asked for, nor route to a duplicate that is gone, or twice.
NeverStacks == part = "spread" => Far!NeverStacks /\ Far!RouteHasDuplicate

\* Onboarded: the order of operations never takes the last running backend of a
\* routed service, and no running clone is stopped while the proxy has it.
OnboardedServes ==
  /\ [](part = "onboarded" => Onboard!TypeOK /\ Onboard!NeverDark)
  /\ [][part = "onboarded" => Onboard!DeroutedFirstStep]_state

\* Images: no call takes off disk what a container, the record or a stable mark
\* has protected ever since the call began.
ProtectedKept == [][part = "images" => Panel!ProtectedKeptStep]_state
=============================================================================
