------------------------------ MODULE MCStages ------------------------------
(***************************************************************************)
(* What must not stay half done: a staged rollout, a drain, and what the   *)
(* proxies tell each other of their routes.  The parts share no state, so  *)
(* a behaviour is a behaviour of one of them: part says of which.  Rollout *)
(* and drain are Rollout and Graceful themselves, the mesh has v1, v2...   *)
(* as variables.                                                           *)
(***************************************************************************)
EXTENDS Rollout, Graceful

VARIABLES
  part,   \* the part of the system this behaviour is of
  v1, v2, v3, v4, v5, v6, v7, v8, v9, v10   \* the mesh's variables

\* Two hosts, one of which runs the service of the route.
Mesh == INSTANCE PeerMesh WITH
  Host <- {"a", "b"}, SvcHosts <- {"b"}, TTL <- 2, MaxEdits <- 1,
  MaxLoss <- 1, owns <- v1, up <- v2, label <- v3, dirty <- v4,
  learned <- v5, table <- v6, msgs <- v7, pushed <- v8, edits <- v9,
  losses <- v10

meshVars == <<v1, v2, v3, v4, v5, v6, v7, v8, v9, v10>>
state == <<vars, runVars, part, meshVars>>

\* A gradual and an immediate rollout, of one replica or three.
MCId == 1 .. 13
MCPlans == {<<100>>, <<30, 60, 100>>}

\* A part at rest, in the behaviours of the others.
RolloutRests == Init /\ DOMAIN ct = {1} /\ ct[1].ours /\ probed
DrainRests == RunInit /\ StreamGrace = 0
MeshRests ==
  /\ v1 = 0 /\ v2 = 0 /\ v3 = 0 /\ v4 = 0 /\ v5 = 0
  /\ v6 = 0 /\ v7 = 0 /\ v8 = 0 /\ v9 = 0 /\ v10 = 0

MCInit ==
  \/ part = "rollout" /\ Init /\ DrainRests /\ MeshRests
  \/ part = "drain" /\ RolloutRests /\ RunInit /\ MeshRests
  \/ part = "mesh" /\ RolloutRests /\ DrainRests /\ Mesh!Init

MCNext ==
  /\ UNCHANGED part
  /\ \/ part = "rollout" /\ Next /\ UNCHANGED <<runVars, meshVars>>
     \/ part = "drain" /\ RunNext /\ UNCHANGED <<vars, meshVars>>
     \/ part = "mesh" /\ Mesh!Next /\ UNCHANGED <<vars, runVars>>

\* What Rollout, Graceful and PeerMesh take for granted.
MCFairness ==
  /\ \A a \in Actor : WF_vars(part = "rollout" /\ Step(a))
  /\ WF_vars(part = "rollout" /\ checkOne)
  /\ WF_runVars(part = "drain" /\ Drain)
  /\ \A h \in {"a", "b"} :
       /\ WF_(Mesh!vars)(part = "mesh" /\ Mesh!Refresh(h))
       /\ WF_(Mesh!vars)(part = "mesh" /\ Mesh!ExpiryTick(h))
       /\ WF_(Mesh!vars)(part = "mesh" /\ Mesh!PushRoutes(h))
  /\ \A msg \in {m \in Mesh!Push : m.from # m.to} : WF_(Mesh!vars)(part = "mesh" /\ Mesh!PeerRoutes(msg))
  /\ WF_(Mesh!vars)(part = "mesh" /\ Mesh!Interval)

MCSpec == MCInit /\ [][MCNext]_state /\ MCFairness

ASSUME PartsAssumption ==
  RolloutAssumption /\ Mesh!MeshAssumption /\ GracefulAssumption
-----------------------------------------------------------------------------
\* PeerMesh: a route nobody defines leaves every table, spread goes with the last
\* label that asks for it, a route that stays is learned by every peer, and no
\* published group ever drifts from the store of the peers' routes.
MeshSettles ==
  /\ [](part = "mesh" => Mesh!TableMatchesStore)
  /\ []<>(part = "mesh" => (Mesh!Unowned => Mesh!Forgotten))
  /\ []<>(part = "mesh" => (Mesh!Unlabelled => Mesh!Unspread))
  /\ []<>(part = "mesh" => Mesh!KnownTo("a", "b"))
  /\ []<>(part = "mesh" => Mesh!KnownTo("b", "a"))
=============================================================================
