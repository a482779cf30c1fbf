------------------------------ MODULE MCLoops -------------------------------
(***************************************************************************)
(* What goes on in rounds: the proxies of a mesh push, merge and judge an  *)
(* A/B test, environments are brought to every replica, and the manager of *)
(* an A/B test takes up what was interrupted.  The parts share no state    *)
(* but the labels of B's containers, which ABJudge changes as it likes, so *)
(* a behaviour is a behaviour of one of them: part says of which.  The     *)
(* judge is ABJudge itself, the others have v1, v2... as variables.        *)
(***************************************************************************)
EXTENDS ABJudge

One(n, e) == [n |-> n, e |-> e]
MCTraffic == {[A |-> One(a, 0), B |-> b] : a \in {0, 1}, b \in {One(0, 0), One(1, 0), One(1, 1)}}
             \ {[A |-> One(0, 0), B |-> One(0, 0)], [A |-> One(0, 0), B |-> One(1, 0)]}

MCReps == [h \in {"o", "p"} |-> IF h = "o" THEN {1, 2} ELSE {1}]

VARIABLES
  part,   \* the part of the system this behaviour is of
  v1, v2, v3, v4, v5, v6, v7, v8, v9, v10, v11, v12   \* its variables, if it is not ABJudge

state == <<vars, part, v1, v2, v3, v4, v5, v6, v7, v8, v9, v10, v11, v12>>

\* Two replicas on the origin and one on the peer.
Env == INSTANCE CentralEnv WITH
  Rep <- {1, 2}, Reps <- MCReps, MaxVersion <- 2, MaxOps <- 2,
  MaxFaults <- 1, rec <- v1, cache <- v2, ct <- v3, claim <- v4, op <- v5,
  job <- v6, dirty <- v7, shown <- v8, asked <- v9, marks <- v10,
  edit <- v11, used <- v12

\* Interrupted operations of one moment, with two faults.
Manager == INSTANCE ABManager WITH
  Replicas <- 1, Idle <- 2, MaxSession <- 3, PinRefresh <- 1, MaxNow <- 1,
  MaxTests <- 1, MaxOps <- 2, MaxFaults <- 2, now <- v1, rec <- v2,
  job <- v3, bs <- v4, live <- v5, peer <- v6, exp <- v7, ses <- v8,
  used <- v9

\* The variables beside ABJudge's.
others == <<v1, v2, v3, v4, v5, v6, v7, v8, v9, v10, v11, v12>>

OtherInit ==
  \/ part = "env" /\ Env!Init
  \/ part = "manager" /\ Manager!Init /\ v10 = 0 /\ v11 = 0 /\ v12 = 0

\* ABJudge at rest, in the behaviours of the other parts.
AtRest == Init

MCInit ==
  \/ part = "judge" /\ Init
     /\ v1 = 0 /\ v2 = 0 /\ v3 = 0 /\ v4 = 0 /\ v5 = 0 /\ v6 = 0
     /\ v7 = 0 /\ v8 = 0 /\ v9 = 0 /\ v10 = 0 /\ v11 = 0 /\ v12 = 0
  \/ AtRest /\ OtherInit

OtherNext ==
  \/ part = "env" /\ Env!Next
  \/ part = "manager" /\ Manager!Next /\ UNCHANGED <<v10, v11, v12>>

MCNext ==
  /\ UNCHANGED part
  /\ \/ part = "judge" /\ Next /\ UNCHANGED others
     \/ OtherNext /\ UNCHANGED vars

\* What CentralEnv and ABManager take for granted.
MCFairness ==
  /\ \A h \in {"o", "p"} :
       /\ WF_(Env!vars)(part = "env" /\ Env!JobStep(h))
       /\ WF_(Env!vars)(part = "env" /\ Env!CreateEnd(h))
  /\ WF_(Env!vars)(part = "env" /\ Env!Apply)
  /\ WF_(Env!vars)(part = "env" /\ Env!reconcileOrigin)
  /\ WF_(Env!vars)(part = "env" /\ Env!reconcilePeer)
  /\ WF_(Manager!vars)(part = "manager" /\ Manager!Step)
  /\ WF_(Manager!vars)(part = "manager" /\ Manager!Loop)
  /\ WF_(Manager!vars)(part = "manager" /\ Manager!Refresh)
  /\ WF_(Manager!vars)(part = "manager" /\ Manager!Push("p", "q"))
  /\ WF_(Manager!vars)(part = "manager" /\ Manager!Push("q", "p"))

MCSpec == MCInit /\ [][MCNext]_state /\ MCFairness

-----------------------------------------------------------------------------
(* The properties beside ABJudge's LatchSound and JudgedWhole *)

\* CentralEnv: an origin job that reports the service converged is right about the
\* peer, what failed its gate on the peer is not chosen there again, and the job's
\* claim on the service is given back on every way out.
ConvergedIsTrue ==
  /\ [](part = "env" => Env!ClaimHasJob)
  /\ [][part = "env" => Env!ConvergedIsTrueStep /\ Env!FailedStaysOutStep]_state

\* CentralEnv: once nobody edits, the reconcile ticks bring every replica to the
\* record, unless it failed its gate, or is being given up.
Converges == <>[](part = "env" => Env!Settled)

\* ABManager: whatever is interrupted is taken up: an operation of the record is
\* finished, replicas of B without a record get one or are removed, and a latched
\* abort reaches B's labels.
Settles ==
  /\ []<>(part = "manager" => Manager!NoneOpen)
  /\ []<>(part = "manager" => Manager!NoneOrphaned)
  /\ []<>(part = "manager" => Manager!LatchHeeded(1))
=============================================================================
