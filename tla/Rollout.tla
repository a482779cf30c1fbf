------------------------------ MODULE Rollout ------------------------------
(***************************************************************************)
(* Staged canary rollouts of one label-managed, scalable service           *)
(* (cmd/dashboard/rollout.go) and the primitives on containers they and    *)
(* the API share: scaleService, createCanaryReplicas, scaleCanary,         *)
(* promoteCanary, discardCanary (docker.go).                               *)
(*                                                                         *)
(* An operator, who waits for the answer of a call before making the next, *)
(* and the manager's ticker each run a job: the calls still to make and,   *)
(* of the call under way, the work its listing of the containers led to.   *)
(* Every container is created or removed in a step of its own, each of     *)
(* which may fail, and the dashboard, which keeps rollouts in memory only, *)
(* may restart in between.  Images and envs are left out.                  *)
(***************************************************************************)
EXTENDS Integers, Sequences, FiniteSets, FiniteSetsExt

CONSTANTS
  Id,           \* containers that Docker may hold at one time
  Origs,        \* initial numbers of live replicas
  Plans,        \* steps a rollout may be started with (percentages)
  Desired,      \* replica counts the operator may scale to
  MaxOps,       \* bound: calls of the operator
  MaxFails,     \* bound: failing Docker calls and restarts of the dashboard
  MaxFlips      \* bound: changes of a canary's health

\* validateRolloutSteps: ascending percentages that end in 100.
ValidSteps(steps) ==
  /\ \A i \in DOMAIN steps : steps[i] \in 1 .. 100
  /\ \A i \in 1 .. Len(steps) - 1 : steps[i] < steps[i + 1]
  /\ steps[Len(steps)] = 100

RolloutAssumption ==
  /\ Id \subseteq Nat /\ IsFiniteSet(Id)
  /\ Origs \subseteq Nat \ {0} /\ Desired \subseteq Nat \ {0}
  /\ \A n \in Origs : 1 .. n \subseteq Id
  /\ \A steps \in Plans : steps \in Seq(1 .. 100) /\ steps # <<>> /\ ValidSteps(steps)
  /\ {MaxOps, MaxFails, MaxFlips} \subseteq Nat

VARIABLES
  ct,         \* the service's containers, a function on their ids
  probed,     \* whether it has a proxy.health path
  job,        \* what operator and ticker are doing
  lock,       \* who holds rolloutManager.serviceLock
  rollout,    \* rolloutManager.rollouts
  ops, fails, flips

vars == <<ct, probed, job, lock, rollout, ops, fails, flips>>

Actor == {"operator", "ticker"}
Nobody == "nobody"

Container(canary, ours, running) ==
  [canary |-> canary, ours |-> ours, running |-> running, sick |-> FALSE]

All    == DOMAIN ct
Canary == {c \in All : ct[c].canary}       \* canaryOnly
Live   == All \ Canary                     \* liveOnly
runningOnly(S) == {c \in S : ct[c].running}
preferRunning(S) == IF runningOnly(S) # {} THEN runningOnly(S) ELSE S

Call(do, n) == [do |-> do, n |-> n]

\* What is left to do of the call under way: containers to create, canaries to
\* promote (after the health gate), the one just promoted, containers to
\* remove, and whether a failed removal stops the call, is reported when all
\* are done, or is only logged.
Work(create, canary, gate, promote, swap, drop, onFail, failed) ==
  [create |-> create, canary |-> canary, gate |-> gate, promote |-> promote,
   swap |-> swap, drop |-> drop, onFail |-> onFail, failed |-> failed]

NoWork == Work(0, FALSE, FALSE, {}, {}, {}, "stop", FALSE)
Create(n, canary) == Work(n, canary, FALSE, {}, {}, {}, "stop", FALSE)
Drop(S, onFail) == Work(0, FALSE, FALSE, {}, {}, S, onFail, FALSE)

WorkDone(w) ==
  w.create = 0 /\ ~w.gate /\ w.promote = {} /\ w.swap = {} /\ w.drop = {}

Job(kind, calls, orig, steps) ==
  [kind |-> kind, calls |-> calls, work |-> NoWork, orig |-> orig, steps |-> steps]
Idle == Job("idle", <<>>, 0, <<>>)

RolloutState(status, idx, orig, steps, why) ==
  [status |-> status, idx |-> idx, orig |-> orig, steps |-> steps, why |-> why]
NoRollout == RolloutState("none", 0, 0, <<>>, "")

Init ==
  /\ \E n \in Origs : \E own \in 0 .. n :
       ct = [c \in 1 .. n |-> Container(FALSE, c <= own, TRUE)]
  /\ probed \in BOOLEAN
  /\ job = [a \in Actor |-> Idle]
  /\ lock = Nobody
  /\ rollout = NoRollout
  /\ ops = 0 /\ fails = 0 /\ flips = 0

rolloutActive == rollout.status \in {"awaiting-advance", "rolling-back"}

-----------------------------------------------------------------------------
(* Primitives: the works a call may find to do when it lists the           *)
(* containers, none if it refuses.                                         *)

\* ceilPct
ceilPct(total, pct) == Max({(total * pct + 99) \div 100, 1})

\* The containers scaleService may remove: those the dashboard created, the
\* stopped ones first.  Names break the tie in the code, anything may here.
Removable(n) ==
  LET ours    == {c \in Live : ct[c].ours}
      stopped == ours \ runningOnly(ours)
  IN {S \in SUBSET ours : /\ Cardinality(S) = n
                          /\ S \subseteq stopped \/ stopped \subseteq S}

scaleService(n) ==
  IF Live = {} THEN {}
  ELSE IF Cardinality(Live) <= n THEN {Create(n - Cardinality(Live), FALSE)}
  ELSE {Drop(S, "stop") : S \in Removable(Cardinality(Live) - n)}

createCanaryReplicas(n) ==
  IF Canary # {} \/ Live = {} THEN {} ELSE {Create(n, TRUE)}

stageCanary == createCanaryReplicas(Cardinality(preferRunning(Live)))

scaleCanary(n) ==
  IF Canary = {} THEN {}
  ELSE IF Cardinality(Canary) <= n THEN {Create(n - Cardinality(Canary), TRUE)}
  ELSE {Drop(S, "stop") : S \in kSubset(Cardinality(Canary) - n, Canary)}

\* promoteCanary, from its listing: the gate, the canaries one by one, then
\* the containers that were live.
promoteCanary ==
  IF Canary = {} THEN {}
  ELSE {Work(0, FALSE, TRUE, Canary, {}, Live, "ignore", FALSE)}

\* Mutant: a canary that is not removed is only logged.
discardCanaryLogs == IF Canary = {} THEN {} ELSE {Drop(Canary, "ignore")}

\* discardCanary
discardCanary == IF Canary = {} THEN {} ELSE {Drop(Canary, "remember")}

WorkOf(call) ==
  CASE call.do = "scaleLive"    -> scaleService(call.n)
    [] call.do = "createCanary" -> createCanaryReplicas(call.n)
    [] call.do = "stage"        -> stageCanary
    [] call.do = "scaleCanary"  -> scaleCanary(call.n)
    [] call.do = "promote"      -> promoteCanary
    [] call.do = "discard"      -> discardCanary

\* checkContainerHealthy: a container that was created and never started is
\* only noticed by the probe of a health path.
checkContainerHealthy(c) == ~ct[c].sick /\ (probed => ct[c].running)

\* Mutant: one healthy canary is enough.
checkCanaryHealthAny == \E c \in Canary : checkContainerHealthy(c)

\* checkCanaryHealth
checkCanaryHealth == Canary # {} /\ \A c \in Canary : checkContainerHealthy(c)

\* scaleLiveTo
scaleLiveTo(n) == IF n = 0 THEN <<>> ELSE <<Call("scaleLive", n)>>

-----------------------------------------------------------------------------
(* Jobs                                                                    *)

\* What a rollout is once its promotion returned.
Promoted(ok) == IF ok THEN "completed" ELSE "failed"

\* The state the manager records when a job of this kind ends.
Outcome(j, ok) ==
  LET r == rollout
      To(status, why) == RolloutState(status, r.idx, r.orig, r.steps, why)
  IN CASE j.kind = "start" /\ ok    -> RolloutState("awaiting-advance", 1, j.orig, j.steps, "")
       [] j.kind = "advance" /\ ok  -> RolloutState(r.status, r.idx + 1, r.orig, r.steps, r.why)
       [] j.kind = "promote"        -> To(Promoted(ok), IF ok THEN "" ELSE "promote")
       [] j.kind = "rollback"       -> To("failed", IF ok THEN "unhealthy" ELSE "rollback")
       [] j.kind = "abort" /\ ok    -> To("rolled-back", "")
       [] OTHER                     -> r

End(a, ok) ==
  /\ job' = [job EXCEPT ![a] = Idle]
  /\ rollout' = Outcome(job[a], ok)
  /\ lock' = IF lock = a THEN Nobody ELSE lock

SetJob(a, j) == job' = [job EXCEPT ![a] = j]
SetWork(a, w) == job' = [job EXCEPT ![a].work = w]
KeepManager == UNCHANGED <<lock, rollout>>
KeepBounds == UNCHANGED <<probed, ops, flips>>

\* Actor a is about to make the call do.
At(a, do) ==
  /\ WorkDone(job[a].work)
  /\ job[a].calls # <<>>
  /\ Head(job[a].calls).do = do

\* startRollout lists the containers; the canaries come before live shrinks.
StartList(a) ==
  LET j == job[a]
      orig == Cardinality(Live)
      n == ceilPct(orig, j.steps[1])
  IN /\ At(a, "startList")
     /\ IF Canary # {} \/ orig = 0
        THEN End(a, FALSE)
        ELSE /\ SetJob(a, Job("start", <<Call("createCanary", n)>> \o scaleLiveTo(orig - n),
                              orig, j.steps))
             /\ KeepManager
     /\ UNCHANGED <<ct, fails>> /\ KeepBounds

\* atLastStep
atLastStep == rollout.idx = Len(rollout.steps)

\* Mutant: live shrinks before the canaries are there.
RampLiveFirst(n) == scaleLiveTo(rollout.orig - n) \o <<Call("scaleCanary", n)>>

\* The calls of a ramp step to n canaries.
Ramp(n) == <<Call("scaleCanary", n)>> \o scaleLiveTo(rollout.orig - n)

\* The health check of doAdvance and of checkOne.  Unhealthy: autoRollback.
\* Healthy: the ticker is done, an advance promotes or takes the next step.
CheckHealth(a) ==
  /\ At(a, "health")
  /\ IF ~checkCanaryHealth
     THEN /\ SetJob(a, Job("rollback", <<Call("rollback", 0)>>, 0, <<>>))
          /\ rollout' = [rollout EXCEPT !.status = "rolling-back"]
          /\ UNCHANGED lock
     ELSE IF job[a].kind = "tick" THEN End(a, TRUE)
     ELSE /\ SetJob(a, IF atLastStep
                       THEN Job("promote", <<Call("promote", 0)>>, 0, <<>>)
                       ELSE Job("advance",
                                Ramp(ceilPct(rollout.orig, rollout.steps[rollout.idx + 1])), 0, <<>>))
          /\ KeepManager
  /\ UNCHANGED <<ct, fails>> /\ KeepBounds

\* rollbackContainers: the canaries, if there are any, then live.
Rollback(a) ==
  /\ At(a, "rollback")
  /\ SetJob(a, Job(job[a].kind,
       (IF Canary # {} THEN <<Call("discard", 0)>> ELSE <<>>)
         \o <<Call("scaleLive", rollout.orig)>>, 0, <<>>))
  /\ KeepManager
  /\ UNCHANGED <<ct, fails>> /\ KeepBounds

Special == {"startList", "health", "rollback"}

\* A primitive lists the containers and refuses, or has its work.
List(a) ==
  LET j == job[a] IN
  /\ WorkDone(j.work)
  /\ j.calls # <<>>
  /\ Head(j.calls).do \notin Special
  /\ IF WorkOf(Head(j.calls)) = {}
     THEN End(a, FALSE)
     ELSE /\ \E w \in WorkOf(Head(j.calls)) :
               SetJob(a, [j EXCEPT !.calls = Tail(j.calls), !.work = w])
          /\ KeepManager
  /\ UNCHANGED <<ct, fails>> /\ KeepBounds

\* The next container, and what Docker holds with it.
Fresh == Min(Id \ All)
With(c, new) == [x \in All \cup {c} |-> IF x = c THEN new ELSE ct[x]]
Without(c) == [x \in All \ {c} |-> ct[x]]
Stopped(c) == [ct EXCEPT ![c].running = FALSE]

\* createContainer and startContainer
CreateOne(a) ==
  LET w == job[a].work IN
  /\ w.create > 0
  /\ Id \ All # {}
  /\ ct' = With(Fresh, Container(w.canary, TRUE, TRUE))
  /\ SetWork(a, [w EXCEPT !.create = w.create - 1])
  /\ KeepManager /\ UNCHANGED fails /\ KeepBounds

\* waitForCanaryHealthy: passed, or given up at its deadline.
Gate(a) ==
  LET w == job[a].work IN
  /\ w.gate
  /\ IF checkCanaryHealth
     THEN SetWork(a, [w EXCEPT !.gate = FALSE]) /\ KeepManager
     ELSE End(a, FALSE)
  /\ UNCHANGED <<ct, fails>> /\ KeepBounds

\* promoteCanary recreates the next canary without its label.
PromoteOne(a) ==
  LET w == job[a].work
      c == Min(w.promote)
  IN
  /\ ~w.gate /\ w.swap = {} /\ w.promote # {}
  /\ Id \ All # {}
  /\ ct' = With(Fresh, Container(FALSE, TRUE, TRUE))
  /\ SetWork(a, [w EXCEPT !.promote = w.promote \ {c}, !.swap = {c}])
  /\ KeepManager /\ UNCHANGED fails /\ KeepBounds

\* The containers a job may remove next.
ToDrop(w) ==
  IF w.swap # {} THEN w.swap ELSE IF w.gate \/ w.promote # {} THEN {} ELSE w.drop

\* drainStopRemove of one container: the canary just promoted, or one of those
\* to remove.
Remove(a, c) ==
  LET w == job[a].work
      left == [w EXCEPT !.swap = w.swap \ {c}, !.drop = w.drop \ {c}]
  IN /\ c \in ToDrop(w)
     /\ ct' = Without(c)
     /\ IF WorkDone(left) /\ w.failed
        THEN End(a, FALSE)
        ELSE SetWork(a, left) /\ KeepManager
     /\ UNCHANGED fails /\ KeepBounds

\* The container stays, stopped or running.
RemoveFails(a, c) ==
  LET w == job[a].work
      kind == IF w.swap # {} THEN "ignore" ELSE w.onFail
      left == [w EXCEPT !.swap = w.swap \ {c}, !.drop = w.drop \ {c},
                        !.failed = w.failed \/ kind = "remember"]
  IN /\ c \in ToDrop(w)
     /\ fails < MaxFails
     /\ fails' = fails + 1
     /\ ct' \in {ct, Stopped(c)}
     /\ IF kind = "stop" \/ (WorkDone(left) /\ left.failed)
        THEN End(a, FALSE)
        ELSE SetWork(a, left) /\ KeepManager
     /\ KeepBounds

\* A listing, a create or a start fails: the call ends, and the job with it.
\* A container that does not start is left behind.
CallFails(a) ==
  LET w == job[a].work
      creates == w.create > 0 \/ (~w.gate /\ w.swap = {} /\ w.promote # {})
      lists   == w.gate \/ (WorkDone(w) /\ job[a].calls # <<>>)
  IN /\ fails < MaxFails
     /\ fails' = fails + 1
     /\ \/ (lists \/ creates) /\ UNCHANGED ct
        \/ /\ creates /\ Id \ All # {}
           /\ ct' = With(Fresh, Container(w.canary, TRUE, FALSE))
     /\ End(a, FALSE)
     /\ KeepBounds

\* The last call of a job returned.
Finish(a) ==
  /\ job[a].kind # "idle"
  /\ WorkDone(job[a].work)
  /\ job[a].calls = <<>>
  /\ End(a, TRUE)
  /\ UNCHANGED <<ct, fails>> /\ KeepBounds

-----------------------------------------------------------------------------
(* Entry points                                                            *)

\* The operator makes a call.
Begin(j) ==
  /\ job["operator"] = Idle
  /\ ops < MaxOps
  /\ ops' = ops + 1
  /\ SetJob("operator", j)
  /\ UNCHANGED <<ct, probed, fails, flips>>

Locked == lock = Nobody /\ lock' = "operator"

startRollout(steps) ==
  /\ ~rolloutActive
  /\ Begin(Job("start", <<Call("startList", 0)>>, 0, steps))
  /\ Locked /\ UNCHANGED rollout

advanceRollout ==
  /\ rolloutActive
  /\ Begin(Job("advance", <<Call("health", 0)>>, 0, <<>>))
  /\ Locked /\ UNCHANGED rollout

abortRollout ==
  /\ rolloutActive
  /\ Begin(Job("abort", <<Call("rollback", 0)>>, 0, <<>>))
  /\ Locked
  /\ rollout' = [rollout EXCEPT !.status = "rolling-back"]

\* Every other endpoint is refused during a rollout, and takes no lock.
Plain(call) ==
  /\ ~rolloutActive
  /\ Begin(Job("plain", <<call>>, 0, <<>>))
  /\ KeepManager

stage     == Plain(Call("stage", 0))
promote   == Plain(Call("promote", 0))
discard   == Plain(Call("discard", 0))
scale(n)  == Plain(Call("scaleLive", n))

\* checkAll and checkOne: the status is read again under the lock.
checkOne ==
  /\ job["ticker"] = Idle
  /\ lock = Nobody /\ lock' = "ticker"
  /\ rollout.status = "awaiting-advance"
  /\ SetJob("ticker", Job("tick", <<Call("health", 0)>>, 0, <<>>))
  /\ UNCHANGED <<rollout, ct, fails>> /\ KeepBounds

\* A running canary becomes unhealthy, or healthy again.
Flip(c) ==
  /\ flips < MaxFlips
  /\ flips' = flips + 1
  /\ c \in runningOnly(Canary)
  /\ ct' = [ct EXCEPT ![c].sick = ~ct[c].sick]
  /\ UNCHANGED <<probed, job, lock, rollout, ops, fails>>

\* The dashboard restarts: jobs, locks and rollouts are gone.
Crash ==
  /\ fails < MaxFails
  /\ fails' = fails + 1
  /\ job' = [a \in Actor |-> Idle]
  /\ lock' = Nobody
  /\ rollout' = NoRollout
  /\ UNCHANGED <<ct, probed, ops, flips>>

Step(a) ==
  \/ StartList(a) \/ CheckHealth(a) \/ Rollback(a) \/ List(a)
  \/ CreateOne(a) \/ Gate(a) \/ PromoteOne(a)
  \/ \E c \in Id : Remove(a, c)
  \/ Finish(a)

Next ==
  \/ \E steps \in Plans : startRollout(steps)
  \/ advanceRollout \/ abortRollout
  \/ stage \/ promote \/ discard
  \/ \E n \in Desired : scale(n)
  \/ checkOne
  \/ \E a \in Actor : Step(a) \/ CallFails(a) \/ (\E c \in Id : RemoveFails(a, c))
  \/ \E c \in Id : Flip(c)
  \/ Crash

\* Docker answers or a call times out, so jobs end; the ticker ticks.
Fairness == (\A a \in Actor : WF_vars(Step(a))) /\ WF_vars(checkOne)

Spec == Init /\ [][Next]_vars /\ Fairness

-----------------------------------------------------------------------------
(* Properties                                                              *)

Statuses == {"none", "awaiting-advance", "rolling-back", "rolled-back", "completed", "failed"}
Kinds == {"idle", "start", "advance", "promote", "rollback", "abort", "tick", "plain"}

TypeOK ==
  /\ All \subseteq Id
  /\ ct \in [All -> [canary : BOOLEAN, ours : BOOLEAN, running : BOOLEAN, sick : BOOLEAN]]
  /\ probed \in BOOLEAN
  /\ \A a \in Actor : job[a].kind \in Kinds /\ job[a].work.create \in Nat
  /\ lock \in Actor \cup {Nobody}
  /\ rollout.status \in Statuses
  /\ rolloutActive => rollout.idx \in 1 .. Len(rollout.steps)

\* rollout.go: live is scaled down "to match" what the canary has.  However
\* steps fail and are repeated, the replicas of a rollout that waits for its
\* next step, or is taking it, are never fewer than before it (counting, as the
\* code does, the ones that did not start).
ReplicasKept == rollout.status = "awaiting-advance" => Cardinality(All) >= rollout.orig

\* Through failed calls, rollbacks, promotions and restarts in the middle of
\* any of them some container runs, unless a failed removal left a container
\* that the dashboard did not create, and does not remove, stopped.
NeverDark ==
  \/ runningOnly(All) # {}
  \/ \E c \in Live : ~ct[c].ours /\ ~ct[c].running

\* Whatever fails in the middle of rollouts, scales, promotions and restarts: a
\* rollout that waits or takes a step has as many replicas as the service had,
\* and some container always runs.
CapacityKept == TypeOK /\ ReplicasKept /\ NeverDark

\* "rolling back to the last-known-good live replica count": a rollout that is
\* reported as rolled back, by the operator or after the ticker or an advance
\* met an unhealthy canary, has all its live replicas and no canary.
RollbackRestoresStep ==
  (rolloutActive /\ (rollout'.status = "rolled-back" \/ rollout'.why = "unhealthy")) =>
    Canary' = {} /\ Cardinality(Live') = rollout.orig

\* A rollout that was waiting to be advanced completes only with as many
\* running live replicas as the service had.
CompletedServesStep ==
  (rollout.status = "awaiting-advance" /\ rollout'.status = "completed") =>
    Cardinality({c \in Live' : ct'[c].running}) >= rollout.orig

\* A rollout does not end half done: reported as rolled back it has all its
\* live replicas and no canary, as completed as many running as there were.
EndsWhole == [][RollbackRestoresStep /\ CompletedServesStep]_vars

\* A waiting rollout has a canary that is unhealthy.
Unheeded == rollout.status = "awaiting-advance" /\ \E c \in Canary : ct[c].sick

\* A canary that stays unhealthy does not stay in a rollout that waits: the
\* ticker or an advance rolls it back.
UnhealthyRolledBack == []<>~Unheeded
=============================================================================
