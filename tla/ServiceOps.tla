----------------------------- MODULE ServiceOps -----------------------------
(***************************************************************************)
(* The operations a dashboard runs on the containers of one label-managed  *)
(* service of its host: replace, rolling replace, the label setters, the   *)
(* overlap restart of a singleton, scale, stop, start, delete, the         *)
(* auto-updater and the roll of a central-environment job                  *)
(* (src/cmd/dashboard/docker.go, rollingop.go, autoupdate.go,              *)
(* rollingopcapacity.go, lifecycle.go and the guards of api.go).           *)
(*                                                                         *)
(* A synchronous handler holds no lock on the service: the guard of the    *)
(* API only knows the rollouts and the rolling jobs in progress, and the   *)
(* claim only keeps the unattended mutators apart.  Whatever else overlaps *)
(* is kept apart by Docker alone, which refuses a name that is in use.     *)
(* Each operation is therefore a process whose Docker calls interleave     *)
(* with those of the others.                                               *)
(***************************************************************************)
EXTENDS Integers, FiniteSets

CONSTANTS Ids,           \* container ids, in the order Docker hands them out
          Handlers,      \* API requests that may be in progress at once
          PeerHealthy,   \* healthy replicas the reachable peers report
          Wants,         \* replica counts a scale may ask for
          MaxFailures,   \* autoUpdateMaxFailures
          MaxOps, MaxFaults   \* bounds of the instance

OpsAssumption ==
    /\ Ids \subseteq Nat /\ PeerHealthy \in Nat /\ MaxFailures \in Nat
    /\ {"rom", "auto"} \cap Handlers = {}

VARIABLES cont,     \* id -> [idx, st, img, uns]: its name's index (0 for a
                    \* compose original), state, image, proxy.unscalable
          op,       \* process -> the operation it is in the middle of
          rom,      \* status of the service's entry in rollingOpManager
          claim,    \* owner of the service in serviceClaims
          failures, \* autoUpdater.failures of the service
          blocked,  \* autoUpdateBlockStore has a reason for it
          latest,   \* image the registry has under the service's tag
          pulled,   \* image this host has under it
          floor,    \* replicas the operations in progress may not go below
          ops, faults   \* what the instance has used of its bounds

vars == <<cont, op, rom, claim, failures, blocked, latest, pulled,
          floor, ops, faults>>

Procs == Handlers \cup {"rom", "auto"}

(* The operations that swap containers for equals. *)
Recreates == {"replace", "label", "singleton", "roll", "restart", "env"}

Min2(a, b) == IF a < b THEN a ELSE b

Idle == [pc |-> "idle", kind |-> "-", want |-> 0, ex |-> {}, todo |-> {},
         need |-> 0, idx |-> 0, mine |-> {}, cur |-> 0, old |-> 0, img |-> 0,
         uns |-> FALSE, overlap |-> FALSE, found |-> 0, solo |-> FALSE]

(***************************************************************************)
(* Docker, as the code uses it: a name may be used by one container.       *)
(***************************************************************************)
Existing == {c \in Ids : cont[c].st \notin {"none", "gone"}}

Running == {c \in Existing : cont[c].st = "run"}

NameFree(i) == i # 0 /\ \A c \in Existing : cont[c].idx # i

Unused == {c \in Ids : cont[c].st = "none"}

NextId == CHOOSE c \in Unused : \A d \in Unused : c <= d

Put(c, st) == cont' = [cont EXCEPT ![c].st = st]

PutAll(S, st) == [c \in Ids |-> IF c \in S THEN [cont[c] EXCEPT !.st = st]
                                           ELSE cont[c]]

(* A Docker call that fails, or a crash, within the bound. *)
Fault == faults < MaxFaults /\ faults' = faults + 1

NoFault == UNCHANGED faults

preferRunning(S) == LET r == {c \in S : cont[c].st = "run"}
                    IN  IF r = {} THEN S ELSE r

nextReplicaIndex(S) == 1 + CHOOSE m \in {cont[c].idx : c \in S} :
                             \A c \in S : cont[c].idx <= m

(* Docker lists the newest container first. *)
Newest(S) == CHOOSE c \in S : \A d \in S : d <= c

Template == Newest(preferRunning(Existing))

(* overlapEnabled of some member. *)
Overlapped(S) == \E c \in S : cont[c].uns

Quiet == \A q \in Procs : op[q].pc = "idle"

Disturbing == \E q \in Procs : op[q].pc # "idle" /\ op[q].kind \notin Recreates

Container(i, st, img, uns) == [idx |-> i, st |-> st, img |-> img, uns |-> uns]

(* A compose original and a replica, or a singleton; the service has the   *)
(* proxy.overlap label, which counts on a singleton only.                  *)
Init == /\ \E uns \in BOOLEAN :
             cont = [c \in Ids |->
                       IF c = 1 THEN Container(0, "run", 0, uns)
                       ELSE IF c = 2 /\ ~uns THEN Container(1, "run", 0, uns)
                       ELSE Container(0, "none", 0, FALSE)]
        /\ op = [p \in Procs |-> Idle]
        /\ rom = "none" /\ claim = "none" /\ failures = 0 /\ blocked = FALSE
        /\ latest = 0 /\ pulled = 0
        /\ floor = 0 /\ ops = 0 /\ faults = 0

(***************************************************************************)
(* An operation of kind k begins in process p; want is the count a scale   *)
(* asks for.  floor and solo are history: how many replicas were running   *)
(* when the overlapping recreates began, and whether the operation had the *)
(* service for itself so far.                                              *)
(***************************************************************************)
Enter(p, k, want) ==
    /\ ops < MaxOps /\ ops' = ops + 1
    /\ op' = [q \in Procs |->
                IF q = p
                THEN [Idle EXCEPT !.pc = "list", !.kind = k, !.want = want,
                                  !.solo = Quiet]
                ELSE [op[q] EXCEPT !.solo = FALSE]]
    /\ floor' = IF k \in Recreates
                THEN IF Quiet THEN Cardinality(Running)
                              ELSE IF Disturbing THEN 0 ELSE floor
                ELSE IF k = "scale" /\ Quiet
                     THEN Min2(Cardinality(Running),
                               want - Cardinality(Existing \ Running))
                     ELSE 0

(* The guard in front of every mutating route of the API. *)
NoRollingJob == rom # "running"

(* A request for one of the synchronous operations. *)
Accept(p, k, want) ==
    /\ op[p].pc = "idle" /\ NoRollingJob
    /\ Enter(p, k, want)
    /\ UNCHANGED <<cont, rom, claim, failures, blocked, latest,
                   pulled, faults>>

(* setAutoUpdateLabel and setWeightLabel recreate the members with another *)
(* label; setUnscalableLabel with the one the overlap path depends on.     *)
SetLabel(p) == Accept(p, "label", 0)

SetUnscalable(p) == Accept(p, "singleton", 0)

(* rollingOpManager.startWith: the check and the insert under one lock. *)
StartJob(k) ==
    /\ rom # "running" /\ op["rom"].pc = "idle"
    /\ rom' = "running"
    /\ Enter("rom", k, 0)
    /\ UNCHANGED <<cont, claim, failures, blocked, latest, pulled>>

(* ensureRollingReplaceCapacity, which a failing local list lets through. *)
HasCapacity ==
    \/ /\ NoFault
       /\ Overlapped(Existing) \/ Cardinality(Running) + PeerHealthy >= 2
    \/ Fault

StartRolling == HasCapacity /\ StartJob("roll")

(* runReplicaRestart on the one running copy of an overlap singleton is a  *)
(* rolling job, unless a claim is held; on any other member it stops and   *)
(* starts the container ("bounce").  The look at the claim and the start   *)
(* of the job are one step: a claim taken between them is one more overlap *)
(* of the kind StartRolling, which asks for no claim, has anyway.          *)
OverlapRestart == Overlapped(Running) /\ Cardinality(Running) = 1

StartRestart == /\ OverlapRestart /\ claim = "none"
                /\ StartJob("restart") /\ NoFault

(***************************************************************************)
(* The auto-updater: it defers to a job in progress, takes the claim, and  *)
(* runs the plain replace.                                                 *)
(***************************************************************************)
NeedsUpdate == \E c \in preferRunning(Existing) : cont[c].img # latest

AutoTake ==
    /\ op["auto"].pc = "idle"
    /\ NeedsUpdate /\ Running # {} /\ failures < MaxFailures
    /\ NoRollingJob
    /\ claim = "none" /\ claim' = "auto"
    /\ Enter("auto", "replace", 0)
    /\ UNCHANGED <<cont, rom, failures, blocked, latest, pulled,
                   faults>>

(* Nothing left to update: the budget and the block are forgotten. *)
AutoClear ==
    /\ op["auto"].pc = "idle" /\ ~NeedsUpdate
    /\ failures > 0
    /\ failures' = 0 /\ blocked' = FALSE
    /\ UNCHANGED <<cont, op, rom, claim, latest, pulled, floor, ops,
                   faults>>

(* A central-environment job waits until it has the claim and no job is in *)
(* progress, and holds the claim over all its rolls.                       *)
EnvClaim ==
    /\ claim = "none" /\ NoRollingJob /\ claim' = "env"
    /\ UNCHANGED <<cont, op, rom, failures, blocked, latest, pulled,
                   floor, ops, faults>>

EnvRoll == claim = "env" /\ StartJob("env") /\ NoFault

EnvRelease ==
    /\ claim = "env" /\ op["rom"].kind # "env"
    /\ claim' = "none"
    /\ UNCHANGED <<cont, op, rom, failures, blocked, latest, pulled,
                   floor, ops, faults>>

(***************************************************************************)
(* The steps of an operation.  Step(p, r) is process p going on as r.      *)
(***************************************************************************)
Same == UNCHANGED <<rom, claim, failures, blocked, latest, floor,
                    ops>>

Step(p, r) == op' = [op EXCEPT ![p] = r]

At(p, pc) == op[p].pc = pc

Fail(p) == Step(p, [op[p] EXCEPT !.pc = "failed"])

(* A swap loop: one new container for each member of the template set. *)
Rolls(p) == op[p].kind \in {"roll", "restart", "env"} \/ op[p].overlap

(* The new copy that fails its gate is removed. *)
RemoveOnGateFailure(p) == op[p].overlap \/ op[p].kind = "env"

(* The image an operation recreates on: what the pull brought, what the    *)
(* tag is on this host, or what the template runs.                         *)
ImageOf(p, t) == CASE op[p].kind = "restart" -> pulled
                   [] op[p].kind \in {"replace", "roll"} -> latest
                   [] OTHER -> cont[t].img

(* The labels of the new containers: setUnscalableLabel flips its own.     *)
UnscalableOf(p, t) == IF op[p].kind = "singleton" THEN ~cont[t].uns
                                                  ELSE cont[t].uns

(* prepareReplaceTemplate, and the same lines of the label setters: the    *)
(* members, the template set, the first free index, once and for all.  The *)
(* labels before and after decide about the overlap path.  A restart is    *)
(* refused once the service is no overlap singleton any more.              *)
ListTemplate(p) ==
    /\ At(p, "list") /\ op[p].kind \in Recreates
    /\ \/ /\ Existing # {} /\ NoFault
          /\ LET tpl == preferRunning(Existing) t == Template IN
               /\ op[p].kind = "restart" => cont[t].uns
               /\ Step(p, [op[p] EXCEPT
                    !.uns = UnscalableOf(p, t),
                    !.overlap = /\ op[p].kind # "env"
                                /\ cont[t].uns \/ UnscalableOf(p, t),
                    !.pc = "create", !.ex = Existing, !.todo = tpl,
                    !.need = Cardinality(tpl), !.img = ImageOf(p, t),
                    !.idx = nextReplicaIndex(Existing),
                    !.found = Cardinality(Running)])
               /\ pulled' = IF op[p].kind \in {"replace", "roll"} THEN latest
                                                                  ELSE pulled
       \/ /\ Existing # {} /\ op[p].kind = "restart" => ~cont[Template].uns
          /\ Existing = {} \/ op[p].kind = "restart"
          /\ NoFault /\ Fail(p) /\ UNCHANGED pulled
       \/ Fault /\ Fail(p) /\ UNCHANGED pulled
    /\ UNCHANGED cont /\ Same

(* scaleService, whose refusals and removal order are those of the code: a *)
(* singleton stays at one, a compose original is never removed, a stopped  *)
(* replica goes before a running one.                                      *)
Ours == {c \in Existing : cont[c].idx > 0}

RemovalOrder(c, d) ==
    IF (cont[c].st = "run") # (cont[d].st = "run") THEN cont[c].st # "run"
    ELSE cont[c].idx > cont[d].idx

FirstOurs(n) == {c \in Ours :
                   Cardinality({d \in Ours : RemovalOrder(d, c)}) < n}

ListScale(p) ==
    LET current == Cardinality(Existing)
        want    == op[p].want
        refused == \/ Existing = {}
                   \/ cont[Template].uns /\ want # 1
                   \/ want < current /\ Cardinality(Ours) < current - want
    IN  /\ At(p, "list") /\ op[p].kind = "scale"
        /\ Step(p, IF refused THEN [op[p] EXCEPT !.pc = "failed"]
                   ELSE IF current = want THEN [op[p] EXCEPT !.pc = "ok"]
                   ELSE IF current < want
                   THEN [op[p] EXCEPT
                           !.pc = "create", !.need = want - current,
                           !.idx = nextReplicaIndex(Existing),
                           !.img = cont[Template].img, !.uns = cont[Template].uns]
                   ELSE [op[p] EXCEPT !.pc = "remove",
                                      !.todo = FirstOurs(current - want)])
        /\ UNCHANGED <<cont, pulled>> /\ NoFault /\ Same

(* deleteService, stopServiceMembers, startServiceMembers, the same on one *)
(* replica, and the stop-then-start restart.                               *)
Members(k) == CASE k = "delete" -> Existing
                [] k = "start"  -> Existing \ Running
                [] k = "bounce" -> IF OverlapRestart THEN Existing \ Running
                                                     ELSE Existing
                [] OTHER        -> Running

ListMembers(p) ==
    /\ At(p, "list") /\ op[p].kind \in {"delete", "stop", "start", "bounce"}
    /\ \E S \in SUBSET Members(op[p].kind) :
         /\ \/ S = Members(op[p].kind) /\ op[p].kind # "bounce"
            \/ Cardinality(S) = 1 /\ op[p].kind # "delete"
            \/ S = {} /\ Members(op[p].kind) = {}
         /\ Step(p, [op[p] EXCEPT !.pc = "remove", !.todo = S])
    /\ UNCHANGED <<cont, pulled>> /\ NoFault /\ Same

(* createContainer: Docker refuses a name in use, and may fail. *)
Create(p) ==
    LET r == op[p] IN
    /\ At(p, "create") /\ r.need > 0 /\ Unused # {}
    /\ \/ /\ NameFree(r.idx) /\ NoFault
          /\ cont' = [cont EXCEPT ![NextId] =
                        Container(r.idx, "created", r.img, r.uns)]
          /\ Step(p, [r EXCEPT !.pc = "start", !.cur = NextId,
                               !.idx = @ + 1])
       \/ /\ (~NameFree(r.idx) /\ NoFault) \/ Fault
          /\ cont' = IF Rolls(p) \/ r.kind = "scale" THEN cont
                     ELSE PutAll(r.mine, "gone")
          /\ Fail(p)
    /\ UNCHANGED pulled /\ Same

(* startContainer.  What a failed start leaves behind differs: the swap    *)
(* loop removes the container, the label setters it and the earlier ones,  *)
(* replaceService only the earlier ones, scaleService nothing.             *)
StartFailed(p) ==
    LET r == op[p]
        gone == IF Rolls(p) THEN {r.cur}
                ELSE CASE r.kind \in {"label", "singleton"} ->
                            r.mine \cup {r.cur}
                       [] r.kind = "replace" -> r.mine
                       [] OTHER -> {}
    IN  cont' = PutAll(gone, "gone") /\ Fail(p)

Start(p) ==
    LET r == op[p] IN
    /\ At(p, "start")
    /\ \/ /\ cont[r.cur].st = "created" /\ NoFault
          /\ Put(r.cur, "run")
          /\ Step(p, [r EXCEPT !.pc = IF Rolls(p) THEN "gate" ELSE "create",
                               !.need = IF Rolls(p) THEN @ ELSE @ - 1,
                               !.mine = @ \cup {r.cur}])
       \/ /\ (cont[r.cur].st # "created" /\ NoFault) \/ Fault
          /\ StartFailed(p)
    /\ UNCHANGED pulled /\ Same

(* All are created: replaceService and the setters wait replaceSettleDelay *)
(* and retire the members they listed; scaleService is done.               *)
Settle(p) ==
    /\ At(p, "create") /\ op[p].need = 0 /\ ~Rolls(p)
    /\ Step(p, IF op[p].kind = "scale" THEN [op[p] EXCEPT !.pc = "ok"]
               ELSE [op[p] EXCEPT !.pc = "remove", !.todo = op[p].ex])
    /\ UNCHANGED <<cont, pulled>> /\ NoFault /\ Same

(* waitReplicaReady: the new copy becomes healthy, or it never does, or it *)
(* is gone.                                                                *)
GatePasses(p) ==
    /\ At(p, "gate") /\ cont[op[p].cur].st = "run"
    /\ Step(p, [op[p] EXCEPT !.pc = "drain", !.old = Newest(op[p].todo)])
    /\ UNCHANGED <<cont, pulled>> /\ NoFault /\ Same

\* Mutant: a failed gate is only logged and the predecessor is retired.
GateIgnored(p) ==
    /\ At(p, "gate")
    /\ (cont[op[p].cur].st # "run" /\ NoFault) \/ Fault
    /\ cont' = IF RemoveOnGateFailure(p) THEN PutAll({op[p].cur}, "gone")
                                         ELSE cont
    /\ Step(p, [op[p] EXCEPT !.pc = "drain", !.old = Newest(op[p].todo)])
    /\ UNCHANGED pulled /\ Same

GateFails(p) ==
    /\ At(p, "gate")
    /\ (cont[op[p].cur].st # "run" /\ NoFault) \/ Fault
    /\ cont' = IF RemoveOnGateFailure(p) THEN PutAll({op[p].cur}, "gone")
                                         ELSE cont
    /\ Fail(p)
    /\ UNCHANGED pulled /\ Same

(* drainStopRemove: a removal that fails leaves the container stopped. *)
Drained(c) == \/ Put(c, "gone") /\ NoFault
              \/ Put(c, "exited") /\ Fault

(* The predecessor is retired once its successor serves; when none is left *)
(* the leftovers that had no successor are swept.                          *)
Drain(p) ==
    LET r == op[p] left == r.todo \ {r.old} IN
    /\ At(p, "drain")
    /\ IF cont[r.old].st = "gone" THEN UNCHANGED cont /\ NoFault
                                  ELSE Drained(r.old)
    /\ Step(p, IF left # {}
               THEN [r EXCEPT !.pc = "create", !.todo = left,
                              !.ex = @ \ {r.old}, !.need = @ - 1]
               ELSE [r EXCEPT !.pc = "remove", !.todo = r.ex \ {r.old}])
    /\ UNCHANGED pulled /\ Same

(* One container of those to retire, stop, start or restart; the restart   *)
(* goes on as a start.                                                     *)
Remove(p) ==
    LET r == op[p] IN
    /\ At(p, "remove")
    /\ \E c \in r.todo :
         /\ CASE cont[c].st = "gone" -> NoFault /\ UNCHANGED cont
              [] r.kind = "start" -> \/ Put(c, "run") /\ NoFault
                                     \/ Fault /\ UNCHANGED cont
              [] r.kind \in {"stop", "bounce"} -> Put(c, "exited") /\ NoFault
              [] OTHER -> Drained(c)
         /\ Step(p, IF r.kind = "bounce" THEN [r EXCEPT !.kind = "start"]
                                         ELSE [r EXCEPT !.todo = @ \ {c}])
    /\ UNCHANGED pulled /\ Same

RemoveDone(p) ==
    /\ At(p, "remove") /\ op[p].todo = {}
    /\ Step(p, [op[p] EXCEPT !.pc = "ok"])
    /\ UNCHANGED <<cont, pulled>> /\ NoFault /\ Same

(***************************************************************************)
(* An operation is over: a handler answers, the job's status is set, the   *)
(* auto-updater releases the claim and keeps its failure budget.           *)
(***************************************************************************)
Over(p) ==
    /\ op[p].pc \in {"ok", "failed"}
    /\ op' = [op EXCEPT ![p] = Idle]
    /\ rom' = IF p # "rom" THEN rom
              ELSE IF op[p].pc = "ok" THEN "completed" ELSE "failed"
    /\ claim' = IF p = "auto" THEN "none" ELSE claim
    /\ failures' = IF p # "auto" THEN failures
                   ELSE IF op[p].pc = "ok" THEN 0 ELSE failures + 1
    /\ blocked' = IF p # "auto" THEN blocked
                  ELSE op[p].pc = "failed" /\ failures + 1 >= MaxFailures
    /\ UNCHANGED <<cont, latest, pulled, floor, ops, faults>>

(* A newer image appears under the service's tag (between operations: one  *)
(* that appears during a pull is pulled or not).                           *)
Publish ==
    /\ Quiet /\ latest = 0 /\ latest' = 1
    /\ UNCHANGED <<cont, op, rom, claim, failures, blocked, pulled,
                   floor, ops, faults>>

(* The dashboard dies: the jobs, the claims and the budget are in memory. *)
Crash ==
    /\ Fault
    /\ op' = [p \in Procs |-> Idle]
    /\ rom' = "none" /\ claim' = "none" /\ failures' = 0 /\ blocked' = FALSE
    /\ UNCHANGED <<cont, latest, pulled, floor, ops>>

Request(p) ==
    \/ Accept(p, "replace", 0)
    \/ SetLabel(p) \/ SetUnscalable(p)
    \/ \E k \in {"delete", "stop", "start", "bounce"} : Accept(p, k, 0)
    \/ \E want \in Wants : Accept(p, "scale", want)

Work(p) == \/ ListTemplate(p) \/ ListScale(p) \/ ListMembers(p)
           \/ Create(p) \/ Start(p) \/ Settle(p)
           \/ GatePasses(p) \/ GateFails(p) \/ Drain(p)
           \/ Remove(p) \/ RemoveDone(p)
           \/ Over(p)

Next == \/ \E p \in Handlers : Request(p)
        \/ StartRolling \/ StartRestart
        \/ AutoTake \/ AutoClear
        \/ EnvClaim \/ EnvRoll \/ EnvRelease
        \/ \E p \in Procs : Work(p)
        \/ Publish \/ Crash

Spec == Init /\ [][Next]_vars

(***************************************************************************)
(* Properties.                                                             *)
(***************************************************************************)
\* However replaces, rolling replaces, label changes, overlap restarts, the
\* auto-updater and environment rolls overlap, fail half-way or die with the
\* dashboard, the service never runs fewer replicas than when the first of them
\* began ("live capacity never drops below the original replica count"), and a
\* scale of its own never goes below what was asked for.  A stop, a delete, a
\* restart by stop and start, and a scale that overlaps something promise
\* nothing.
CapacityKept == Cardinality(Running) >= floor

\* A recreate that had the service for itself leaves as many replicas running
\* as it found, whatever it met on its way and whatever stale containers lay
\* around; when it succeeded they are its own, on the image it was to bring.
\* Only a rolling replace whose new copy never became healthy leaves that copy
\* beside the others, and never on an overlap singleton.
SoloOutcome ==
    \A p \in Procs :
      LET r == op[p] n == Cardinality(Running) IN
      r.solo /\ r.kind \in Recreates /\ r.found > 0 =>
        /\ r.pc = "ok" =>
             /\ n = r.found /\ Running \subseteq r.mine
             /\ \A c \in Running : cont[c].img = r.img
        /\ r.pc = "failed" =>
             n = r.found \/ (n = r.found + 1 /\ r.kind = "roll" /\ ~r.overlap)

\* The two unattended mutators never work on the service's containers at the
\* same time: the claim is held over the whole of each.
UnattendedApart ==
    ~(op["auto"].pc # "idle" /\ op["rom"].kind = "env" /\ op["rom"].pc # "idle")

=============================================================================
