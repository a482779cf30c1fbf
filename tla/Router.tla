------------------------------- MODULE Router -------------------------------
(***************************************************************************)
(* The proxy's live routing table for one route group: how concurrent      *)
(* refreshes of cmd/proxy/main.go rebuild it from Docker, how Router.Set    *)
(* publishes a rebuild and carries health over, how stop signals drain a   *)
(* container, and what requests and health probes in flight still hold.    *)
(*                                                                         *)
(* Every refresh() builds new *Backend objects.  A generation is the set   *)
(* of objects one Set published: <<g, c>> is the object of container c in  *)
(* generation g.  A request or a probe keeps the objects it started with,  *)
(* however many generations are published meanwhile.                       *)
(***************************************************************************)
EXTENDS Naturals, Sequences, FiniteSets

CONSTANTS
  Container,    \* label-managed containers of the group (one backend each)
  Loop,         \* the goroutine of dockerClient.streamEvents
  Others,       \* other goroutines that call refresh(): /refresh, peer pushes,
                \* the peer TTL ticker, the label overlay
  Request,      \* client requests that may be in flight at once
  ProbeSlots,   \* healthCheckConcurrency: probes in flight at once
  MaxGen,       \* bound: generations published
  MaxOps,       \* bound: Docker operations
  MaxTriggers,  \* bound: refreshes called by Others
  MaxFaults     \* bound: failed listings and broken event streams

ASSUME RouterAssumption ==
  /\ Loop \notin Others
  /\ ProbeSlots \in Nat
  /\ MaxGen \in Nat \ {0}
  /\ MaxOps \in Nat
  /\ MaxTriggers \in Nat
  /\ MaxFaults \in Nat

Refresher == Others \cup {Loop}
Gen == 1 .. MaxGen
Object == Gen \X Container

\* const maxRetries and unhealthyAfterConsecutiveFails of router.go
MaxRetries == 3
UnhealthyAfter == 2

VARIABLES
  running,   \* containers Docker reports running           (external)
  sick,      \* containers whose HEALTHCHECK is failing      (external)
  events,    \* Docker events not yet decoded by the Loop    (external)
  ops,       \* Docker operations so far, for MaxOps
  triggers,  \* refreshes called by Others so far, for MaxTriggers
  faults,    \* failed listings and broken streams so far, for MaxFaults
  drainSet,  \* Router.drainSet: containers that got a stop signal
  expired,   \* the part of drainSet older than drainTTL
  gen,       \* Router.groups: the published generation
  members,   \* members[g]: containers with a backend in generation g
  floor,     \* objects with DockerUnhealthy
  draining,  \* objects with Backend.draining set
  healthy,   \* objects with Backend.healthyFlag set
  fails,     \* Backend.consecFails of each object
  ref,       \* what each refresh() in progress holds
  req,       \* what each request in flight holds
  probe      \* the objects with a health probe in flight

dockerVars == <<running, sick, ops, faults>>
objVars == <<members, floor, draining, healthy, fails>>
vars == <<running, sick, events, ops, triggers, faults, drainSet, expired,
          gen, members, floor, draining, healthy, fails, ref, req, probe>>

\* The locals of a refresh(): the listing, the generations it published and
\* replaced, and the containers it found healthy in the latter.
RefState(pc, seen, sck, g, prev, was) ==
  [pc |-> pc, seen |-> seen, sick |-> sck, gen |-> g, prev |-> prev, was |-> was]

IdleRef == RefState("idle", {}, {}, 0, 0, {})
StartRef == RefState("start", {}, {}, 0, 0, {})

IdleReq == [pc |-> "idle", gen |-> 0, tried |-> {}, on |-> {}]

EventAction == {"kill", "reload", "start", "die", "health_status"}
Event == [action : EventAction, id : Container]

TypeOK ==
  /\ running \subseteq Container
  /\ sick \subseteq Container
  /\ events \in Seq(Event)
  /\ ops \in 0 .. MaxOps
  /\ triggers \in 0 .. MaxTriggers
  /\ faults \in 0 .. MaxFaults
  /\ drainSet \subseteq Container
  /\ expired \subseteq drainSet
  /\ gen \in Gen
  /\ members \in [Gen -> SUBSET Container]
  /\ floor \subseteq Object
  /\ draining \subseteq Object
  /\ healthy \subseteq Object
  /\ fails \in [Object -> 0 .. UnhealthyAfter]
  /\ ref \in [Refresher ->
       [pc : {"idle", "start", "listed", "published", "carry"},
        seen : SUBSET Container, sick : SUBSET Container,
        gen : 0 .. MaxGen, prev : 0 .. MaxGen, was : SUBSET Container]]
  /\ req \in [Request ->
       [pc : {"idle", "routed", "sent"}, gen : 0 .. MaxGen,
        tried : SUBSET Container, on : SUBSET Container]]
  /\ probe \subseteq Object

\* The state after the first refresh() of main, with the event stream open.
Init ==
  /\ running \in SUBSET Container
  /\ sick = {}
  /\ events = <<>>
  /\ ops = 0
  /\ triggers = 0
  /\ faults = 0
  /\ drainSet = {}
  /\ expired = {}
  /\ gen = 1
  /\ members = [g \in Gen |-> IF g = 1 THEN running ELSE {}]
  /\ floor = {}
  /\ draining = {}
  /\ healthy = {1} \X running
  /\ fails = [o \in Object |-> 0]
  /\ ref = [r \in Refresher |-> IdleRef]
  /\ req = [q \in Request |-> IdleReq]
  /\ probe = {}

-----------------------------------------------------------------------------
(* Docker (external): what a daemon does and the event it emits.           *)

Emit(action, c) == events' = Append(events, [action |-> action, id |-> c])

DockerOp ==
  /\ ops < MaxOps
  /\ ops' = ops + 1
  /\ UNCHANGED <<triggers, faults, drainSet, expired, gen, objVars, ref, req,
                 probe>>

\* docker stop / kill: a stop signal; the container runs until it exits.
DockerKill(c) ==
  /\ DockerOp
  /\ c \in running
  /\ Emit("kill", c)
  /\ UNCHANGED <<running, sick>>

\* docker kill with an application-level signal (HUP, USR1...).
DockerReload(c) ==
  /\ DockerOp
  /\ c \in running
  /\ Emit("reload", c)
  /\ UNCHANGED <<running, sick>>

DockerDie(c) ==
  /\ DockerOp
  /\ c \in running
  /\ running' = running \ {c}
  /\ sick' = sick \ {c}
  /\ Emit("die", c)

\* A started container is a new process: nothing is known against it.
DockerStart(c) ==
  /\ DockerOp
  /\ c \notin running
  /\ running' = running \cup {c}
  /\ Emit("start", c)
  /\ UNCHANGED sick

DockerHealthStatus(c) ==
  /\ DockerOp
  /\ c \in running
  /\ sick' = IF c \in sick THEN sick \ {c} ELSE sick \cup {c}
  /\ Emit("health_status", c)
  /\ UNCHANGED running

\* streamEvents: decoding fails and the stream is opened again without a
\* "since", so the events in between are lost.
StreamBreaks ==
  /\ events # <<>>
  /\ faults < MaxFaults
  /\ faults' = faults + 1
  /\ events' = <<>>
  /\ UNCHANGED <<running, sick, ops, triggers, drainSet, expired, gen, objVars,
                 ref, req, probe>>

-----------------------------------------------------------------------------
(* Stop signals                                                            *)

\* Router.markDraining: record the id and flip the published objects, both
\* under Router.mu.  Objects of older generations are not reached.
markDraining(c) ==
  /\ drainSet' = drainSet \cup {c}
  /\ expired' = expired \ {c}
  /\ draining' = draining \cup {<<gen, x>> : x \in members[gen] \cap {c}}

\* Mutant: the timestamp of a cleared entry is left behind.
clearDrainingKeepsExpired(c) ==
  /\ drainSet' = drainSet \ {c}
  /\ UNCHANGED <<expired, draining>>

\* Router.clearDraining: forget the id, leave the published objects alone.
clearDraining(c) ==
  /\ drainSet' = drainSet \ {c}
  /\ expired' = expired \ {c}
  /\ UNCHANGED draining

\* handleContainerEvent up to its call of refresh(), which every event makes.
handleContainerEvent ==
  /\ ref[Loop].pc = "idle"
  /\ events # <<>>
  /\ LET ev == Head(events) IN
       \/ ev.action = "kill" /\ markDraining(ev.id)
       \/ ev.action \in {"start", "die"} /\ clearDraining(ev.id)
       \/ /\ ev.action \in {"reload", "health_status"}
          /\ UNCHANGED <<drainSet, expired, draining>>
  /\ events' = Tail(events)
  /\ ref' = [ref EXCEPT ![Loop] = StartRef]
  /\ UNCHANGED <<dockerVars, triggers, gen, members, floor, healthy, fails,
                 req, probe>>

\* drainTTL passes for an entry of drainSet; only a Set acts on it.
DrainAges(c) ==
  /\ c \in drainSet \ expired
  /\ expired' = expired \cup {c}
  /\ UNCHANGED <<dockerVars, events, triggers, drainSet, gen, objVars, ref,
                 req, probe>>

-----------------------------------------------------------------------------
(* refresh(): list containers, Set under the lock, carry health over       *)

\* /refresh, a peer push, the TTL ticker or the overlay calls refresh().
Trigger(r) ==
  /\ ref[r].pc = "idle"
  /\ triggers < MaxTriggers
  /\ triggers' = triggers + 1
  /\ ref' = [ref EXCEPT ![r] = StartRef]
  /\ UNCHANGED <<dockerVars, events, drainSet, expired, gen, objVars, req,
                 probe>>

\* Mutant: the listing loses Docker's health verdict.
assembleGroupsNoFloor == [seen |-> running, sick |-> {}]

\* assembleGroups: one listing; a backend for each running container, with
\* DockerUnhealthy where its HEALTHCHECK fails.
assembleGroups == [seen |-> running, sick |-> sick]

List(r) ==
  /\ ref[r].pc = "start"
  /\ ref' = [ref EXCEPT ![r] =
       RefState("listed", assembleGroups.seen, assembleGroups.sick, 0, 0, {})]
  /\ UNCHANGED <<dockerVars, events, triggers, drainSet, expired, gen,
                 objVars, req, probe>>

\* assembleGroups fails (Docker did not answer): refresh() logs and returns.
ListFails(r) ==
  /\ ref[r].pc = "start"
  /\ faults < MaxFaults
  /\ faults' = faults + 1
  /\ ref' = [ref EXCEPT ![r] = IdleRef]
  /\ UNCHANGED <<running, sick, ops, events, triggers, drainSet, expired, gen,
                 objVars, req, probe>>

\* Mutant: only containers drained in the previous table stay drained.
applyDrainingLockedCarried(g, seen, ids) ==
  {<<g, c>> : c \in {x \in seen \cap ids : <<g - 1, x>> \in draining}}

\* Router.applyDrainingLocked: the new objects that a stop signal covers.
applyDrainingLocked(g, seen, ids) == {<<g, c>> : c \in seen \cap ids}

\* Router.Set under Router.mu: prune and re-apply drainSet to the new objects
\* (applyDrainingLocked), publish them.  healthyFlag still is its zero value.
Publish(r) ==
  /\ ref[r].pc = "listed"
  /\ gen < MaxGen
  /\ gen' = gen + 1
  /\ drainSet' = drainSet \ expired
  /\ expired' = {}
  /\ members' = [members EXCEPT ![gen + 1] = ref[r].seen]
  /\ floor' = floor \cup {<<gen + 1, c>> : c \in ref[r].seen \cap ref[r].sick}
  /\ draining' = draining \cup applyDrainingLocked(gen + 1, ref[r].seen, drainSet')
  /\ ref' = [ref EXCEPT ![r] = RefState("published", {}, {}, gen + 1, gen, {})]
  /\ UNCHANGED <<dockerVars, events, triggers, healthy, fails, req, probe>>

\* Router.Set after the unlock: read the previous objects' healthyFlag ...
CarryRead(r) ==
  /\ ref[r].pc = "published"
  /\ ref' = [ref EXCEPT ![r] =
       RefState("carry", {}, {}, ref[r].gen, ref[r].prev,
                {c \in members[ref[r].prev] : <<ref[r].prev, c>> \in healthy})]
  /\ UNCHANGED <<dockerVars, events, triggers, drainSet, expired, gen,
                 objVars, req, probe>>

\* ... and store it into the new ones; a backend without a past is healthy.
CarryStore(r) ==
  LET new == members[ref[r].gen]
      up  == {c \in new : c \in ref[r].was \/ c \notin members[ref[r].prev]}
  IN
  /\ ref[r].pc = "carry"
  /\ healthy' = (healthy \ ({ref[r].gen} \X new)) \cup ({ref[r].gen} \X up)
  /\ ref' = [ref EXCEPT ![r] = IdleRef]
  /\ UNCHANGED <<dockerVars, events, triggers, drainSet, expired, gen,
                 members, floor, draining, fails, req, probe>>

-----------------------------------------------------------------------------
(* Requests                                                                *)

\* ServeHTTP reads Router.groups once, under the read lock.
ServeHTTP(q) ==
  /\ req[q].pc = "idle"
  /\ req' = [req EXCEPT ![q] = [pc |-> "routed", gen |-> gen, tried |-> {}, on |-> {}]]
  /\ UNCHANGED <<dockerVars, events, triggers, drainSet, expired, gen,
                 objVars, ref, probe>>

\* Mutant: panic mode looks past a stop signal too.
excludedFromPanic(o, ignoreHealth) ==
  \/ o \in floor
  \/ ~ignoreHealth /\ (o \in draining \/ o \notin healthy)

\* Backend.excludedFrom
excludedFrom(o, ignoreHealth) ==
  \/ o \in floor \/ o \in draining
  \/ ~ignoreHealth /\ o \notin healthy

Eligible(q, ignoreHealth) ==
  {c \in members[req[q].gen] \ req[q].tried :
      ~excludedFrom(<<req[q].gen, c>>, ignoreHealth)}

\* pickHealthy, and pickAny (panic mode) when it finds nothing.  Which of the
\* eligible backends the weighted round-robin returns is left open.
Candidates(q) ==
  IF Eligible(q, FALSE) # {} THEN Eligible(q, FALSE) ELSE Eligible(q, TRUE)

\* One iteration of proxyToGroup sends the request to a backend ...
Attempt(q, c) ==
  /\ req[q].pc = "routed"
  /\ Cardinality(req[q].tried) < MaxRetries
  /\ c \in Candidates(q)
  /\ req' = [req EXCEPT ![q] =
       [pc |-> "sent", gen |-> req[q].gen, tried |-> req[q].tried \cup {c}, on |-> {c}]]
  /\ UNCHANGED <<dockerVars, events, triggers, drainSet, expired, gen,
                 objVars, ref, probe>>

\* ... or the loop ends with 503: nothing left to try, or three attempts made.
Unavailable(q) ==
  /\ req[q].pc = "routed"
  /\ Candidates(q) = {} \/ Cardinality(req[q].tried) >= MaxRetries
  /\ req' = [req EXCEPT ![q] = IdleReq]
  /\ UNCHANGED <<dockerVars, events, triggers, drainSet, expired, gen,
                 objVars, ref, probe>>

\* The backend answers, or the client goes away: tryProxy returns true.
Answered(q) ==
  /\ req[q].pc = "sent"
  /\ req' = [req EXCEPT ![q] = IdleReq]
  /\ UNCHANGED <<dockerVars, events, triggers, drainSet, expired, gen,
                 objVars, ref, probe>>

\* newBackendErrorHandler: the attempt failed.  The object is marked
\* unhealthy at once; a body that cannot be replayed ends the request (502).
AttemptFails(q, replayable) ==
  /\ req[q].pc = "sent"
  /\ healthy' = healthy \ ({req[q].gen} \X req[q].on)
  /\ req' = [req EXCEPT ![q] =
       IF replayable
       THEN [pc |-> "routed", gen |-> req[q].gen, tried |-> req[q].tried, on |-> {}]
       ELSE IdleReq]
  /\ UNCHANGED <<dockerVars, events, triggers, drainSet, expired, gen,
                 members, floor, draining, fails, ref, probe>>

-----------------------------------------------------------------------------
(* Health probes                                                           *)

\* dispatchHealthChecks starts a probe of a published object that is not
\* draining, when the semaphore has a slot left.
ProbeStart(c) ==
  /\ Cardinality(probe) < ProbeSlots
  /\ c \in members[gen]
  /\ <<gen, c>> \notin draining
  /\ <<gen, c>> \notin probe
  /\ probe' = probe \cup {<<gen, c>>}
  /\ UNCHANGED <<dockerVars, events, triggers, drainSet, expired, gen,
                 objVars, ref, req>>

\* consecFails counts failures in a row; above the threshold its value no
\* longer matters.
streak(o, ok) ==
  IF ok THEN 0
  ELSE IF fails[o] < UnhealthyAfter THEN fails[o] + 1 ELSE UnhealthyAfter

\* Mutant: a success clears the streak and restores nothing.
recordHealthCheckForgets(o, ok) ==
  /\ fails' = [fails EXCEPT ![o] = streak(o, ok)]
  /\ healthy' = IF streak(o, ok) = UnhealthyAfter THEN healthy \ {o} ELSE healthy

\* recordHealthCheck: one success restores, two failures in a row condemn.
recordHealthCheck(o, ok) ==
  /\ fails' = [fails EXCEPT ![o] = streak(o, ok)]
  /\ healthy' = IF ok THEN healthy \cup {o}
                ELSE IF streak(o, ok) = UnhealthyAfter THEN healthy \ {o} ELSE healthy

\* checkBackend: a container that is not running does not answer.
ProbeEnds(o, ok) ==
  /\ o \in probe
  /\ ok => o[2] \in running
  /\ recordHealthCheck(o, ok)
  /\ probe' = probe \ {o}
  /\ UNCHANGED <<dockerVars, events, triggers, drainSet, expired, gen,
                 members, floor, draining, ref, req>>

-----------------------------------------------------------------------------
DockerNext ==
  \E c \in Container :
    DockerKill(c) \/ DockerReload(c) \/ DockerDie(c) \/ DockerStart(c)
      \/ DockerHealthStatus(c)

RefreshNext ==
  \/ StreamBreaks
  \/ handleContainerEvent
  \/ \E c \in Container : DrainAges(c)
  \/ \E r \in Others : Trigger(r)
  \/ \E r \in Refresher :
       List(r) \/ ListFails(r) \/ Publish(r) \/ CarryRead(r) \/ CarryStore(r)

RequestNext ==
  \E q \in Request :
    \/ ServeHTTP(q)
    \/ \E c \in Container : Attempt(q, c)
    \/ Unavailable(q)
    \/ Answered(q)
    \/ \E replayable \in BOOLEAN : AttemptFails(q, replayable)

ProbeNext ==
  \/ \E c \in Container : ProbeStart(c)
  \/ \E o \in Object : \E ok \in BOOLEAN : ProbeEnds(o, ok)

Next == DockerNext \/ RefreshNext \/ RequestNext \/ ProbeNext

Spec == Init /\ [][Next]_vars

\* The goroutines run: a refresh() in progress ends, the Loop decodes what the
\* stream holds, the health ticker keeps probing every published backend, and
\* a running container answers a probe sooner or later.
Fairness ==
  /\ WF_vars(handleContainerEvent)
  /\ \A r \in Refresher :
       WF_vars(List(r) \/ Publish(r) \/ CarryRead(r) \/ CarryStore(r))
  /\ \A c \in Container : SF_vars(ProbeStart(c))
  /\ \A o \in Object : SF_vars(ProbeEnds(o, TRUE))

LiveSpec == Spec /\ Fairness

-----------------------------------------------------------------------------
(* Properties                                                              *)

\* A container with a recorded stop signal is draining in the published table,
\* whatever refresh() was in progress when the signal came: markDraining's
\* "a concurrent Set() either sees the entry or publishes groups this loop
\* then flips".
DrainReachesPublished ==
  \A c \in drainSet : c \in members[gen] => <<gen, c>> \in draining

SentTo(q) == IF req[q].pc = "routed" /\ req'[q].pc = "sent" THEN req'[q].on ELSE {}

\* A request that holds the published table is never sent to a container with
\* a recorded stop signal, in panic mode and on a retry included
\* (Backend.excludedFrom).
PublishedPickAvoidsDraining ==
  [][\A q \in Request : req[q].gen = gen => SentTo(q) \cap drainSet = {}]_vars

Quiet == events = <<>> /\ \A r \in Refresher : ref[r].pc = "idle"

\* Once every event is handled and no refresh() is in progress, the published
\* backends and their DockerUnhealthy floor are what Docker reports.
RoutesConverge ==
  Quiet => /\ members[gen] = running
           /\ \A c \in running : <<gen, c>> \in floor <=> c \in sick

\* When only the event loop refreshes and no listing or stream fails, the
\* table follows Docker ("Container labels are the source of truth"): events
\* that arrive during a refresh() are not missed by the next one.
RoutesFollowDocker == triggers = 0 /\ faults = 0 => RoutesConverge

InRotation(c) == c \in members[gen] /\ <<gen, c>> \notin draining

\* A published backend left unhealthy (by a failed request, by probes, or by
\* overlapping Sets that read each other's zero flags) is healthy again once
\* its container answers probes: recordHealthCheck restores on one success.
Recovered(c) == InRotation(c) /\ c \in running => <<gen, c>> \in healthy
Recovers == \A c \in Container : []<>Recovered(c)
=============================================================================
