---------------------------- MODULE RouterProofs ----------------------------
(***************************************************************************)
(* Proofs about Router for any containers, goroutines, requests and        *)
(* bounds.  IndInv adds to the type invariant what a refresh() in progress *)
(* knows about the generations it holds, FollowInv what the event loop     *)
(* knows of Docker when nobody else refreshes.                             *)
(***************************************************************************)
EXTENDS Router, TLAPS

\* A refresh() past its Set holds generations that exist.
RefGens ==
  \A r \in Refresher :
    ref[r].pc \in {"published", "carry"} => ref[r].gen \in Gen /\ ref[r].prev \in Gen

IndInv == TypeOK /\ RefGens /\ DrainReachesPublished

LEMMA ConstantsOK ==
  /\ 1 \in Gen
  /\ Gen \subseteq 0 .. MaxGen
  /\ Loop \in Refresher
  /\ Others \subseteq Refresher
BY RouterAssumption DEF Gen, Refresher

LEMMA InitInd == Init => IndInv
<1> SUFFICES ASSUME Init PROVE IndInv
  OBVIOUS
<1>1. TypeOK
  BY ConstantsOK, RouterAssumption
  DEF Init, TypeOK, Object, IdleRef, StartRef, RefState, IdleReq, UnhealthyAfter, Event
<1>2. RefGens
  BY DEF Init, RefGens, IdleRef, StartRef, RefState
<1>3. DrainReachesPublished
  BY DEF Init, DrainReachesPublished
<1> QED
  BY <1>1, <1>2, <1>3 DEF IndInv

\* What Docker does: only its own state and the event queue change.
LEMMA DockerInd == IndInv /\ DockerNext => IndInv'
<1> SUFFICES ASSUME IndInv, NEW c \in Container,
                    \/ DockerKill(c) \/ DockerReload(c) \/ DockerDie(c)
                    \/ DockerStart(c) \/ DockerHealthStatus(c)
             PROVE  IndInv'
  BY DEF DockerNext
<1>1. /\ ops < MaxOps /\ ops' = ops + 1
      /\ UNCHANGED <<triggers, faults, drainSet, expired, gen, members, floor,
                     draining, healthy, fails, ref, req, probe>>
  BY DEF DockerKill, DockerReload, DockerDie, DockerStart, DockerHealthStatus,
         DockerOp, objVars
<1>2. \E a \in EventAction : events' = Append(events, [action |-> a, id |-> c])
  BY DEF DockerKill, DockerReload, DockerDie, DockerStart, DockerHealthStatus,
         Emit, EventAction
<1>3. events' \in Seq(Event)
  BY <1>2 DEF IndInv, TypeOK, Event
<1>4. running' \subseteq Container /\ sick' \subseteq Container
  BY DEF DockerKill, DockerReload, DockerDie, DockerStart, DockerHealthStatus,
         IndInv, TypeOK
<1>5. ops' \in 0 .. MaxOps
  BY <1>1, RouterAssumption DEF IndInv, TypeOK
<1>6. TypeOK'
  BY <1>1, <1>3, <1>4, <1>5 DEF IndInv, TypeOK
<1>7. RefGens' /\ DrainReachesPublished'
  BY <1>1 DEF IndInv, RefGens, DrainReachesPublished
<1> QED
  BY <1>6, <1>7 DEF IndInv

\* refresh() and stop signals: the steps that touch drainSet and the table.
LEMMA RefreshInd == IndInv /\ RefreshNext => IndInv'
<1> SUFFICES ASSUME IndInv, RefreshNext PROVE IndInv'
  OBVIOUS
<1> USE ConstantsOK, RouterAssumption
<1>1. CASE StreamBreaks
  BY <1>1 DEF IndInv, TypeOK, RefGens, DrainReachesPublished, StreamBreaks, objVars
<1>2. CASE handleContainerEvent
  <2>1. events' \in Seq(Event) /\ Head(events) \in Event
    BY <1>2 DEF handleContainerEvent, IndInv, TypeOK
  <2>2. ref' = [ref EXCEPT ![Loop] = StartRef]
    BY <1>2 DEF handleContainerEvent
  <2>3. /\ UNCHANGED <<running, sick, ops, faults, triggers, gen, members, floor,
                       healthy, fails, req, probe>>
        /\ LET ev == Head(events) IN
             \/ markDraining(ev.id)
             \/ clearDraining(ev.id)
             \/ UNCHANGED <<drainSet, expired, draining>>
    BY <1>2 DEF handleContainerEvent, dockerVars
  <2>4. /\ drainSet' \subseteq Container
        /\ expired' \subseteq drainSet'
        /\ draining' \subseteq Object
    BY <2>1, <2>3
    DEF markDraining, clearDraining, IndInv, TypeOK, Event, Object
  <2>5. TypeOK'
    BY <2>1, <2>2, <2>3, <2>4 DEF IndInv, TypeOK, IdleRef, StartRef, RefState
  <2>6. RefGens'
    BY <2>2 DEF IndInv, TypeOK, RefGens, IdleRef, StartRef, RefState
  <2>7. DrainReachesPublished'
    BY <2>1, <2>3
    DEF markDraining, clearDraining, IndInv, TypeOK, DrainReachesPublished, Event
  <2> QED
    BY <2>5, <2>6, <2>7 DEF IndInv
<1>3. ASSUME NEW c \in Container, DrainAges(c) PROVE IndInv'
  BY <1>3 DEF IndInv, TypeOK, RefGens, DrainReachesPublished, DrainAges,
              dockerVars, objVars
<1>4. ASSUME NEW r \in Others, Trigger(r) PROVE IndInv'
  <2>1. /\ triggers' \in 0 .. MaxTriggers
        /\ ref' = [ref EXCEPT ![r] = StartRef]
        /\ UNCHANGED <<running, sick, ops, faults, events, drainSet, expired, gen,
                       members, floor, draining, healthy, fails, req, probe>>
    BY <1>4 DEF Trigger, IndInv, TypeOK, dockerVars, objVars
  <2>2. TypeOK'
    BY <2>1 DEF IndInv, TypeOK, IdleRef, StartRef, RefState
  <2>3. RefGens' /\ DrainReachesPublished'
    BY <2>1 DEF IndInv, TypeOK, RefGens, DrainReachesPublished, IdleRef, StartRef, RefState
  <2> QED
    BY <2>2, <2>3 DEF IndInv
<1>5. ASSUME NEW r \in Refresher, List(r) PROVE IndInv'
  <2>1. /\ ref' = [ref EXCEPT ![r] = RefState("listed", running, sick, 0, 0, {})]
        /\ UNCHANGED <<running, sick, ops, faults, events, triggers, drainSet,
                       expired, gen, members, floor, draining, healthy, fails,
                       req, probe>>
    BY <1>5 DEF List, assembleGroups, dockerVars, objVars
  <2>2. TypeOK'
    BY <2>1 DEF IndInv, TypeOK, RefState
  <2>3. RefGens' /\ DrainReachesPublished'
    BY <2>1 DEF IndInv, TypeOK, RefGens, DrainReachesPublished, RefState
  <2> QED
    BY <2>2, <2>3 DEF IndInv
<1>6. ASSUME NEW r \in Refresher, ListFails(r) PROVE IndInv'
  <2>1. /\ faults' \in 0 .. MaxFaults
        /\ ref' = [ref EXCEPT ![r] = IdleRef]
        /\ UNCHANGED <<running, sick, ops, events, triggers, drainSet, expired,
                       gen, members, floor, draining, healthy, fails, req,
                       probe>>
    BY <1>6 DEF ListFails, IndInv, TypeOK, objVars
  <2>2. TypeOK'
    BY <2>1 DEF IndInv, TypeOK, IdleRef, StartRef, RefState
  <2>3. RefGens' /\ DrainReachesPublished'
    BY <2>1 DEF IndInv, TypeOK, RefGens, DrainReachesPublished, IdleRef, StartRef, RefState
  <2> QED
    BY <2>2, <2>3 DEF IndInv
<1>7. ASSUME NEW r \in Refresher, Publish(r) PROVE IndInv'
  <2>1. gen + 1 \in Gen /\ gen \in Gen
    BY <1>7 DEF Publish, IndInv, TypeOK, Gen
  <2>2. ref[r].seen \subseteq Container
    BY DEF IndInv, TypeOK
  <2>3. /\ gen' = gen + 1
        /\ drainSet' = drainSet \ expired /\ expired' = {}
        /\ members' = [members EXCEPT ![gen + 1] = ref[r].seen]
        /\ draining' = draining \cup
                         {<<gen + 1, c>> : c \in ref[r].seen \cap drainSet'}
        /\ floor' \subseteq Object
        /\ ref' = [ref EXCEPT ![r] = RefState("published", {}, {}, gen + 1, gen, {})]
        /\ UNCHANGED <<running, sick, ops, faults, events, triggers, healthy,
                       fails, req, probe>>
    BY <1>7, <2>1, <2>2
    DEF Publish, applyDrainingLocked, IndInv, TypeOK, dockerVars, Object
  <2>4. draining' \subseteq Object
    BY <2>1, <2>2, <2>3 DEF IndInv, TypeOK, Object
  <2>5. TypeOK'
    BY <2>1, <2>2, <2>3, <2>4 DEF IndInv, TypeOK, RefState
  <2>6. RefGens'
    BY <2>1, <2>3 DEF IndInv, TypeOK, RefGens, RefState
  <2>7. DrainReachesPublished'
    BY <2>1, <2>2, <2>3 DEF IndInv, TypeOK, DrainReachesPublished
  <2> QED
    BY <2>5, <2>6, <2>7 DEF IndInv
<1>8. ASSUME NEW r \in Refresher, CarryRead(r) PROVE IndInv'
  <2>1. members[ref[r].prev] \subseteq Container
    BY <1>8 DEF CarryRead, IndInv, TypeOK, RefGens
  <2>2. /\ ref' = [ref EXCEPT ![r] =
             RefState("carry", {}, {}, ref[r].gen, ref[r].prev,
                      {c \in members[ref[r].prev] : <<ref[r].prev, c>> \in healthy})]
        /\ UNCHANGED <<running, sick, ops, faults, events, triggers, drainSet,
                       expired, gen, members, floor, draining, healthy, fails,
                       req, probe>>
    BY <1>8 DEF CarryRead, dockerVars, objVars
  <2>3. TypeOK'
    BY <2>1, <2>2 DEF IndInv, TypeOK, RefState
  <2>4. RefGens' /\ DrainReachesPublished'
    BY <1>8, <2>2 DEF CarryRead, IndInv, TypeOK, RefGens, DrainReachesPublished, RefState
  <2> QED
    BY <2>3, <2>4 DEF IndInv
<1>9. ASSUME NEW r \in Refresher, CarryStore(r) PROVE IndInv'
  <2>1. ref[r].gen \in Gen /\ members[ref[r].gen] \subseteq Container
    BY <1>9 DEF CarryStore, IndInv, TypeOK, RefGens
  <2>2. healthy' \subseteq Object
    BY <1>9, <2>1 DEF CarryStore, IndInv, TypeOK, Object
  <2>3. /\ ref' = [ref EXCEPT ![r] = IdleRef]
        /\ UNCHANGED <<running, sick, ops, faults, events, triggers, drainSet,
                       expired, gen, members, floor, draining, fails, req,
                       probe>>
    BY <1>9 DEF CarryStore, dockerVars
  <2>4. TypeOK'
    BY <2>2, <2>3 DEF IndInv, TypeOK, IdleRef, StartRef, RefState
  <2>5. RefGens' /\ DrainReachesPublished'
    BY <2>3 DEF IndInv, TypeOK, RefGens, DrainReachesPublished, IdleRef, StartRef, RefState
  <2> QED
    BY <2>4, <2>5 DEF IndInv
<1> QED
  BY <1>1, <1>2, <1>3, <1>4, <1>5, <1>6, <1>7, <1>8, <1>9 DEF RefreshNext

\* Requests change nothing but their own record and health flags.
LEMMA RequestInd == IndInv /\ RequestNext => IndInv'
<1> SUFFICES ASSUME IndInv, NEW q \in Request,
                    \/ ServeHTTP(q)
                    \/ \E c \in Container : Attempt(q, c)
                    \/ Unavailable(q)
                    \/ Answered(q)
                    \/ \E replayable \in BOOLEAN : AttemptFails(q, replayable)
             PROVE  IndInv'
  BY DEF RequestNext
<1>1. UNCHANGED <<running, sick, ops, faults, events, triggers, drainSet, expired,
                  gen, members, floor, draining, fails, ref, probe>>
  BY DEF ServeHTTP, Attempt, Unavailable, Answered, AttemptFails, dockerVars, objVars
<1>2. healthy' \subseteq Object
  BY DEF ServeHTTP, Attempt, Unavailable, Answered, AttemptFails, objVars,
         IndInv, TypeOK
<1>3. \E x \in [pc : {"idle", "routed", "sent"}, gen : 0 .. MaxGen,
                tried : SUBSET Container, on : SUBSET Container] :
         req' = [req EXCEPT ![q] = x]
  <2>1. req[q] \in [pc : {"idle", "routed", "sent"}, gen : 0 .. MaxGen,
                    tried : SUBSET Container, on : SUBSET Container]
        /\ gen \in 0 .. MaxGen
    BY ConstantsOK DEF IndInv, TypeOK
  <2>2. IdleReq \in [pc : {"idle", "routed", "sent"}, gen : 0 .. MaxGen,
                     tried : SUBSET Container, on : SUBSET Container]
    BY RouterAssumption DEF IdleReq
  <2>3. CASE ServeHTTP(q)
    BY <2>1, <2>3 DEF ServeHTTP
  <2>4. ASSUME NEW c \in Container, Attempt(q, c)
        PROVE  \E x \in [pc : {"idle", "routed", "sent"}, gen : 0 .. MaxGen,
                         tried : SUBSET Container, on : SUBSET Container] :
                 req' = [req EXCEPT ![q] = x]
    BY <2>1, <2>4 DEF Attempt
  <2>5. CASE Unavailable(q) \/ Answered(q)
    BY <2>2, <2>5 DEF Unavailable, Answered
  <2>6. ASSUME NEW replayable \in BOOLEAN, AttemptFails(q, replayable)
        PROVE  \E x \in [pc : {"idle", "routed", "sent"}, gen : 0 .. MaxGen,
                         tried : SUBSET Container, on : SUBSET Container] :
                 req' = [req EXCEPT ![q] = x]
    BY <2>1, <2>2, <2>6 DEF AttemptFails
  <2> QED
    BY <2>3, <2>4, <2>5, <2>6
<1>4. TypeOK'
  BY <1>1, <1>2, <1>3 DEF IndInv, TypeOK
<1>5. RefGens' /\ DrainReachesPublished'
  BY <1>1 DEF IndInv, RefGens, DrainReachesPublished
<1> QED
  BY <1>4, <1>5 DEF IndInv

\* Probes change nothing but health flags and their streaks.
LEMMA ProbeInd == IndInv /\ ProbeNext => IndInv'
<1> SUFFICES ASSUME IndInv, ProbeNext PROVE IndInv'
  OBVIOUS
<1>1. ASSUME NEW c \in Container, ProbeStart(c) PROVE IndInv'
  <2>1. probe' \subseteq Object
    BY <1>1 DEF ProbeStart, IndInv, TypeOK, Object
  <2> QED
    BY <1>1, <2>1 DEF ProbeStart, IndInv, TypeOK, RefGens, DrainReachesPublished,
                      dockerVars, objVars
<1>2. ASSUME NEW o \in Object, NEW ok \in BOOLEAN, ProbeEnds(o, ok) PROVE IndInv'
  <2>1. UNCHANGED <<running, sick, ops, faults, events, triggers, drainSet, expired,
                    gen, members, floor, draining, ref, req>>
    BY <1>2 DEF ProbeEnds, dockerVars
  <2>2. probe' \subseteq Object
    BY <1>2 DEF ProbeEnds, IndInv, TypeOK
  <2>3. fails' \in [Object -> 0 .. UnhealthyAfter]
    <3>1. fails \in [Object -> 0 .. 2] /\ fails[o] \in 0 .. 2
      BY DEF IndInv, TypeOK, UnhealthyAfter
    <3>2. streak(o, ok) \in 0 .. 2
      BY <3>1 DEF streak, UnhealthyAfter
    <3>3. fails' = [fails EXCEPT ![o] = streak(o, ok)]
      BY <1>2 DEF ProbeEnds, recordHealthCheck
    <3> QED
      BY <3>1, <3>2, <3>3 DEF UnhealthyAfter
  <2>4. healthy' \subseteq Object
    BY <1>2 DEF ProbeEnds, recordHealthCheck, IndInv, TypeOK
  <2>5. TypeOK'
    BY <2>1, <2>2, <2>3, <2>4 DEF IndInv, TypeOK
  <2>6. RefGens' /\ DrainReachesPublished'
    BY <2>1 DEF IndInv, RefGens, DrainReachesPublished
  <2> QED
    BY <2>5, <2>6 DEF IndInv
<1> QED
  BY <1>1, <1>2 DEF ProbeNext

LEMMA Inductive == IndInv /\ [Next]_vars => IndInv'
<1> SUFFICES ASSUME IndInv, [Next]_vars PROVE IndInv'
  OBVIOUS
<1>1. CASE UNCHANGED vars
  BY <1>1 DEF vars, IndInv, TypeOK, RefGens, DrainReachesPublished
<1> QED
  BY <1>1, DockerInd, RefreshInd, RequestInd, ProbeInd DEF Next

LEMMA Invariance == Spec => []IndInv
BY InitInd, Inductive, PTL DEF Spec

\* Every reachable state of the routing table is well typed.
THEOREM TypeCorrect == Spec => []TypeOK
<1>1. IndInv => TypeOK
  BY DEF IndInv
<1> QED
  BY <1>1, Invariance, PTL

\* markDraining and Set are atomic with respect to each other: whatever
\* refreshes overlap, a recorded stop signal is in force in the published table.
THEOREM DrainIsPublished == Spec => []DrainReachesPublished
<1>1. IndInv => DrainReachesPublished
  BY DEF IndInv
<1> QED
  BY <1>1, Invariance, PTL

\* A request is sent only by Attempt, to a backend that excludedFrom keeps.
LEMMA SendIsEligible ==
  ASSUME IndInv, [Next]_vars, NEW q \in Request, NEW c \in SentTo(q)
  PROVE  c \in members[req[q].gen] /\ <<req[q].gen, c>> \notin draining
<1>1. req[q].pc = "routed" /\ req'[q].pc = "sent" /\ c \in req'[q].on
  BY DEF SentTo
<1>2. req \in [Request -> [pc : {"idle", "routed", "sent"}, gen : 0 .. MaxGen,
                           tried : SUBSET Container, on : SUBSET Container]]
  BY DEF IndInv, TypeOK
<1>3. RequestNext
  <2>1. CASE UNCHANGED vars
    BY <1>1, <2>1 DEF vars
  <2>2. CASE DockerNext
    BY <1>1, <2>2 DEF DockerNext, DockerKill, DockerReload, DockerDie, DockerStart,
                      DockerHealthStatus, DockerOp
  <2>3. CASE RefreshNext
    BY <1>1, <2>3 DEF RefreshNext, StreamBreaks, handleContainerEvent, DrainAges,
                      Trigger, List, ListFails, Publish, CarryRead, CarryStore
  <2>4. CASE ProbeNext
    BY <1>1, <2>4 DEF ProbeNext, ProbeStart, ProbeEnds
  <2> QED
    BY <2>1, <2>2, <2>3, <2>4 DEF Next
<1>4. PICK p \in Request :
        \/ ServeHTTP(p)
        \/ \E x \in Container : Attempt(p, x)
        \/ Unavailable(p)
        \/ Answered(p)
        \/ \E replayable \in BOOLEAN : AttemptFails(p, replayable)
  BY <1>3 DEF RequestNext
<1>5. PICK x \in Container : Attempt(p, x)
  BY <1>1, <1>2, <1>4 DEF ServeHTTP, Unavailable, Answered, AttemptFails, IdleReq
<1>6. p = q /\ c = x
  BY <1>1, <1>2, <1>5 DEF Attempt
<1>7. c \in Candidates(q)
  BY <1>5, <1>6 DEF Attempt
<1> QED
  BY <1>7 DEF Candidates, Eligible, excludedFrom

\* No request that holds the published table is sent to a container with a
\* recorded stop signal, panic mode and retries included.
THEOREM PickAvoidsDraining == Spec => PublishedPickAvoidsDraining
<1>1. ASSUME IndInv, [Next]_vars
      PROVE  [\A q \in Request : req[q].gen = gen => SentTo(q) \cap drainSet = {}]_vars
  BY <1>1, SendIsEligible DEF IndInv, DrainReachesPublished
<1> QED
  BY <1>1, Invariance, PTL DEF Spec, PublishedPickAvoidsDraining

-----------------------------------------------------------------------------
(* The table follows Docker                                                *)

\* The published backends and their floor are what Docker reports.
Current ==
  /\ members[gen] = running
  /\ \A c \in running : <<gen, c>> \in floor <=> c \in sick

\* With no event on its way, the listing of the Loop's refresh() is current, or
\* the table is.  Between the event and the listing nothing is promised.
LoopFollows ==
  events = <<>> =>
    CASE ref[Loop].pc = "start"  -> TRUE
      [] ref[Loop].pc = "listed" -> ref[Loop].seen = running /\ ref[Loop].sick = sick
      [] OTHER                   -> Current

\* Without triggers the Loop alone refreshes, and no object of a generation to
\* come has a floor yet: Publish adds to a clean one.
FollowInv ==
  /\ triggers = 0 => \A r \in Others : ref[r].pc = "idle"
  /\ \A o \in floor : o[1] <= gen
  /\ triggers = 0 /\ faults = 0 => LoopFollows

LEMMA InitFollow == Init => FollowInv
<1> SUFFICES ASSUME Init PROVE FollowInv
  OBVIOUS
<1>1. \A r \in Refresher : ref[r].pc = "idle"
  BY DEF Init, IdleRef, RefState
<1>2. Current
  BY ConstantsOK DEF Init, Current
<1> QED
  BY <1>1, <1>2, ConstantsOK DEF Init, FollowInv, LoopFollows

LEMMA NextFollow == IndInv /\ FollowInv /\ [Next]_vars => FollowInv'
<1> SUFFICES ASSUME IndInv, FollowInv, [Next]_vars PROVE FollowInv'
  OBVIOUS
<1> USE ConstantsOK, RouterAssumption
<1>0. /\ ref \in [Refresher ->
           [pc : {"idle", "start", "listed", "published", "carry"},
            seen : SUBSET Container, sick : SUBSET Container,
            gen : 0 .. MaxGen, prev : 0 .. MaxGen, was : SUBSET Container]]
      /\ triggers \in Nat /\ faults \in Nat /\ gen \in Nat
      /\ events \in Seq(Event)
      /\ members \in [Gen -> SUBSET Container]
  BY DEF IndInv, TypeOK, Gen
<1>1. CASE DockerNext
  <2>1. events' # <<>> /\ UNCHANGED <<triggers, faults, gen, floor, ref>>
    <3>1. PICK c \in Container :
            \/ DockerKill(c) \/ DockerReload(c) \/ DockerDie(c)
            \/ DockerStart(c) \/ DockerHealthStatus(c)
      BY <1>1 DEF DockerNext
    <3>2. \E ev \in Event : events' = Append(events, ev)
      BY <3>1 DEF DockerKill, DockerReload, DockerDie, DockerStart, DockerHealthStatus,
                  Emit, Event, EventAction
    <3>3. UNCHANGED <<triggers, faults, gen, floor, ref>>
      BY <3>1 DEF DockerKill, DockerReload, DockerDie, DockerStart, DockerHealthStatus,
                  DockerOp, objVars
    <3> QED
      BY <1>0, <3>2, <3>3
  <2> QED
    BY <2>1 DEF FollowInv, LoopFollows
<1>2. CASE RequestNext \/ ProbeNext \/ UNCHANGED vars \/ \E c \in Container : DrainAges(c)
  <2>1. UNCHANGED <<running, sick, events, triggers, faults, gen, members, floor, ref>>
    BY <1>2 DEF RequestNext, ServeHTTP, Attempt, Unavailable, Answered, AttemptFails,
                ProbeNext, ProbeStart, ProbeEnds, DrainAges, vars, dockerVars, objVars
  <2> QED
    BY <2>1 DEF FollowInv, LoopFollows, Current
<1>3. CASE StreamBreaks
  BY <1>0, <1>3 DEF StreamBreaks, FollowInv, objVars
<1>4. CASE handleContainerEvent
  <2>1. ref' = [ref EXCEPT ![Loop] = StartRef] /\ UNCHANGED <<triggers, faults, gen, floor>>
    BY <1>4 DEF handleContainerEvent, dockerVars
  <2>2. ref'[Loop].pc = "start" /\ \A r \in Others : ref'[r] = ref[r]
    BY <1>0, <2>1 DEF StartRef, RefState
  <2> QED
    BY <2>1, <2>2 DEF FollowInv, LoopFollows
<1>5. ASSUME NEW r \in Others, Trigger(r) PROVE FollowInv'
  BY <1>0, <1>5 DEF Trigger, FollowInv, objVars
<1>6. ASSUME NEW r \in Refresher, List(r) PROVE FollowInv'
  <2>1. /\ ref' = [ref EXCEPT ![r] = RefState("listed", running, sick, 0, 0, {})]
        /\ UNCHANGED <<running, sick, events, triggers, faults, gen, floor>>
    BY <1>6 DEF List, assembleGroups, dockerVars, objVars
  <2>2. triggers = 0 => r = Loop
    BY <1>6 DEF List, FollowInv, Refresher
  <2> QED
    BY <1>0, <2>1, <2>2 DEF FollowInv, LoopFollows, RefState
<1>7. ASSUME NEW r \in Refresher, ListFails(r) PROVE FollowInv'
  <2>1. /\ ref' = [ref EXCEPT ![r] = IdleRef]
        /\ faults' = faults + 1 /\ UNCHANGED <<triggers, gen, floor>>
    BY <1>7 DEF ListFails, objVars
  <2> QED
    BY <1>0, <2>1 DEF FollowInv, IdleRef, RefState
<1>8. ASSUME NEW r \in Refresher, Publish(r) PROVE FollowInv'
  <2>1. /\ gen' = gen + 1 /\ gen + 1 \in Gen
        /\ members' = [members EXCEPT ![gen + 1] = ref[r].seen]
        /\ floor' = floor \cup {<<gen + 1, c>> : c \in ref[r].seen \cap ref[r].sick}
        /\ ref' = [ref EXCEPT ![r] = RefState("published", {}, {}, gen + 1, gen, {})]
        /\ UNCHANGED <<running, sick, events, triggers, faults>>
    BY <1>0, <1>8 DEF Publish, dockerVars, Gen
  <2>2. triggers = 0 => r = Loop
    BY <1>8 DEF Publish, FollowInv, Refresher
  <2>3. \A o \in floor' : o[1] <= gen'
    <3>1. \A o \in floor : o \in Object
      BY DEF IndInv, TypeOK
    <3>2. \A o \in floor : o[1] \in Nat /\ o[1] <= gen
      BY <3>1 DEF FollowInv, Object, Gen
    <3> QED
      BY <1>0, <2>1, <3>2
  <2>4. \A c : <<gen + 1, c>> \notin floor
    BY <1>0 DEF FollowInv
  <2>5. members'[gen'] = ref[r].seen /\ \A c \in ref[r].seen : <<gen', c>> \in floor' <=> c \in ref[r].sick
    BY <1>0, <2>1, <2>4
  <2>6. triggers = 0 /\ faults = 0 /\ events = <<>> => Current'
    BY <1>8, <2>1, <2>2, <2>5 DEF Publish, FollowInv, LoopFollows, Current
  <2>7. ref'[r].pc = "published" /\ \A x \in Refresher \ {r} : ref'[x] = ref[x]
    BY <1>0, <2>1 DEF RefState
  <2> QED
    BY <2>1, <2>2, <2>3, <2>6, <2>7 DEF FollowInv, LoopFollows
<1>9. ASSUME NEW r \in Refresher, CarryRead(r) \/ CarryStore(r) PROVE FollowInv'
  <2>1. /\ ref[r].pc \in {"published", "carry"} /\ ref'[r].pc \in {"carry", "idle"}
        /\ \A x \in Refresher \ {r} : ref'[x] = ref[x]
        /\ UNCHANGED <<running, sick, events, triggers, faults, gen, members, floor>>
    BY <1>0, <1>9 DEF CarryRead, CarryStore, RefState, IdleRef, dockerVars, objVars
  <2>2. triggers = 0 => r = Loop
    BY <2>1 DEF FollowInv, Refresher
  <2> QED
    BY <2>1, <2>2 DEF FollowInv, LoopFollows, Current
<1> QED
  BY <1>1, <1>2, <1>3, <1>4, <1>5, <1>6, <1>7, <1>8, <1>9 DEF Next, RefreshNext

\* When only the event loop refreshes and nothing fails, the published table is
\* Docker's once every event has been handled: an event that arrives during a
\* refresh() makes another one (handleContainerEvent, assembleGroups, Set).
THEOREM TableFollowsDocker == Spec => []RoutesFollowDocker
<1>1. IndInv /\ FollowInv => RoutesFollowDocker
  BY ConstantsOK DEF FollowInv, LoopFollows, Current, RoutesFollowDocker, RoutesConverge, Quiet
<1> QED
  BY <1>1, InitFollow, NextFollow, Invariance, PTL DEF Spec
=============================================================================
