------------------------------- MODULE Spread -------------------------------
(***************************************************************************)
(* Placing members of a service on a peer host (cmd/dashboard/spread.go,   *)
(* duplicate.go, peerMutate of peers.go). "Spread" adds replicas of the    *)
(* same service, labelled proxy.spread so that the proxies balance over    *)
(* both hosts; "duplicate" makes one independent container and a route to  *)
(* it in the origin's routes.json. The peer's handlers take no lock, and   *)
(* an answer that is lost leaves the operator to call again.               *)
(*                                                                         *)
(* One service, one target host. A container is its name (0 for the        *)
(* duplicate, which is named after the service, n for goproxy-<service>-n),*)
(* whether it carries proxy.spread, and whether it runs.                   *)
(***************************************************************************)
EXTENDS Integers, FiniteSets, Sequences, FiniteSetsExt

CONSTANTS
  Call,        \* calls that may be on their way at once
  MaxReplicas, \* bound: replicas asked for
  MaxCalls,    \* bound: calls made
  MaxFaults    \* bound: starts that fail, containers that exit

SpreadAssumption == MaxReplicas \in Nat \ {0}

VARIABLES
  here,    \* the target's containers of the service
  routes,  \* how often the origin's routes.json names the target's port
  call,    \* call[c]: a call, from the operator's request to its answer
  calls, faults,
  most,    \* history: the most replicas any call asked for
  shrunk   \* history: a replica was removed while another call was about

vars == <<here, routes, call, calls, faults, most, shrunk>>

\* told: the answer of the call before, as mapPeerMutationErr words it.
Idle == [pc |-> "idle", op |-> "none", n |-> 0, label |-> FALSE, todo |-> <<>>,
         read |-> 0, told |-> "none"]

Init ==
  /\ here = {} /\ routes = 0
  /\ call = [c \in Call |-> Idle]
  /\ calls = 0 /\ faults = 0 /\ most = 0 /\ shrunk = FALSE

Busy(c) == call[c].pc # "idle"
Names == {k.name : k \in here}
Container(name, label) == [name |-> name, spread |-> label, up |-> FALSE]
Step(c, pc) == call' = [call EXCEPT ![c].pc = pc]
End(c, told) == call' = [call EXCEPT ![c] = [Idle EXCEPT !.told = told]]

-----------------------------------------------------------------------------
(* The origin                                                              *)

\* A call that has passed the origin's refusals leaves for the target.
Send(c, op, n) ==
  /\ ~ Busy(c) /\ calls < MaxCalls
  /\ calls' = calls + 1
  /\ call' = [call EXCEPT ![c] = [Idle EXCEPT !.pc = "sent", !.op = op, !.n = n]]
  /\ UNCHANGED <<here, routes, faults, shrunk>>

\* runServiceSpread up to peerMutate, for a service it does not refuse: label-
\* managed and scalable, with a host, a port and a live replica to copy, no
\* mounts, and an environment that can be reached from the target.
BeginSpread(c, n) ==
  /\ Send(c, "spread", n)
  /\ most' = IF n > most THEN n ELSE most

\* runServiceDuplicate, which lets named volumes pass and ships them empty.
BeginDuplicate(c) ==
  /\ Send(c, "duplicate", 1)
  /\ UNCHANGED most

\* peerMutate returns: never retried, and an answer that does not arrive within
\* the timeout is "outcome unknown". Only a delivered success of a duplicate
\* goes on, to routes.json.
Reply(c, delivered) ==
  /\ call[c].pc = "ok"
  /\ IF delivered /\ call[c].op = "duplicate" THEN Step(c, "route")
     ELSE End(c, IF delivered THEN "done" ELSE "unknown")
  /\ UNCHANGED <<here, routes, calls, faults, most, shrunk>>

\* The origin gives up before the handler is through: its request context ends,
\* and with it the handler's next call to Docker.
Cancel(c) ==
  /\ Busy(c) /\ call[c].pc \notin {"ok", "route", "write"}
  /\ End(c, "unknown")
  /\ UNCHANGED <<here, routes, calls, faults, most, shrunk>>

\* upsertDuplicateRoute: readRoutesFile, and then writeRoutesFile of what was
\* read with one backend more.
ReadRoutes(c) ==
  /\ call[c].pc = "route"
  /\ call' = [call EXCEPT ![c].pc = "write", ![c].read = routes]
  /\ UNCHANGED <<here, routes, calls, faults, most, shrunk>>

WriteRoutes(c) ==
  /\ call[c].pc = "write"
  /\ routes' = call[c].read + 1
  /\ End(c, "done")
  /\ UNCHANGED <<here, calls, faults, most, shrunk>>

-----------------------------------------------------------------------------
(* The target: creating and starting a container                           *)

\* createContainer: Docker refuses a name that is taken.
Create(c, name, label, next) ==
  IF name \in Names
  THEN End(c, "unknown") /\ UNCHANGED here
  ELSE Step(c, next) /\ here' = here \cup {Container(name, label)}

\* startContainer, after which the call goes on with rest, or fails and leaves
\* the container as it is.
Start(c, name, rest) ==
  \/ /\ here' = {IF k.name = name THEN [k EXCEPT !.up = TRUE] ELSE k : k \in here}
     /\ call' = [call EXCEPT ![c] = rest]
     /\ UNCHANGED faults
  \/ /\ faults < MaxFaults /\ faults' = faults + 1
     /\ End(c, "unknown")
     /\ UNCHANGED here

-----------------------------------------------------------------------------
(* The target: peerSpreadHandler                                           *)

\* nextReplicaIndex
NextIndex == IF Names \subseteq {0} THEN 1 ELSE Max(Names) + 1

\* The list and the refusals that depend on it: containers that spread did not
\* place, all of them without the label, end the call with 409.
SpreadList(c) ==
  /\ call[c].pc = "sent" /\ call[c].op = "spread"
  /\ IF here = {} THEN call' = [call EXCEPT ![c].pc = "seed", ![c].todo = <<NextIndex>>]
     ELSE IF \A k \in here : ~ k.spread THEN End(c, "rejected")
     ELSE Step(c, IF Cardinality(here) = call[c].n THEN "ok" ELSE "scale")
  /\ UNCHANGED <<here, routes, calls, faults, most, shrunk>>

\* The first replica carries proxy.spread; a name taken since the list is 409.
Seed(c) ==
  LET name == Head(call[c].todo) IN
  /\ call[c].pc = "seed"
  /\ IF name \in Names THEN End(c, "rejected") /\ UNCHANGED here
     ELSE Create(c, name, TRUE, "seedstart")
  /\ UNCHANGED <<routes, calls, faults, most, shrunk>>

SeedStart(c) ==
  /\ call[c].pc = "seedstart"
  /\ Start(c, Head(call[c].todo),
           [call[c] EXCEPT !.pc = IF call[c].n = 1 THEN "ok" ELSE "scale", !.todo = <<>>])
  /\ UNCHANGED <<routes, calls, most, shrunk>>

-----------------------------------------------------------------------------
(* The target: scaleServiceWithHealthcheck                                 *)

\* Scale-down removes only containers this program named.
Ours == {k \in here : k.name > 0}

\* preferRunning
Templates == IF \E k \in here : k.up THEN {k \in here : k.up} ELSE here

\* Scale-down reclaims a stopped replica first, then the highest name.
Before(k, l) == IF k.up # l.up THEN l.up ELSE k.name > l.name

\* The names are drawn from the list, once, and the labels are the template's.
ScaleUp(c, t) ==
  call' = [call EXCEPT ![c].pc = "create", ![c].label = t.spread,
             ![c].todo = [i \in 1..(call[c].n - Cardinality(here)) |-> NextIndex + i - 1]]

ScaleDown(c) ==
  LET extra == Cardinality(here) - call[c].n
      sorted(order) == \A i, j \in DOMAIN order : i < j => Before(order[i], order[j]) IN
  IF Cardinality(Ours) < extra THEN End(c, "unknown")
  ELSE \E order \in [1..Cardinality(Ours) -> Ours] :
         /\ sorted(order)
         /\ call' = [call EXCEPT ![c].pc = "remove",
                       ![c].todo = [i \in 1..extra |-> order[i].name]]

ScaleList(c) ==
  /\ call[c].pc = "scale"
  /\ \/ here = {} /\ End(c, "unknown")
     \/ Cardinality(here) = call[c].n /\ Step(c, "ok")
     \/ here # {} /\ Cardinality(here) < call[c].n /\ \E t \in Templates : ScaleUp(c, t)
     \/ Cardinality(here) > call[c].n /\ ScaleDown(c)
  /\ UNCHANGED <<here, routes, calls, faults, most, shrunk>>

\* Mutant: a name that is taken is skipped.
ScaleCreateSkip(c) ==
  LET name == IF Head(call[c].todo) \in Names THEN NextIndex ELSE Head(call[c].todo) IN
  /\ call[c].pc = "create"
  /\ Create(c, name, call[c].label, "start")
  /\ UNCHANGED <<routes, calls, faults, most, shrunk>>

ScaleCreate(c) ==
  /\ call[c].pc = "create"
  /\ Create(c, Head(call[c].todo), call[c].label, "start")
  /\ UNCHANGED <<routes, calls, faults, most, shrunk>>

Rest(c, pc) ==
  [call[c] EXCEPT !.todo = Tail(@), !.pc = IF Len(call[c].todo) = 1 THEN "ok" ELSE pc]

ScaleStart(c) ==
  /\ call[c].pc = "start"
  /\ Start(c, Head(call[c].todo), Rest(c, "create"))
  /\ UNCHANGED <<routes, calls, most, shrunk>>

\* drainStopRemove, which a cancelled call finishes.
ScaleRemove(c) ==
  /\ call[c].pc = "remove"
  /\ here' = {k \in here : k.name # Head(call[c].todo)}
  /\ call' = [call EXCEPT ![c] = Rest(c, "remove")]
  /\ shrunk' = (shrunk \/ \E d \in Call \ {c} : Busy(d))
  /\ UNCHANGED <<routes, calls, faults, most>>

-----------------------------------------------------------------------------
(* The target: peerDuplicateHandler                                        *)

DuplicateCheck(c) ==
  /\ call[c].pc = "sent" /\ call[c].op = "duplicate"
  /\ IF 0 \in Names THEN End(c, "rejected") ELSE Step(c, "dupcreate")
  /\ UNCHANGED <<here, routes, calls, faults, most, shrunk>>

DuplicateCreate(c) ==
  /\ call[c].pc = "dupcreate"
  /\ Create(c, 0, FALSE, "dupstart")
  /\ UNCHANGED <<routes, calls, faults, most, shrunk>>

DuplicateStart(c) ==
  /\ call[c].pc = "dupstart"
  /\ Start(c, 0, [call[c] EXCEPT !.pc = "ok"])
  /\ UNCHANGED <<routes, calls, most, shrunk>>

\* A container exits, or an operator stops it.
Exit(k) ==
  /\ k.up /\ faults < MaxFaults
  /\ faults' = faults + 1
  /\ here' = (here \ {k}) \cup {[k EXCEPT !.up = FALSE]}
  /\ UNCHANGED <<routes, call, calls, most, shrunk>>

Next ==
  \/ \E c \in Call :
       \/ \E n \in 1..MaxReplicas : BeginSpread(c, n)
       \/ BeginDuplicate(c)
       \/ \E d \in BOOLEAN : Reply(c, d)
       \/ Cancel(c)
       \/ ReadRoutes(c) \/ WriteRoutes(c)
       \/ SpreadList(c) \/ Seed(c) \/ SeedStart(c)
       \/ ScaleList(c) \/ ScaleCreate(c) \/ ScaleStart(c) \/ ScaleRemove(c)
       \/ DuplicateCheck(c) \/ DuplicateCreate(c) \/ DuplicateStart(c)
  \/ \E k \in here : Exit(k)

Spec == Init /\ [][Next]_vars

-----------------------------------------------------------------------------
(* Properties                                                              *)

\* However calls overlap, fail half-way or are repeated, the replicas spread
\* has placed are never more than the most any call asked for, unless one call
\* removed a replica under another: "a repeat call ... adjusts rather than
\* stacking" (peerSpreadHandler). What keeps overlapping calls apart is only
\* that they draw the same names.
NeverStacks == ~ shrunk => Cardinality({k \in here : k.name > 0}) <= most

\* routes.json names the target at most once, and only while the container it
\* was written for exists: no spread takes the duplicate away, and a duplicate
\* whose answer was lost writes no second backend (runServiceDuplicate).
RouteHasDuplicate == routes <= 1 /\ (routes = 1 => 0 \in Names)

=============================================================================
