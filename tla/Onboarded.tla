------------------------------ MODULE Onboarded ------------------------------
(***************************************************************************)
(* A service the dashboard adopted from an unlabelled container            *)
(* (cmd/dashboard/onboarded.go).  Its backends are named in routes.json    *)
(* rather than discovered by label: the container the user started (the    *)
(* original) and the clones the dashboard makes of it, canaries among      *)
(* them.  The proxy carries no container ID for such a backend, so it does *)
(* not notice a stop by itself; every operation has to take a clone out of *)
(* routes.json, and have the proxy reload it, before it stops the clone.   *)
(* Every operation is the same walk: create and start the new clones,      *)
(* deroute the ones that retire, stop and remove those, store the record,  *)
(* rewrite the route.  It may fail, or the dashboard may die, between any  *)
(* two Docker calls, and nothing cleans up after it.                       *)
(***************************************************************************)
EXTENDS Integers, Sequences, FiniteSets, SequencesExt

CONSTANTS MaxIndex,      \* bound: the highest number a clone's name ends in
          MaxReplicas,   \* bound: the replica counts an operator asks for
          MaxOps         \* bound: how many operations are begun

VARIABLES live,      \* the containers Docker has, by name: does it run?
          svc,       \* the OnboardedStore's record, or NoRecord
          routes,    \* the backends routes.json names for the service
          proxy,     \* the backends the proxy loaded from it
          op,        \* the operation in progress
          lost,      \* did the last /refresh sent to the proxy get lost?
          ops,       \* how many operations were begun
          debris     \* has an operation left a container that does not run,
                     \* or died while its containers retired?

vars == <<live, svc, routes, proxy, op, lost, ops, debris>>

(* Names.  "o" is the original, "n" a clone, "c" a clone staged as a       *)
(* canary, "l" a label-managed replica made by onboardContainer.           *)
Original  == <<"o", 0>>
Clones    == {"n", "c"} \X (1..MaxIndex)
Names     == {Original} \cup Clones \cup ({"l"} \X (1..MaxIndex))
Idle      == [kind |-> "idle"]
Counts    == 1..MaxReplicas

Present   == DOMAIN live
Running   == {n \in Present : live[n]}
IsCanary(n) == n[1] = "c"

(* A record.  host is FALSE for a managed-only service, canary says that   *)
(* CanaryImage is set; images and env are left out.                        *)
Record(host, replicas, orig, canary, canaryReplicas) ==
  [host |-> host, replicas |-> replicas, orig |-> orig, canary |-> canary,
   canaryReplicas |-> canaryReplicas]

NoRecord == Record(FALSE, 0, FALSE, FALSE, 0)

TypeOK ==
  /\ Present \subseteq Names
  /\ live \in [Present -> BOOLEAN]
  /\ svc \in [host : BOOLEAN, replicas : 0..MaxReplicas, orig : BOOLEAN,
              canary : BOOLEAN, canaryReplicas : 0..MaxReplicas]
  /\ routes \subseteq Names /\ proxy \subseteq Names
  /\ ops \in 0..MaxOps
  /\ lost \in BOOLEAN /\ debris \in BOOLEAN

\* A routed service as an older dashboard left it, serving from the original.
Init ==
  /\ live = [n \in {Original} |-> TRUE]
  /\ svc = Record(TRUE, 1, TRUE, FALSE, 0)
  /\ routes = {Original} /\ proxy = {Original}
  /\ op = Idle
  /\ ops = 0
  /\ lost = FALSE /\ debris = FALSE
-----------------------------------------------------------------------------
\* listAll with the clones' name prefix: stopped ones are listed too.
ListClones == Present \cap Clones

Highest(S) == CHOOSE i \in S : \A j \in S : j <= i

\* The next free number; the plain prefix cannot parse "c3", so canaries count
\* as number 0.
nextCloneIndex(S) == 1 + Highest({0} \cup {n[2] : n \in {x \in S : x[1] = "n"}})

nextOnboardedCanaryIndex(S) ==
  1 + Highest({0} \cup {n[2] : n \in {x \in S : x[1] = "c"}})

Before(a, b) == (a[1] # b[1] /\ a[1] = "c") \/ (a[1] = b[1] /\ a[2] > b[2])

\* By name, highest first: canaries ("c...") before numbers.
sortByNameDesc(S) == SetToSortSeq(S, Before)

NewNames(kind, from, count) == [i \in 1..count |-> <<kind, from + i - 1>>]

\* What the route names for record s, cut out the containers in ex.  While a
\* canary is staged its containers are listed last, but they are listed.
rebuildOnboardedRouteExcluding(s, ex) ==
  IF ~s.host THEN {}
  ELSE (IF s.orig THEN {Original} ELSE {}) \cup (ListClones \ ex)

\* The operation op with record `then` still to be stored.
Operation(kind, then, todo, retire) ==
  [kind |-> kind, then |-> then, todo |-> todo, made |-> {},
   retire |-> retire, derouted |-> FALSE]

Routed == svc.host

Begin(o) ==
  /\ op = Idle /\ ops < MaxOps
  /\ op' = o /\ ops' = ops + 1
  /\ UNCHANGED <<live, svc, routes, proxy, lost, debris>>

\* An operator asks for n live replicas.  A staged canary is left out of the
\* count; the record keeps its other fields and takes the new count at the end.
scaleOnboarded(n) ==
  /\ Routed
  /\ LET clones  == {x \in ListClones : svc.canary => ~IsCanary(x)}
         current == Cardinality(clones) + (IF svc.orig THEN 1 ELSE 0)
         then    == [svc EXCEPT !.replicas = n]
     IN  IF n >= current
         THEN /\ nextCloneIndex(clones) + (n - current) - 1 <= MaxIndex
              /\ Begin(Operation("scale", then,
                         NewNames("n", nextCloneIndex(clones), n - current), <<>>))
         ELSE /\ Cardinality(clones) >= current - n
              /\ Begin(Operation("scale", then, <<>>,
                         SubSeq(sortByNameDesc(clones), 1, current - n)))

\* The canary set has no floor: it can be scaled to nothing.
scaleOnboardedCanary(n) ==
  /\ svc.canary
  /\ LET canary  == {x \in ListClones : IsCanary(x)}
         current == Cardinality(canary)
         then    == [svc EXCEPT !.canaryReplicas = n]
         next    == nextOnboardedCanaryIndex(canary)
     IN  IF n >= current
         THEN /\ (n > current) => (canary # {} /\ next + (n - current) - 1 <= MaxIndex)
              /\ Begin(Operation("scale", then, NewNames("c", next, n - current), <<>>))
         ELSE Begin(Operation("scale", then, <<>>,
                      SubSeq(sortByNameDesc(canary), 1, current - n)))

\* stageOnboarded asks for as many canaries as there are replicas.
stageOnboarded ==
  /\ Routed /\ ~svc.canary
  /\ Begin(Operation("stage", [svc EXCEPT !.canary = TRUE, !.canaryReplicas = svc.replicas],
                     NewNames("c", 1, svc.replicas), <<>>))

stageOnboardedCanary(n) ==
  /\ Routed /\ ~svc.canary
  /\ Begin(Operation("stage", [svc EXCEPT !.canary = TRUE, !.canaryReplicas = n],
                     NewNames("c", 1, n), <<>>))

Promoted(s) == [s EXCEPT !.orig = FALSE, !.canary = FALSE, !.canaryReplicas = 0]

\* Needs a canary container to exist, before anything is changed.
promoteOnboarded ==
  /\ Routed /\ svc.canary
  /\ \E n \in ListClones : IsCanary(n)
  /\ Begin(Operation("promote", Promoted(svc), <<>>,
                     SetToSeq({n \in ListClones : ~IsCanary(n)})))

\* The rollout manager's promote also stores the count the ramp ended with.
promote ==
  /\ Routed /\ svc.canary
  /\ \E n \in ListClones : IsCanary(n)
  /\ Begin(Operation("promote", [Promoted(svc) EXCEPT !.replicas = svc.canaryReplicas], <<>>,
                     SetToSeq({n \in ListClones : ~IsCanary(n)})))

discardOnboarded ==
  /\ svc.canary
  /\ Begin(Operation("discard", [svc EXCEPT !.canary = FALSE, !.canaryReplicas = 0], <<>>,
                     SetToSeq({n \in ListClones : IsCanary(n)})))

\* The new clones come up first; the ones to retire are listed once they run.
replaceOnboarded ==
  /\ Routed /\ ~svc.canary
  /\ nextCloneIndex(ListClones) + svc.replicas - 1 <= MaxIndex
  /\ Begin(Operation("replace", [svc EXCEPT !.orig = FALSE],
                     NewNames("n", nextCloneIndex(ListClones), svc.replicas), <<>>))

\* Tears the clones down with the route still in place, then drops the route and
\* the record; the original is left running.
offboardContainer ==
  /\ svc # NoRecord
  /\ Begin(Operation("offboard", NoRecord, <<>>, SetToSeq(ListClones)))

onboardManagedOnly ==
  /\ op = Idle /\ svc = NoRecord /\ Original \in Present
  /\ svc' = Record(FALSE, 1, FALSE, FALSE, 0)
  /\ UNCHANGED <<live, routes, proxy, op, lost, ops, debris>>

\* Recreates the original as label-managed replicas, then removes it.  Offered
\* for a container without a routed record.
onboardContainer(n) ==
  /\ ~Routed /\ Original \in Present
  /\ Begin(Operation("onboard", svc, NewNames("l", 1, n), <<>>))
-----------------------------------------------------------------------------
Without(S) == [n \in Present \ S |-> live[n]]
With(n, r) == [x \in Present \cup {n} |-> IF x = n THEN r ELSE live[x]]

\* What a failed create or start undoes: replace and onboard remove the clones
\* they had started, and onboard the one whose start failed.
Undone(n) ==
  CASE op.kind = "replace" -> op.made
    [] op.kind = "onboard" -> op.made \cup {n}
    [] OTHER               -> {}

CreateOne ==
  /\ op # Idle /\ op.todo # <<>>
  /\ LET n == Head(op.todo)
     IN  \/ \* created and started
            /\ n \notin Present
            /\ live' = With(n, TRUE)
            /\ op' = [op EXCEPT !.todo = Tail(@), !.made = @ \cup {n}]
            /\ debris' = debris
         \/ \* created, not started
            /\ n \notin Present
            /\ live' = [x \in (Present \cup {n}) \ Undone(n) |->
                          IF x = n THEN FALSE ELSE live[x]]
            /\ op' = Idle
            /\ debris' = (debris \/ op.kind # "onboard")
         \/ \* not created: Docker failed, or the name is taken
            /\ live' = Without(op.made \cap Undone(n))
            /\ op' = Idle
            /\ debris' = debris
  /\ UNCHANGED <<svc, routes, proxy, ops, lost>>

\* proxyRefresh posts once and ignores the answer.
proxyRefresh(r) ==
  \/ proxy' = r /\ lost' = FALSE
  \/ proxy' = proxy /\ lost' = TRUE

\* Which containers retire: replace lists them now, onboard retires the original.
Retiring ==
  CASE op.kind = "replace" -> SetToSeq(ListClones \ op.made)
    [] op.kind = "onboard" -> <<Original>>
    [] OTHER               -> op.retire

\* The record the route is rewritten from before the clones go: what the service
\* will be, except that scaling still goes by the record as it is.
RouteRecord == IF op.kind = "scale" THEN svc ELSE op.then

\* Mutant: the route file is rewritten, and the proxy is left to poll it.
DerouteQuietly ==
  /\ op # Idle /\ op.todo = <<>> /\ ~op.derouted
  /\ op' = [op EXCEPT !.derouted = TRUE, !.retire = Retiring]
  /\ IF op.kind \in {"offboard", "onboard"} \/ Retiring = <<>>
     THEN UNCHANGED routes
     ELSE routes' = rebuildOnboardedRouteExcluding(RouteRecord, Range(Retiring))
  /\ UNCHANGED <<live, svc, proxy, lost, ops, debris>>

derouteOnboarded ==
  /\ op # Idle /\ op.todo = <<>> /\ ~op.derouted
  /\ op' = [op EXCEPT !.derouted = TRUE, !.retire = Retiring]
  /\ IF op.kind \in {"offboard", "onboard"} \/ Retiring = <<>>
     THEN UNCHANGED <<routes, proxy, lost>>
     ELSE /\ routes' = rebuildOnboardedRouteExcluding(RouteRecord, Range(Retiring))
          /\ proxyRefresh(routes')
  /\ UNCHANGED <<live, svc, ops, debris>>

\* drainStopRemove: stop, then remove.  One that cannot be stopped is removed by
\* force.  drainStopRemoveAll does several at once, in any order.
Next1 == IF op.kind = "scale" THEN {1} ELSE 1..Len(op.retire)

StopOne ==
  /\ op # Idle /\ op.todo = <<>> /\ op.derouted
  /\ \E i \in Next1 \cap (1..Len(op.retire)) :
       /\ op.retire[i] \in Running
       /\ \/ live' = With(op.retire[i], FALSE)
          \/ live' = Without({op.retire[i]})
  /\ UNCHANGED <<svc, routes, proxy, op, lost, ops, debris>>

\* The rest of it: the container is gone, or could not be removed; scaling and
\* onboarding stop there, the others do not look.
RemoveOne ==
  /\ op # Idle /\ op.todo = <<>> /\ op.derouted
  /\ \E i \in Next1 \cap (1..Len(op.retire)) :
       /\ op.retire[i] \notin Running
       /\ \/ /\ live' = Without({op.retire[i]})
             /\ op' = [op EXCEPT !.retire = RemoveAt(@, i)]
             /\ debris' = debris
          \/ /\ op.retire[i] \in Present
             /\ live' = live
             /\ op' = IF op.kind \in {"scale", "onboard"} THEN Idle
                      ELSE [op EXCEPT !.retire = RemoveAt(@, i)]
             /\ debris' = TRUE
  /\ UNCHANGED <<svc, routes, proxy, ops, lost>>

\* The record is stored, the route rewritten from what Docker lists, and the
\* caller has the proxy reload it.
Finish ==
  /\ op # Idle /\ op.todo = <<>> /\ op.derouted /\ op.retire = <<>>
  /\ svc' = op.then
  /\ routes' = CASE op.kind = "onboard"  -> routes
                 [] op.kind = "offboard" -> {}
                 [] OTHER -> rebuildOnboardedRouteExcluding(op.then, {})
  /\ proxyRefresh(routes')
  /\ op' = Idle
  /\ UNCHANGED <<live, ops, debris>>

\* The dashboard dies, or a listing or a write fails: the operation ends here.
Fail ==
  /\ op # Idle
  /\ op' = Idle
  /\ debris' = (debris \/ op.derouted)
  /\ UNCHANGED <<live, svc, routes, proxy, ops, lost>>

\* The proxy also reloads on its own.
Reload ==
  /\ proxy' = routes /\ lost' = FALSE
  /\ UNCHANGED <<live, svc, routes, op, ops, debris>>

Next ==
  \/ \E n \in Counts : scaleOnboarded(n)
  \/ \E n \in 0..MaxReplicas : scaleOnboardedCanary(n)
  \/ stageOnboarded
  \/ \E n \in Counts : stageOnboardedCanary(n)
  \/ promoteOnboarded \/ promote \/ discardOnboarded \/ replaceOnboarded
  \/ offboardContainer \/ onboardManagedOnly
  \/ \E n \in Counts : onboardContainer(n)
  \/ CreateOne \/ derouteOnboarded \/ StopOne \/ RemoveOne \/ Finish
  \/ Fail \/ Reload

Spec == Init /\ [][Next]_vars
-----------------------------------------------------------------------------
(* No request is sent to a clone that is shutting down: an operation stops *)
(* a running container only once the proxy no longer has it as a backend   *)
(* (derouteOnboarded's comment), whatever failed in the operations before. *)
(* Offboarding does not promise it, and a /refresh that was lost leaves    *)
(* the proxy as it was.                                                    *)
DeroutedFirstStep ==
  \A n \in Running : (n \notin Running' /\ op.kind # "offboard" /\ ~lost)
                        => (n \notin proxy \/ op.todo # <<>>)

\* No step breaks DeroutedFirstStep.
DeroutedFirst == [][DeroutedFirstStep]_vars

(* A service never goes dark because of the order of its operations, or of *)
(* one that failed before it retired anything: the proxy has a running     *)
(* backend of a routed service, and a container that is being onboarded,   *)
(* or was, still runs or has a replica that does.  A container an          *)
(* operation left behind stopped is counted and routed like any other, so  *)
(* nothing is promised once there is one.                                  *)
NeverDark ==
  (~lost /\ ~debris /\ (op # Idle => op.kind # "offboard"))
     => IF Routed THEN proxy \cap Running # {}
        ELSE \E n \in Running : n[1] \in {"o", "l"}
=============================================================================
