----------------------------- MODULE ABManager -----------------------------
(***************************************************************************)
(* The dashboard's A/B test manager (cmd/dashboard/abmanager.go,           *)
(* abtest.go) for one service: the persisted record, the operations that   *)
(* write it before they touch a container, the jobs that create, relabel,  *)
(* remove and promote B's replicas, the loop that resumes what a restart   *)
(* cut short, makes a proxy's abort durable and ends a drained test.       *)
(*                                                                         *)
(* The host of the manager is "p"; its mesh peer "q" runs A replicas and a *)
(* proxy.  One session stands for all: sessions meet only in the times of  *)
(* the last pinned request, which others can only raise.                   *)
(***************************************************************************)
EXTENDS Integers, FiniteSets, FiniteSetsExt, TLC

CONSTANTS
  Replicas,   \* B replicas of a test
  Idle,       \* session_idle
  MaxSession, \* max_session
  PinRefresh, \* pin_refresh
  MaxNow,     \* bound: the last moment
  MaxTests,   \* bound: test ids issued, by starts and resets
  MaxOps,     \* bound: operations of users
  MaxFaults   \* bound: crashes, failed docker and peer calls, latches

Proxies == {"p", "q"}
Variants == {"A", "B"}

VARIABLES
  now,
  rec,    \* the persisted record; id 0 when there is none
  job,    \* what the holder of the service's lock is doing
  bs,     \* B's replicas: name index n and the proxy.ab.* labels
  live,   \* this host's live replicas: of the old image (a), promoted (n)
  peer,   \* the image q's replicas run
  exp,    \* exp[x]: the test as proxy x runs it; id 0 when it lists none
  ses,    \* the client's pin
  used    \* ids, operations and faults so far

vars == <<now, rec, job, bs, live, peer, exp, ses, used>>

NoRec == [id |-> 0, phase |-> "running", pat |-> 0, cfg |-> 0, pend |-> "", op |-> "",
          err |-> FALSE, due |-> TRUE, pin |-> [v \in Variants |-> 0], peers |-> FALSE]
NoJob == [kind |-> "none", step |-> "", todo |-> {}, old |-> [a |-> 0, n |-> 0], forced |-> FALSE]
NoExp == [id |-> 0, phase |-> "running", latch |-> FALSE, lat |-> 0, since |-> 0,
          pin |-> [v \in Variants |-> 0]]
NoSes == [v |-> "", id |-> 0, born |-> 0, last |-> 0, noted |-> FALSE]

Job(kind, step) == [NoJob EXCEPT !.kind = kind, !.step = step]
Forced(kind, step) == [Job(kind, step) EXCEPT !.forced = TRUE]
Fault == used.faults < MaxFaults /\ used' = [used EXCEPT !.faults = @ + 1]

\* abRecord.labels
Labels(r) == [id |-> r.id, phase |-> r.phase, pat |-> r.pat, cfg |-> r.cfg]
LabelsOf(b) == [id |-> b.id, phase |-> b.phase, pat |-> b.pat, cfg |-> b.cfg]
\* abCanaryName, nextCanaryReplicaIndex: a new replica sorts after all others.
NextIndex == IF bs = {} THEN 1 ELSE 1 + Max({b.n : b \in bs})
Replica(r) == Labels(r) @@ [n |-> NextIndex]
First == CHOOSE b \in bs : \A c \in bs : b.n <= c.n
abLabelsMatch(b, r) == LabelsOf(b) = Labels(r)

Init ==
  /\ now = 1 /\ rec = NoRec /\ job = NoJob /\ bs = {} /\ live = [a |-> 1, n |-> 0]
  /\ peer = "old" /\ exp = [x \in Proxies |-> NoExp] /\ ses = NoSes
  /\ used = [ids |-> 0, ops |-> 0, faults |-> 0]

(***************************************************************************)
(* The proxies and the client (cmd/proxy/abtest.go, abmesh.go).            *)
(***************************************************************************)
\* newABRun for an id the proxy does not run; otherwise the labels only.
Attach(e, l) ==
  IF e.id = l.id THEN [e EXCEPT !.phase = l.phase]
  ELSE [NoExp EXCEPT !.id = l.id, !.phase = l.phase, !.since = now]
Latched(e, at) == [e EXCEPT !.latch = TRUE, !.lat = at]
PhaseOf(e) == IF e.phase = "running" /\ e.latch THEN "aborted" ELSE e.phase

\* Router.refresh: abScan takes the labels of B's first replica.
Refreshed == IF bs = {} THEN NoExp ELSE Attach(exp["p"], LabelsOf(First))

\* A push of p to q carries the test, a push either way the latch.
Pushed(x, y) ==
  LET e == IF x = "q" THEN exp[y]
           ELSE IF exp[x].id = 0 THEN NoExp ELSE Attach(exp[y], exp[x])
  IN IF exp[x].latch /\ ~e.latch /\ e.id # 0 /\ e.id = exp[x].id
     THEN Latched(e, exp[x].lat) ELSE e

Learn(y, e) ==
  /\ exp[y] # e /\ exp' = [exp EXCEPT ![y] = e]
  /\ UNCHANGED <<now, rec, job, bs, live, peer, ses, used>>
Refresh == Learn("p", Refreshed)
Push(x, y) == Learn(y, Pushed(x, y))
Synced == exp["p"] = Refreshed /\ exp["q"] = Pushed("p", "q") /\ exp["p"] = Pushed("q", "p")

\* abRun.evaluate judges B bad.
Latch(x) ==
  /\ exp[x].id # 0 /\ PhaseOf(exp[x]) = "running" /\ Fault
  /\ exp' = [exp EXCEPT ![x] = Latched(@, now)]
  /\ UNCHANGED <<now, rec, job, bs, live, peer, ses>>

\* A proxy restarts and forgets pins and latch.
RestartProxy(x) ==
  /\ exp[x].id # 0 /\ Fault
  /\ exp' = [exp EXCEPT ![x] = NoExp]
  /\ UNCHANGED <<now, rec, job, bs, live, peer, ses>>

\* parseABPin
ValidPin(e) == ses.v # "" /\ ses.id = e.id /\ now - ses.last < Idle /\ now - ses.born < MaxSession

\* abRun.notePinned
notePinned(e) == [e EXCEPT !.pin[ses.v] = now]

\* A request carries a valid pin (abAssign, step 3).
PinnedRequest(x) ==
  /\ exp[x].id # 0 /\ ValidPin(exp[x])
  /\ exp' = [exp EXCEPT ![x] = notePinned(@)]
  /\ ses' = [ses EXCEPT !.noted = TRUE, !.last = IF now - @ >= PinRefresh THEN now ELSE @]
  /\ <<exp', ses'>> # <<exp, ses>>
  /\ UNCHANGED <<now, rec, job, bs, live, peer, used>>

\* A request without one gets a new pin, which no table notes (abAssign, step 9).
NewSession(x) ==
  /\ exp[x].id # 0 /\ ses = NoSes
  /\ \E v \in CASE PhaseOf(exp[x]) \in {"aborted", "discarding"} -> {"A"}
                [] PhaseOf(exp[x]) = "promoting" -> {"B"}
                [] OTHER -> Variants :
       ses' = [v |-> v, id |-> exp[x].id, born |-> now, last |-> now, noted |-> FALSE]
  /\ UNCHANGED <<now, rec, job, bs, live, peer, exp, used>>

\* A refresh and a push take less than a unit of time.
Tick == now < MaxNow /\ Synced /\ now' = now + 1 /\ UNCHANGED <<rec, job, bs, live, peer, exp, ses, used>>

(***************************************************************************)
(* The drain.                                                              *)
(***************************************************************************)
\* Mutant: a proxy that began tracking late vouches for all the time before.
QuietLastPin(v, r) == Max({r.pin[v]} \cup {exp[x].pin[v] : x \in Proxies})

\* The last moment a pinned request may have been made: abDrain's quiet.
Quiet(v, r) == Max({r.pin[v]} \cup {exp[x].pin[v] : x \in Proxies} \cup {exp[x].since : x \in Proxies})

\* abDrain; hosts: the proxies that answered gather.
Trusted(r, hosts) == hosts = Proxies /\ \A x \in Proxies : exp[x].id = r.id
abDrain(r, v, hosts) ==
  \/ now >= r.pat + MaxSession
  \/ Trusted(r, hosts) /\ Quiet(v, r) + Idle < now

\* observePins
observePins(r, hosts) ==
  [r EXCEPT !.pin = [v \in Variants |->
     Max({@[v]} \cup {exp[x].pin[v] : x \in {y \in hosts : exp[y].id = r.id}})]]

\* abAutoAbort: the first host that latched the test.
Signals(r, hosts) == {x \in hosts : exp[x].id = r.id /\ exp[x].latch}
abAutoAbort(r, hosts) == IF "p" \in Signals(r, hosts) THEN exp["p"].lat ELSE exp["q"].lat

Gathered == SUBSET {"q"}
Hosts(g) == {"p"} \cup g

(***************************************************************************)
(* The operations (mutate): the record first, then the job.                *)
(***************************************************************************)
Op(next, j) ==
  /\ job = NoJob /\ used.ops < MaxOps
  /\ rec' = [next EXCEPT !.err = FALSE, !.due = TRUE] /\ job' = j
  /\ UNCHANGED <<now, bs, live, peer, exp, ses>>
CountOp == used' = [used EXCEPT !.ops = @ + 1]
CountId == used.ids < MaxTests /\ used' = [used EXCEPT !.ids = @ + 1, !.ops = @ + 1]

\* requireRecord
Idles == rec.id # 0 /\ rec.op \in {"", "relabel"}

Start ==
  /\ rec.id = 0 /\ bs = {} /\ exp["p"].id = 0 /\ live.n = 0   \* startPreflight
  /\ CountId
  /\ Op([NoRec EXCEPT !.id = used.ids + 1, !.pat = now, !.op = "start"], Job("start", "create"))

Abort ==
  /\ Idles /\ rec.phase = "running" /\ CountOp
  /\ Op([rec EXCEPT !.phase = "aborted", !.pat = now, !.op = "relabel"], Job("relabel", "list"))

\* SetSplit, SetGroups
reconfigure ==
  /\ Idles /\ rec.phase \in {"running", "aborted"} /\ CountOp
  /\ Op([rec EXCEPT !.cfg = @ + 1, !.op = "relabel"], Job("relabel", "list"))

Reset(force, g) ==
  /\ Idles /\ rec.phase \in {"running", "aborted"}
  /\ force \/ abDrain(rec, "B", Hosts(g))
  /\ CountId
  /\ Op([NoRec EXCEPT !.id = used.ids + 1, !.pat = now, !.cfg = rec.cfg, !.op = "relabel"],
        [Job("relabel", "list") EXCEPT !.forced = force])

Discard(force) ==
  /\ Idles /\ rec.phase # "promoting" /\ CountOp
  /\ IF force
     THEN Op([rec EXCEPT !.pend = "discard", !.op = "finalize_discard"], Forced("discard", "look"))
     ELSE /\ rec.phase # "discarding"
          /\ Op([rec EXCEPT !.pend = "discard", !.phase = "discarding", !.op = "relabel",
                            !.pat = IF rec.phase = "aborted" THEN @ ELSE now], Job("relabel", "list"))

Promote(force, confirm, g) ==
  /\ Idles /\ rec.phase # "discarding" /\ CountOp
  /\ confirm \/ /\ rec.phase # "aborted"
                /\ rec.phase = "running" => Signals(rec, Hosts(g)) = {}
  /\ IF force
     THEN Op([rec EXCEPT !.pend = "promote", !.op = "finalize_promote"], Forced("promote", "peers"))
     ELSE /\ rec.phase # "promoting"
          /\ Op([rec EXCEPT !.pend = "promote", !.phase = "promoting", !.pat = now, !.op = "relabel"],
                Job("relabel", "list"))

UserOp == \/ Start \/ Abort \/ reconfigure
          \/ \E force \in BOOLEAN, g \in Gathered :
               Reset(force, g) \/ Discard(force) \/ Promote(force, force, g)

(***************************************************************************)
(* The jobs.  Each step is one call to docker or to the peer.              *)
(***************************************************************************)
\* abStore.finish
Finish(r) == NoRec
\* finalizeFailed, and the failure branch of execRelabel.
FailedRec(r) == [r EXCEPT !.err = TRUE, !.due = FALSE]

EndJob(r) == job' = NoJob /\ rec' = r

\* execStart: createCanaryReplicas, then waitForCanaryHealthy.
CreateOne ==
  /\ job.kind = "start" /\ Cardinality(bs) < Replicas
  /\ bs' = bs \cup {Replica(rec)}
  /\ UNCHANGED <<now, rec, job, live, peer, exp, ses, used>>
StartDone ==
  /\ job.kind = "start" /\ Cardinality(bs) = Replicas
  /\ EndJob([rec EXCEPT !.op = ""])
  /\ UNCHANGED <<now, bs, live, peer, exp, ses, used>>
StartFails ==
  /\ job.kind = "start" /\ Fault
  /\ job' = Job("abandon", "remove")
  /\ UNCHANGED <<now, rec, bs, live, peer, exp, ses>>

\* discardCanary: every B is drained and removed.
RemoveOne ==
  /\ job.kind \in {"abandon", "discard"} /\ job.step = "remove"
  /\ \E b \in bs : bs' = bs \ {b}
  /\ UNCHANGED <<now, rec, job, live, peer, exp, ses, used>>
RemoveDone ==
  /\ job.kind \in {"abandon", "discard"} /\ job.step = "remove" /\ bs = {}
  /\ EndJob(Finish(rec))
  /\ UNCHANGED <<now, bs, live, peer, exp, ses, used>>

\* abandonStart: a discard for Run to retry.
AbandonFailed(r) == FailedRec([r EXCEPT !.op = "finalize_discard", !.pend = "discard"])

RemoveFails ==
  /\ job.kind \in {"abandon", "discard"} /\ job.step = "remove" /\ Fault
  /\ EndJob(IF job.kind = "abandon" THEN AbandonFailed(rec) ELSE FailedRec(rec))
  /\ UNCHANGED <<now, bs, live, peer, exp, ses>>

\* abLocalLabels: with no B, or when the list fails, the finalize counts as done.
Look(ok) ==
  /\ job.step = "look"
  /\ IF ok THEN UNCHANGED used ELSE Fault
  /\ IF ok /\ bs # {}
     THEN /\ job' = IF job.kind = "discard" THEN [job EXCEPT !.step = "remove"]
                    ELSE [job EXCEPT !.step = "gate"]
          /\ UNCHANGED rec
     ELSE EndJob(Finish(rec))
  /\ UNCHANGED <<now, bs, live, peer, exp, ses>>

\* promotePeers: the peer's own rolling replace; it may succeed past the wait.
PromotePeers(ok) ==
  /\ job.step = "peers"
  /\ IF ok \/ rec.peers
     THEN /\ peer' = "new" /\ rec' = [rec EXCEPT !.peers = TRUE]
          /\ job' = [job EXCEPT !.step = "look"] /\ UNCHANGED used
     ELSE /\ Fault /\ peer' \in {peer, "new"} /\ EndJob(FailedRec(rec))
  /\ UNCHANGED <<now, bs, live, exp, ses>>

\* promoteCanary: the gate while every B is still labelled, ...
Gate(ok) ==
  /\ job.step = "gate"
  /\ IF ok THEN /\ job' = [job EXCEPT !.step = "recreate", !.todo = bs, !.old = live]
                /\ UNCHANGED <<rec, used>>
     ELSE Fault /\ EndJob(FailedRec(rec))
  /\ UNCHANGED <<now, bs, live, peer, exp, ses>>
\* ... each B recreated without the labels, ...
Recreate(ok) ==
  /\ job.step = "recreate" /\ job.todo # {}
  /\ IF ok THEN live' = [live EXCEPT !.n = @ + 1] /\ job' = [job EXCEPT !.step = "drop"] /\ UNCHANGED <<rec, used>>
     ELSE Fault /\ EndJob(FailedRec(rec)) /\ UNCHANGED live
  /\ UNCHANGED <<now, bs, peer, exp, ses>>
Drop ==
  /\ job.step = "drop"
  /\ \E b \in job.todo : bs' = bs \ {b} /\ job' = [job EXCEPT !.step = "recreate", !.todo = @ \ {b}]
  /\ UNCHANGED <<now, rec, live, peer, exp, ses, used>>
\* ... and the live replicas it found removed.
Teardown ==
  /\ job.step = "recreate" /\ job.todo = {}
  /\ live' = [a |-> live.a - job.old.a, n |-> live.n - job.old.n]
  /\ EndJob(Finish(rec))
  /\ UNCHANGED <<now, bs, peer, exp, ses, used>>

\* relabelABReplicas: a surge of one; the replicas it listed, in any order.
RelabelList(ok) ==
  /\ job.kind = "relabel" /\ job.step = "list"
  /\ IF ok THEN UNCHANGED used ELSE Fault
  /\ IF ok /\ bs # {}
     THEN job' = [job EXCEPT !.step = "surge", !.todo = {b \in bs : ~abLabelsMatch(b, rec)}] /\ UNCHANGED rec
     ELSE EndJob(FailedRec(rec))
  /\ UNCHANGED <<now, bs, live, peer, exp, ses>>
RelabelOne(ok) ==
  /\ job.kind = "relabel" /\ job.step = "surge" /\ job.todo # {}
  /\ IF ok THEN bs' = bs \cup {Replica(rec)} /\ job' = [job EXCEPT !.step = "ready"] /\ UNCHANGED <<rec, used>>
     ELSE Fault /\ EndJob(FailedRec(rec)) /\ UNCHANGED bs
  /\ UNCHANGED <<now, live, peer, exp, ses>>
RelabelReady ==
  /\ job.step = "ready"
  /\ \E b \in job.todo :
       bs' = bs \ {b} /\ job' = [job EXCEPT !.step = "surge", !.todo = @ \ {b}]
  /\ UNCHANGED <<now, rec, live, peer, exp, ses, used>>
RelabelUnready ==
  /\ job.step = "ready" /\ Fault
  /\ bs' = {b \in bs : b.n < NextIndex - 1} /\ EndJob(FailedRec(rec))
  /\ UNCHANGED <<now, live, peer, exp, ses>>
RelabelDone ==
  /\ job.kind = "relabel" /\ job.step = "surge" /\ job.todo = {}
  /\ EndJob([rec EXCEPT !.op = "", !.err = FALSE])
  /\ UNCHANGED <<now, bs, live, peer, exp, ses, used>>

Step == \/ CreateOne \/ StartDone \/ RemoveOne \/ RemoveDone \/ Look(TRUE) \/ PromotePeers(TRUE)
        \/ Gate(TRUE) \/ Recreate(TRUE) \/ Drop \/ Teardown \/ RelabelList(TRUE) \/ RelabelOne(TRUE)
        \/ RelabelReady \/ RelabelDone
StepFails == \/ StartFails \/ RemoveFails \/ Look(FALSE) \/ PromotePeers(FALSE) \/ Gate(FALSE)
             \/ Recreate(FALSE) \/ RelabelList(FALSE) \/ RelabelOne(FALSE) \/ RelabelUnready

(***************************************************************************)
(* The loop.                                                               *)
(***************************************************************************)
\* Mutant: an interrupted start is taken up as a running test.
ResumeStartKept(r) == Job("none", "")

\* checkOne finds an interrupted start.
ResumeStart(r) == Job("abandon", "remove")

TakesAbort(r, hosts) == r.phase = "running" /\ r.op \in {"", "relabel"} /\ Signals(r, hosts) # {}

\* checkOne, after observePins.
Resume(r, hosts) ==
  LET retryDue == ~r.err \/ r.due
      at == abAutoAbort(r, hosts)
  IN
  CASE r.op = "start" -> [r |-> r, j |-> ResumeStart(r)]
    [] TakesAbort(r, hosts) ->
         [r |-> [r EXCEPT !.phase = "aborted", !.pat = IF at > 0 /\ at <= now THEN at ELSE now, !.op = "relabel"],
          j |-> Job("relabel", "list")]
    [] r.op = "relabel" /\ retryDue -> [r |-> r, j |-> Job("relabel", "list")]
    [] r.op = "finalize_promote" /\ retryDue -> [r |-> r, j |-> Forced("promote", "peers")]
    [] r.op = "finalize_discard" /\ retryDue -> [r |-> r, j |-> Forced("discard", "look")]
    [] r.op = "" /\ r.pend = "discard" /\ abDrain(r, "B", hosts) ->
         [r |-> [r EXCEPT !.op = "finalize_discard"], j |-> Job("discard", "look")]
    [] r.op = "" /\ r.pend = "promote" /\ abDrain(r, "A", hosts) ->
         [r |-> [r EXCEPT !.op = "finalize_promote"], j |-> Job("promote", "peers")]
    [] r.op = "" /\ r.pend = "" /\ bs = {} -> [r |-> Finish(r), j |-> NoJob]
    [] OTHER -> [r |-> r, j |-> NoJob]

checkOne ==
  /\ job = NoJob /\ rec.id # 0
  /\ \E g \in Gathered :
       LET next == Resume(observePins(rec, Hosts(g)), Hosts(g)) IN
       rec' = next.r /\ job' = next.j
  /\ <<rec', job'>> # <<rec, job>>
  /\ UNCHANGED <<now, bs, live, peer, exp, ses, used>>

\* abRetryInterval passes after a failure.
RetryInterval ==
  /\ rec.err /\ ~rec.due /\ rec' = [rec EXCEPT !.due = TRUE]
  /\ UNCHANGED <<now, job, bs, live, peer, exp, ses, used>>

\* adoptOrphans, abRecordFromLabels
adoptOrphans ==
  /\ job = NoJob /\ rec.id = 0 /\ bs # {}
  /\ rec' = [NoRec EXCEPT !.id = First.id, !.phase = First.phase, !.pat = First.pat, !.cfg = First.cfg,
               !.pend = CASE First.phase = "discarding" -> "discard"
                          [] First.phase = "promoting" -> "promote" [] OTHER -> ""]
  /\ UNCHANGED <<now, job, bs, live, peer, exp, ses, used>>

\* The dashboard restarts: its lock, claim and job are gone, the record is kept.
Crash ==
  /\ job # NoJob /\ Fault /\ job' = NoJob
  /\ UNCHANGED <<now, rec, bs, live, peer, exp, ses>>

\* B is removed by hand.
Vanish ==
  /\ job = NoJob /\ bs # {} /\ Fault /\ bs' = {}
  /\ UNCHANGED <<now, rec, job, live, peer, exp, ses>>

Loop == checkOne \/ RetryInterval \/ adoptOrphans
Proxying == Refresh \/ Push("p", "q") \/ Push("q", "p")
Next == \/ UserOp \/ Step \/ StepFails \/ Loop \/ Crash \/ Vanish \/ Proxying \/ Tick
        \/ \E x \in Proxies : Latch(x) \/ RestartProxy(x) \/ PinnedRequest(x) \/ NewSession(x)

Fairness == WF_vars(Step) /\ WF_vars(Loop) /\ WF_vars(Refresh) /\ WF_vars(Push("p", "q")) /\ WF_vars(Push("q", "p"))
Spec == Init /\ [][Next]_vars /\ Fairness

(***************************************************************************)
(* Properties.                                                             *)
(***************************************************************************)
\* The session is alive, under the record's test, and pinned to v.
Alive(v) == ses.v = v /\ ses.id = rec.id /\ now - ses.last < Idle /\ now - ses.born < MaxSession

\* The step decides that v has drained: a finalize or a reset nobody forced.
Decides(v) ==
  \/ /\ rec.op = "" /\ ~job'.forced
     /\ rec'.op = (IF v = "B" THEN "finalize_discard" ELSE "finalize_promote")
  \/ v = "B" /\ 0 # rec.id /\ rec.id # rec'.id /\ rec'.id # 0 /\ ~job'.forced

\* A drain is over only when no session the phase change found is left: the
\* manager never decides, unforced, that a variant has drained while a
\* session pinned to it before the phase changed is alive whose pin some
\* proxy has seen, though proxies restart and forget, cannot be reached, or
\* run another test (abDrain, observePins, checkOne, Reset).
DrainSoundStep ==
  \A v \in Variants :
   Decides(v) /\ ses.noted /\ ses.born <= rec.pat => ~Alive(v)

\* No step breaks DrainSoundStep.
DrainSound == [][DrainSoundStep]_vars

\* Whatever is interrupted is taken up: an operation of the record is
\* finished (but for the relabel of a B that was removed by hand, which fails
\* until the operator discards the test by force), a latched abort reaches
\* B's labels, and replicas of B without a record get one or are removed.
NoneOpen == rec.op = "" \/ (rec.op = "relabel" /\ bs = {})
NoneOrphaned == \A b \in bs : rec.id # 0
LatchHeeded(i) ==
  exp["p"].id = i /\ exp["p"].latch => bs = {} \/ First.id # i \/ First.phase # "running"
Settles == []<>NoneOpen /\ []<>NoneOrphaned /\ \A i \in 1 .. MaxTests : []<>LatchHeeded(i)
=============================================================================
