----------------------------- MODULE CentralEnv -----------------------------
(***************************************************************************)
(* The central environment of one service (cmd/dashboard/centralenv*.go):  *)
(* the versioned record on its origin host o, the cached copy on a peer p, *)
(* and the job each host runs to recreate its replicas from a version,     *)
(* health-gated, one after the other.                                      *)
(*                                                                         *)
(* An operator edits, syncs, adopts, releases and scales; the auto-updater *)
(* and the reconcile ticks run beside the jobs; calls between the hosts    *)
(* may fail, before or after they were served, and a dashboard may restart *)
(* with its files and containers kept and its memory lost.  A replica is   *)
(* the version it is stamped with, 0 when it carries no stamp: contents,   *)
(* overrides and secrets are left out, a version stands for them.  A/B     *)
(* tests, and peers too old to take part, are left out.                    *)
(***************************************************************************)
EXTENDS Integers, FiniteSets, FiniteSetsExt, Functions

CONSTANTS
  Rep,          \* replicas a host may run
  Reps,         \* Reps[h]: those it runs at first
  MaxVersion,   \* bound: the version past which nobody edits
  MaxOps,       \* bound: syncs, adopts and releases
  MaxFaults     \* bound: what comes in between, all together: replicas that
                \*   fail their gate or cannot be created, calls that fail,
                \*   waits that time out, restarts, scale-ups, auto-updates

Host == {"o", "p"}
Version == 0 .. MaxVersion + MaxFaults

VARIABLES
  rec,        \* centralEnvStore of o; version 0 when there is no record
  cache,      \* centralEnvCache of p; version 0 when nothing is cached
  ct,         \* ct[h]: the service's replicas on h, each with its stamp
  claim,      \* dockerClient.claims of h
  op,         \* the scale-up or auto-update under way on h, and its version
  job,        \* the propagation job of h, as far as it has got
  dirty,      \* envSyncManager.dirty
  shown,      \* envSyncManager.jobs: what a status call answers
  asked,      \* what o asked of p: peerTarget, peerAdopt, peerRelease
  marks,      \* on o: peerFailed and retry
  edit,       \* the version an edit under way was based on
  used        \* how much of each bound is spent

vars == <<rec, cache, ct, claim, op, job, dirty, shown, asked, marks, edit, used>>

NoRecord == [ver |-> 0, prev |-> FALSE, state |-> "active", adopting |-> FALSE]
NoCache  == [ver |-> 0, prev |-> 0, failed |-> 0]
NoAsk    == [ver |-> 0, adopt |-> FALSE, release |-> FALSE]
NoMarks  == [failed |-> 0, retry |-> FALSE]
NotShown == [role |-> "none", target |-> 0, status |-> "none"]
NoOp     == [kind |-> "none", ver |-> 0]

\* Where a job stands: its step, the version it works on, what it read of the
\* record or the cache when it began, the roll under way and what it is for.
Job(pc, role, target) ==
  [pc |-> pc, role |-> role, target |-> target, state |-> "active", first |-> FALSE,
   adopt |-> FALSE, retry |-> FALSE, stage |-> "main", todo |-> {}, rolls |-> 0,
   back |-> 0, prev |-> 0, refused |-> 0]
NoJob == Job("idle", "none", 0)

Init ==
  /\ \/ /\ rec = NoRecord /\ cache = NoCache
        /\ ct = [h \in Host |-> [i \in Reps[h] |-> 0]]
     \/ /\ rec = [NoRecord EXCEPT !.ver = 1]
        /\ cache = [NoCache EXCEPT !.ver = 1]
        /\ ct = [h \in Host |-> [i \in Reps[h] |-> 1]]
  /\ claim = [h \in Host |-> "none"]
  /\ op = [h \in Host |-> NoOp]
  /\ job = [h \in Host |-> NoJob]
  /\ dirty = [h \in Host |-> FALSE]
  /\ shown = [h \in Host |-> NotShown]
  /\ asked = NoAsk /\ marks = NoMarks /\ edit = 0
  /\ used = [ops |-> 0, faults |-> 0, creates |-> 0]

busy(h) == job[h].pc # "idle"
terminal(h) == shown[h].status # "running"
Stamped(h) == {i \in DOMAIN ct[h] : ct[h][i] # 0}
hasForeign(h) == \E i \in DOMAIN ct[h] : ct[h][i] = 0

\* startLocked: at most one job per host, and any number of requests while it
\* runs make one more.
startLocked(h) ==
  /\ job' = IF busy(h) THEN job ELSE [job EXCEPT ![h] = Job("start", "none", 0)]
  /\ dirty' = IF busy(h) THEN [dirty EXCEPT ![h] = TRUE] ELSE dirty

Fault == used.faults < MaxFaults /\ used' = [used EXCEPT !.faults = @ + 1]
Operate == used.ops < MaxOps /\ used' = [used EXCEPT !.ops = @ + 1]

-----------------------------------------------------------------------------
(* The record: set, rotate, adopt and release.                             *)

\* keepTransitionState
keepTransitionState == IF rec.state = "releasing" THEN "releasing" ELSE "active"

\* A new version of the record, which remembers the one before it.
Bumped(state) == [rec EXCEPT !.ver = @ + 1, !.prev = TRUE, !.state = state]

\* applyCentralEnvSet, up to reading the record: refused while releasing.
ReadForEdit ==
  /\ edit = 0 /\ rec.ver \in 1 .. MaxVersion - 1 /\ rec.state # "releasing"
  /\ edit' = rec.ver
  /\ UNCHANGED <<rec, cache, ct, claim, op, job, dirty, shown, asked, marks, used>>

\* centralEnvStore.Apply: compared and swapped; then the propagation.
Apply ==
  /\ edit # 0 /\ edit' = 0
  /\ IF edit = rec.ver
     THEN rec' = Bumped(keepTransitionState) /\ startLocked("o")
     ELSE UNCHANGED <<rec, job, dirty>>
  /\ UNCHANGED <<cache, ct, claim, op, shown, asked, marks, used>>

\* An explicit sync on the origin: clearFailures and request.
SyncOrigin ==
  /\ Operate
  /\ rec.ver # 0
  /\ marks' = [failed |-> 0, retry |-> TRUE]
  /\ startLocked("o")
  /\ UNCHANGED <<rec, cache, ct, claim, op, shown, asked, edit>>

\* adoptLocalFacts: nothing of the service on h is managed or being worked on.
adoptLocalFacts(h) == Stamped(h) = {} /\ claim[h] = "none" /\ ~busy(h)

\* adoptPreflight, of every host that runs the service.
adoptPreflight == rec.ver = 0 /\ cache.ver = 0 /\ \A h \in Host : adoptLocalFacts(h)

\* adoptExecute: the record is created and the claim handed to the job.
adoptExecute ==
  /\ Operate
  /\ adoptPreflight
  /\ rec' = [NoRecord EXCEPT !.ver = 1, !.adopting = TRUE]
  /\ claim' = [claim EXCEPT !["o"] = "central-env"]
  /\ startLocked("o")
  /\ UNCHANGED <<cache, ct, op, shown, asked, marks, edit>>

\* startCentralEnvRelease
startCentralEnvRelease ==
  /\ Operate
  /\ rec.ver # 0
  /\ rec' = [rec EXCEPT !.state = "releasing"]
  /\ startLocked("o")
  /\ UNCHANGED <<cache, ct, claim, op, shown, asked, marks, edit>>

-----------------------------------------------------------------------------
(* The cache, and what a create path gets from it.                         *)

usable == cache.failed # cache.ver
failedHere(v) == /\ cache.ver # 0 /\ v <= cache.failed
                 /\ v > cache.ver \/ ~usable

\* PutWithHealthcheck: whether it takes version v, and what it leaves.
Accepts(v) == v >= cache.ver /\ ~failedHere(v)
Put(v) == IF ~Accepts(v) \/ v = cache.ver THEN cache
          ELSE [ver |-> v, prev |-> cache.ver, failed |-> 0]

\* RollBack
RolledBack(v, to) ==
  IF cache.ver = 0 THEN cache
  ELSE IF to = 0 THEN [cache EXCEPT !.failed = v]
  ELSE [ver |-> to, prev |-> 0, failed |-> v]

\* Resolve on the origin: the record, nothing for a replica never stamped, and
\* a refusal (-1) for one whose record is gone.
ResolveOrigin(stamp) ==
  IF rec.ver # 0 THEN rec.ver ELSE IF stamp # 0 THEN -1 ELSE 0

\* Resolve on the peer of a managed service, answered by the origin or not.
ResolvePeer(answered) ==
  IF answered /\ Accepts(rec.ver) THEN rec.ver
  ELSE IF cache.ver = 0 \/ ~usable THEN -1
  ELSE cache.ver

\* cloneEnvAndSpec on h from a replica with this stamp may use version v.
Clone(h, stamp, v) ==
  \/ h = "o" /\ v = ResolveOrigin(stamp) /\ UNCHANGED cache
  \/ h = "p" /\ stamp = 0 /\ cache.ver = 0 /\ v = 0 /\ UNCHANGED cache
  \/ /\ h = "p" /\ (stamp # 0 \/ cache.ver # 0)
     /\ \E answered \in BOOLEAN :
          /\ answered => rec.ver # 0
          /\ v = ResolvePeer(answered)
          /\ cache' = IF answered THEN Put(rec.ver) ELSE cache

\* scaleServiceWithHealthcheck resolves what its new replica runs; the API
\* refuses it while a rolling replace runs.  runOnce, of the auto-updater,
\* takes the claim first.
CreateStart(h, kind) ==
  /\ used.faults < MaxFaults
  /\ used' = [used EXCEPT !.faults = @ + 1, !.creates = @ + 1]
  /\ op[h] = NoOp /\ job[h].pc # "roll"
  /\ IF kind = "scale" THEN Rep # DOMAIN ct[h] /\ UNCHANGED claim
     ELSE claim[h] = "none" /\ claim' = [claim EXCEPT ![h] = "autoupdate"]
  /\ \E t \in DOMAIN ct[h], v \in Version :
       Clone(h, ct[h][t], v) /\ op' = [op EXCEPT ![h] = [kind |-> kind, ver |-> v]]
  /\ UNCHANGED <<rec, ct, job, dirty, shown, asked, marks, edit>>

\* ... and creates it; the auto-updater replaces every replica.
CreateEnd(h) ==
  /\ op[h] # NoOp
  /\ op' = [op EXCEPT ![h] = NoOp]
  /\ \/ /\ op[h].kind = "scale"
        /\ LET i == CHOOSE k \in Rep : k \notin DOMAIN ct[h]
           IN  ct' = [ct EXCEPT ![h] = [k \in DOMAIN @ \cup {i} |->
                                         IF k = i THEN op[h].ver ELSE @[k]]]
        /\ UNCHANGED claim
     \/ /\ op[h].kind = "autoupdate"
        /\ ct' = [ct EXCEPT ![h] = [i \in DOMAIN @ |-> op[h].ver]]
        /\ claim' = [claim EXCEPT ![h] = "none"]
  /\ UNCHANGED <<rec, cache, job, dirty, shown, asked, marks, edit, used>>

-----------------------------------------------------------------------------
(* The job: how it starts, what it rolls, how it ends.                     *)

\* releaseClaim: given back only by its owner.
Freed(h) == [claim EXCEPT ![h] = IF @ = "central-env" THEN "none" ELSE @]

\* finish, and the claim the job may still hold.
finish(h, status, target) ==
  /\ shown' = [shown EXCEPT ![h] = [role |-> job[h].role, target |-> target, status |-> status]]
  /\ job' = [job EXCEPT ![h] = Job("end", job[h].role, target)]
  /\ claim' = Freed(h)

begin(h, j) ==
  /\ job' = [job EXCEPT ![h] = j]
  /\ shown' = [shown EXCEPT ![h] = [role |-> j.role, target |-> j.target, status |-> "running"]]

\* runOrigin, before it waits: what it reads of the record now is what it
\* goes by, unless the version moves on.
OfRecord(j) == [j EXCEPT !.target = rec.ver, !.state = rec.state, !.adopt = rec.adopting,
                         !.first = rec.adopting /\ ~rec.prev]

runOrigin ==
  /\ job["o"].pc = "start" /\ rec.ver # 0
  /\ marks' = [marks EXCEPT !.retry = FALSE]
  /\ IF rec.state = "degraded"
     THEN /\ shown' = [shown EXCEPT !["o"] = [role |-> "origin", target |-> rec.ver, status |-> "degraded"]]
          /\ job' = [job EXCEPT !["o"] = Job("end", "origin", rec.ver)]
          /\ claim' = Freed("o")
     ELSE /\ begin("o", OfRecord([Job("claim", IF rec.state = "releasing" THEN "release" ELSE "origin", 0)
                                    EXCEPT !.retry = marks.retry]))
          /\ UNCHANGED claim
  /\ UNCHANGED <<rec, cache, ct, op, dirty, asked, edit, used>>

\* loop on a host without the record: takePeerRelease, or runPeer.  On the
\* origin itself nobody ever named another one.
runPeer(h) ==
  /\ job[h].pc = "start" /\ (h = "o" => rec.ver = 0)
  /\ IF h = "p" /\ asked.release
     THEN /\ begin(h, [Job("claim", "release", cache.ver)
                         EXCEPT !.back = IF usable THEN cache.ver ELSE 0])
          /\ asked' = [asked EXCEPT !.release = FALSE]
     ELSE IF h = "p" /\ asked.ver # 0
     THEN /\ begin(h, [Job("claim", "peer", asked.ver) EXCEPT !.adopt = asked.adopt])
          /\ asked' = [asked EXCEPT !.adopt = FALSE]
     ELSE /\ shown' = [shown EXCEPT ![h] = [role |-> "peer", target |-> 0, status |-> "failed"]]
          /\ job' = [job EXCEPT ![h] = Job("end", "peer", 0)]
          /\ asked' = IF h = "p" THEN [asked EXCEPT !.adopt = FALSE] ELSE asked
  /\ UNCHANGED <<rec, cache, ct, claim, op, dirty, marks, edit, used>>

\* waitIdle, and what follows it at once: the origin resolves the newest
\* version, the peer notes what it could go back to.
waitIdle(h) ==
  /\ job[h].pc = "claim" /\ claim[h] \in {"none", "central-env"}
  /\ claim' = [claim EXCEPT ![h] = "central-env"]
  /\ LET j == job[h] IN
       IF h = "p"
       THEN /\ job' = [job EXCEPT !["p"] = IF j.role = "release" THEN [j EXCEPT !.pc = "fetch"]
                         ELSE [j EXCEPT !.pc = "fetch", !.back = cache.ver, !.prev = cache.prev]]
            /\ UNCHANGED shown
       ELSE /\ job' = [job EXCEPT !["o"] = [(IF rec.ver = j.target THEN j ELSE OfRecord(j)) EXCEPT !.pc = "list"]]
            /\ shown' = [shown EXCEPT !["o"].target = rec.ver]
  /\ UNCHANGED <<rec, cache, ct, op, dirty, asked, marks, edit, used>>

\* ... which gives up after rollingOpTimeout, holding no claim of its own.
waitTimesOut(h) ==
  /\ job[h].pc = "claim" /\ Fault
  /\ claim[h] \notin {"none", "central-env"}
  /\ finish(h, "failed", job[h].target)
  /\ UNCHANGED <<rec, cache, ct, op, dirty, asked, marks, edit>>

\* runPeer: fetchFromOrigin, PutWithHealthcheck, and the version to go back to.
fetch(j) ==
  LET v  == IF Accepts(rec.ver) THEN rec.ver ELSE cache.ver
      to == IF j.back = 0 THEN 0 ELSE IF j.back < v THEN j.back ELSE j.prev
  IN  /\ cache' = Put(rec.ver)
      /\ IF ~Accepts(rec.ver) /\ ~usable
         THEN finish("p", "failed", j.target)
         ELSE /\ job' = [job EXCEPT !["p"] = [j EXCEPT !.pc = "list", !.target = v, !.back = to,
                           !.refused = IF failedHere(rec.ver) THEN rec.ver ELSE 0]]
              /\ shown' = [shown EXCEPT !["p"].target = v]
              /\ UNCHANGED claim

\* runPeerRelease asks the origin too, and falls back to its cache.
fetchForRelease(j, answered) ==
  LET v == IF answered THEN rec.ver ELSE j.back IN
  /\ UNCHANGED cache
  /\ IF v = 0 /\ Stamped("p") # {}
     THEN finish("p", "failed", j.target)
     ELSE /\ job' = [job EXCEPT !["p"] = [j EXCEPT !.pc = "list", !.target = v]]
          /\ shown' = [shown EXCEPT !["p"].target = v]
          /\ UNCHANGED claim

Fetch ==
  /\ job["p"].pc = "fetch"
  /\ LET j == job["p"] IN
       \/ /\ rec.ver # 0 /\ UNCHANGED used
          /\ IF j.role = "release" THEN fetchForRelease(j, TRUE) ELSE fetch(j)
       \/ /\ IF rec.ver = 0 THEN UNCHANGED used ELSE Fault
          /\ IF j.role = "release" THEN fetchForRelease(j, FALSE)
             ELSE finish("p", "failed", j.target) /\ UNCHANGED cache
  /\ UNCHANGED <<rec, ct, op, dirty, asked, marks, edit>>

\* What a roll is for, and the stamp it leaves.
unstamp(j) == j.role = "release" \/ j.stage = "undo"
adopting(j) == j.adopt /\ j.stage = "main" /\ j.role # "release"
Stamp(j) == IF unstamp(j) THEN 0 ELSE IF j.stage = "rollback" THEN j.back ELSE j.target

Targets(h) == IF adopting(job[h]) THEN DOMAIN ct[h] ELSE Stamped(h)
Stale(h) == {i \in Targets(h) : ct[h][i] # Stamp(job[h])}

\* A roll that worked: syncPeers or releasePeers next on the origin, and on
\* the peer the end of its job.
Rolled(h) ==
  LET j == job[h] IN
  \/ /\ h = "o" /\ j.stage = "main"
     /\ job' = [job EXCEPT !["o"] = [j EXCEPT !.pc = "status"]]
     /\ claim' = Freed("o")
     /\ UNCHANGED <<rec, cache, dirty, shown, asked, marks>>
  \/ /\ j.stage = "undo"
     /\ rec' = NoRecord /\ marks' = NoMarks
     /\ finish("o", "adopt_undone", j.target)
     /\ UNCHANGED <<cache, dirty, asked>>
  \/ /\ h = "p" /\ j.role = "release"
     /\ cache' = NoCache
     /\ asked' = [NoAsk EXCEPT !.release = asked.release]
     /\ dirty' = [dirty EXCEPT !["p"] = @ /\ asked.release]
     /\ finish("p", "converged", j.target)
     /\ UNCHANGED <<rec, marks>>
  \/ /\ h = "p" /\ j.role = "peer"
     /\ cache' = IF j.stage = "rollback" THEN RolledBack(j.target, j.back) ELSE cache
     /\ IF j.stage = "main" /\ j.refused = 0 THEN finish("p", "converged", j.target)
        ELSE finish("p", "rolled_back", IF j.refused # 0 THEN j.refused ELSE j.target)
     /\ UNCHANGED <<rec, dirty, asked, marks>>

\* A roll that did not.  A first adopt is undone; a gate that failed is
\* answered by a revert on the origin and a rollback on the peer.
NextRoll(h, stage) ==
  /\ job' = [job EXCEPT ![h] = [@ EXCEPT !.pc = "list", !.stage = stage, !.todo = {}, !.rolls = 0]]
  /\ UNCHANGED <<claim, shown>>

RollFailed(h, gate) ==
  LET j == job[h]
      rolling == j.role # "release" /\ j.stage = "main"
  IN
  /\ UNCHANGED dirty
  /\ \/ /\ rolling /\ h = "o" /\ j.first
        /\ IF Stamped("o") = {}
           THEN rec' = NoRecord /\ marks' = NoMarks /\ finish("o", "adopt_undone", j.target)
           ELSE NextRoll("o", "undo") /\ UNCHANGED <<rec, marks>>
        /\ UNCHANGED <<cache, asked>>
     \/ /\ rolling /\ h = "o" /\ ~j.first /\ gate
        /\ job' = [job EXCEPT !["o"].pc = "judge"]
        /\ UNCHANGED <<rec, cache, claim, shown, asked, marks>>
     \/ /\ rolling /\ h = "p" /\ gate
        /\ IF j.back # 0 THEN NextRoll("p", "rollback") /\ UNCHANGED cache
           ELSE cache' = RolledBack(j.target, 0) /\ finish("p", "failed", j.target)
        /\ UNCHANGED <<rec, asked, marks>>
     \/ /\ ~rolling \/ (~gate /\ ~(h = "o" /\ j.first))
        /\ rec' = IF j.stage = "undo" THEN [rec EXCEPT !.state = "releasing"] ELSE rec
        /\ cache' = IF j.stage = "rollback" THEN RolledBack(j.target, j.back) ELSE cache
        /\ finish(h, "failed", j.target)
        /\ UNCHANGED <<asked, marks>>

\* rollLocal: list, and roll again for what is not there yet, at most twice.
rollLocal(h) ==
  /\ job[h].pc = "list"
  /\ LET j == job[h] IN
       \/ Stale(h) = {} /\ Rolled(h)
       \/ Stale(h) # {} /\ j.rolls = 2 /\ ~unstamp(j) /\ ~adopting(j) /\ Rolled(h)
       \/ Stale(h) # {} /\ j.rolls = 2 /\ (unstamp(j) \/ adopting(j)) /\ RollFailed(h, FALSE)
       \/ /\ Stale(h) # {} /\ j.rolls < 2
          /\ job' = [job EXCEPT ![h] = [j EXCEPT !.pc = "roll", !.todo = Targets(h)]]
          /\ UNCHANGED <<rec, cache, claim, dirty, shown, asked, marks>>
  /\ UNCHANGED <<ct, op, edit, used>>

\* One replica is replaced, behind its health gate ...
Swap(h) ==
  /\ job[h].pc = "roll"
  /\ LET j == job[h] IN
       \E i \in j.todo :
         /\ \A k \in j.todo : i <= k
         /\ ct' = [ct EXCEPT ![h][i] = Stamp(j)]
         /\ job' = [job EXCEPT ![h] = IF j.todo = {i} THEN [j EXCEPT !.pc = "list", !.todo = {}, !.rolls = @ + 1]
                                      ELSE [j EXCEPT !.todo = @ \ {i}]]
  /\ UNCHANGED <<rec, cache, claim, op, dirty, shown, asked, marks, edit, used>>

\* ... which it may not pass, or it cannot be created: the roll ends there.
SwapFails(h, gate) ==
  /\ job[h].pc = "roll"
  /\ Fault
  /\ RollFailed(h, gate)
  /\ UNCHANGED <<ct, op, edit>>

\* handleOriginGateFailure looks whether the version is still the newest ...
handleOriginGateFailure ==
  /\ job["o"].pc = "judge"
  /\ LET j == job["o"] IN
       \/ /\ rec.ver # j.target
          /\ finish("o", "failed", j.target) /\ UNCHANGED rec
       \/ /\ rec.ver = j.target /\ j.state = "reverted"
          /\ rec' = [rec EXCEPT !.state = "degraded"]
          /\ finish("o", "degraded", j.target)
       \/ /\ rec.ver = j.target /\ j.state # "reverted"
          /\ job' = [job EXCEPT !["o"].pc = "revert"]
          /\ UNCHANGED <<rec, claim, shown>>
  /\ UNCHANGED <<cache, ct, op, dirty, asked, marks, edit, used>>

\* ... and reverts, or marks the record degraded when there is nothing before.
Revert ==
  /\ job["o"].pc = "revert"
  /\ IF rec.prev THEN rec' = Bumped("reverted") /\ finish("o", "reverted", job["o"].target)
     ELSE rec' = [rec EXCEPT !.state = "degraded"] /\ finish("o", "degraded", job["o"].target)
  /\ UNCHANGED <<cache, ct, op, dirty, asked, marks, edit, used>>

-----------------------------------------------------------------------------
(* The origin and its peer.                                                *)

runsOrCaches == DOMAIN ct["p"] # {} \/ cache.ver # 0

\* Mutant: the cached version alone.
CachedAtLeast(v) == cache.ver >= v

atLeast(v) == cache.ver >= v /\ \A i \in Stamped("p") : ct["p"][i] >= v
convergedFor(v, adopt) == atLeast(v) /\ ~(adopt /\ hasForeign("p"))
peerReleased == cache.ver = 0 /\ Stamped("p") = {}

\* The end of syncPeers or releasePeers, with what p's part in it was.
PeersDone(result) ==
  LET j == job["o"] IN
  /\ marks' = IF j.role = "release" /\ result = "converged" THEN NoMarks
              ELSE IF j.role = "origin" /\ result = "rolled_back" THEN [marks EXCEPT !.failed = j.target]
              ELSE marks
  /\ rec' = IF result # "converged" THEN rec
            ELSE IF j.role = "release" THEN NoRecord
            ELSE [rec EXCEPT !.adopting = @ /\ ~j.adopt]
  /\ finish("o", IF result = "converged" THEN "converged" ELSE "partial", j.target)

\* syncOnePeer and releaseOnePeer ask for p's status first.
peerStatus ==
  /\ job["o"].pc = "status"
  /\ LET j == job["o"] IN
       \/ Fault /\ PeersDone("failed")
       \/ /\ j.role = "origin" /\ UNCHANGED used
          /\ \/ marks.failed >= j.target /\ PeersDone("failed")
             \/ /\ marks.failed < j.target
                /\ ~runsOrCaches \/ convergedFor(j.target, j.adopt)
                /\ PeersDone("converged")
             \/ /\ marks.failed < j.target /\ runsOrCaches /\ ~convergedFor(j.target, j.adopt)
                /\ job' = [job EXCEPT !["o"].pc = "notify"]
                /\ UNCHANGED <<rec, claim, shown, marks>>
       \/ /\ j.role = "release" /\ UNCHANGED used
          /\ IF peerReleased THEN PeersDone("converged")
             ELSE job' = [job EXCEPT !["o"].pc = "notify"] /\ UNCHANGED <<rec, claim, shown, marks>>
  /\ UNCHANGED <<cache, ct, op, dirty, asked, edit>>

\* What startLocked("p") does, in a step that moves o's job too.
Both(oj) ==
  /\ job' = [job EXCEPT !["o"] = oj, !["p"] = IF busy("p") THEN @ ELSE Job("start", "none", 0)]
  /\ dirty' = [dirty EXCEPT !["p"] = @ \/ busy("p")]

\* POST /notify, served by p: an answer from what it has, or a job.  The
\* answer may be lost on the way back.
notify ==
  /\ job["o"].pc = "notify" /\ job["o"].role = "origin"
  /\ LET j == job["o"]
         next == [cache EXCEPT !.failed = IF j.retry THEN 0 ELSE @]
     IN  IF cache.ver # 0 /\ ~busy("p") /\ convergedFor(j.target, j.adopt)
         THEN /\ cache' = next
              /\ \/ UNCHANGED used /\ PeersDone("converged")
                 \/ Fault /\ PeersDone("failed")
              /\ UNCHANGED <<asked, dirty>>
         ELSE /\ cache' = IF cache.ver = 0 THEN cache ELSE next
              /\ asked' = [asked EXCEPT !.ver = IF j.target > @ THEN j.target ELSE @, !.adopt = @ \/ j.adopt]
              /\ \/ Both([j EXCEPT !.pc = "poll"]) /\ UNCHANGED <<rec, claim, shown, marks, used>>
                 \/ /\ Fault /\ Both(Job("end", "origin", j.target))
                    /\ shown' = [shown EXCEPT !["o"].status = "partial"]
                    /\ UNCHANGED <<rec, claim, marks>>
  /\ UNCHANGED <<ct, op, edit>>

\* POST /release, served by p once it has the origin's word for it.
releasePeer ==
  /\ job["o"].pc = "notify" /\ job["o"].role = "release"
  /\ LET j == job["o"] IN
       \/ /\ rec.state # "releasing" /\ PeersDone("failed")
          /\ UNCHANGED <<cache, asked, dirty, used>>
       \/ /\ rec.state = "releasing" /\ Stamped("p") = {}
          /\ cache' = NoCache /\ asked' = [NoAsk EXCEPT !.release = asked.release]
          /\ \/ UNCHANGED used /\ PeersDone("converged")
             \/ Fault /\ PeersDone("failed")
          /\ UNCHANGED dirty
       \/ /\ rec.state = "releasing" /\ Stamped("p") # {}
          /\ asked' = [asked EXCEPT !.release = TRUE]
          /\ LET sp == IF shown["p"].role = "release" /\ terminal("p") THEN NotShown ELSE shown["p"]
             IN  \/ /\ Both([j EXCEPT !.pc = "poll"])
                    /\ shown' = [shown EXCEPT !["p"] = sp]
                    /\ UNCHANGED <<rec, claim, marks, used>>
                 \/ /\ Fault /\ Both(Job("end", "release", j.target))
                    /\ shown' = [shown EXCEPT !["p"] = sp, !["o"].status = "partial"]
                    /\ UNCHANGED <<rec, claim, marks>>
          /\ UNCHANGED cache
  /\ UNCHANGED <<ct, op, edit>>

\* The request itself may be lost.
requestLost ==
  /\ job["o"].pc = "notify" /\ Fault
  /\ PeersDone("failed")
  /\ UNCHANGED <<cache, ct, op, dirty, asked, edit>>

\* The wait for p's job: only one for this version, or later, counts.
Verdict ==
  LET j == job["o"]
      s == shown["p"]
  IN  IF ~terminal("p") THEN "none"
      ELSE IF j.role = "release"
      THEN IF s.role = "release" THEN IF s.status = "converged" /\ peerReleased THEN "converged" ELSE "failed"
           ELSE IF peerReleased THEN "converged" ELSE "none"
      ELSE IF s.status # "none" /\ s.target >= j.target
      THEN IF s.status = "converged" /\ j.adopt /\ hasForeign("p") THEN "failed" ELSE s.status
      ELSE IF convergedFor(j.target, j.adopt) THEN "converged" ELSE "none"

\* It ends with an answer or at its deadline.
poll ==
  /\ job["o"].pc = "poll"
  /\ \/ Verdict # "none" /\ PeersDone(Verdict) /\ UNCHANGED used
     \/ Verdict = "none" /\ ~busy("p") /\ PeersDone("failed") /\ UNCHANGED used
     \/ Fault /\ PeersDone("failed")
  /\ UNCHANGED <<cache, ct, op, dirty, asked, edit>>

\* loop: once more when asked to, or when the record has moved on.
LoopEnd(h) ==
  /\ job[h].pc = "end"
  /\ LET again == \/ dirty[h]
                  \/ /\ h = "o" /\ job[h].role # "peer"
                     /\ rec.ver > job[h].target /\ rec.state # "degraded"
     IN  job' = [job EXCEPT ![h] = IF again THEN Job("start", "none", 0) ELSE NoJob]
  /\ dirty' = [dirty EXCEPT ![h] = FALSE]
  /\ UNCHANGED <<rec, cache, ct, claim, op, shown, asked, marks, edit, used>>

-----------------------------------------------------------------------------
(* The reconcile ticks, and a restart.                                     *)

\* reconcileOrigin: a secret behind the record changed ...
Touch ==
  /\ ~busy("o") /\ rec.ver \in 1 .. MaxVersion - 1
  /\ rec.state \notin {"degraded", "releasing"}
  /\ rec' = Bumped(keepTransitionState)
  /\ startLocked("o")
  /\ UNCHANGED <<cache, ct, claim, op, shown, asked, marks, edit, used>>

\* Mutant: only the peers are looked at.
ReconcilePeersOnly ==
  /\ ~busy("o") /\ rec.ver # 0
  /\ rec.state \notin {"degraded", "releasing"}
  /\ marks.failed < rec.ver /\ runsOrCaches /\ ~convergedFor(rec.ver, rec.adopting)
  /\ startLocked("o")
  /\ UNCHANGED <<rec, cache, ct, claim, op, shown, asked, marks, edit, used>>

\* ... or a replica here, or the peer, lags the record.
reconcileOrigin ==
  /\ ~busy("o") /\ rec.ver # 0
  /\ rec.state \notin {"degraded", "releasing"}
  /\ \/ \E i \in DOMAIN ct["o"] :
          IF ct["o"][i] = 0 THEN rec.adopting ELSE ct["o"][i] # rec.ver
     \/ marks.failed < rec.ver /\ runsOrCaches /\ ~convergedFor(rec.ver, rec.adopting)
  /\ startLocked("o")
  /\ UNCHANGED <<rec, cache, ct, claim, op, shown, asked, marks, edit, used>>

\* reconcilePeer: the origin has a newer version, or a replica here lags the
\* cached one.
reconcilePeer ==
  /\ ~busy("p") /\ cache.ver # 0 /\ rec.ver # 0
  /\ LET newer == rec.ver > cache.ver /\ rec.ver > cache.failed
         v == IF newer THEN rec.ver ELSE cache.ver
     IN  /\ newer \/ (usable /\ \E i \in Stamped("p") : ct["p"][i] < cache.ver)
         /\ asked' = [asked EXCEPT !.ver = IF v > @ THEN v ELSE @]
  /\ startLocked("p")
  /\ UNCHANGED <<rec, cache, ct, claim, op, shown, marks, edit, used>>

\* A restart keeps the record, the cache and the containers.
Crash(h) ==
  /\ Fault
  /\ job' = [job EXCEPT ![h] = NoJob]
  /\ dirty' = [dirty EXCEPT ![h] = FALSE]
  /\ shown' = [shown EXCEPT ![h] = NotShown]
  /\ claim' = [claim EXCEPT ![h] = "none"]
  /\ op' = [op EXCEPT ![h] = NoOp]
  /\ IF h = "o" THEN marks' = NoMarks /\ edit' = 0 /\ UNCHANGED asked
     ELSE asked' = NoAsk /\ UNCHANGED <<marks, edit>>
  /\ UNCHANGED <<rec, cache, ct>>

JobStep(h) ==
  \/ runPeer(h) \/ waitIdle(h) \/ rollLocal(h) \/ Swap(h) \/ LoopEnd(h)
  \/ h = "o" /\ (runOrigin \/ handleOriginGateFailure \/ Revert \/ peerStatus \/ notify \/ releasePeer \/ poll)
  \/ h = "p" /\ Fetch

Reconcile == reconcileOrigin \/ reconcilePeer

Next ==
  \/ ReadForEdit \/ Apply \/ SyncOrigin \/ adoptExecute \/ startCentralEnvRelease
  \/ Touch \/ Reconcile \/ requestLost
  \/ \E h \in Host :
       \/ JobStep(h) \/ waitTimesOut(h) \/ CreateEnd(h) \/ Crash(h)
       \/ \E kind \in {"scale", "autoupdate"} : CreateStart(h, kind)
       \/ \E gate \in BOOLEAN : SwapFails(h, gate)

\* A job's goroutine and Docker go on; the ticker comes round.
Fairness ==
  /\ \A h \in Host : WF_vars(JobStep(h)) /\ WF_vars(CreateEnd(h))
  /\ WF_vars(Apply) /\ WF_vars(reconcileOrigin) /\ WF_vars(reconcilePeer)

Spec == Init /\ [][Next]_vars /\ Fairness

-----------------------------------------------------------------------------
(* Properties.                                                             *)

\* The job's claim is given back on every way out of the job (runOrigin: "every
\* return before waitIdle must give it back or the auto-updater would defer on
\* svc forever").
ClaimHasJob == \A h \in Host : claim[h] = "central-env" => busy(h)

\* An origin job that reports the service converged is right about the peer,
\* as long as nobody creates replicas beside it: no stamped replica there is
\* behind the version it names, and an adopt has left none unstamped.
ConvergedIsTrueStep ==
  /\ job["o"].role = "origin" /\ job["o"].pc \in {"status", "notify", "poll"}
  /\ shown'["o"].status = "converged" /\ used.creates = 0
  => /\ \A i \in Stamped("p") : ct["p"][i] >= job["o"].target
     /\ job["o"].adopt => ~hasForeign("p")

\* No step breaks ConvergedIsTrueStep.
ConvergedIsTrue == [][ConvergedIsTrueStep]_vars

\* What failed its gate on the peer is not chosen there again, by the job or by
\* a create, until a sync clears the mark.
FailedStaysOutStep ==
  /\ op'["p"] # op["p"] /\ op'["p"].ver # 0 => op'["p"].ver # cache.failed
  /\ job["p"].pc = "fetch" /\ job'["p"].pc = "list" /\ job["p"].role = "peer"
       => job'["p"].target # cache.failed

\* No step breaks FailedStaysOutStep.
FailedStaysOut == [][FailedStaysOutStep]_vars

\* A deleted record leaves no replica on its host that is stamped with it
\* (centralenv_release.go: every stamped replica is recreated without the
\* stamp, "and only then" is the record deleted).
NoOrphans == rec.ver = 0 => Stamped("o") = {}

\* Once nobody edits, the reconcile ticks bring every replica to the record,
\* unless it failed its gate, or is being given up.  (A scale-up on the peer
\* that outlives a release stamps a version of the old record, which is higher
\* than that of the next one: reconcilePeer looks for lower ones only.)
Settled ==
  \/ rec.ver = 0 \/ rec.state \in {"degraded", "releasing"}
  \/ /\ \A i \in Stamped("o") : ct["o"][i] = rec.ver
     /\ \/ \A i \in Stamped("p") : ct["p"][i] >= rec.ver
        \/ cache.failed >= rec.ver
Converges == <>[]Settled

=============================================================================
