------------------------------ MODULE ABJudge ------------------------------
(***************************************************************************)
(* How the proxies of a mesh judge one service's A/B test (cmd/proxy/      *)
(* abtest.go, abmesh.go): counters in tumbling windows, merged with what   *)
(* the peer pushed, judged once the peer's last push for a window must be  *)
(* in; the abort latch and how it spreads; which test a proxy runs, by its *)
(* own labels or adopted from its peer; a proxy that restarts empty.       *)
(*                                                                         *)
(* Time is counted in sync intervals.  A counter holds samples and errors: *)
(* latency is a second rule of the same shape and left out.                *)
(***************************************************************************)
EXTENDS Integers, FiniteSets, SequencesExt

CONSTANTS
  Window,        \* length of a window, in sync intervals
  Warmup,        \* time from the epoch to the first window
  Windows,       \* bad windows in a row that abort the test
  MinSamples,    \* samples of a variant, in all, before an abort
  WinMinSamples, \* samples of a variant that make a window conclusive
  MinRuntime,    \* time from the start before an abort
  ErrDelta,      \* percent by which B's error rate must exceed A's
  ErrRatio,      \* and times A's error rate that it must reach
  Traffic,       \* samples counted at once: a set of windows' contents
  MaxNow,        \* bound: the last moment
  MaxEvents,     \* bound: requests counted, label changes and faults, in all
  MaxChanges,    \* bound: label changes by the A/B manager
  MaxFaults      \* bound: pushes that are lost and restarts

Proxy == {"p", "q"}
Peer(x) == IF x = "p" THEN "q" ELSE "p"
Variants == {"A", "B"}
abRingSize == 3
Lag == 2      \* evaluate: 2 * syncEvery
Stale == 3    \* freshPeersLocked, and the ttl of PeerRouteStore

VARIABLES
  now,      \* the clock
  label,    \* label[x]: the labels of x's local B; id 0 when it has none
  run,      \* run[x]: the abRun of the service on x, its ring a set of windows, one
            \*   for each slot in use; id 0 when there is none
  heard,    \* heard[x]: the last push of the peer, and when; at -1 when none
  pushed,   \* pushed[x]: x pushed in this sync interval, or could not
  aborts,   \* history: ids some proxy judged bad, or whose label says aborted
  truth,    \* history: all requests counted, by test, epoch and window
  used      \* records, changes and faults so far; history: last, when a push was last
            \*   lost, or a proxy restarted or took up another configuration

vars == <<now, label, run, heard, pushed, aborts, truth, used>>

Zero == [n |-> 0, e |-> 0]
Add(c, d) == [n |-> c.n + d.n, e |-> c.e + d.e]
Empty == [v \in Variants |-> Zero]
AddBoth(w, u) == [v \in Variants |-> Add(w[v], u[v])]

NoLabel == [id |-> 0, phase |-> "running", epoch |-> 0]

\* newABRun
NewRun(id) == [id |-> id, att |-> TRUE, cfg |-> NoLabel, latched |-> FALSE, at |-> -1, cum |-> Empty,
               ring |-> {},
               js |-> [last |-> -1, streak |-> 0]]
NoRun == [NewRun(0) EXCEPT !.att = FALSE]
NoPush == [at |-> -1, id |-> 0]

\* abRun.phase
PhaseOf(r) == IF r.cfg.phase = "running" /\ r.latched THEN "aborted" ELSE r.cfg.phase
abFrozen(ph) == ph \in {"aborted", "discarding"}

abWindowIndex(cfg, t) ==
  IF t < cfg.epoch + Warmup THEN -1 ELSE (t - cfg.epoch - Warmup) \div Window

\* abRun.resetRing
resetRing(r) == [r EXCEPT !.ring = NoRun.ring, !.js = NoRun.js]

(***************************************************************************)
(* The judge.                                                              *)
(***************************************************************************)
\* abWindowBad, on error rates e/n.
abWindowBad(a, b) ==
  /\ 100 * b.e * a.n > 100 * a.e * b.n + ErrDelta * a.n * b.n
  /\ b.e * a.n >= ErrRatio * a.e * b.n

Conclusive(w) == \A v \in Variants : w[v].n >= WinMinSamples

\* abAligned, peerSummariesLocked: a fresh push of this test whose windows are
\* ours.
Merges(x) == /\ heard[x].at >= 0 /\ heard[x].id = run[x].id
             /\ now - heard[x].at <= Stale
             /\ heard[x].cfg.epoch = run[x].cfg.epoch

\* abMergeSummaries
MergedWindow(x, i) ==
  LET mine == {w \in run[x].ring : w.idx = i}
      its  == IF Merges(x) THEN {w \in heard[x].ring : w.idx = i} ELSE {}
      of(ws) == IF ws = {} THEN Empty ELSE (CHOOSE w \in ws : TRUE).v
  IN AddBoth(of(mine), of(its))
MergedIdx(x) == {w.idx : w \in run[x].ring \cup
                                (IF Merges(x) THEN heard[x].ring ELSE {})}
MergedCum(x) == AddBoth(run[x].cum, IF Merges(x) THEN heard[x].cum ELSE Empty)

\* The streak after one more window: an inconclusive one leaves it.
Judged(streak, w) ==
  IF ~Conclusive(w) THEN streak
  ELSE IF abWindowBad(w["A"], w["B"]) THEN streak + 1 ELSE 0

\* Mutant: a window is judged as soon as it closes.
JudgeNowAtOnce(x) == now

\* The moment evaluate judges by: with a peer, two sync intervals back.
JudgeNow(x) == IF heard[x].at >= 0 /\ heard[x].id = run[x].id THEN now - Lag ELSE now

\* judge: the windows closed and not yet judged, in order.
ToJudge(x) ==
  LET cur == abWindowIndex(run[x].cfg, JudgeNow(x)) IN
  SelectSeq([i \in 1 .. cur |-> i - 1], LAMBDA i : i > run[x].js.last /\ i \in MergedIdx(x))
JudgeState(x) ==
  LET is == ToJudge(x) IN
  [last   |-> IF is = <<>> THEN run[x].js.last ELSE Last(is),
   streak |-> FoldLeft(LAMBDA s, i : Judged(s, MergedWindow(x, i)), run[x].js.streak, is)]

Aborts(x, js) ==
  /\ \A v \in Variants : MergedCum(x)[v].n >= MinSamples
  /\ JudgeNow(x) >= MinRuntime
  /\ js.streak >= Windows

(***************************************************************************)
(* Which test x runs: its own labels, or the peer's that owns B replicas.  *)
(***************************************************************************)
Fresh(x, h) == h.at >= 0 /\ now - h.at <= Stale
Adopts(x, h) == Fresh(x, h) /\ h.id # 0 /\ h.b
Config(x, l, h) == IF l.id # 0 THEN l ELSE IF Adopts(x, h) THEN h.cfg ELSE NoLabel

\* reconcileAB of a refresh: a new run for a new id, a new ring for a new epoch;
\* a test that is gone is only detached.
reconcileAB(r, cfg) ==
  IF cfg.id = 0 THEN [r EXCEPT !.att = FALSE]
  ELSE LET r1 == IF r.id = cfg.id THEN r ELSE NewRun(cfg.id)
           r2 == IF r1.cfg.id # 0 /\ r1.cfg.epoch # cfg.epoch THEN resetRing(r1) ELSE r1
       IN [r2 EXCEPT !.cfg = cfg, !.att = TRUE]

Init ==
  /\ now = 0
  /\ label = [x \in Proxy |-> IF x = "p" THEN [NoLabel EXCEPT !.id = 1] ELSE NoLabel]
  /\ run = [x \in Proxy |-> IF x = "p" THEN reconcileAB(NoRun, label["p"]) ELSE NoRun]
  /\ heard = [x \in Proxy |-> NoPush]
  /\ pushed = [x \in Proxy |-> FALSE]
  /\ aborts = {}
  /\ truth = [c \in {} |-> Empty]
  /\ used = [records |-> 0, changes |-> 0, faults |-> 0, last |-> -1]

Spent == used.records + used.changes + used.faults

\* abRun.record of requests that x counts (ABRequest says who does): w holds
\* one sample of a variant, or one of each.  What is counted during warm-up
\* takes no part in the judgement.
Record(x, w) ==
  LET r == run[x]
      i == abWindowIndex(r.cfg, now)
      old == {u \in r.ring : u.idx = i}
      v == AddBoth(IF old = {} THEN Empty ELSE (CHOOSE u \in old : TRUE).v, w)
      k == <<r.id, r.cfg.epoch, i>>
  IN
  /\ Spent < MaxEvents
  /\ r.att /\ ~abFrozen(PhaseOf(r)) /\ i >= 0
  /\ used' = [used EXCEPT !.records = @ + 1]
  /\ run' = [run EXCEPT ![x].ring = {u \in @ : u.idx % abRingSize # i % abRingSize}
                                      \cup {[idx |-> i, v |-> v]},
                        ![x].cum = AddBoth(@, w)]
  /\ truth' = [t \in DOMAIN truth \cup {k} |->
                 IF t = k THEN AddBoth(IF k \in DOMAIN truth THEN truth[k] ELSE Empty, w)
                 ELSE truth[t]]
  /\ UNCHANGED <<now, label, heard, pushed, aborts>>

Judges(x) == run[x].att /\ PhaseOf(run[x]) = "running"

\* evaluate, on a tick of runABEvaluator.
Evaluate(x) ==
  LET r == run[x]
      js == JudgeState(x)
  IN
  /\ Judges(x)
  /\ abWindowIndex(r.cfg, JudgeNow(x)) >= 0
  /\ run' = [run EXCEPT ![x].js = js, ![x].latched = Aborts(x, js),
                        ![x].at = IF Aborts(x, js) THEN now ELSE @]
  /\ aborts' = IF Aborts(x, js) THEN aborts \cup {r.id} ELSE aborts
  /\ UNCHANGED <<now, label, heard, pushed, truth, used>>

\* peerInfo: what x pushes of its attached run.
PeerInfo(x) ==
  [at |-> now, id |-> run[x].id, cfg |-> run[x].cfg, phase |-> PhaseOf(run[x]),
   b |-> label[x].id = run[x].id, ring |-> run[x].ring, cum |-> run[x].cum]

Latch(r, t) == IF r.latched THEN r ELSE [r EXCEPT !.latched = TRUE, !.at = t]

\* Mutant: only the proxy that owns the B replicas is believed.
applyPeerABOwner(r, h) ==
  IF h.id = r.id /\ r.cfg.phase = "running" /\ h.phase = "aborted" /\ h.b
  THEN Latch(r, h.at) ELSE r

\* applyPeerAB, after any refresh the push caused: the latch is the union, by
\* test id.
applyPeerAB(r, h) ==
  IF h.id = r.id /\ r.cfg.phase = "running" /\ h.phase = "aborted"
  THEN Latch(r, h.at) ELSE r

\* The configuration a proxy runs is another one, or it has none any more.
Moved(r, s) == r.att # s.att \/ r.cfg # s.cfg
Noted(r, s) == [used EXCEPT !.last = IF Moved(r, s) THEN now ELSE @]

\* x's push of this interval arrives at its peer y: merge, refresh, applyAB.
Push(x) ==
  LET y == Peer(x)
      h == IF run[x].att THEN PeerInfo(x) ELSE NoPush
      r == reconcileAB(run[y], Config(y, label[y], h))
  IN
  /\ ~pushed[x]
  /\ heard' = [heard EXCEPT ![y] = h]
  /\ run' = [run EXCEPT ![y] = IF h = NoPush THEN r ELSE applyPeerAB(r, h)]
  /\ pushed' = [pushed EXCEPT ![x] = TRUE]
  /\ used' = Noted(run[y], r)
  /\ UNCHANGED <<now, label, aborts, truth>>

\* The push fails; the next one is an interval away.
LosePush(x) ==
  /\ used.faults < MaxFaults /\ Spent < MaxEvents
  /\ ~pushed[x]
  /\ pushed' = [pushed EXCEPT ![x] = TRUE]
  /\ used' = [used EXCEPT !.faults = @ + 1, !.last = now]
  /\ UNCHANGED <<now, label, run, heard, aborts, truth>>

\* The clock reaches the next interval once each proxy has had its turn: its
\* push, and its evaluator, which looks several times in every window.
Tick ==
  /\ now < MaxNow
  /\ \A x \in Proxy : pushed[x] /\ (Judges(x) => ToJudge(x) = <<>>)
  /\ now' = now + 1
  /\ pushed' = [x \in Proxy |-> FALSE]
  /\ UNCHANGED <<label, run, heard, aborts, truth, used>>

\* The periodic check finds the peer's entry expired (hasExpired) and refreshes.
Expire(x) ==
  LET r == reconcileAB(run[x], Config(x, label[x], NoPush)) IN
  /\ heard[x].at >= 0 /\ ~Fresh(x, heard[x])
  /\ heard' = [heard EXCEPT ![x] = NoPush]
  /\ run' = [run EXCEPT ![x] = r]
  /\ used' = Noted(run[x], r)
  /\ UNCHANGED <<now, label, pushed, aborts, truth>>

\* The A/B manager relabels x's B, and x refreshes on the Docker event.
Relabel(x, l) ==
  LET r == reconcileAB(run[x], Config(x, l, heard[x])) IN
  /\ used.changes < MaxChanges /\ Spent < MaxEvents
  /\ used' = [Noted(run[x], r) EXCEPT !.changes = @ + 1]
  /\ label' = [label EXCEPT ![x] = l]
  /\ run' = [run EXCEPT ![x] = r]
  /\ aborts' = IF l.phase = "aborted" THEN aborts \cup {l.id} ELSE aborts
  /\ UNCHANGED <<now, heard, pushed, truth>>

\* A phase change; another split, which starts a new epoch; a reset or a new
\* start, with a new id; the end of the test; B restarting under its labels.
SetPhase(x, ph) == /\ label[x].id # 0 /\ label[x].phase # ph
                   /\ Relabel(x, [label[x] EXCEPT !.phase = ph])
NewEpoch(x) == /\ label[x].id # 0 /\ label[x].epoch # now /\ label[x].phase = "running"
               /\ Relabel(x, [label[x] EXCEPT !.epoch = now])
NewTest(x) == Relabel(x, [id |-> 2, phase |-> "running", epoch |-> now]) /\ label[x].id < 2
EndTest(x) == label[x].id # 0 /\ Relabel(x, NoLabel)

\* The proxy restarts: labels are read again, the rest is gone.
Restart(x) ==
  /\ used.faults < MaxFaults /\ Spent < MaxEvents
  /\ used' = [used EXCEPT !.faults = @ + 1, !.last = now]
  /\ run' = [run EXCEPT ![x] = reconcileAB(NoRun, label[x])]
  /\ heard' = [heard EXCEPT ![x] = NoPush]
  /\ UNCHANGED <<now, label, pushed, aborts, truth>>

Next ==
  \/ Tick
  \/ \E x \in Proxy :
       \/ \E w \in Traffic : Record(x, w)
       \/ Evaluate(x)
       \/ Push(x) \/ LosePush(x) \/ Expire(x) \/ Restart(x)
       \/ \E ph \in {"aborted", "promoting", "discarding"} : SetPhase(x, ph)
       \/ NewEpoch(x) \/ NewTest(x) \/ EndTest(x)

Spec == Init /\ [][Next]_vars

(***************************************************************************)
(* Properties.                                                             *)
(***************************************************************************)

\* A latch belongs to its test: a proxy treats a test as aborted only if this
\* test, by id, was judged bad or labelled aborted somewhere; a reset that
\* comes with a new id starts clean whatever the peers still push.
LatchHasCause == \A x \in Proxy : run[x].latched => run[x].id \in aborts

\* "A window is judged only two sync intervals after it closes, so a peer's
\* final push for it has arrived" (evaluate): while no push is lost and nobody
\* restarts, the verdict on a window is the one all requests the mesh counted
\* in it deserve, so no proxy aborts on half the traffic.
TrueWindow(r, i) == truth[<<r.id, r.cfg.epoch, i>>]

JudgedWholeStep ==
  used'.faults = 0 =>
    \A x \in Proxy : run[x].id = run'[x].id /\ run'[x].js.last > run[x].js.last
      /\ run[Peer(x)].cfg = run[x].cfg /\ run'[x].cfg = run[x].cfg
        => \A i \in {w.idx : w \in run[x].ring} :
             i > run[x].js.last /\ i <= run'[x].js.last =>
               MergedWindow(x, i) = TrueWindow(run[x], i)

\* No step breaks JudgedWholeStep.
JudgedWhole == [][JudgedWholeStep]_vars

\* "A latch propagates within one sync interval" (applyPeerAB): one interval
\* after a proxy latched a test, and one after the last lost push, restart or
\* change of the configuration some proxy runs, no proxy that runs this test
\* takes it for running; so a restart, which forgets the latch, is made up for
\* by any peer that still holds it.
LatchSpreads ==
  \A x \in Proxy :
    LET r == run[x]
        s == run[Peer(x)]
    IN /\ r.att /\ r.latched /\ r.cfg.phase = "running"
       /\ s.att /\ s.id = r.id
       /\ now > r.at + 1 /\ now > used.last + 1
       => PhaseOf(s) # "running"

\* What an abort is good for: it is about this test, and all proxies heed it.
LatchSound == LatchHasCause /\ LatchSpreads
=============================================================================
