--------------------------- MODULE ABJudgeProofs ---------------------------
(***************************************************************************)
(* Proofs about ABJudge, for every length of window, every threshold and   *)
(* every bound: a latch is about the test that caused it, and spreads to   *)
(* the other proxy within a sync interval; and about ABRequest, for any    *)
(* containers and sessions: a request under test is counted once.          *)
(***************************************************************************)
EXTENDS ABJudge, TLAPS

Phases == {"running", "aborted", "promoting", "discarding"}
Configs == [id : Nat, phase : Phases, epoch : Nat]

(* What the proofs need of a run: counters, ring and judge are left open. *)
RunOK(r) ==
  r \in [id : Nat, att : BOOLEAN, cfg : Configs, latched : BOOLEAN, at : Int,
         cum : {r.cum}, ring : {r.ring}, js : {r.js}]

(* A push holds the configuration of the test it is about. *)
HeardOK(h) ==
  /\ h.at \in Int
  /\ h.at >= 0 => h.id \in Nat /\ h.cfg \in Configs /\ h.cfg.id = h.id

Shape ==
  /\ now \in Nat
  /\ label \in [Proxy -> Configs]
  /\ run = [x \in Proxy |-> run[x]] /\ \A x \in Proxy : RunOK(run[x])
  /\ heard = [x \in Proxy |-> heard[x]] /\ \A x \in Proxy : HeardOK(heard[x])
  /\ pushed \in [Proxy -> BOOLEAN]
  /\ used \in [records : Nat, changes : Nat, faults : Nat, last : Int]

(* A proxy runs the test its configuration names; nothing lies in the future. *)
Follows ==
  /\ used.last <= now
  /\ \A x \in Proxy : run[x].cfg.id = run[x].id /\ run[x].at <= now

(* Whatever says "aborted" has a cause: labels, configurations, pushes. *)
Said(h, ids) == h.at >= 0 /\ (h.phase = "aborted" \/ h.cfg.phase = "aborted") => h.id \in ids
Caused ==
  \A x \in Proxy :
    /\ label[x].phase = "aborted" => label[x].id \in aborts
    /\ run[x].cfg.phase = "aborted" => run[x].id \in aborts
    /\ Said(heard[x], aborts)

(* LatchSpreads within the interval: as soon as x has pushed, its peer heeds *)
(* what x had latched before.                                                *)
Heeded(x) ==
  LET r == run[x]
      s == run[Peer(x)]
  IN /\ r.att /\ r.latched /\ r.cfg.phase = "running" /\ s.att /\ s.id = r.id
     /\ pushed[x] /\ now > r.at /\ now > used.last
     => PhaseOf(s) # "running"

Spreads(x) ==
  LET r == run[x]
      s == run[Peer(x)]
  IN /\ r.att /\ r.latched /\ r.cfg.phase = "running" /\ s.att /\ s.id = r.id
     /\ now > r.at + 1 /\ now > used.last + 1
     => PhaseOf(s) # "running"

AllHeeded == \A x \in Proxy : Heeded(x)
AllSpread == \A x \in Proxy : Spreads(x)

IInv == Shape /\ Follows /\ Caused /\ LatchHasCause /\ AllHeeded /\ AllSpread

-----------------------------------------------------------------------------
(* The operators. *)

LEMMA PeerFacts == \A x \in Proxy : Peer(x) \in Proxy /\ Peer(x) # x /\ Peer(Peer(x)) = x
BY DEF Proxy, Peer

LEMMA NoRunFacts ==
  /\ RunOK(NoRun) /\ NoRun.cfg.id = 0 /\ NoRun.id = 0 /\ ~NoRun.latched /\ NoRun.at = -1
  /\ NoRun.cfg.phase = "running"
<1> DEFINE r == NewRun(0)
<1>1. NoLabel \in Configs /\ NoLabel.id = 0 /\ NoLabel.phase = "running"
  BY DEF NoLabel, Configs, Phases
<1>2. RunOK(r) /\ r.cfg = NoLabel /\ r.id = 0 /\ ~r.latched /\ r.at = -1
  BY <1>1 DEF NewRun, RunOK
<1>3. NoRun = [r EXCEPT !.att = FALSE]
  BY DEF NoRun
<1> HIDE DEF r
<1> QED BY <1>1, <1>2, <1>3 DEF RunOK

(* A run of the same test keeps its latch through a refresh, any other starts *)
(* without one.                                                               *)
LEMMA ReconcileFacts ==
  ASSUME NEW r, RunOK(r), NEW cfg \in Configs
  PROVE  LET q == reconcileAB(r, cfg) IN
         /\ RunOK(q)
         /\ cfg.id = 0 => /\ q.id = r.id /\ q.cfg = r.cfg /\ ~q.att
                          /\ q.latched = r.latched /\ q.at = r.at
         /\ cfg.id # 0 => /\ q.id = cfg.id /\ q.cfg = cfg /\ q.att
                          /\ r.id = cfg.id => q.latched = r.latched /\ q.at = r.at
                          /\ r.id # cfg.id => ~q.latched /\ q.at = -1
<1> USE DEF RunOK, Configs, Phases
<1>1. CASE cfg.id = 0
  <2>1. reconcileAB(r, cfg) = [r EXCEPT !.att = FALSE]
    BY <1>1 DEF reconcileAB
  <2> QED BY <1>1, <2>1
<1>2. CASE cfg.id # 0
  <2> DEFINE r1 == IF r.id = cfg.id THEN r ELSE NewRun(cfg.id)
             r2 == IF r1.cfg.id # 0 /\ r1.cfg.epoch # cfg.epoch THEN resetRing(r1) ELSE r1
  <2>1. reconcileAB(r, cfg) = [r2 EXCEPT !.cfg = cfg, !.att = TRUE]
    BY <1>2 DEF reconcileAB
  <2>2. /\ RunOK(r1) /\ r1.id = cfg.id
        /\ r.id = cfg.id => r1.latched = r.latched /\ r1.at = r.at
        /\ r.id # cfg.id => ~r1.latched /\ r1.at = -1
    <3>1. CASE r.id = cfg.id
      BY <3>1
    <3>2. CASE r.id # cfg.id
      <4>1. r1 = NewRun(cfg.id)
        BY <3>2
      <4>2. /\ RunOK(NewRun(cfg.id)) /\ NewRun(cfg.id).id = cfg.id
            /\ ~NewRun(cfg.id).latched /\ NewRun(cfg.id).at = -1
        BY DEF NewRun, NoLabel
      <4> QED BY <3>2, <4>1, <4>2
    <3> QED BY <3>1, <3>2
  <2> HIDE DEF r1
  <2>3. /\ RunOK(r2) /\ r2.id = r1.id /\ r2.latched = r1.latched /\ r2.at = r1.at
    BY <2>2 DEF resetRing
  <2> HIDE DEF r2
  <2> DEFINE q == [r2 EXCEPT !.cfg = cfg, !.att = TRUE]
  <2>4. /\ RunOK(q) /\ q.id = r2.id /\ q.cfg = cfg /\ q.att
        /\ q.latched = r2.latched /\ q.at = r2.at
    BY <2>3
  <2> HIDE DEF q
  <2>5. reconcileAB(r, cfg) = q
    BY <2>1 DEF q
  <2> HIDE DEF RunOK, Configs
  <2> QED BY <1>2, <2>2, <2>3, <2>4, <2>5
<1> QED BY <1>1, <1>2

(* What x merges from a push is the configuration of its own labels, the one *)
(* the push names, or none.                                                  *)
LEMMA ConfigFacts ==
  ASSUME NEW x \in Proxy, NEW l \in Configs, NEW h, HeardOK(h)
  PROVE  /\ Config(x, l, h) \in Configs
         /\ \/ Config(x, l, h) = l
            \/ Config(x, l, h).id = 0 /\ Config(x, l, h).phase = "running"
            \/ h.at >= 0 /\ Config(x, l, h) = h.cfg
BY DEF Config, Adopts, Fresh, HeardOK, Configs, Phases, NoLabel

(* Believing a push changes the latch and nothing else. *)
LEMMA ApplyFacts ==
  ASSUME NEW r, RunOK(r), NEW h, h.at \in Int
  PROVE  LET q == applyPeerAB(r, h) IN
         /\ RunOK(q)
         /\ q.id = r.id /\ q.att = r.att /\ q.cfg = r.cfg
         /\ r.latched => q = r
         /\ q.latched /\ ~r.latched => q.at = h.at /\ h.id = r.id /\ h.phase = "aborted"
         /\ ~q.latched => q.at = r.at
         /\ h.id = r.id /\ r.cfg.phase = "running" /\ h.phase = "aborted" => q.latched
BY DEF applyPeerAB, Latch, RunOK

(* A run that has not moved to another configuration has its latch still. *)
LEMMA StillFacts ==
  ASSUME NEW r, RunOK(r), NEW cfg \in Configs, r.cfg.id = r.id,
         ~Moved(r, reconcileAB(r, cfg))
  PROVE  LET q == reconcileAB(r, cfg) IN
         q.id = r.id /\ q.att = r.att /\ q.cfg = r.cfg /\ q.latched = r.latched /\ q.at = r.at
<1>1. reconcileAB(r, cfg).att = r.att /\ reconcileAB(r, cfg).cfg = r.cfg
  BY DEF Moved
<1>2. CASE cfg.id = 0
  BY <1>1, <1>2, ReconcileFacts
<1>3. CASE cfg.id # 0
  <2>1. cfg = r.cfg
    BY <1>1, <1>3, ReconcileFacts
  <2> QED BY <1>1, <1>3, <2>1, ReconcileFacts
<1> QED BY <1>2, <1>3

-----------------------------------------------------------------------------
(* The steps. *)

LEMMA InitHolds == Init => IInv
<1> SUFFICES ASSUME Init PROVE IInv
  OBVIOUS
<1>1. \A x \in Proxy : label[x] \in Configs /\ label[x].phase = "running"
  BY DEF Init, NoLabel, Configs, Phases, Proxy
<1>2. RunOK(NoRun) /\ NoRun.cfg.id = 0 /\ NoRun.id = 0 /\ ~NoRun.latched /\ NoRun.at = -1
      /\ NoRun.cfg.phase = "running"
  BY NoRunFacts
<1>3. run = [x \in Proxy |-> run[x]]
  BY DEF Init
<1>4. \A x \in Proxy : /\ RunOK(run[x]) /\ run[x].cfg.id = run[x].id /\ run[x].at = -1
                       /\ ~run[x].latched /\ run[x].cfg.phase = "running"
  <2>1. run["p"] = reconcileAB(NoRun, label["p"]) /\ run["q"] = NoRun
    BY DEF Init, Proxy
  <2>2. label["p"] \in Configs /\ label["p"].phase = "running"
    BY <1>1 DEF Proxy
  <2>3. LET q == reconcileAB(NoRun, label["p"]) IN
        /\ RunOK(q) /\ q.cfg.id = q.id /\ q.at = -1 /\ ~q.latched /\ q.cfg.phase = "running"
    BY <1>2, <2>2, ReconcileFacts
  <2> QED BY <1>2, <2>1, <2>3 DEF Proxy
<1>5. \A x \in Proxy : heard[x] = NoPush
  BY DEF Init
<1>6. Shape
  BY <1>1, <1>3, <1>4, <1>5 DEF Shape, Init, HeardOK, NoPush, NoLabel
<1>7. Follows /\ Caused /\ LatchHasCause
  <2>1. now = 0 /\ used.last = -1
    BY DEF Init
  <2>2. \A x \in Proxy : ~(heard[x].at >= 0)
    BY <1>5 DEF NoPush
  <2> QED BY <1>1, <1>4, <2>1, <2>2 DEF Follows, Caused, Said, LatchHasCause
<1>8. AllHeeded /\ AllSpread
  BY <1>4 DEF AllHeeded, AllSpread, Heeded, Spreads
<1> QED BY <1>6, <1>7, <1>8 DEF IInv

(* A step that changes one run at most: a run that did not move keeps its  *)
(* latch, and one that was latched just now has the whole interval to push. *)
LEMMA OneRun ==
  ASSUME Shape, AllHeeded, AllSpread, NEW z \in Proxy, NEW q, RunOK(q),
         run' = [run EXCEPT ![z] = q], now' = now, pushed' = pushed,
         used'.last \in Int,
         now > used'.last =>
           /\ used'.last = used.last
           /\ q.id = run[z].id /\ q.att = run[z].att /\ q.cfg = run[z].cfg
           /\ run[z].latched => q.latched /\ q.at = run[z].at
           /\ q.latched /\ ~run[z].latched => q.at = now
  PROVE  AllHeeded' /\ AllSpread'
<1>1. SUFFICES ASSUME NEW x \in Proxy, now > used'.last
               PROVE  Heeded(x)' /\ Spreads(x)'
  BY DEF AllHeeded, AllSpread, Heeded, Spreads, Shape
<1> DEFINE y == Peer(x)
<1>2. y \in Proxy /\ y # x
  BY PeerFacts
<1>3. /\ \A w \in Proxy : RunOK(run[w]) /\ run'[w] = IF w = z THEN q ELSE run[w]
  BY DEF Shape
<1>4. \A w \in Proxy :
        /\ run'[w].id = run[w].id /\ run'[w].att = run[w].att /\ run'[w].cfg = run[w].cfg
        /\ run[w].latched => run'[w].latched /\ run'[w].at = run[w].at
        /\ run'[w].latched /\ ~run[w].latched => run'[w].at = now
  BY <1>1, <1>3
<1>5. PhaseOf(run[y]) # "running" => PhaseOf(run'[y]) # "running"
  BY <1>2, <1>4 DEF PhaseOf
<1>6. Heeded(x) /\ Spreads(x)
  BY DEF AllHeeded, AllSpread
<1> HIDE DEF y
<1>7. now \in Nat /\ used.last = used'.last /\ run'[x].at \in Int /\ run[x].at \in Int
  BY <1>1, <1>3 DEF Shape, RunOK
<1>8. Heeded(x)'
  <2> SUFFICES ASSUME run'[x].att, run'[x].latched, run'[x].cfg.phase = "running",
                      run'[y].att, run'[y].id = run'[x].id, pushed[x],
                      now > run'[x].at, now > used'.last
               PROVE  PhaseOf(run'[y]) # "running"
    BY DEF Heeded, y
  <2>1. run[x].latched /\ run[x].at = run'[x].at
    BY <1>4, <1>7
  <2> QED BY <1>2, <1>4, <1>5, <1>6, <1>7, <2>1 DEF Heeded, y
<1>9. Spreads(x)'
  <2> SUFFICES ASSUME run'[x].att, run'[x].latched, run'[x].cfg.phase = "running",
                      run'[y].att, run'[y].id = run'[x].id,
                      now > run'[x].at + 1, now > used'.last + 1
               PROVE  PhaseOf(run'[y]) # "running"
    BY DEF Spreads, y
  <2>1. run[x].latched /\ run[x].at = run'[x].at
    BY <1>4, <1>7
  <2> QED BY <1>2, <1>4, <1>5, <1>6, <1>7, <2>1 DEF Spreads, y
<1> QED BY <1>8, <1>9

LEMMA TickHolds == IInv /\ Tick => IInv'
<1> SUFFICES ASSUME IInv, Tick PROVE IInv'
  OBVIOUS
<1> USE DEF IInv
<1>1. Shape' /\ Follows' /\ Caused' /\ LatchHasCause'
  BY DEF Tick, Shape, Follows, Caused, LatchHasCause, RunOK
<1>2. AllHeeded'
  BY DEF Tick, AllHeeded, Heeded
<1>3. AllSpread'
  <2> SUFFICES ASSUME NEW x \in Proxy PROVE Spreads(x)'
    BY DEF AllSpread
  <2>1. Heeded(x) /\ pushed[x] /\ run[x].at \in Int /\ now \in Nat /\ used.last \in Int
    BY DEF AllHeeded, Tick, Shape, RunOK
  <2> QED BY <2>1 DEF Heeded, Spreads, Tick
<1> QED BY <1>1, <1>2, <1>3

LEMMA RecordHolds ==
  ASSUME IInv, NEW x \in Proxy, NEW w, Record(x, w)
  PROVE  IInv'
<1> USE DEF IInv
<1>1. PICK ring, cum : run' = [run EXCEPT ![x].ring = ring, ![x].cum = cum]
  BY DEF Record
<1> DEFINE q == [run[x] EXCEPT !.ring = ring, !.cum = cum]
<1>2. run' = [run EXCEPT ![x] = q]
  BY <1>1 DEF Shape
<1>3. /\ RunOK(q) /\ q.id = run[x].id /\ q.att = run[x].att /\ q.cfg = run[x].cfg
      /\ q.latched = run[x].latched /\ q.at = run[x].at
  <2>1. RunOK(run[x])
    BY DEF Shape
  <2>2. q = [run[x] EXCEPT !.ring = ring, !.cum = cum]
    OBVIOUS
  <2> HIDE DEF q
  <2> QED BY <2>1, <2>2 DEF RunOK
<1> HIDE DEF q
<1>4. UNCHANGED <<now, label, heard, pushed, aborts>> /\ used' = [used EXCEPT !.records = @ + 1]
  BY DEF Record
<1>5. Shape'
  BY <1>2, <1>3, <1>4 DEF Shape
<1>6. Follows' /\ Caused' /\ LatchHasCause'
  BY <1>2, <1>3, <1>4 DEF Shape, Follows, Caused, LatchHasCause
<1>7. AllHeeded' /\ AllSpread'
  BY <1>2, <1>3, <1>4, <1>5, OneRun DEF Shape
<1> QED BY <1>5, <1>6, <1>7

LEMMA EvaluateHolds ==
  ASSUME IInv, NEW x \in Proxy, Evaluate(x)
  PROVE  IInv'
<1> USE DEF IInv
<1> DEFINE js == JudgeState(x)
           bad == Aborts(x, js)
           q == [run[x] EXCEPT !.js = js, !.latched = bad, !.at = IF bad THEN now ELSE @]
<1>1. bad \in BOOLEAN
  BY DEF Aborts
<1>2. /\ run' = [run EXCEPT ![x] = q]
      /\ aborts' = IF bad THEN aborts \cup {run[x].id} ELSE aborts
      /\ UNCHANGED <<now, label, heard, pushed, truth, used>>
      /\ ~run[x].latched
  BY DEF Evaluate, Judges, PhaseOf, Shape, RunOK
<1> HIDE DEF js, bad
<1>3. /\ RunOK(q) /\ q.id = run[x].id /\ q.att = run[x].att /\ q.cfg = run[x].cfg
      /\ q.latched = bad /\ q.at = IF bad THEN now ELSE run[x].at
  <2>1. RunOK(run[x]) /\ now \in Int
    BY DEF Shape
  <2>2. q = [run[x] EXCEPT !.js = js, !.latched = bad, !.at = IF bad THEN now ELSE @]
    OBVIOUS
  <2> HIDE DEF q
  <2> QED BY <1>1, <2>1, <2>2 DEF RunOK
<1> HIDE DEF q
<1>4. Shape'
  BY <1>2, <1>3 DEF Shape
<1>5. Follows' /\ Caused' /\ LatchHasCause'
  BY <1>1, <1>2, <1>3 DEF Shape, Follows, Caused, Said, LatchHasCause
<1>6. AllHeeded' /\ AllSpread'
  BY <1>1, <1>2, <1>3, <1>4, OneRun DEF Shape
<1> QED BY <1>4, <1>5, <1>6

LEMMA LosePushHolds ==
  ASSUME IInv, NEW x \in Proxy, LosePush(x)
  PROVE  IInv'
<1> USE DEF IInv
<1>1. /\ UNCHANGED <<now, label, run, heard, aborts>>
      /\ pushed' = [pushed EXCEPT ![x] = TRUE]
      /\ used' = [used EXCEPT !.faults = @ + 1, !.last = now]
  BY DEF LosePush
<1>2. used'.last = now /\ now \in Nat
  BY <1>1 DEF Shape
<1>3. Shape'
  <2>1. used' \in [records : Nat, changes : Nat, faults : Nat, last : Int]
    <3>1. used \in [records : Nat, changes : Nat, faults : Nat, last : Int] /\ now \in Int
      BY DEF Shape
    <3>2. used' = [records |-> used.records, changes |-> used.changes,
                   faults |-> used.faults + 1, last |-> now]
      BY <1>1, <3>1
    <3> QED BY <3>1, <3>2
  <2> QED BY <1>1, <2>1 DEF Shape
<1>4. Follows' /\ Caused' /\ LatchHasCause'
  BY <1>1, <1>2 DEF Follows, Caused, LatchHasCause
<1>5. AllHeeded' /\ AllSpread'
  <2>1. ~(now' > used'.last) /\ ~(now' > used'.last + 1)
    BY <1>1, <1>2
  <2> QED BY <2>1 DEF AllHeeded, AllSpread, Heeded, Spreads
<1> QED BY <1>3, <1>4, <1>5

(* A proxy refreshes on configuration cfg, which says "aborted" only of a test *)
(* that is, and the moment is noted if it moved.                               *)
LEMMA RefreshHolds ==
  ASSUME IInv, NEW x \in Proxy, NEW cfg \in Configs, NEW q, q = reconcileAB(run[x], cfg),
         run' = [run EXCEPT ![x] = q], UNCHANGED <<now, pushed>>,
         used' \in [records : Nat, changes : Nat, faults : Nat, last : Int],
         used'.last = IF Moved(run[x], q) THEN now ELSE used.last,
         label' \in [Proxy -> Configs], heard' = [y \in Proxy |-> heard'[y]],
         \A y \in Proxy : HeardOK(heard'[y]) /\ Said(heard'[y], aborts'),
         \A y \in Proxy : label'[y].phase = "aborted" => label'[y].id \in aborts',
         aborts \subseteq aborts', cfg.phase = "aborted" => cfg.id \in aborts'
  PROVE  IInv'
<1> USE DEF IInv
<1>1. RunOK(run[x]) /\ run[x].cfg.id = run[x].id /\ now \in Nat /\ used.last \in Int
      /\ run[x].at <= now
  BY DEF Shape, Follows
<1>2. /\ RunOK(q)
      /\ cfg.id = 0 => /\ q.id = run[x].id /\ q.cfg = run[x].cfg
                       /\ q.latched = run[x].latched /\ q.at = run[x].at
      /\ cfg.id # 0 => /\ q.id = cfg.id /\ q.cfg = cfg
                       /\ run[x].id = cfg.id => q.latched = run[x].latched /\ q.at = run[x].at
                       /\ run[x].id # cfg.id => ~q.latched /\ q.at = -1
  BY <1>1, ReconcileFacts
<1>3. \A y \in Proxy : run'[y] = IF y = x THEN q ELSE run[y]
  BY DEF Shape
<1>4. Shape'
  BY <1>2, <1>3 DEF Shape
<1>5. Follows'
  <2>1. q.cfg.id = q.id /\ q.at <= now
    BY <1>1, <1>2
  <2> QED BY <1>1, <1>3, <2>1 DEF Follows
<1>6. Caused' /\ LatchHasCause'
  <2>1. run[x].latched \/ run[x].cfg.phase = "aborted" => run[x].id \in aborts
    BY DEF Caused, LatchHasCause
  <2>2. q.latched \/ q.cfg.phase = "aborted" => q.id \in aborts'
    BY <1>2, <2>1
  <2> QED BY <1>3, <2>2 DEF Caused, LatchHasCause
<1>7. AllHeeded' /\ AllSpread'
  <2>1. now > used'.last =>
          /\ used'.last = used.last
          /\ q.id = run[x].id /\ q.att = run[x].att /\ q.cfg = run[x].cfg
          /\ q.latched = run[x].latched /\ q.at = run[x].at
    <3> SUFFICES ASSUME now > used'.last
                 PROVE  /\ used'.last = used.last
                        /\ q.id = run[x].id /\ q.att = run[x].att /\ q.cfg = run[x].cfg
                        /\ q.latched = run[x].latched /\ q.at = run[x].at
      OBVIOUS
    <3>1. ~Moved(run[x], q)
      BY <1>1
    <3> QED BY <1>1, <3>1, StillFacts
  <2> QED BY <1>1, <1>2, <1>4, <2>1, OneRun DEF Shape
<1> QED BY <1>4, <1>5, <1>6, <1>7

LEMMA NotedFacts ==
  ASSUME Shape, NEW r, NEW s
  PROVE  /\ Noted(r, s) \in [records : Nat, changes : Nat, faults : Nat, last : Int]
         /\ Noted(r, s).last = IF Moved(r, s) THEN now ELSE used.last
         /\ Noted(r, s).changes = used.changes
BY DEF Noted, Shape

LEMMA NoPushOK == HeardOK(NoPush) /\ \A ids : Said(NoPush, ids)
BY DEF NoPush, HeardOK, Said

LEMMA ExpireHolds ==
  ASSUME IInv, NEW x \in Proxy, Expire(x)
  PROVE  IInv'
<1> DEFINE cfg == Config(x, label[x], NoPush)
           q == reconcileAB(run[x], cfg)
<1>1. Shape /\ Caused /\ label[x] \in Configs
  BY DEF IInv, Shape
<1>2. cfg \in Configs /\ (cfg.phase = "aborted" => cfg.id \in aborts)
  BY <1>1, ConfigFacts, NoPushOK DEF Caused, NoPush
<1>3. /\ run' = [run EXCEPT ![x] = q] /\ used' = Noted(run[x], q)
      /\ heard' = [heard EXCEPT ![x] = NoPush]
      /\ UNCHANGED <<now, label, pushed, aborts>>
  BY DEF Expire
<1> HIDE DEF cfg
<1>4. /\ heard' = [y \in Proxy |-> heard'[y]]
      /\ \A y \in Proxy : HeardOK(heard'[y]) /\ Said(heard'[y], aborts')
  <2>1. \A y \in Proxy : heard'[y] = IF y = x THEN NoPush ELSE heard[y]
    BY <1>1, <1>3 DEF Shape
  <2> QED BY <1>1, <1>3, <2>1, NoPushOK DEF Shape, Caused
<1>5. q = reconcileAB(run[x], cfg)
  OBVIOUS
<1> HIDE DEF q
<1>6. /\ used' \in [records : Nat, changes : Nat, faults : Nat, last : Int]
      /\ used'.last = IF Moved(run[x], q) THEN now ELSE used.last
  BY <1>1, <1>3, NotedFacts
<1> QED BY <1>1, <1>2, <1>3, <1>4, <1>5, <1>6, RefreshHolds DEF Shape, Caused

LEMMA RelabelHolds ==
  ASSUME IInv, NEW x \in Proxy, NEW l \in Configs, Relabel(x, l)
  PROVE  IInv'
<1> DEFINE cfg == Config(x, l, heard[x])
           q == reconcileAB(run[x], cfg)
<1>1. Shape /\ Caused /\ HeardOK(heard[x]) /\ Said(heard[x], aborts)
  BY DEF IInv, Shape, Caused
<1>2. /\ run' = [run EXCEPT ![x] = q] /\ used' = [Noted(run[x], q) EXCEPT !.changes = @ + 1]
      /\ label' = [label EXCEPT ![x] = l]
      /\ aborts' = IF l.phase = "aborted" THEN aborts \cup {l.id} ELSE aborts
      /\ UNCHANGED <<now, heard, pushed>>
  BY DEF Relabel
<1>3. cfg \in Configs /\ (cfg.phase = "aborted" => cfg.id \in aborts')
  BY <1>1, <1>2, ConfigFacts DEF Said, HeardOK
<1> HIDE DEF cfg
<1>4. /\ label' \in [Proxy -> Configs]
      /\ \A y \in Proxy : label'[y].phase = "aborted" => label'[y].id \in aborts'
  BY <1>1, <1>2 DEF Shape, Caused
<1>5. /\ heard' = [y \in Proxy |-> heard'[y]] /\ aborts \subseteq aborts'
      /\ \A y \in Proxy : HeardOK(heard'[y]) /\ Said(heard'[y], aborts')
  BY <1>1, <1>2 DEF Shape, Caused, Said
<1>6. q = reconcileAB(run[x], cfg)
  OBVIOUS
<1> HIDE DEF q
<1>7. /\ used' \in [records : Nat, changes : Nat, faults : Nat, last : Int]
      /\ used'.last = IF Moved(run[x], q) THEN now ELSE used.last
  BY <1>1, <1>2, NotedFacts
<1> QED BY <1>2, <1>3, <1>4, <1>5, <1>6, <1>7, RefreshHolds

LEMMA RestartHolds ==
  ASSUME IInv, NEW x \in Proxy, Restart(x)
  PROVE  IInv'
<1> DEFINE q == reconcileAB(NoRun, label[x])
<1>1. Shape /\ Follows /\ Caused /\ LatchHasCause /\ label[x] \in Configs /\ now \in Nat
  BY DEF IInv, Shape
<1>2. /\ run' = [run EXCEPT ![x] = q] /\ heard' = [heard EXCEPT ![x] = NoPush]
      /\ used' = [used EXCEPT !.faults = @ + 1, !.last = now]
      /\ UNCHANGED <<now, label, pushed, aborts>>
  BY DEF Restart
<1>3. /\ RunOK(q) /\ q.cfg.id = q.id /\ ~q.latched /\ q.at = -1
      /\ q.cfg.phase = "aborted" => q.id \in aborts
  BY <1>1, NoRunFacts, ReconcileFacts DEF Caused
<1> HIDE DEF q
<1>4. \A y \in Proxy : /\ run'[y] = IF y = x THEN q ELSE run[y]
                       /\ heard'[y] = IF y = x THEN NoPush ELSE heard[y]
  BY <1>1, <1>2 DEF Shape
<1>5. Shape'
  <2>1. used' \in [records : Nat, changes : Nat, faults : Nat, last : Int]
    <3>1. used \in [records : Nat, changes : Nat, faults : Nat, last : Int] /\ now \in Int
      BY <1>1 DEF Shape
    <3>2. used' = [records |-> used.records, changes |-> used.changes,
                   faults |-> used.faults + 1, last |-> now]
      BY <1>2, <3>1
    <3> QED BY <3>1, <3>2
  <2> QED BY <1>1, <1>2, <1>3, <1>4, <2>1, NoPushOK DEF Shape
<1>6. Follows'
  BY <1>1, <1>2, <1>3, <1>4 DEF Shape, Follows
<1>7. Caused' /\ LatchHasCause'
  BY <1>1, <1>2, <1>3, <1>4, NoPushOK DEF Caused, LatchHasCause
<1>8. AllHeeded' /\ AllSpread'
  <2>1. ~(now' > used'.last) /\ ~(now' > used'.last + 1)
    BY <1>1, <1>2 DEF Shape
  <2> QED BY <2>1 DEF AllHeeded, AllSpread, Heeded, Spreads
<1> QED BY <1>5, <1>6, <1>7, <1>8 DEF IInv

(* A push makes the peer refresh and then believe: what x had latched before *)
(* this interval its peer heeds from now on.                                 *)
LEMMA PushHolds ==
  ASSUME IInv, NEW x \in Proxy, Push(x)
  PROVE  IInv'
<1> DEFINE y == Peer(x)
           h == IF run[x].att THEN PeerInfo(x) ELSE NoPush
           cfg == Config(y, label[y], h)
           r == reconcileAB(run[y], cfg)
           q == IF h = NoPush THEN r ELSE applyPeerAB(r, h)
<1>1. /\ Shape /\ Follows /\ Caused /\ LatchHasCause /\ AllHeeded /\ AllSpread
      /\ now \in Nat /\ used.last \in Int
  BY DEF IInv, Shape
<1>2. y \in Proxy /\ y # x /\ Peer(y) = x /\ \A w \in Proxy : w = x \/ w = y
  BY DEF Proxy, Peer
<1>3. /\ RunOK(run[x]) /\ RunOK(run[y]) /\ label[y] \in Configs
      /\ run[x].cfg.id = run[x].id /\ run[y].cfg.id = run[y].id
      /\ run[y].at <= now
  BY <1>1, <1>2 DEF Shape, Follows
<1>4. /\ run' = [run EXCEPT ![y] = q] /\ heard' = [heard EXCEPT ![y] = h]
      /\ pushed' = [pushed EXCEPT ![x] = TRUE] /\ used' = Noted(run[y], r)
      /\ UNCHANGED <<now, label, aborts>>
  BY DEF Push
<1>5. run[x].att => /\ h # NoPush /\ h.at = now /\ h.id = run[x].id /\ h.cfg = run[x].cfg
                    /\ h.phase = PhaseOf(run[x])
  BY <1>1 DEF PeerInfo, NoPush
<1>6. ~run[x].att => h = NoPush
  OBVIOUS
<1> HIDE DEF h
<1>7. HeardOK(h) /\ Said(h, aborts) /\ h.at \in Int /\ h.at <= now
  <2>1. CASE run[x].att
    <3>1. run[x].latched \/ run[x].cfg.phase = "aborted" => run[x].id \in aborts
      BY <1>1 DEF Caused, LatchHasCause
    <3>2. PhaseOf(run[x]) = "aborted" => run[x].latched \/ run[x].cfg.phase = "aborted"
      BY DEF PhaseOf
    <3> QED BY <1>1, <1>3, <1>5, <2>1, <3>1, <3>2 DEF HeardOK, Said, RunOK
  <2>2. CASE ~run[x].att
    BY <1>1, <1>6, <2>2, NoPushOK DEF NoPush
  <2> QED BY <2>1, <2>2
<1>8. cfg \in Configs /\ (cfg.phase = "aborted" => cfg.id \in aborts)
  <2>1. label[y].phase = "aborted" => label[y].id \in aborts
    BY <1>1, <1>2 DEF Caused
  <2> QED BY <1>2, <1>3, <1>7, <2>1, ConfigFacts DEF Said, HeardOK
<1> HIDE DEF cfg
<1>9. /\ RunOK(r)
      /\ cfg.id = 0 => /\ r.id = run[y].id /\ r.cfg = run[y].cfg
                       /\ r.latched = run[y].latched /\ r.at = run[y].at
      /\ cfg.id # 0 => /\ r.id = cfg.id /\ r.cfg = cfg
                       /\ run[y].id = cfg.id => r.latched = run[y].latched /\ r.at = run[y].at
                       /\ run[y].id # cfg.id => ~r.latched /\ r.at = -1
  BY <1>3, <1>8, ReconcileFacts
<1>10. ~Moved(run[y], r) => /\ r.id = run[y].id /\ r.att = run[y].att /\ r.cfg = run[y].cfg
                            /\ r.latched = run[y].latched /\ r.at = run[y].at
  BY <1>3, <1>8, StillFacts
<1> HIDE DEF r
<1>11. /\ RunOK(q) /\ q.id = r.id /\ q.att = r.att /\ q.cfg = r.cfg
       /\ r.latched => q.latched /\ q.at = r.at
       /\ q.latched /\ ~r.latched => q.at = now /\ q.id \in aborts
       /\ ~q.latched => q.at = r.at
       /\ run[x].att /\ run[x].id = r.id /\ r.cfg.phase = "running"
            /\ PhaseOf(run[x]) = "aborted" => q.latched
  <2>1. CASE run[x].att
    <3>1. q = applyPeerAB(r, h)
      BY <1>5, <2>1
    <3>2. LET a == applyPeerAB(r, h) IN
          /\ RunOK(a) /\ a.id = r.id /\ a.att = r.att /\ a.cfg = r.cfg
          /\ r.latched => a = r
          /\ a.latched /\ ~r.latched => a.at = h.at /\ h.id = r.id /\ h.phase = "aborted"
          /\ ~a.latched => a.at = r.at
          /\ h.id = r.id /\ r.cfg.phase = "running" /\ h.phase = "aborted" => a.latched
      BY <1>7, <1>9, ApplyFacts
    <3> QED BY <1>1, <1>5, <1>7, <2>1, <3>1, <3>2 DEF Said
  <2>2. CASE ~run[x].att
    BY <1>6, <1>9, <2>2
  <2> QED BY <2>1, <2>2
<1> HIDE DEF q
<1>12. \A w \in Proxy : /\ run'[w] = IF w = y THEN q ELSE run[w]
                        /\ heard'[w] = IF w = y THEN h ELSE heard[w]
  BY <1>1, <1>2, <1>4 DEF Shape
<1>13. /\ used' \in [records : Nat, changes : Nat, faults : Nat, last : Int]
       /\ used'.last = IF Moved(run[y], r) THEN now ELSE used.last
  BY <1>1, <1>4, NotedFacts
<1>14. Shape'
  BY <1>1, <1>2, <1>4, <1>7, <1>11, <1>12, <1>13 DEF Shape
<1>15. Follows'
  <2>1. q.cfg.id = q.id /\ q.at <= now
    BY <1>1, <1>3, <1>9, <1>11 DEF RunOK
  <2> QED BY <1>1, <1>4, <1>12, <1>13, <2>1 DEF Follows
<1>16. Caused' /\ LatchHasCause'
  <2>1. run[y].latched \/ run[y].cfg.phase = "aborted" => run[y].id \in aborts
    BY <1>1, <1>2 DEF Caused, LatchHasCause
  <2>2. q.latched \/ q.cfg.phase = "aborted" => q.id \in aborts
    BY <1>8, <1>9, <1>11, <2>1
  <2> QED BY <1>1, <1>4, <1>7, <1>12, <2>2 DEF Caused, LatchHasCause
<1>17. ASSUME now > used'.last
       PROVE  /\ used'.last = used.last
              /\ q.id = run[y].id /\ q.att = run[y].att /\ q.cfg = run[y].cfg
              /\ run[y].latched => q.latched /\ q.at = run[y].at
              /\ q.latched /\ ~run[y].latched => q.at = now
              /\ PhaseOf(run[y]) # "running" => PhaseOf(q) # "running"
  <2>1. ~Moved(run[y], r)
    BY <1>1, <1>13, <1>17
  <2>2. /\ q.id = run[y].id /\ q.att = run[y].att /\ q.cfg = run[y].cfg
        /\ run[y].latched => q.latched /\ q.at = run[y].at
        /\ q.latched /\ ~run[y].latched => q.at = now
    BY <1>10, <1>11, <2>1
  <2> QED BY <1>13, <2>1, <2>2 DEF PhaseOf
<1>18. run'[x] = run[x] /\ run'[y] = q /\ now' = now /\ run[x].at \in Int /\ q.at \in Int
  BY <1>2, <1>3, <1>4, <1>11, <1>12 DEF RunOK
<1>19. AllSpread'
  <2>1. Spreads(x)'
    <3> SUFFICES ASSUME run[x].att, run[x].latched, run[x].cfg.phase = "running",
                        q.att, q.id = run[x].id, now > run[x].at + 1, now > used'.last + 1
                 PROVE  PhaseOf(q) # "running"
      BY <1>18 DEF Spreads
    <3>1. now > used'.last
      BY <1>1, <1>13
    <3>2. Spreads(x)
      BY <1>1 DEF AllSpread
    <3> QED BY <1>17, <3>1, <3>2 DEF Spreads
  <2>2. Spreads(y)'
    <3> SUFFICES ASSUME q.att, q.latched, q.cfg.phase = "running",
                        run[x].att, run[x].id = q.id, now > q.at + 1, now > used'.last + 1
                 PROVE  PhaseOf(run[x]) # "running"
      BY <1>2, <1>18 DEF Spreads
    <3>1. now > used'.last /\ q.at # now
      BY <1>1, <1>13, <1>18
    <3>2. Spreads(y)
      BY <1>1, <1>2 DEF AllSpread
    <3> QED BY <1>2, <1>17, <3>1, <3>2 DEF Spreads
  <2> QED BY <1>2, <2>1, <2>2 DEF AllSpread
<1>20. AllHeeded'
  <2>1. Heeded(x)'
    <3> SUFFICES ASSUME run[x].att, run[x].latched, run[x].cfg.phase = "running",
                        q.att, q.id = run[x].id
                 PROVE  PhaseOf(q) # "running"
      BY <1>18 DEF Heeded
    <3>1. PhaseOf(run[x]) = "aborted"
      BY DEF PhaseOf
    <3>2. q.cfg.phase = "running" => q.latched
      BY <1>11, <3>1
    <3> QED BY <3>2 DEF PhaseOf
  <2>2. Heeded(y)'
    <3> SUFFICES ASSUME q.att, q.latched, q.cfg.phase = "running",
                        run[x].att, run[x].id = q.id, pushed[y], now > q.at, now > used'.last
                 PROVE  PhaseOf(run[x]) # "running"
      <4>1. pushed'[y] = pushed[y]
        BY <1>1, <1>2, <1>4 DEF Shape
      <4> QED BY <1>2, <1>18, <4>1 DEF Heeded
    <3>1. q.at # now
      BY <1>1, <1>18
    <3>2. Heeded(y)
      BY <1>1, <1>2 DEF AllHeeded
    <3> QED BY <1>2, <1>17, <3>1, <3>2 DEF Heeded
  <2> QED BY <1>2, <2>1, <2>2 DEF AllHeeded
<1> QED BY <1>14, <1>15, <1>16, <1>19, <1>20 DEF IInv

LEMMA NextHolds == IInv /\ [Next]_vars => IInv'
<1> SUFFICES ASSUME IInv, [Next]_vars PROVE IInv'
  OBVIOUS
<1>1. CASE Tick
  BY <1>1, TickHolds
<1>2. ASSUME NEW x \in Proxy, NEW w, Record(x, w) PROVE IInv'
  BY <1>2, RecordHolds
<1>3. ASSUME NEW x \in Proxy,
             Evaluate(x) \/ Push(x) \/ LosePush(x) \/ Expire(x) \/ Restart(x)
      PROVE  IInv'
  BY <1>3, EvaluateHolds, PushHolds, LosePushHolds, ExpireHolds, RestartHolds
<1>4. \A x \in Proxy : label[x] \in Configs /\ now \in Nat
  BY DEF IInv, Shape
<1>5. ASSUME NEW x \in Proxy, NEW ph \in {"aborted", "promoting", "discarding"}, SetPhase(x, ph)
      PROVE  IInv'
  <2>1. [label[x] EXCEPT !.phase = ph] \in Configs
    BY <1>4 DEF Configs, Phases
  <2> QED BY <1>5, <2>1, RelabelHolds DEF SetPhase
<1>6. ASSUME NEW x \in Proxy, NewEpoch(x) PROVE IInv'
  <2>1. [label[x] EXCEPT !.epoch = now] \in Configs
    BY <1>4 DEF Configs
  <2> QED BY <1>6, <2>1, RelabelHolds DEF NewEpoch
<1>7. ASSUME NEW x \in Proxy, NewTest(x) PROVE IInv'
  <2>1. [id |-> 2, phase |-> "running", epoch |-> now] \in Configs
    BY <1>4 DEF Configs, Phases
  <2> QED BY <1>7, <2>1, RelabelHolds DEF NewTest
<1>8. ASSUME NEW x \in Proxy, EndTest(x) PROVE IInv'
  <2>1. NoLabel \in Configs
    BY DEF NoLabel, Configs, Phases
  <2> QED BY <1>8, <2>1, RelabelHolds DEF EndTest
<1>9. CASE UNCHANGED vars
  BY <1>9 DEF vars, IInv, Shape, Follows, Caused, LatchHasCause, AllHeeded, AllSpread,
              Heeded, Spreads, PhaseOf
<1> QED BY <1>1, <1>2, <1>3, <1>5, <1>6, <1>7, <1>8, <1>9 DEF Next

-----------------------------------------------------------------------------
(* An abort is about the test that caused it, and spreads: no proxy takes a  *)
(* test for aborted that was neither judged bad nor labelled aborted (newABRun *)
(* starts without a latch), and an interval after a proxy latched a test the  *)
(* other one, if it runs this test, does not send new sessions to B           *)
(* (applyPeerAB), however they restart, lose pushes, adopt tests and lose them. *)
THEOREM AbortIsHeeded == Spec => []LatchSound
<1>1. IInv => LatchSound
  BY DEF IInv, LatchSound, LatchSpreads, AllSpread, Spreads
<1> QED BY <1>1, InitHolds, NextHolds, PTL DEF Spec

-----------------------------------------------------------------------------
(* One request of a service under test                                     *)

CONSTANTS Backend, Home, Variant, Session, Kinds, MaxRequests, MaxFails
VARIABLES has, view, phase, sick, pin, req, counts, spent

Req == INSTANCE ABRequest WITH used <- spent

Maybe == {"A", "B", "none"}
Views == [test: BOOLEAN, a: BOOLEAN, b: BOOLEAN]
Pins == [variant: Maybe, src: {"n", "q"}]
Decisions == [ab: BOOLEAN, variant: Maybe, failover: Maybe, record: BOOLEAN, from: Maybe,
              static: BOOLEAN]
Targets == {Req!Cont(b) : b \in Backend} \cup {Req!Pool("A"), Req!Pool("B"), Req!NoOne}
Frames == [at: Req!Proxies, d: Decisions, has: SUBSET Backend, view: Views,
           tried: SUBSET Targets, n: Nat, on: Targets, fb: BOOLEAN]
Requests == [pc: {"idle", "pick", "sent", "answer", "fallback", "done"}, kind: Kinds \cup {"none"},
             replay: BOOLEAN, ask: Maybe, frames: Seq(Frames),
             code: {"none", "ok", "404", "502", "503"}, by: Backend \cup {"none"},
             calm: BOOLEAN, misled: BOOLEAN, dup: BOOLEAN]
Records == [by: Req!Proxies, variant: Maybe, out: {"served", "failover", "transport"}]

RequestsTyped ==
  /\ has \in [Req!Proxies -> SUBSET Backend]
  /\ view \in [Req!Proxies -> Views]
  /\ phase \in [Req!Proxies -> Phases]
  /\ pin \in [Session -> Pins]
  /\ req \in [Session -> Requests]
  /\ counts \in [Session -> Seq(Records)]

Outer(r) == r.frames[1]
Inner(r) == r.frames[2]
Hops(r) == Len(r.frames) = 2

(* The frames of a request: one, or a second at the peer the first is waiting  *)
(* for.  The peer's decision is to record only if the first takes it to.       *)
FramesOK(r) ==
  /\ r.pc # "idle" => Len(r.frames) \in 1 .. 2
  /\ r.pc = "idle" => r.frames = <<>>
  /\ r.pc = "done" => Len(r.frames) = 1
  /\ r.pc = "sent" => ~Req!Learned(Req!Top(r).on)
  /\ r.pc = "pick" => ~Req!Top(r).fb
  /\ r.pc = "fallback" => Req!Top(r).fb
  /\ Hops(r) => /\ Req!Learned(Outer(r).on) /\ ~Req!Learned(Inner(r).on)
                /\ Inner(r).at = Req!Peer(Outer(r).at)
                /\ Outer(r).fb => r.dup
                /\ ~r.misled /\ Inner(r).d.record => Req!peerRuns(Outer(r), Outer(r).on)
  /\ \A i \in DOMAIN r.frames :
       /\ r.frames[i].d.record => r.frames[i].d.ab
       /\ r.kind = "page" => ~r.frames[i].d.static /\ ~r.frames[i].fb

(* What has been counted while the request is on its way: nothing before the   *)
(* peer answers, and nothing by the peer that its forwarder counts too.        *)
Once(r, cs) ==
  /\ r.pc = "idle" => cs = <<>>
  /\ ~r.misled /\ ~r.dup =>
    /\ Len(cs) <= 1
    /\ Hops(r) => cs = <<>>
    /\ Len(r.frames) = 1 /\ r.pc \in {"pick", "sent", "answer"} /\ cs # <<>> =>
         \/ Outer(r).fb
         \/ r.pc = "answer" /\ Req!peerRuns(Outer(r), Outer(r).on)

(* While nothing moves, the peer decides as its forwarder would.               *)
CalmOK(r) ==
  r.calm /\ r.pc # "idle" =>
    /\ Req!Agreed /\ ~r.misled /\ Outer(r).view = view[Outer(r).at]
    /\ Outer(r).d.ab => Req!Runs(Outer(r).at)
    /\ Outer(r).d.record => ~Req!abFrozen(phase[Outer(r).at])
    /\ Hops(r) /\ Outer(r).d.record /\ r.kind = "page" => Inner(r).d.record

(* What a container answered, and the peer passed on, has been counted.        *)
Least(r, cs) ==
  /\ r.by # "none" => r.pc \in {"answer", "done"}
  /\ (/\ r.calm /\ ~r.dup /\ r.by # "none" /\ r.kind = "page"
      /\ Len(r.frames) = 1 /\ Outer(r).d.record
      /\ r.pc = "done" \/ Req!Learned(Outer(r).on))
       => Len(cs) = 1

Good(r, cs) == FramesOK(r) /\ Once(r, cs) /\ CalmOK(r) /\ Least(r, cs)

RequestInv == RequestsTyped /\ \A s \in Session : Good(req[s], counts[s])

(* The operators of the pick only narrow the table. *)
LEMMA FirstOfTwo ==
  ASSUME NEW a, NEW b
  PROVE  \A t \in Req!FirstOf(<<a, b>>) : t \in a \/ t \in b
<1>. DEFINE seq == <<a, b>>
            first(i) == seq[i] # {} /\ \A j \in 1 .. i - 1 : seq[j] = {}
<1>1. DOMAIN seq = {1, 2} /\ seq[1] = a /\ seq[2] = b
  OBVIOUS
<1>2. CASE \E i \in DOMAIN seq : seq[i] # {}
  <2>1. \E i \in DOMAIN seq : first(i)
    <3>1. a # {} => first(1)
      BY <1>1
    <3>2. a = {} /\ b # {} => first(2)
      BY <1>1
    <3>. QED  BY <1>1, <1>2, <3>1, <3>2
  <2>2. PICK i \in DOMAIN seq : i = CHOOSE k \in DOMAIN seq : first(k)
    BY <2>1
  <2>3. Req!FirstOf(seq) = seq[i]
    BY <1>2, <2>2 DEF Req!FirstOf
  <2>. QED  BY <1>1, <2>2, <2>3
<1>3. CASE ~ \E i \in DOMAIN seq : seq[i] # {}
  BY <1>3 DEF Req!FirstOf
<1>. QED  BY <1>2, <1>3

LEMMA FirstOfFour ==
  ASSUME NEW a, NEW b, NEW c, NEW d
  PROVE  \A t \in Req!FirstOf(<<a, b, c, d>>) : t \in a \/ t \in b \/ t \in c \/ t \in d
<1>. DEFINE seq == <<a, b, c, d>>
            first(i) == seq[i] # {} /\ \A j \in 1 .. i - 1 : seq[j] = {}
<1>1. DOMAIN seq = {1, 2, 3, 4} /\ seq[1] = a /\ seq[2] = b /\ seq[3] = c /\ seq[4] = d
  OBVIOUS
<1>2. CASE \E i \in DOMAIN seq : seq[i] # {}
  <2>1. \E i \in DOMAIN seq : first(i)
    <3>1. a # {} => first(1)
      BY <1>1
    <3>2. a = {} /\ b # {} => first(2)
      BY <1>1
    <3>3. a = {} /\ b = {} /\ c # {} => first(3)
      BY <1>1
    <3>4. a = {} /\ b = {} /\ c = {} /\ d # {} => first(4)
      BY <1>1
    <3>. QED  BY <1>1, <1>2, <3>1, <3>2, <3>3, <3>4
  <2>2. PICK i \in DOMAIN seq : i = CHOOSE k \in DOMAIN seq : first(k)
    BY <2>1
  <2>3. Req!FirstOf(seq) = seq[i]
    BY <1>2, <2>2 DEF Req!FirstOf
  <2>. QED  BY <1>1, <2>2, <2>3
<1>3. CASE ~ \E i \in DOMAIN seq : seq[i] # {}
  BY <1>3 DEF Req!FirstOf
<1>. QED  BY <1>2, <1>3

LEMMA PickNarrows ==
  ASSUME NEW f, NEW peers \in BOOLEAN, NEW t \in Req!abPick(f, peers)
  PROVE  t \in Req!Table(f) /\ (peers \/ ~Req!Learned(t))
<1>. DEFINE free == {u \in Req!Table(f) : u \notin f.tried /\ (peers \/ ~Req!Learned(u))}
            well == free \ sick[f.at]
            p(T, v) == Req!Tier(Req!Of(f.at, T, v))
            own == f.d.variant
            other == f.d.failover
<1>1. \A T, v : \A u \in p(T, v) : u \in T
  BY DEF Req!Tier, Req!Of
<1>2. \/ Req!abPick(f, peers) =
           Req!FirstOf(<<p(well, own), p(well, other), p(free, own), p(free, other)>>)
      \/ Req!abPick(f, peers) = Req!FirstOf(<<p(well, own), p(free, own)>>)
  BY DEF Req!abPick
<1>. HIDE DEF p
<1>3. t \in well \/ t \in free
  BY <1>1, <1>2, FirstOfTwo, FirstOfFour
<1>. QED  BY <1>3

LEMMA FinishTyped ==
  ASSUME RequestsTyped, NEW x \in Req!Proxies, NEW v \in Maybe, NEW rec \in BOOLEAN,
         NEW static \in BOOLEAN
  PROVE  /\ Req!Finish(x, v, rec, static) \in Decisions
         /\ Req!Finish(x, v, rec, static).ab
         /\ Req!Finish(x, v, rec, static).record = rec
         /\ Req!Finish(x, v, rec, static).static = static
BY DEF Req!Finish, Req!Decision, Decisions, Maybe, Req!None

(* Every decision abAssign may take for a request from a client. *)
LEMMA AssignedTyped ==
  ASSUME RequestsTyped, NEW x \in Req!Proxies, NEW kind, NEW p \in Pins, NEW ask \in Maybe,
         NEW o \in Req!Assigned(x, kind, p, ask)
  PROVE  /\ o[1] \in Decisions /\ o[1].ab /\ o[2] \in Pins
         /\ o[1].record => ~Req!abFrozen(phase[x])
         /\ kind = "page" => ~o[1].static
<1>0. PICK calm \in BOOLEAN : calm = ~Req!abFrozen(phase[x])
  BY DEF Req!abFrozen
<1>. DEFINE static == kind = "static"
            keep(v, src) == IF static THEN p ELSE [variant |-> v, src |-> src]
<1>1. p.variant \in Maybe /\ static \in BOOLEAN /\ (calm /\ p.src # "q") \in BOOLEAN
  BY DEF Pins
<1>2. \A v \in Maybe, src \in {"n", "q"} : keep(v, src) \in Pins
  BY DEF Pins
<1>3. \/ o = <<Req!Finish(x, "A", FALSE, FALSE), p>>
      \/ o = <<Req!Finish(x, p.variant, calm /\ p.src # "q", static), p>>
      \/ o = <<Req!Finish(x, ask, FALSE, static), keep(ask, "q")>>
      \/ \E v \in Req!NewVariant(x) : o = <<Req!Finish(x, v, calm, static), keep(v, "n")>>
  BY <1>0 DEF Req!Assigned, Req!None
<1>4. Req!NewVariant(x) \subseteq Maybe
  BY DEF Req!NewVariant, Maybe
<1>. HIDE DEF static, keep
<1>5. CASE o = <<Req!Finish(x, "A", FALSE, FALSE), p>>
  BY <1>5, FinishTyped DEF Maybe
<1>6. kind = "page" => static = FALSE
  BY DEF static
<1>7. CASE o = <<Req!Finish(x, p.variant, calm /\ p.src # "q", static), p>>
  BY <1>0, <1>1, <1>6, <1>7, FinishTyped
<1>8. CASE o = <<Req!Finish(x, ask, FALSE, static), keep(ask, "q")>>
  BY <1>1, <1>2, <1>6, <1>8, FinishTyped
<1>9. CASE \E v \in Req!NewVariant(x) : o = <<Req!Finish(x, v, calm, static), keep(v, "n")>>
  <2>1. PICK v \in Maybe : o = <<Req!Finish(x, v, calm, static), keep(v, "n")>>
    BY <1>4, <1>9
  <2>2. o[1] = Req!Finish(x, v, calm, static) /\ o[2] = keep(v, "n")
    BY <2>1
  <2>3. /\ Req!Finish(x, v, calm, static) \in Decisions
        /\ Req!Finish(x, v, calm, static).ab
        /\ Req!Finish(x, v, calm, static).record = calm
        /\ Req!Finish(x, v, calm, static).static = static
    BY <1>1, FinishTyped, ZenonT(60)
  <2>4. o[2] \in Pins
    BY <1>2, <2>2
  <2>. QED  BY <1>0, <1>6, <2>2, <2>3, <2>4, Zenon
<1>. QED  BY <1>3, <1>5, <1>7, <1>8, <1>9

(* And for a hop. *)
LEMMA HoppedTyped ==
  ASSUME RequestsTyped, NEW y \in Req!Proxies, NEW kind, NEW v \in Maybe, NEW over \in BOOLEAN
  PROVE  LET d == Req!Hopped(y, kind, v, over)
         IN  /\ d \in Decisions /\ d.ab
             /\ kind = "page" => ~d.static /\ d.record = ~Req!abFrozen(phase[y])
<1>0. PICK calm \in BOOLEAN : calm = ~Req!abFrozen(phase[y])
  BY DEF Req!abFrozen
<1>. DEFINE static == kind = "static"
<1>1. static \in BOOLEAN /\ (kind = "page" => static = FALSE)
  OBVIOUS
<1>2. CASE kind = "excluded"
  BY <1>2, FinishTyped DEF Req!Hopped, Maybe
<1>3. CASE kind # "excluded" /\ over
  <2>1. Req!Hopped(y, kind, v, over) = Req!Decision(TRUE, Req!abOther(v), "none", calm, v, static)
    BY <1>0, <1>3 DEF Req!Hopped, Req!None
  <2>. HIDE DEF static
  <2>2. Req!Decision(TRUE, Req!abOther(v), "none", calm, v, static) \in Decisions
    BY <1>1 DEF Req!Decision, Decisions, Maybe, Req!abOther
  <2>. QED  BY <1>0, <1>1, <2>1, <2>2 DEF Req!Decision
<1>4. CASE kind # "excluded" /\ ~over
  <2>1. Req!Hopped(y, kind, v, over) = Req!Finish(y, v, calm, static)
    BY <1>0, <1>4 DEF Req!Hopped
  <2>. HIDE DEF static
  <2>2. /\ Req!Finish(y, v, calm, static) \in Decisions
        /\ Req!Finish(y, v, calm, static).ab
        /\ Req!Finish(y, v, calm, static).record = calm
        /\ Req!Finish(y, v, calm, static).static = static
    BY <1>1, FinishTyped, Zenon
  <2>. QED  BY <1>0, <1>1, <2>1, <2>2, Zenon
<1>. QED  BY <1>2, <1>3, <1>4

(* Under one view of everything both proxies run the test or neither does. *)
LEMMA AgreedRuns ==
  ASSUME RequestsTyped, Req!Agreed, NEW x \in Req!Proxies
  PROVE  /\ Req!Peer(x) \in Req!Proxies
         /\ view[x].test = Req!Runs(Req!Peer(x))
         /\ Req!Runs(x) => Req!Runs(Req!Peer(x))
         /\ phase[Req!Peer(x)] = phase[x]
<1>1. Req!Peer(x) \in Req!Proxies /\ Req!Peer(Req!Peer(x)) = x
  BY DEF Req!Peer, Req!Proxies
<1>2. view[x] = Req!Advertised(Req!Peer(x)) /\ view[Req!Peer(x)] = Req!Advertised(x)
  BY <1>1 DEF Req!Agreed
<1>3. phase[Req!Peer(x)] = phase[x]
  BY DEF Req!Agreed, Req!Peer, Req!Proxies
<1>4. Req!Runs(x) => Req!Runs(Req!Peer(x))
  BY <1>1, <1>2 DEF Req!Runs, Req!Advertised
<1>. QED  BY <1>1, <1>2, <1>3, <1>4 DEF Req!Advertised

(* The frame on top. *)
LEMMA TopFacts ==
  ASSUME NEW r \in Requests, Len(r.frames) \in 1 .. 2
  PROVE  /\ Req!Top(r) \in Frames
         /\ Outer(r) \in Frames
         /\ Len(r.frames) = 1 => Req!Top(r) = Outer(r) /\ r.frames = <<Outer(r)>>
         /\ Hops(r) => Req!Top(r) = Inner(r) /\ Inner(r) \in Frames
         /\ DOMAIN r.frames = 1 .. Len(r.frames)
<1>1. r.frames \in Seq(Frames)
  BY DEF Requests
<1>. QED  BY <1>1 DEF Req!Top, Outer, Inner, Hops

LEMMA SetTopFacts ==
  ASSUME NEW r \in Requests, Len(r.frames) \in 1 .. 2, NEW f \in Frames
  PROVE  LET q == Req!SetTop(r, f)
         IN  /\ q \in Requests /\ q.frames \in Seq(Frames)
             /\ Len(q.frames) = Len(r.frames) /\ Req!Top(q) = f
             /\ Hops(r) => Outer(q) = Outer(r) /\ Inner(q) = f
             /\ ~Hops(r) => Outer(q) = f /\ q.frames = <<f>>
             /\ q.pc = r.pc /\ q.kind = r.kind /\ q.replay = r.replay /\ q.ask = r.ask
             /\ q.code = r.code /\ q.by = r.by
             /\ q.calm = r.calm /\ q.misled = r.misled /\ q.dup = r.dup
<1>1. r.frames \in Seq(Frames)
  BY DEF Requests
<1>2. PICK fs : fs = [r.frames EXCEPT ![Len(r.frames)] = f]
  OBVIOUS
<1>3. /\ fs \in Seq(Frames) /\ Len(fs) = Len(r.frames) /\ fs[Len(r.frames)] = f
      /\ Len(r.frames) = 2 => fs[1] = r.frames[1]
      /\ Len(r.frames) = 1 => fs = <<f>>
  <2>1. CASE Len(r.frames) = 1
    <3>1. fs \in Seq(Frames) /\ Len(fs) = 1 /\ fs[1] = f
      BY <1>1, <1>2, <2>1
    <3>2. fs = <<f>>
      BY <3>1
    <3>. QED  BY <2>1, <3>1, <3>2
  <2>2. CASE Len(r.frames) = 2
    <3>1. fs \in Seq(Frames) /\ Len(fs) = 2
      BY <1>1, <1>2, <2>2
    <3>2. fs[2] = f /\ fs[1] = r.frames[1]
      BY <1>1, <1>2, <2>2
    <3>. QED  BY <2>2, <3>1, <3>2
  <2>. QED  BY <2>1, <2>2
<1>4. Req!SetTop(r, f) = [r EXCEPT !.frames = fs]
  BY <1>2 DEF Req!SetTop, Requests
<1>. QED  BY <1>3, <1>4 DEF Requests, Hops, Outer, Inner, Req!Top

LEMMA PopFacts ==
  ASSUME NEW r \in Requests, Len(r.frames) \in 1 .. 2, NEW code \in {"none", "ok", "404", "502", "503"}
  PROVE  LET q == Req!Pop(r, code)
         IN  /\ q \in Requests /\ q.frames = <<Outer(r)>>
             /\ Len(q.frames) = 1 /\ Outer(q) = Outer(r)
             /\ q.pc = IF Hops(r) THEN "answer" ELSE "done"
             /\ q.kind = r.kind /\ q.replay = r.replay /\ q.ask = r.ask /\ q.by = r.by
             /\ q.calm = r.calm /\ q.misled = r.misled /\ q.dup = r.dup
<1>1. Outer(r) \in Frames /\ (Len(r.frames) = 1 => r.frames = <<Outer(r)>>)
  BY TopFacts
<1>2. <<Outer(r)>> \in Seq(Frames) /\ Len(<<Outer(r)>>) = 1 /\ <<Outer(r)>>[1] = Outer(r)
  BY <1>1
<1>3. CASE Len(r.frames) = 1
  <2>1. Req!Pop(r, code) = [r EXCEPT !.pc = "done", !.code = code]
    BY <1>3 DEF Req!Pop
  <2>2. ~Hops(r)
    BY <1>3 DEF Hops
  <2>. QED  BY <1>1, <1>2, <1>3, <2>1, <2>2 DEF Requests, Outer
<1>4. CASE Len(r.frames) = 2
  <2>1. Req!Pop(r, code) = [r EXCEPT !.pc = "answer", !.code = code, !.frames = <<Outer(r)>>]
    BY <1>4 DEF Req!Pop, Outer
  <2>2. Hops(r)
    BY <1>4 DEF Hops
  <2>3. PICK fs \in Seq(Frames) : fs = <<Outer(r)>>
    BY <1>2
  <2>4. PICK q : q = [r EXCEPT !.pc = "answer", !.code = code, !.frames = fs]
    OBVIOUS
  <2>5. /\ q \in Requests /\ q.frames = fs /\ q.pc = "answer"
        /\ q.kind = r.kind /\ q.replay = r.replay /\ q.ask = r.ask /\ q.by = r.by
        /\ q.calm = r.calm /\ q.misled = r.misled /\ q.dup = r.dup
    BY <2>4 DEF Requests
  <2>6. Len(q.frames) = 1 /\ Outer(q) = Outer(r)
    BY <1>2, <2>3, <2>5, Zenon DEF Outer
  <2>. QED  BY <2>1, <2>2, <2>3, <2>4, <2>5, <2>6
<1>. QED  BY <1>3, <1>4

(* The frame on top is over, and cs holds what has been counted by then. *)
LEMMA PopKeeps ==
  ASSUME NEW r \in Requests, NEW was, NEW cs \in Seq(Records), Good(r, was),
         r.pc \in {"pick", "sent", "answer", "fallback"},
         NEW code \in {"none", "ok", "404", "502", "503"},
         ~r.misled /\ ~r.dup => /\ Len(cs) <= 1
                                /\ Hops(r) /\ cs # <<>> => Inner(r).d.record,
         r.calm /\ ~r.dup /\ r.by # "none" /\ r.kind = "page" /\ Outer(r).d.record => Len(cs) = 1
  PROVE  Req!Pop(r, code) \in Requests /\ Good(Req!Pop(r, code), cs)
<1>1. PICK q : q = Req!Pop(r, code)
  OBVIOUS
<1>2. Len(r.frames) \in 1 .. 2
  BY DEF Good, FramesOK
<1>3. /\ q \in Requests /\ q.frames = <<Outer(r)>>
      /\ Len(q.frames) = 1 /\ Outer(q) = Outer(r)
      /\ q.pc = IF Hops(r) THEN "answer" ELSE "done"
      /\ q.kind = r.kind /\ q.by = r.by
      /\ q.calm = r.calm /\ q.misled = r.misled /\ q.dup = r.dup
  BY <1>1, <1>2, PopFacts
<1>4. ~Hops(q)
  BY <1>3 DEF Hops
<1>5. FramesOK(q)
  <2>1. DOMAIN q.frames = {1} /\ q.frames[1] = Outer(r)
    BY <1>3
  <2>2. /\ Outer(r).d.record => Outer(r).d.ab
        /\ r.kind = "page" => ~Outer(r).d.static /\ ~Outer(r).fb
    BY <1>2, TopFacts DEF Good, FramesOK, Outer
  <2>. QED  BY <1>3, <1>4, <2>1, <2>2 DEF FramesOK
<1>6. Once(q, cs)
  BY <1>3, <1>4 DEF Once, Good, FramesOK
<1>7. CalmOK(q)
  BY <1>3, <1>4 DEF CalmOK, Good
<1>8. Least(q, cs)
  BY <1>3 DEF Least
<1>. QED  BY <1>1, <1>3, <1>5, <1>6, <1>7, <1>8 DEF Good

(* A request for a container or a peer's pool of the frame's table. *)
LEMMA SentKeeps ==
  ASSUME RequestsTyped, NEW s \in Session, NEW r \in Requests, r = req[s],
         NEW cs, Good(r, cs), r.pc \in {"pick", "fallback"},
         NEW t \in Targets, t # Req!NoOne, ~Hops(r) \/ ~Req!Learned(t),
         NEW variant \in Maybe, NEW q \in Req!SentTo(s, Req!Top(r), t, variant)
  PROVE  q \in Requests /\ Good(q, cs)
<1>1. Len(r.frames) \in 1 .. 2
  BY DEF Good, FramesOK
<1>2. PICK f \in Frames : f = Req!Top(r)
  BY <1>1, TopFacts
<1>3. PICK g : g = [f EXCEPT !.on = t, !.n = f.n + 1, !.tried = f.tried \cup {t}]
  OBVIOUS
<1>4. /\ g \in Frames /\ g.on = t /\ g.at = f.at /\ g.d = f.d /\ g.fb = f.fb
      /\ g.view = f.view
  <2>1. f.n + 1 \in Nat /\ f.tried \cup {t} \in SUBSET Targets
    BY DEF Frames
  <2>2. PICK n \in Nat, tried \in SUBSET Targets : n = f.n + 1 /\ tried = f.tried \cup {t}
    BY <2>1
  <2>3. g = [f EXCEPT !.on = t, !.n = n, !.tried = tried]
    BY <1>3, <2>2
  <2>. QED  BY <2>3 DEF Frames
<1>5. PICK m : m = Req!SetTop(r, g)
  OBVIOUS
<1>6. /\ m \in Requests /\ m.frames \in Seq(Frames)
      /\ Len(m.frames) = Len(r.frames) /\ Req!Top(m) = g
      /\ Hops(r) => Outer(m) = Outer(r) /\ Inner(m) = g
      /\ ~Hops(r) => Outer(m) = g /\ m.frames = <<g>>
      /\ m.pc = r.pc /\ m.kind = r.kind /\ m.ask = r.ask /\ m.by = r.by
      /\ m.calm = r.calm /\ m.misled = r.misled /\ m.dup = r.dup
  BY <1>1, <1>4, <1>5, SetTopFacts
<1>7. r.by = "none"
  BY DEF Good, Least
<1>8. ~Hops(r) => f = Outer(r)
  BY <1>1, <1>2, TopFacts DEF Hops
<1>8a. Hops(r) => f = Inner(r)
  BY <1>1, <1>2, TopFacts
<1>9. CASE ~Req!Learned(t)
  <2>1. q = [m EXCEPT !.pc = "sent"]
    BY <1>2, <1>3, <1>5, <1>9 DEF Req!SentTo
  <2>2. /\ q \in Requests /\ q.pc = "sent" /\ q.frames = m.frames /\ q.kind = r.kind
        /\ q.by = "none" /\ q.calm = r.calm /\ q.misled = r.misled /\ q.dup = r.dup
    BY <1>6, <1>7, <2>1 DEF Requests
  <2>3. /\ Len(q.frames) = Len(r.frames) /\ Req!Top(q) = g
        /\ Hops(r) => Outer(q) = Outer(r) /\ Inner(q) = g
        /\ ~Hops(r) => Outer(q) = g /\ q.frames = <<g>>
        /\ Hops(q) <=> Hops(r)
    BY <1>6, <2>2 DEF Req!Top, Outer, Inner, Hops
  <2>4. /\ f.d.record => f.d.ab
        /\ r.kind = "page" => ~f.d.static /\ ~f.fb
        /\ Hops(r) => /\ Outer(r).d.record => Outer(r).d.ab
                      /\ r.kind = "page" => ~Outer(r).d.static /\ ~Outer(r).fb
    BY <1>1, <1>8, <1>8a, TopFacts DEF Good, FramesOK, Outer, Inner, Hops
  <2>5. \A i \in DOMAIN q.frames :
          /\ q.frames[i].d.record => q.frames[i].d.ab
          /\ q.kind = "page" => ~q.frames[i].d.static /\ ~q.frames[i].fb
    <3>1. DOMAIN q.frames = 1 .. Len(q.frames)
      BY <1>6, <2>2
    <3>2. CASE Hops(r)
      BY <1>4, <2>2, <2>3, <2>4, <3>1, <3>2 DEF Hops, Outer, Inner
    <3>3. CASE ~Hops(r)
      BY <1>1, <1>4, <2>2, <2>3, <2>4, <3>1, <3>3 DEF Hops, Outer
    <3>. QED  BY <3>2, <3>3
  <2>6. FramesOK(q)
    BY <1>1, <1>4, <1>8a, <1>9, <2>2, <2>3, <2>5 DEF FramesOK, Good
  <2>7. Once(q, cs)
    BY <1>2, <1>4, <1>8, <2>2, <2>3 DEF Once, Good, FramesOK, Hops
  <2>8. CalmOK(q)
    BY <1>4, <1>8, <1>8a, <2>2, <2>3 DEF CalmOK, Good
  <2>9. Least(q, cs)
    BY <2>2 DEF Least
  <2>. QED  BY <2>2, <2>6, <2>7, <2>8, <2>9 DEF Good
<1>10. CASE Req!Learned(t)
  <2>1. ~Hops(r) /\ Len(r.frames) = 1 /\ f = Outer(r)
    BY <1>1, <1>8, <1>10 DEF Hops
  <2>2. PICK y \in Req!Proxies : y = Req!Peer(f.at)
    BY DEF Frames, Req!Peer, Req!Proxies
  <2>3. t[2] \in Maybe /\ Req!VariantOf(t) = t[2]
    BY <1>10 DEF Targets, Req!Cont, Req!Pool, Req!NoOne, Req!Learned, Req!VariantOf, Maybe
  <2>4. PICK d \in Decisions :
          /\ q = [m EXCEPT !.frames = Append(m.frames, Req!Frame(y, d)), !.pc = "pick",
                           !.misled = m.misled \/ f.view # Req!Advertised(y),
                           !.dup = m.dup \/ f.fb]
          /\ d.record => d.ab
          /\ r.kind = "page" => ~d.static
          /\ d.record => f.d.ab /\ Req!Runs(y)
          /\ f.d.ab /\ Req!Runs(y) /\ r.kind = "page" => d.record = ~Req!abFrozen(phase[y])
    <3>. DEFINE sent == Req!SetTop(req[s], [f EXCEPT !.on = t, !.n = @ + 1, !.tried = @ \cup {t}])
                peer == Req!Peer(f.at)
                hop == Req!peerRuns(f, t) /\ Req!VariantOf(t) # variant
                v == IF hop THEN variant ELSE Req!VariantOf(t)
                ds == IF ~Req!Runs(peer) THEN {Req!NoTest}
                      ELSE IF f.d.ab THEN {Req!Hopped(peer, sent.kind, v, hop)}
                      ELSE {[o[1] EXCEPT !.record = FALSE] :
                              o \in Req!Assigned(peer, sent.kind, pin[s], sent.ask)}
                made(d) == [sent EXCEPT !.frames = Append(@, Req!Frame(peer, d)), !.pc = "pick",
                                        !.misled = @ \/ f.view # Req!Advertised(peer),
                                        !.dup = @ \/ f.fb]
    <3>0. q \in Req!SentTo(s, f, t, variant)
      BY <1>2
    <3>1. q \in {made(d) : d \in ds}
      BY <1>10, <3>0 DEF Req!SentTo
    <3>a. sent = m /\ peer = y
      BY <1>3, <1>5, <2>2
    <3>2. PICK d \in ds : q = made(d)
      BY <3>1
    <3>b. q = [m EXCEPT !.frames = Append(m.frames, Req!Frame(y, d)), !.pc = "pick",
                        !.misled = m.misled \/ f.view # Req!Advertised(y),
                        !.dup = m.dup \/ f.fb]
      BY <3>2, <3>a
    <3>3. CASE ~Req!Runs(y)
      <4>1. d = Req!NoTest
        BY <3>2, <3>3, <3>a
      <4>2. Req!NoTest \in Decisions /\ ~Req!NoTest.record /\ ~Req!NoTest.static
        BY DEF Req!NoTest, Req!Decision, Decisions, Maybe, Req!None
      <4>. QED  BY <3>b, <3>3, <4>1, <4>2
    <3>4. CASE Req!Runs(y) /\ f.d.ab
      <4>1. PICK h \in BOOLEAN, w \in Maybe : h = hop /\ w = v
        BY <2>3 DEF Req!peerRuns
      <4>2. d = Req!Hopped(y, m.kind, w, h)
        BY <3>2, <3>4, <3>a, <4>1
      <4>3. /\ d \in Decisions /\ d.ab
            /\ m.kind = "page" => ~d.static /\ d.record = ~Req!abFrozen(phase[y])
        BY <4>2, HoppedTyped
      <4>. QED  BY <1>6, <3>b, <3>4, <4>3
    <3>5. CASE Req!Runs(y) /\ ~f.d.ab
      <4>1. PICK p \in Pins : p = pin[s]
        BY DEF RequestsTyped
      <4>1a. m.ask \in Maybe
        BY <1>6 DEF Requests
      <4>2. PICK o \in Req!Assigned(y, m.kind, p, m.ask) : d = [o[1] EXCEPT !.record = FALSE]
        BY <3>2, <3>5, <3>a, <4>1
      <4>3. o[1] \in Decisions /\ (m.kind = "page" => ~o[1].static)
        BY <4>1a, AssignedTyped
      <4>4. d \in Decisions /\ ~d.record /\ d.static = o[1].static
        BY <4>2, <4>3 DEF Decisions
      <4>. QED  BY <1>6, <3>b, <3>5, <4>3, <4>4
    <3>. QED  BY <3>3, <3>4, <3>5
  <2>5. PICK h : h = Req!Frame(y, d)
    OBVIOUS
  <2>6. h \in Frames /\ h.at = y /\ h.d = d /\ ~h.fb /\ h.on = Req!NoOne /\ ~Req!Learned(h.on)
    <3>1. has[y] \in SUBSET Backend /\ view[y] \in Views /\ {} \in SUBSET Targets
          /\ Req!NoOne \in Targets /\ ~Req!Learned(Req!NoOne)
      BY DEF RequestsTyped, Targets, Req!Learned, Req!NoOne, Req!None
    <3>2. h = [at |-> y, d |-> d, has |-> has[y], view |-> view[y],
               tried |-> {}, n |-> 0, on |-> Req!NoOne, fb |-> FALSE]
      BY <2>5 DEF Req!Frame
    <3>. QED  BY <3>1, <3>2 DEF Frames
  <2>7. PICK fs \in Seq(Frames) : fs = Append(m.frames, h)
    <3>1. m.frames \in Seq(Frames) /\ h \in Frames
      BY <1>6, <2>6
    <3>2. Append(m.frames, h) \in Seq(Frames)
      BY <3>1
    <3>. QED  BY <3>2
  <2>8. Len(fs) = 2 /\ fs[1] = g /\ fs[2] = h /\ DOMAIN fs = {1, 2}
    <3>1. Len(fs) = 2 /\ fs[1] = g /\ fs[2] = h
      BY <1>6, <2>1, <2>7
    <3>. QED  BY <2>7, <3>1
  <2>9. PICK misled \in BOOLEAN, dup \in BOOLEAN :
          /\ misled = (m.misled \/ f.view # Req!Advertised(y))
          /\ dup = (m.dup \/ f.fb)
    BY <1>6 DEF Requests
  <2>10. q = [m EXCEPT !.frames = fs, !.pc = "pick", !.misled = misled, !.dup = dup]
    BY <2>4, <2>5, <2>7, <2>9
  <2>11. /\ q \in Requests /\ q.pc = "pick" /\ q.frames = fs /\ q.kind = r.kind
         /\ q.by = "none" /\ q.calm = r.calm
         /\ ~q.misled => ~r.misled /\ f.view = Req!Advertised(y)
         /\ q.misled => r.misled \/ f.view # Req!Advertised(y)
         /\ ~q.dup => ~r.dup /\ ~f.fb
         /\ f.fb => q.dup
    <3>1. /\ q \in Requests /\ q.pc = "pick" /\ q.frames = fs /\ q.kind = m.kind
          /\ q.by = m.by /\ q.calm = m.calm /\ q.misled = misled /\ q.dup = dup
      <4>1. m \in [pc: {m.pc}, kind: {m.kind}, replay: BOOLEAN, ask: Maybe, frames: {m.frames},
                   code: {"none", "ok", "404", "502", "503"}, by: {m.by}, calm: {m.calm},
                   misled: BOOLEAN, dup: BOOLEAN]
        BY <1>6 DEF Requests
      <4>2. q \in [pc: {"pick"}, kind: {m.kind}, replay: BOOLEAN, ask: Maybe, frames: {fs},
                   code: {"none", "ok", "404", "502", "503"}, by: {m.by}, calm: {m.calm},
                   misled: {misled}, dup: {dup}]
        BY <2>10, <4>1
      <4>3. m.kind \in Kinds \cup {"none"} /\ m.by \in Backend \cup {"none"} /\ m.calm \in BOOLEAN
        BY <1>6 DEF Requests
      <4>. QED  BY <4>2, <4>3 DEF Requests
    <3>. QED  BY <1>6, <1>7, <2>9, <3>1
  <2>12. Hops(q) /\ Outer(q) = g /\ Inner(q) = h /\ Req!Top(q) = h
    BY <2>8, <2>11 DEF Hops, Outer, Inner, Req!Top
  <2>13. ~q.misled => f.view.test = Req!Runs(y)
    BY <2>11 DEF Req!Advertised
  <2>14. /\ f.d.record => f.d.ab
         /\ r.kind = "page" => ~f.d.static /\ ~f.fb
    BY <1>1, <2>1, TopFacts DEF Good, FramesOK, Outer
  <2>15. FramesOK(q)
    <3>1. ~q.misled /\ h.d.record => Req!peerRuns(g, t)
      BY <1>4, <1>10, <2>4, <2>6, <2>13 DEF Req!peerRuns
    <3>2. \A i \in DOMAIN q.frames :
            /\ q.frames[i].d.record => q.frames[i].d.ab
            /\ q.kind = "page" => ~q.frames[i].d.static /\ ~q.frames[i].fb
      BY <1>4, <2>4, <2>6, <2>8, <2>11, <2>14
    <3>. QED  BY <1>4, <1>10, <2>2, <2>6, <2>8, <2>11, <2>12, <3>1, <3>2 DEF FramesOK
  <2>16. Once(q, cs)
    <3>1. ~q.misled /\ ~q.dup => cs = <<>>
      BY <1>2, <2>1, <2>11 DEF Good, Once, FramesOK
    <3>2. Len(<<>>) = 0
      OBVIOUS
    <3>. QED  BY <2>8, <2>11, <3>1, <3>2 DEF Once
  <2>17. CalmOK(q)
    <3>. SUFFICES ASSUME q.calm PROVE CalmOK(q)
      BY DEF CalmOK
    <3>1. /\ Req!Agreed /\ ~r.misled /\ f.view = view[f.at]
          /\ f.d.ab => Req!Runs(f.at)
          /\ f.d.record => ~Req!abFrozen(phase[f.at])
      BY <2>1, <2>11 DEF Good, CalmOK
    <3>2. f.at \in Req!Proxies
      BY DEF Frames
    <3>3. view[f.at] = Req!Advertised(y)
      BY <2>2, <3>1, <3>2 DEF Req!Agreed
    <3>4. (Req!Runs(f.at) => Req!Runs(y)) /\ phase[y] = phase[f.at]
      BY <2>2, <3>1, <3>2, AgreedRuns
    <3>5. ~q.misled
      BY <2>11, <3>1, <3>3
    <3>6. f.d.record /\ r.kind = "page" => h.d.record
      BY <2>4, <2>6, <2>14, <3>1, <3>4
    <3>. QED  BY <1>4, <2>11, <2>12, <3>1, <3>5, <3>6 DEF CalmOK
  <2>18. Least(q, cs)
    BY <2>11 DEF Least
  <2>. QED  BY <2>11, <2>15, <2>16, <2>17, <2>18 DEF Good
<1>. QED  BY <1>9, <1>10

(* What a decided request adds to the records. *)
LEMMA RecordedFacts ==
  ASSUME RequestsTyped, NEW x \in Req!Proxies, NEW v \in Maybe,
         NEW out \in {"served", "failover", "transport"}, NEW cs \in Seq(Records)
  PROVE  LET c == Req!Recorded(x, v, out, cs)
         IN  /\ c \in Seq(Records)
             /\ c = cs \/ Len(c) = Len(cs) + 1
             /\ ~Req!abFrozen(phase[x]) => Len(c) = Len(cs) + 1
<1>1. PICK e \in Records : e = [by |-> x, variant |-> v, out |-> out]
  BY DEF Records
<1>2. Append(cs, e) \in Seq(Records) /\ Len(Append(cs, e)) = Len(cs) + 1
  OBVIOUS
<1>. QED  BY <1>1, <1>2 DEF Req!Recorded

LEMMA RecordVariantTyped ==
  ASSUME NEW d \in Decisions
  PROVE  Req!recordVariant(d) \in Maybe /\ d.variant \in Maybe
BY DEF Decisions, Req!recordVariant

LEMMA ServedFacts ==
  ASSUME RequestsTyped, NEW f \in Frames, NEW t, NEW cs \in Seq(Records)
  PROVE  LET c == Req!abRecordServed(f, t, cs)
         IN  /\ c \in Seq(Records)
             /\ c = cs \/ (f.d.record /\ ~Req!peerRuns(f, t) /\ Len(c) = Len(cs) + 1)
             /\ f.d.ab /\ f.d.record /\ ~Req!Learned(t) /\ ~Req!abFrozen(phase[f.at])
                  => Len(c) = Len(cs) + 1
<1>1. f.at \in Req!Proxies /\ f.d \in Decisions
  BY DEF Frames
<1>2. Req!recordVariant(f.d) \in Maybe /\ f.d.variant \in Maybe
  BY <1>1, RecordVariantTyped
<1>3. PICK fo, se : /\ fo = Req!Recorded(f.at, Req!recordVariant(f.d), "failover", cs)
                    /\ se = Req!Recorded(f.at, f.d.variant, "served", cs)
  OBVIOUS
<1>4. /\ fo \in Seq(Records) /\ (fo = cs \/ Len(fo) = Len(cs) + 1)
      /\ ~Req!abFrozen(phase[f.at]) => Len(fo) = Len(cs) + 1
  BY <1>1, <1>2, <1>3, RecordedFacts
<1>5. /\ se \in Seq(Records) /\ (se = cs \/ Len(se) = Len(cs) + 1)
      /\ ~Req!abFrozen(phase[f.at]) => Len(se) = Len(cs) + 1
  BY <1>1, <1>2, <1>3, RecordedFacts
<1>6. Req!abRecordServed(f, t, cs) =
        IF ~f.d.ab \/ Req!peerRuns(f, t) \/ ~f.d.record THEN cs
        ELSE IF f.d.from # Req!None \/ Req!VariantOf(t) # f.d.variant
             THEN fo ELSE IF Req!Learned(t) THEN cs ELSE se
  BY <1>3 DEF Req!abRecordServed
<1>7. Req!peerRuns(f, t) => Req!Learned(t)
  BY DEF Req!peerRuns
<1>8. PICK c : c = Req!abRecordServed(f, t, cs)
  OBVIOUS
<1>9. \/ c = cs /\ (~f.d.ab \/ ~f.d.record \/ Req!Learned(t))
      \/ f.d.record /\ ~Req!peerRuns(f, t) /\ (c = fo \/ c = se)
  BY <1>6, <1>7, <1>8
<1>10. /\ c \in Seq(Records)
       /\ c = cs \/ (f.d.record /\ ~Req!peerRuns(f, t) /\ Len(c) = Len(cs) + 1)
       /\ f.d.ab /\ f.d.record /\ ~Req!Learned(t) /\ ~Req!abFrozen(phase[f.at])
            => Len(c) = Len(cs) + 1
  <2>1. CASE c = cs /\ (~f.d.ab \/ ~f.d.record \/ Req!Learned(t))
    BY <2>1, Zenon
  <2>2. CASE f.d.record /\ ~Req!peerRuns(f, t) /\ c = fo
    BY <1>4, <2>2, Zenon
  <2>3. CASE f.d.record /\ ~Req!peerRuns(f, t) /\ c = se
    BY <1>5, <2>3, Zenon
  <2>. QED  BY <1>9, <2>1, <2>2, <2>3, Zenon
<1>. QED  BY <1>8, <1>10

LEMMA TransportFacts ==
  ASSUME RequestsTyped, NEW f \in Frames, NEW cs \in Seq(Records)
  PROVE  LET c == Req!TransportRecorded(f, cs)
         IN  /\ c \in Seq(Records)
             /\ c = cs \/ (f.d.record /\ Len(c) = Len(cs) + 1)
<1>1. f.at \in Req!Proxies /\ f.d \in Decisions
  BY DEF Frames
<1>2. Req!recordVariant(f.d) \in Maybe
  BY <1>1, RecordVariantTyped
<1>3. PICK tr : tr = Req!Recorded(f.at, Req!recordVariant(f.d), "transport", cs)
  OBVIOUS
<1>4. tr \in Seq(Records) /\ (tr = cs \/ Len(tr) = Len(cs) + 1)
  BY <1>1, <1>2, <1>3, RecordedFacts
<1>5. PICK c : c = Req!TransportRecorded(f, cs)
  OBVIOUS
<1>6. c = cs \/ (f.d.record /\ c = tr)
  <2>. DEFINE local == f.d.ab /\ f.d.record /\ f.on # Req!NoOne /\ ~Req!Learned(f.on)
  <2>1. CASE local
    BY <1>3, <1>5, <2>1 DEF Req!TransportRecorded
  <2>2. CASE ~local
    BY <1>5, <2>2 DEF Req!TransportRecorded
  <2>. QED  BY <2>1, <2>2
<1>7. c \in Seq(Records) /\ (c = cs \/ (f.d.record /\ Len(c) = Len(cs) + 1))
  <2>1. CASE c = cs
    BY <2>1
  <2>2. CASE f.d.record /\ c = tr
    BY <1>4, <2>2, Zenon
  <2>. QED  BY <1>6, <2>1, <2>2
<1>. QED  BY <1>5, <1>7

(* What a step leaves of a request: CalmOK alone speaks of the proxies. *)
LEMMA GoodStays ==
  ASSUME NEW r, NEW cs, Good(r, cs), UNCHANGED <<has, view, phase>> \/ ~r.calm
  PROVE  Good(r, cs)'
<1>1. FramesOK(r)' /\ Once(r, cs)' /\ Least(r, cs)'
  BY DEF Good, FramesOK, Once, Least, Hops, Outer, Inner, Req!Top, Req!Learned, Req!Peer,
         Req!peerRuns
<1>2. CASE UNCHANGED <<has, view, phase>>
  <2>1. CalmOK(r)'
    BY <1>2 DEF Good, CalmOK, Hops, Outer, Inner, Req!Agreed, Req!Advertised, Req!Runs,
                Req!abFrozen, Req!Peer
  <2>. QED  BY <1>1, <2>1 DEF Good
<1>3. CASE ~r.calm
  <2>1. CalmOK(r)'
    BY <1>3 DEF CalmOK
  <2>. QED  BY <1>1, <2>1 DEF Good
<1>. QED  BY <1>2, <1>3

LEMMA GoodAfter ==
  ASSUME NEW s, NEW r, NEW cs, r = req'[s], cs = counts'[s], Good(r, cs)'
  PROVE  Good(req[s], counts[s])'
<1>1. FramesOK(req[s])'
  BY DEF Good, FramesOK, Hops, Outer, Inner
<1>2. Once(req[s], counts[s])'
  BY DEF Good, Once, Hops, Outer, Inner
<1>3. CalmOK(req[s])'
  BY DEF Good, CalmOK, Hops, Outer, Inner
<1>4. Least(req[s], counts[s])'
  BY DEF Good, Least, Hops, Outer, Inner
<1>. QED  BY <1>1, <1>2, <1>3, <1>4 DEF Good

(* A step of one session that leaves what the proxies know. *)
LEMMA SessionKeeps ==
  ASSUME RequestInv, UNCHANGED <<has, view, phase>>, pin' \in [Session -> Pins],
         NEW s \in Session, NEW r2 \in Requests, NEW cs2 \in Seq(Records), Good(r2, cs2),
         req' = [req EXCEPT ![s] = r2], counts' = [counts EXCEPT ![s] = cs2]
  PROVE  RequestInv'
<1>1. RequestsTyped'
  BY DEF RequestInv, RequestsTyped
<1>2. ASSUME NEW z \in Session PROVE Good(req[z], counts[z])'
  <2>1. PICK a, b : a = req'[z] /\ b = counts'[z]
    OBVIOUS
  <2>2. Good(a, b)
    BY <2>1 DEF RequestInv, RequestsTyped
  <2>3. Good(a, b)'
    BY <2>2, GoodStays
  <2>. QED  BY <2>1, <2>3, GoodAfter
<1>. QED  BY <1>1, <1>2 DEF RequestInv

(* The backends of a frame's table. *)
LEMMA TableTyped ==
  ASSUME NEW f, f.has \in SUBSET Backend, NEW t \in Req!Table(f)
  PROVE  t \in Targets /\ t # Req!NoOne
BY DEF Req!Table, Req!Split, Req!Cont, Req!Pool, Req!NoOne, Req!None, Targets

LEMMA SendKeeps ==
  ASSUME RequestInv, NEW s \in Session, NEW x \in Req!Proxies, NEW kind \in Kinds,
         NEW replay \in BOOLEAN, NEW ask \in {Req!None, "A", "B"},
         Req!Send(s, x, kind, replay, ask)
  PROVE  RequestInv'
<1>1. PICK p \in Pins, cs \in Seq(Records) : p = pin[s] /\ cs = counts[s]
  BY DEF RequestInv, RequestsTyped
<1>2. PICK o \in IF Req!Runs(x) THEN Req!Assigned(x, kind, p, ask) ELSE {<<Req!NoTest, p>>} :
        /\ req' = [req EXCEPT ![s] =
             [Req!Idle EXCEPT !.pc = "pick", !.kind = kind, !.replay = replay, !.ask = ask,
                              !.frames = <<Req!Frame(x, o[1])>>, !.calm = Req!Agreed]]
        /\ pin' = [pin EXCEPT ![s] = o[2]]
  BY <1>1 DEF Req!Send
<1>3. /\ o[1] \in Decisions /\ o[2] \in Pins
      /\ o[1].ab => Req!Runs(x)
      /\ o[1].record => o[1].ab /\ ~Req!abFrozen(phase[x])
      /\ kind = "page" => ~o[1].static
  <2>1. CASE Req!Runs(x)
    <3>1. ask \in Maybe /\ o \in Req!Assigned(x, kind, p, ask)
      BY <1>2, <2>1 DEF Maybe, Req!None
    <3>. QED  BY <2>1, <3>1, AssignedTyped DEF RequestInv
  <2>2. CASE ~Req!Runs(x)
    <3>1. o[1] = Req!NoTest /\ o[2] = p
      BY <1>2, <2>2
    <3>2. /\ Req!NoTest \in Decisions /\ ~Req!NoTest.record /\ ~Req!NoTest.static
          /\ ~Req!NoTest.ab
      BY DEF Req!NoTest, Req!Decision, Decisions, Maybe, Req!None
    <3>. QED  BY <3>1, <3>2
  <2>. QED  BY <2>1, <2>2
<1>4. PICK d \in Decisions : d = o[1]
  BY <1>3
<1>5. PICK h : h = Req!Frame(x, d)
  OBVIOUS
<1>6. h \in Frames /\ h.at = x /\ h.d = d /\ ~h.fb /\ h.view = view[x]
  <2>1. /\ has[x] \in SUBSET Backend /\ view[x] \in Views /\ {} \in SUBSET Targets
        /\ Req!NoOne \in Targets
    BY DEF RequestInv, RequestsTyped, Targets
  <2>2. h = [at |-> x, d |-> d, has |-> has[x], view |-> view[x],
             tried |-> {}, n |-> 0, on |-> Req!NoOne, fb |-> FALSE]
    BY <1>5 DEF Req!Frame
  <2>. QED  BY <2>1, <2>2 DEF Frames
<1>7. PICK calm \in BOOLEAN : calm = Req!Agreed
  BY DEF Req!Agreed
<1>8. <<h>> \in Seq(Frames) /\ Len(<<h>>) = 1 /\ <<h>>[1] = h /\ DOMAIN <<h>> = {1}
  BY <1>6
<1>9. PICK q : q = [Req!Idle EXCEPT !.pc = "pick", !.kind = kind, !.replay = replay, !.ask = ask,
                                    !.frames = <<h>>, !.calm = calm]
  OBVIOUS
<1>10. req' = [req EXCEPT ![s] = q]
  BY <1>2, <1>4, <1>5, <1>7, <1>9
<1>11. /\ q \in Requests /\ q.pc = "pick" /\ q.kind = kind /\ q.frames = <<h>>
       /\ q.by = "none" /\ q.calm = calm /\ ~q.misled /\ ~q.dup
  <2>1. Req!Idle \in [pc: {"idle"}, kind: {"none"}, replay: {TRUE}, ask: {"none"},
                       frames: {<<>>}, code: {"none"}, by: {"none"}, calm: {TRUE},
                       misled: {FALSE}, dup: {FALSE}]
    BY DEF Req!Idle, Req!None
  <2>2. q \in [pc: {"pick"}, kind: {kind}, replay: {replay}, ask: {ask}, frames: {<<h>>},
               code: {"none"}, by: {"none"}, calm: {calm}, misled: {FALSE}, dup: {FALSE}]
    BY <1>9, <2>1
  <2>. QED  BY <1>8, <2>2 DEF Requests, Maybe, Req!None
<1>12. ~Hops(q) /\ Outer(q) = h /\ Req!Top(q) = h /\ Len(q.frames) = 1
  BY <1>8, <1>11 DEF Hops, Outer, Req!Top
<1>13. cs = <<>> /\ Len(cs) = 0
  BY <1>1 DEF RequestInv, Good, Once, Req!Send
<1>14. FramesOK(q)
  <2>1. \A i \in DOMAIN q.frames :
          /\ q.frames[i].d.record => q.frames[i].d.ab
          /\ q.kind = "page" => ~q.frames[i].d.static /\ ~q.frames[i].fb
    BY <1>3, <1>4, <1>6, <1>8, <1>11
  <2>. QED  BY <1>6, <1>11, <1>12, <2>1 DEF FramesOK
<1>15. Once(q, cs) /\ Least(q, cs)
  BY <1>11, <1>12, <1>13 DEF Once, Least
<1>16. CalmOK(q)
  BY <1>3, <1>4, <1>6, <1>7, <1>11, <1>12 DEF CalmOK
<1>17. UNCHANGED <<has, view, phase>> /\ counts' = [counts EXCEPT ![s] = cs]
  BY <1>1 DEF Req!Send, RequestInv, RequestsTyped
<1>18. pin' \in [Session -> Pins]
  BY <1>2, <1>3 DEF RequestInv, RequestsTyped
<1>. QED  BY <1>10, <1>11, <1>14, <1>15, <1>16, <1>17, <1>18, SessionKeeps DEF Good

LEMMA AttemptKeeps ==
  ASSUME RequestInv, NEW s \in Session, Req!Attempt(s)
  PROVE  RequestInv'
<1>1. PICK r \in Requests, cs \in Seq(Records) : r = req[s] /\ cs = counts[s]
  BY DEF RequestInv, RequestsTyped
<1>2. Good(r, cs) /\ r.pc = "pick"
  BY <1>1 DEF RequestInv, Req!Attempt
<1>3. Len(r.frames) \in 1 .. 2
  BY <1>2 DEF Good, FramesOK
<1>4. PICK f \in Frames : f = Req!Top(r)
  BY <1>3, TopFacts
<1>5. PICK peers \in BOOLEAN : peers = (Len(r.frames) = 1)
  OBVIOUS
<1>6. PICK t \in Req!abPick(f, peers) : \E r2 \in Req!SentTo(s, f, t, f.d.variant) :
        req' = [req EXCEPT ![s] = r2]
  BY <1>1, <1>4, <1>5 DEF Req!Attempt
<1>7. PICK r2 \in Req!SentTo(s, f, t, f.d.variant) : req' = [req EXCEPT ![s] = r2]
  BY <1>6
<1>8. t \in Req!Table(f) /\ (peers \/ ~Req!Learned(t))
  BY PickNarrows
<1>9. f.has \in SUBSET Backend /\ f.d.variant \in Maybe
  BY DEF Frames, Decisions
<1>10. t \in Targets /\ t # Req!NoOne
  BY <1>8, <1>9, TableTyped
<1>11. r2 \in Requests /\ Good(r2, cs)
  <2>1. ~Hops(r) \/ ~Req!Learned(t)
    <3>1. Hops(r) => ~(Len(r.frames) = 1)
      BY DEF Hops
    <3>. QED  BY <1>5, <1>8, <3>1, Zenon
  <2>2. r2 \in Req!SentTo(s, Req!Top(r), t, f.d.variant)
    BY <1>4
  <2>. QED  BY <1>1, <1>2, <1>9, <1>10, <2>1, <2>2, SentKeeps DEF RequestInv
<1>12. UNCHANGED <<has, view, phase, pin>> /\ counts' = [counts EXCEPT ![s] = cs]
  BY <1>1 DEF Req!Attempt, RequestInv, RequestsTyped
<1>. QED  BY <1>7, <1>11, <1>12, SessionKeeps DEF RequestInv, RequestsTyped

LEMMA FallbackKeeps ==
  ASSUME RequestInv, NEW s \in Session, Req!Fallback(s)
  PROVE  RequestInv'
<1>1. PICK r \in Requests, cs \in Seq(Records) : r = req[s] /\ cs = counts[s]
  BY DEF RequestInv, RequestsTyped
<1>2. Good(r, cs) /\ r.pc = "fallback"
  BY <1>1 DEF RequestInv, Req!Fallback
<1>3. Len(r.frames) \in 1 .. 2
  BY <1>2 DEF Good, FramesOK
<1>4. PICK f \in Frames : f = Req!Top(r)
  BY <1>3, TopFacts
<1>5. PICK peers \in BOOLEAN : peers = (Len(r.frames) = 1)
  OBVIOUS
<1>6. PICK other \in Maybe : other = Req!abOther(f.d.variant)
  BY DEF Req!abOther, Maybe
<1>7. PICK g : g = [f EXCEPT !.d.variant = other, !.d.failover = Req!None]
  OBVIOUS
<1>8. UNCHANGED <<has, view, phase, pin>> /\ counts' = [counts EXCEPT ![s] = cs]
  BY <1>1 DEF Req!Fallback, RequestInv, RequestsTyped
<1>9. \/ req' = [req EXCEPT ![s] = Req!Pop(r, "404")]
      \/ \E t \in Req!abPick(g, peers) : \E r2 \in Req!SentTo(s, f, t, other) :
           req' = [req EXCEPT ![s] = r2]
  BY <1>1, <1>4, <1>5, <1>6, <1>7 DEF Req!Fallback
<1>10. CASE req' = [req EXCEPT ![s] = Req!Pop(r, "404")]
  <2>1. PICK r2 : r2 = Req!Pop(r, "404")
    OBVIOUS
  <2>2. r.by = "none"
    BY <1>2 DEF Good, Least
  <2>3. Len(<<>>) = 0
    OBVIOUS
  <2>4. ~r.misled /\ ~r.dup => /\ Len(cs) <= 1
                               /\ Hops(r) /\ cs # <<>> => Inner(r).d.record
    BY <1>2 DEF Good, Once
  <2>5. r2 \in Requests /\ Good(r2, cs)
    BY <1>2, <2>1, <2>2, <2>4, PopKeeps
  <2>. QED  BY <1>8, <1>10, <2>1, <2>5, SessionKeeps DEF RequestInv, RequestsTyped
<1>11. CASE \E t \in Req!abPick(g, peers) : \E r2 \in Req!SentTo(s, f, t, other) :
              req' = [req EXCEPT ![s] = r2]
  <2>1. PICK t \in Req!abPick(g, peers) : \E r2 \in Req!SentTo(s, f, t, other) :
          req' = [req EXCEPT ![s] = r2]
    BY <1>11
  <2>2. PICK r2 \in Req!SentTo(s, f, t, other) : req' = [req EXCEPT ![s] = r2]
    BY <2>1
  <2>3. t \in Req!Table(g) /\ (peers \/ ~Req!Learned(t))
    BY PickNarrows
  <2>4. g.has \in SUBSET Backend
    BY <1>7 DEF Frames
  <2>5. t \in Targets /\ t # Req!NoOne
    BY <2>3, <2>4, TableTyped
  <2>6. ~Hops(r) \/ ~Req!Learned(t)
    <3>1. Hops(r) => ~(Len(r.frames) = 1)
      BY DEF Hops
    <3>. QED  BY <1>5, <2>3, <3>1, Zenon
  <2>7. r2 \in Req!SentTo(s, Req!Top(r), t, other)
    BY <1>4
  <2>8. r2 \in Requests /\ Good(r2, cs)
    BY <1>1, <1>2, <2>5, <2>6, <2>7, SentKeeps DEF RequestInv
  <2>. QED  BY <1>8, <2>2, <2>8, SessionKeeps DEF RequestInv, RequestsTyped
<1>. QED  BY <1>9, <1>10, <1>11

LEMMA ServeKeeps ==
  ASSUME RequestInv, NEW s \in Session, NEW code \in {"ok", "404"}, Req!Serve(s, code)
  PROVE  RequestInv'
<1>1. PICK r \in Requests, cs \in Seq(Records) : r = req[s] /\ cs = counts[s]
  BY DEF RequestInv, RequestsTyped
<1>2. Good(r, cs) /\ r.pc = "sent"
  BY <1>1 DEF RequestInv, Req!Serve
<1>3. Len(r.frames) \in 1 .. 2
  BY <1>2 DEF Good, FramesOK
<1>4. Req!Top(r).on \in Targets /\ ~Req!Learned(Req!Top(r).on)
  BY <1>2, <1>3, TopFacts DEF Good, FramesOK, Frames
<1>5. PICK by \in Backend \cup {"none"} : by = Req!Top(r).on[2]
  BY <1>4 DEF Targets, Req!Cont, Req!Pool, Req!NoOne, Req!None, Req!Learned
<1>6. PICK q : q = [r EXCEPT !.pc = "answer", !.code = code, !.by = by]
  OBVIOUS
<1>7. /\ q \in Requests /\ q.pc = "answer" /\ q.frames = r.frames /\ q.kind = r.kind
      /\ q.calm = r.calm /\ q.misled = r.misled /\ q.dup = r.dup
  BY <1>6 DEF Requests
<1>8. Outer(q) = Outer(r) /\ Inner(q) = Inner(r) /\ (Hops(q) <=> Hops(r))
  BY <1>7 DEF Outer, Inner, Hops
<1>9. FramesOK(q)
  BY <1>2, <1>7, <1>8 DEF Good, FramesOK
<1>10. Once(q, cs)
  BY <1>2, <1>7, <1>8 DEF Good, Once
<1>11. CalmOK(q)
  BY <1>2, <1>7, <1>8 DEF Good, CalmOK
<1>12. Least(q, cs)
  <2>1. Len(r.frames) = 1 => ~Req!Learned(Outer(r).on)
    BY <1>3, <1>4, TopFacts
  <2>. QED  BY <1>7, <1>8, <2>1 DEF Least
<1>13. req' = [req EXCEPT ![s] = q]
  BY <1>1, <1>5, <1>6 DEF Req!Serve
<1>14. UNCHANGED <<has, view, phase, pin>> /\ counts' = [counts EXCEPT ![s] = cs]
  BY <1>1 DEF Req!Serve, RequestInv, RequestsTyped
<1>15. pin' \in [Session -> Pins]
  BY <1>14 DEF RequestInv, RequestsTyped
<1>. QED  BY <1>7, <1>9, <1>10, <1>11, <1>12, <1>13, <1>14, <1>15, SessionKeeps DEF Good

(* The 404 of a static file is swallowed: the frame will try the other variant. *)
LEMMA RetryKeeps ==
  ASSUME NEW r \in Requests, NEW cs, Good(r, cs), r.pc = "answer", Req!Top(r).d.static
  PROVE  LET q == [Req!SetTop(r, [Req!Top(r) EXCEPT !.fb = TRUE]) EXCEPT !.pc = "fallback",
                                                                         !.by = Req!None]
         IN  q \in Requests /\ Good(q, cs)
<1>1. Len(r.frames) \in 1 .. 2
  BY DEF Good, FramesOK
<1>2. PICK f \in Frames : f = Req!Top(r)
  BY <1>1, TopFacts
<1>3. PICK g : g = [f EXCEPT !.fb = TRUE]
  OBVIOUS
<1>4. /\ g \in Frames /\ g.on = f.on /\ g.at = f.at /\ g.d = f.d /\ g.fb
      /\ g.view = f.view
  BY <1>3 DEF Frames
<1>5. PICK m : m = Req!SetTop(r, g)
  OBVIOUS
<1>6. /\ m \in Requests /\ m.frames \in Seq(Frames)
      /\ Len(m.frames) = Len(r.frames) /\ Req!Top(m) = g
      /\ Hops(r) => Outer(m) = Outer(r) /\ Inner(m) = g
      /\ ~Hops(r) => Outer(m) = g /\ m.frames = <<g>>
      /\ m.kind = r.kind
      /\ m.calm = r.calm /\ m.misled = r.misled /\ m.dup = r.dup
  BY <1>1, <1>4, <1>5, SetTopFacts
<1>7. PICK q : q = [m EXCEPT !.pc = "fallback", !.by = "none"]
  OBVIOUS
<1>8. /\ q \in Requests /\ q.pc = "fallback" /\ q.frames = m.frames /\ q.kind = r.kind
      /\ q.by = "none" /\ q.calm = r.calm /\ q.misled = r.misled /\ q.dup = r.dup
  BY <1>6, <1>7 DEF Requests
<1>9. /\ Len(q.frames) = Len(r.frames) /\ Req!Top(q) = g
      /\ Hops(r) => Outer(q) = Outer(r) /\ Inner(q) = g
      /\ ~Hops(r) => Outer(q) = g /\ q.frames = <<g>>
      /\ Hops(q) <=> Hops(r)
  BY <1>6, <1>8 DEF Req!Top, Outer, Inner, Hops
<1>10. /\ ~Hops(r) => f = Outer(r)
       /\ Hops(r) => f = Inner(r)
  BY <1>1, <1>2, TopFacts DEF Hops
<1>11. /\ f.d.record => f.d.ab
       /\ r.kind # "page"
       /\ Hops(r) => (Outer(r).d.record => Outer(r).d.ab)
  BY <1>1, <1>2, <1>10, TopFacts DEF Good, FramesOK, Outer, Inner, Hops
<1>12. \A i \in DOMAIN q.frames : q.frames[i].d.record => q.frames[i].d.ab
  <2>1. DOMAIN q.frames = 1 .. Len(q.frames)
    BY <1>6, <1>8
  <2>2. CASE Hops(r)
    BY <1>4, <1>8, <1>9, <1>11, <2>1, <2>2 DEF Hops, Outer, Inner
  <2>3. CASE ~Hops(r)
    BY <1>1, <1>4, <1>8, <1>9, <1>11, <2>1, <2>3 DEF Hops, Outer
  <2>. QED  BY <2>2, <2>3
<1>13. FramesOK(q)
  BY <1>1, <1>4, <1>8, <1>9, <1>10, <1>11, <1>12 DEF FramesOK, Good
<1>14. Once(q, cs)
  BY <1>8, <1>9 DEF Once, Good
<1>15. CalmOK(q)
  BY <1>4, <1>8, <1>9, <1>10, <1>11 DEF CalmOK, Good
<1>16. Least(q, cs)
  BY <1>8 DEF Least
<1>. QED  BY <1>2, <1>3, <1>5, <1>7, <1>8, <1>13, <1>14, <1>15, <1>16 DEF Good, Req!None

(* An answer is recorded by the frame it came to, unless the peer did. *)
LEMMA AnswerKeeps ==
  ASSUME RequestsTyped, NEW r \in Requests, NEW cs \in Seq(Records), Good(r, cs),
         r.pc = "answer", NEW f \in Frames, f = Req!Top(r),
         NEW cs2, cs2 = IF f.fb THEN cs ELSE Req!abRecordServed(f, f.on, cs)
  PROVE  /\ cs2 \in Seq(Records)
         /\ ~r.misled /\ ~r.dup => /\ Len(cs2) <= 1
                                   /\ Hops(r) /\ cs2 # <<>> => Inner(r).d.record
         /\ r.calm /\ ~r.dup /\ r.by # "none" /\ r.kind = "page" /\ Outer(r).d.record
              => Len(cs2) = 1
<1>1. Len(r.frames) \in 1 .. 2 /\ Len(<<>>) = 0
  BY DEF Good, FramesOK
<1>2. /\ Hops(r) => f = Inner(r)
      /\ ~Hops(r) => f = Outer(r) /\ Len(r.frames) = 1
      /\ f.d.record => f.d.ab
      /\ r.kind = "page" => ~f.fb
  <2>1. /\ Hops(r) => f = Inner(r)
        /\ ~Hops(r) => f = Outer(r) /\ Len(r.frames) = 1
    BY <1>1, TopFacts DEF Hops
  <2>2. DOMAIN r.frames = 1 .. Len(r.frames)
    BY <1>1, TopFacts
  <2>. QED  BY <1>1, <2>1, <2>2 DEF Good, FramesOK, Hops, Outer, Inner
<1>3. PICK c : c = Req!abRecordServed(f, f.on, cs)
  OBVIOUS
<1>4. /\ c \in Seq(Records)
      /\ c = cs \/ (f.d.record /\ ~Req!peerRuns(f, f.on) /\ Len(c) = Len(cs) + 1)
      /\ f.d.ab /\ f.d.record /\ ~Req!Learned(f.on) /\ ~Req!abFrozen(phase[f.at])
           => Len(c) = Len(cs) + 1
  BY <1>3, ServedFacts
<1>5. cs2 \in Seq(Records)
  BY <1>3, <1>4
<1>6. ASSUME ~r.misled, ~r.dup
      PROVE  /\ Len(cs2) <= 1
             /\ Hops(r) /\ cs2 # <<>> => Inner(r).d.record
  <2>1. /\ Len(cs) <= 1 /\ (Hops(r) => cs = <<>>)
        /\ ~Hops(r) /\ cs # <<>> => f.fb \/ Req!peerRuns(f, f.on)
    BY <1>2, <1>6 DEF Good, Once
  <2>2. CASE f.fb
    <3>1. cs2 = cs
      BY <2>2
    <3>. QED  BY <2>1, <3>1
  <2>3. CASE ~f.fb
    <3>1. cs2 = c
      BY <1>3, <2>3
    <3>2. CASE c = cs
      BY <2>1, <3>1, <3>2
    <3>3. CASE f.d.record /\ ~Req!peerRuns(f, f.on) /\ Len(c) = Len(cs) + 1
      <4>1. cs = <<>>
        BY <2>1, <2>3, <3>3
      <4>2. Len(c) = 1
        BY <1>1, <3>3, <4>1
      <4>3. Hops(r) => Inner(r).d.record
        BY <1>2, <3>3, Zenon
      <4>4. Len(cs2) <= 1
        <5>1. Len(cs2) = 1
          BY <3>1, <4>2, Zenon
        <5>2. 1 <= 1
          OBVIOUS
        <5>. QED  BY <5>1, <5>2, Zenon
      <4>. QED  BY <4>3, <4>4, Zenon
    <3>. QED  BY <1>4, <3>2, <3>3
  <2>. QED  BY <2>2, <2>3
<1>7. ASSUME r.calm, ~r.dup, r.by # "none", r.kind = "page", Outer(r).d.record
      PROVE  Len(cs2) = 1
  <2>1. ~f.fb /\ cs2 = c
    BY <1>2, <1>3, <1>7
  <2>2. /\ Req!Agreed /\ ~r.misled /\ ~Req!abFrozen(phase[Outer(r).at])
        /\ Hops(r) => Inner(r).d.record
    BY <1>7 DEF Good, CalmOK
  <2>3. CASE Hops(r)
    <3>1. cs = <<>>
      BY <1>7, <2>2, <2>3 DEF Good, Once
    <3>2. ~Req!Learned(f.on) /\ f.at = Req!Peer(Outer(r).at)
      BY <1>2, <2>3 DEF Good, FramesOK
    <3>3. Outer(r).at \in Req!Proxies
      BY <1>1, TopFacts DEF Frames
    <3>4. phase[f.at] = phase[Outer(r).at]
      BY <2>2, <3>2, <3>3 DEF Req!Agreed, Req!Peer, Req!Proxies
    <3>5. f.d.ab /\ f.d.record
      BY <1>2, <2>2, <2>3
    <3>6. Len(c) = Len(cs) + 1
      BY <1>4, <2>2, <3>2, <3>4, <3>5
    <3>. QED  BY <1>1, <2>1, <3>1, <3>6
  <2>4. CASE ~Hops(r) /\ Req!Learned(f.on)
    <3>1. Len(cs) = 1
      BY <1>2, <1>7, <2>4 DEF Good, Least
    <3>2. cs # <<>>
      <4>1. 1 # 0
        OBVIOUS
      <4>. QED  BY <1>1, <3>1, <4>1, Zenon
    <3>3. Req!peerRuns(f, f.on)
      BY <1>2, <1>7, <2>1, <2>2, <2>4, <3>2 DEF Good, Once
    <3>. QED  BY <1>4, <2>1, <3>1, <3>3
  <2>5. CASE ~Hops(r) /\ ~Req!Learned(f.on)
    <3>1. ~Req!peerRuns(f, f.on)
      BY <2>5 DEF Req!peerRuns
    <3>2. cs = <<>>
      BY <1>2, <1>7, <2>1, <2>2, <2>5, <3>1 DEF Good, Once
    <3>3. f = Outer(r) /\ f.d.ab /\ f.d.record
      BY <1>2, <1>7, <2>5
    <3>4. Len(c) = Len(cs) + 1
      BY <1>4, <2>2, <2>5, <3>3
    <3>. QED  BY <1>1, <2>1, <3>2, <3>4
  <2>. QED  BY <2>3, <2>4, <2>5
<1>. QED  BY <1>5, <1>6, <1>7

LEMMA ReturnKeeps ==
  ASSUME RequestInv, NEW s \in Session, Req!Return(s)
  PROVE  RequestInv'
<1>1. PICK r \in Requests, cs \in Seq(Records) : r = req[s] /\ cs = counts[s]
  BY DEF RequestInv, RequestsTyped
<1>2. Good(r, cs) /\ r.pc = "answer"
  BY <1>1 DEF RequestInv, Req!Return
<1>3. Len(r.frames) \in 1 .. 2
  BY <1>2 DEF Good, FramesOK
<1>4. PICK f \in Frames : f = Req!Top(r)
  BY <1>3, TopFacts
<1>5. UNCHANGED <<has, view, phase, pin>> /\ pin' \in [Session -> Pins]
  BY DEF Req!Return, RequestInv, RequestsTyped
<1>6. CASE ~f.fb /\ Req!StaticRetry(r, f) /\ r.code = "404"
  <2>1. PICK q : q = [Req!SetTop(r, [f EXCEPT !.fb = TRUE]) EXCEPT !.pc = "fallback",
                                                                  !.by = Req!None]
    OBVIOUS
  <2>2. req' = [req EXCEPT ![s] = q] /\ UNCHANGED counts
    BY <1>1, <1>4, <1>6, <2>1 DEF Req!Return
  <2>3. Req!Top(r).d.static
    BY <1>4, <1>6 DEF Req!StaticRetry
  <2>4. q \in Requests /\ Good(q, cs)
    BY <1>2, <1>4, <2>1, <2>3, RetryKeeps
  <2>5. counts' = [counts EXCEPT ![s] = cs]
    BY <1>1, <2>2 DEF RequestInv, RequestsTyped
  <2>. QED  BY <1>5, <2>2, <2>4, <2>5, SessionKeeps
<1>7. CASE ~(~f.fb /\ Req!StaticRetry(r, f) /\ r.code = "404")
  <2>1. PICK cs2 : cs2 = IF f.fb THEN cs ELSE Req!abRecordServed(f, f.on, cs)
    OBVIOUS
  <2>2. PICK q : q = Req!Pop(r, r.code)
    OBVIOUS
  <2>3. req' = [req EXCEPT ![s] = q]
    BY <1>1, <1>4, <1>7, <2>2 DEF Req!Return
  <2>4. counts' = [counts EXCEPT ![s] = cs2]
    BY <1>1, <1>4, <1>7, <2>1 DEF Req!Return
  <2>5. /\ cs2 \in Seq(Records)
        /\ ~r.misled /\ ~r.dup => /\ Len(cs2) <= 1
                                  /\ Hops(r) /\ cs2 # <<>> => Inner(r).d.record
        /\ r.calm /\ ~r.dup /\ r.by # "none" /\ r.kind = "page" /\ Outer(r).d.record
             => Len(cs2) = 1
    BY <1>2, <1>4, <2>1, AnswerKeeps DEF RequestInv
  <2>6. r.code \in {"none", "ok", "404", "502", "503"}
    BY DEF Requests
  <2>7. q \in Requests /\ Good(q, cs2)
    BY <1>2, <2>2, <2>5, <2>6, PopKeeps
  <2>. QED  BY <1>5, <2>3, <2>4, <2>5, <2>7, SessionKeeps
<1>. QED  BY <1>6, <1>7

(* What ends in a failure: cs2 holds the transport failure, if it counts. *)
LEMMA FailureKeeps ==
  ASSUME RequestsTyped, NEW r \in Requests, NEW cs \in Seq(Records), Good(r, cs),
         r.pc \in {"pick", "sent", "answer"}, r.by = "none", r.pc = "answer" => r.dup,
         NEW f \in Frames, f = Req!Top(r), ~f.fb, NEW code \in {"502", "503"},
         NEW q, q = Req!Pop(r, code), NEW cs2, cs2 = Req!TransportRecorded(f, cs)
  PROVE  q \in Requests /\ cs2 \in Seq(Records) /\ Good(q, cs2)
<1>1. Len(r.frames) \in 1 .. 2 /\ Len(<<>>) = 0
  BY DEF Good, FramesOK
<1>2. /\ Hops(r) => f = Inner(r)
      /\ ~Hops(r) => f = Outer(r) /\ Len(r.frames) = 1
  BY <1>1, TopFacts DEF Hops
<1>3. /\ cs2 \in Seq(Records)
      /\ cs2 = cs \/ (f.d.record /\ Len(cs2) = Len(cs) + 1)
  BY TransportFacts
<1>4. ASSUME ~r.misled, ~r.dup
      PROVE  /\ Len(cs2) <= 1
             /\ Hops(r) /\ cs2 # <<>> => Inner(r).d.record
  <2>1. cs = <<>>
    BY <1>2, <1>4 DEF Good, Once
  <2>2. CASE cs2 = cs
    BY <1>1, <2>1, <2>2
  <2>3. CASE f.d.record /\ Len(cs2) = Len(cs) + 1
    <3>1. Len(cs2) = 1
      BY <1>1, <2>1, <2>3
    <3>2. Hops(r) => Inner(r).d.record
      BY <1>2, <2>3, Zenon
    <3>. QED  BY <3>1, <3>2
  <2>. QED  BY <1>3, <2>2, <2>3
<1>. QED  BY <1>3, <1>4, PopKeeps

LEMMA FailedKeeps ==
  ASSUME RequestInv, NEW s \in Session, NEW r \in Requests, NEW cs \in Seq(Records),
         cs = counts[s], Good(r, cs), r.pc \in {"sent", "answer"}, r.by = "none",
         r.pc = "answer" => r.dup, NEW f \in Frames, f = Req!Top(r), Req!Failed(s, r, f, cs)
  PROVE  RequestInv'
<1>1. UNCHANGED <<has, view, phase, pin>> /\ pin' \in [Session -> Pins]
  BY DEF Req!Failed, RequestInv, RequestsTyped
<1>2. CASE f.fb
  <2>1. PICK q : q = Req!Pop(r, "404")
    OBVIOUS
  <2>2. req' = [req EXCEPT ![s] = q] /\ counts' = [counts EXCEPT ![s] = cs]
    BY <1>2, <2>1 DEF Req!Failed
  <2>3. ~r.misled /\ ~r.dup => /\ Len(cs) <= 1
                               /\ Hops(r) /\ cs # <<>> => Inner(r).d.record
    BY DEF Good, Once
  <2>4. q \in Requests /\ Good(q, cs)
    BY <2>1, <2>3, PopKeeps
  <2>. QED  BY <1>1, <2>2, <2>4, SessionKeeps
<1>3. CASE ~f.fb /\ r.replay
  <2>1. PICK q : q = [r EXCEPT !.pc = "pick"]
    OBVIOUS
  <2>2. req' = [req EXCEPT ![s] = q] /\ counts' = [counts EXCEPT ![s] = cs]
    BY <1>3, <2>1 DEF Req!Failed
  <2>3. /\ q \in Requests /\ q.pc = "pick" /\ q.frames = r.frames /\ q.kind = r.kind
        /\ q.by = "none" /\ q.calm = r.calm /\ q.misled = r.misled /\ q.dup = r.dup
    BY <2>1 DEF Requests
  <2>4. /\ Outer(q) = Outer(r) /\ Inner(q) = Inner(r) /\ (Hops(q) <=> Hops(r))
        /\ Req!Top(q) = f
    BY <2>3 DEF Outer, Inner, Hops, Req!Top
  <2>5. FramesOK(q)
    BY <1>3, <2>3, <2>4 DEF Good, FramesOK
  <2>6. Once(q, cs)
    BY <2>3, <2>4 DEF Good, Once
  <2>7. CalmOK(q)
    BY <2>3, <2>4 DEF Good, CalmOK
  <2>8. Least(q, cs)
    BY <2>3 DEF Least
  <2>. QED  BY <1>1, <2>2, <2>3, <2>5, <2>6, <2>7, <2>8, SessionKeeps DEF Good
<1>4. CASE ~f.fb /\ ~r.replay
  <2>1. PICK q, cs2 : q = Req!Pop(r, "502") /\ cs2 = Req!TransportRecorded(f, cs)
    OBVIOUS
  <2>2. req' = [req EXCEPT ![s] = q] /\ counts' = [counts EXCEPT ![s] = cs2]
    BY <1>4, <2>1 DEF Req!Failed
  <2>3. q \in Requests /\ cs2 \in Seq(Records) /\ Good(q, cs2)
    BY <1>4, <2>1, FailureKeeps DEF RequestInv
  <2>. QED  BY <1>1, <2>2, <2>3, SessionKeeps
<1>. QED  BY <1>2, <1>3, <1>4

LEMMA FailKeeps ==
  ASSUME RequestInv, NEW s \in Session, Req!Fail(s)
  PROVE  RequestInv'
<1>1. PICK r \in Requests, cs \in Seq(Records) : r = req[s] /\ cs = counts[s]
  BY DEF RequestInv, RequestsTyped
<1>2. Good(r, cs) /\ r.pc = "sent"
  BY <1>1 DEF RequestInv, Req!Fail
<1>3. Len(r.frames) \in 1 .. 2 /\ r.by = "none"
  BY <1>2 DEF Good, FramesOK, Least
<1>4. PICK f \in Frames : f = Req!Top(r)
  BY <1>3, TopFacts
<1>5. Req!Failed(s, r, f, cs)
  BY <1>1, <1>4 DEF Req!Fail
<1>. QED  BY <1>1, <1>2, <1>3, <1>4, <1>5, FailedKeeps

LEMMA LoseAnswerKeeps ==
  ASSUME RequestInv, NEW s \in Session, Req!LoseAnswer(s)
  PROVE  RequestInv'
<1>1. PICK r \in Requests, cs \in Seq(Records) : r = req[s] /\ cs = counts[s]
  BY DEF RequestInv, RequestsTyped
<1>2. Good(r, cs) /\ r.pc = "answer" /\ Len(r.frames) = 1
  BY <1>1 DEF RequestInv, Req!LoseAnswer
<1>3. PICK f \in Frames : f = Req!Top(r)
  BY <1>2, TopFacts
<1>4. PICK q : q = [r EXCEPT !.dup = TRUE, !.by = Req!None]
  OBVIOUS
<1>5. /\ q \in Requests /\ q.pc = r.pc /\ q.frames = r.frames /\ q.kind = r.kind
      /\ q.by = "none" /\ q.calm = r.calm /\ q.misled = r.misled /\ q.dup
  BY <1>4 DEF Requests, Req!None
<1>6. /\ Outer(q) = Outer(r) /\ Inner(q) = Inner(r) /\ ~Hops(q) /\ ~Hops(r)
      /\ Req!Top(q) = f
  <2>1. Outer(q) = Outer(r) /\ Inner(q) = Inner(r) /\ Req!Top(q) = Req!Top(r)
    BY <1>5 DEF Outer, Inner, Req!Top
  <2>2. ~Hops(q) /\ ~Hops(r)
    <3>1. Len(r.frames) = 1 /\ Len(q.frames) = 1
      BY <1>2, <1>5, Zenon
    <3>. QED  BY <3>1 DEF Hops
  <2>. QED  BY <1>3, <2>1, <2>2
<1>7. FramesOK(q)
  BY <1>2, <1>5, <1>6 DEF Good, FramesOK
<1>8. Once(q, cs) /\ Least(q, cs)
  BY <1>2, <1>5 DEF Good, Once, Least
<1>9. CalmOK(q)
  BY <1>2, <1>5, <1>6 DEF Good, CalmOK
<1>10. Req!Failed(s, q, f, cs)
  BY <1>1, <1>3, <1>4 DEF Req!LoseAnswer
<1>. QED  BY <1>1, <1>2, <1>5, <1>6, <1>7, <1>8, <1>9, <1>10, FailedKeeps DEF Good

LEMMA GiveUpKeeps ==
  ASSUME RequestInv, NEW s \in Session, Req!GiveUp(s)
  PROVE  RequestInv'
<1>1. PICK r \in Requests, cs \in Seq(Records) : r = req[s] /\ cs = counts[s]
  BY DEF RequestInv, RequestsTyped
<1>2. Good(r, cs) /\ r.pc = "pick"
  BY <1>1 DEF RequestInv, Req!GiveUp
<1>3. Len(r.frames) \in 1 .. 2 /\ r.by = "none"
  BY <1>2 DEF Good, FramesOK, Least
<1>4. PICK f \in Frames : f = Req!Top(r)
  BY <1>3, TopFacts
<1>5. ~f.fb
  BY <1>2, <1>4 DEF Good, FramesOK
<1>6. PICK q, cs2 : q = Req!Pop(r, "503") /\ cs2 = Req!TransportRecorded(f, cs)
  OBVIOUS
<1>7. req' = [req EXCEPT ![s] = q] /\ counts' = [counts EXCEPT ![s] = cs2]
  BY <1>1, <1>4, <1>6 DEF Req!GiveUp
<1>8. q \in Requests /\ cs2 \in Seq(Records) /\ Good(q, cs2)
  BY <1>2, <1>3, <1>4, <1>5, <1>6, FailureKeeps DEF RequestInv
<1>9. UNCHANGED <<has, view, phase>> /\ pin' \in [Session -> Pins]
  BY DEF Req!GiveUp, RequestInv, RequestsTyped
<1>. QED  BY <1>7, <1>8, <1>9, SessionKeeps

LEMMA IdleGood == Req!Idle \in Requests /\ <<>> \in Seq(Records) /\ Good(Req!Idle, <<>>)
<1>1. Req!Idle \in Requests
  BY DEF Req!Idle, Req!None, Requests, Maybe
<1>2. /\ Req!Idle.pc = "idle" /\ Req!Idle.frames = <<>> /\ Req!Idle.by = "none"
      /\ Len(<<>>) = 0 /\ DOMAIN <<>> = {}
  BY DEF Req!Idle, Req!None
<1>3. ~Hops(Req!Idle)
  BY <1>2 DEF Hops
<1>4. FramesOK(Req!Idle)
  BY <1>2, <1>3 DEF FramesOK
<1>5. Once(Req!Idle, <<>>) /\ CalmOK(Req!Idle) /\ Least(Req!Idle, <<>>)
  BY <1>2, <1>3 DEF Once, CalmOK, Least
<1>. QED  BY <1>1, <1>4, <1>5 DEF Good

LEMMA NextRequestKeeps ==
  ASSUME RequestInv, NEW s \in Session, NEW keep \in BOOLEAN, Req!NextRequest(s, keep)
  PROVE  RequestInv'
<1>1. PICK q, cs : q = Req!Idle /\ cs = <<>>
  OBVIOUS
<1>2. q \in Requests /\ cs \in Seq(Records) /\ Good(q, cs)
  BY <1>1, IdleGood
<1>3. /\ req' = [req EXCEPT ![s] = q] /\ counts' = [counts EXCEPT ![s] = cs]
      /\ UNCHANGED <<has, view, phase>>
  BY <1>1 DEF Req!NextRequest
<1>4. pin' \in [Session -> Pins]
  <2>1. Req!NoPin \in Pins
    BY DEF Req!NoPin, Req!None, Pins, Maybe
  <2>. QED  BY <2>1 DEF Req!NextRequest, RequestInv, RequestsTyped
<1>. QED  BY <1>2, <1>3, <1>4, SessionKeeps

(* Whatever moves beside the requests ends the calm of all of them. *)
LEMMA ChangeKeeps ==
  ASSUME RequestInv, Req!Change,
         has' \in [Req!Proxies -> SUBSET Backend], view' \in [Req!Proxies -> Views],
         phase' \in [Req!Proxies -> Phases]
  PROVE  RequestInv'
<1>1. \A s \in Session : /\ req[s] \in Requests /\ Good(req[s], counts[s])
                          /\ req'[s] = [req[s] EXCEPT !.calm = FALSE]
                          /\ counts'[s] = counts[s]
  BY DEF RequestInv, RequestsTyped, Req!Change
<1>2. \A r \in Requests : [r EXCEPT !.calm = FALSE] \in Requests
  BY DEF Requests
<1>3. req' \in [Session -> Requests]
  BY <1>1, <1>2 DEF Req!Change
<1>4. RequestsTyped'
  BY <1>3 DEF RequestInv, RequestsTyped, Req!Change
<1>5. ASSUME NEW s \in Session PROVE Good(req[s], counts[s])'
  <2>1. PICK r \in Requests, cs \in Seq(Records) : r = req[s] /\ cs = counts[s]
    BY <1>1 DEF RequestInv, RequestsTyped
  <2>2. PICK q : q = [r EXCEPT !.calm = FALSE]
    OBVIOUS
  <2>3. /\ q.pc = r.pc /\ q.frames = r.frames /\ q.kind = r.kind
        /\ q.by = r.by /\ ~q.calm /\ q.misled = r.misled /\ q.dup = r.dup
    BY <2>2 DEF Requests
  <2>4. /\ Outer(q) = Outer(r) /\ Inner(q) = Inner(r) /\ (Hops(q) <=> Hops(r))
        /\ Req!Top(q) = Req!Top(r)
    BY <2>3 DEF Outer, Inner, Hops, Req!Top
  <2>5. Good(r, cs) /\ req'[s] = q /\ counts'[s] = cs
    BY <1>1, <2>1, <2>2
  <2>6. FramesOK(q) /\ Once(q, cs) /\ CalmOK(q) /\ Least(q, cs)
    <3>1. FramesOK(q)
      BY <2>3, <2>4, <2>5 DEF Good, FramesOK
    <3>2. Once(q, cs)
      BY <2>3, <2>4, <2>5 DEF Good, Once
    <3>3. Least(q, cs) /\ CalmOK(q)
      BY <2>3, <2>5 DEF Good, Least, CalmOK
    <3>. QED  BY <3>1, <3>2, <3>3
  <2>7. Good(q, cs)'
    BY <2>3, <2>6, GoodStays DEF Good
  <2>. QED  BY <2>5, <2>7, GoodAfter
<1>. QED  BY <1>4, <1>5 DEF RequestInv

LEMMA RequestInit == Req!Init => RequestInv
<1>. SUFFICES ASSUME Req!Init PROVE RequestInv
  OBVIOUS
<1>1. has \in [Req!Proxies -> SUBSET Backend] /\ view \in [Req!Proxies -> Views]
  BY DEF Req!Init, Views
<1>2. phase \in [Req!Proxies -> Phases]
  BY DEF Req!Init, Phases
<1>3. pin \in [Session -> Pins]
  <2>1. Req!NoPin \in Pins
    BY DEF Req!NoPin, Req!None, Pins, Maybe
  <2>. QED  BY <2>1 DEF Req!Init
<1>4. req \in [Session -> Requests] /\ counts \in [Session -> Seq(Records)]
  BY IdleGood DEF Req!Init
<1>5. ASSUME NEW s \in Session PROVE Good(req[s], counts[s])
  <2>1. req[s] = Req!Idle /\ counts[s] = <<>>
    BY DEF Req!Init
  <2>. QED  BY <2>1, IdleGood
<1>. QED  BY <1>1, <1>2, <1>3, <1>4, <1>5 DEF RequestInv, RequestsTyped

LEMMA RequestNext == RequestInv /\ [Req!Next]_(Req!vars) => RequestInv'
<1>. SUFFICES ASSUME RequestInv, [Req!Next]_(Req!vars) PROVE RequestInv'
  OBVIOUS
<1>1. ASSUME NEW s \in Session, NEW x \in Req!Proxies, NEW kind \in Kinds,
             NEW replay \in BOOLEAN, NEW ask \in {Req!None, "A", "B"},
             Req!Send(s, x, kind, replay, ask)
      PROVE  RequestInv'
  BY <1>1, SendKeeps
<1>2. ASSUME NEW s \in Session, Req!Attempt(s) PROVE RequestInv'
  BY <1>2, AttemptKeeps
<1>3. ASSUME NEW s \in Session, NEW code \in {"ok", "404"}, Req!Serve(s, code) PROVE RequestInv'
  BY <1>3, ServeKeeps
<1>4. ASSUME NEW s \in Session, Req!Return(s) PROVE RequestInv'
  BY <1>4, ReturnKeeps
<1>5. ASSUME NEW s \in Session, Req!Fallback(s) PROVE RequestInv'
  BY <1>5, FallbackKeeps
<1>6. ASSUME NEW s \in Session, Req!Fail(s) PROVE RequestInv'
  BY <1>6, FailKeeps
<1>7. ASSUME NEW s \in Session, Req!LoseAnswer(s) PROVE RequestInv'
  BY <1>7, LoseAnswerKeeps
<1>8. ASSUME NEW s \in Session, Req!GiveUp(s) PROVE RequestInv'
  BY <1>8, GiveUpKeeps
<1>9. ASSUME NEW s \in Session, NEW keep \in BOOLEAN, Req!NextRequest(s, keep)
      PROVE  RequestInv'
  BY <1>9, NextRequestKeeps
<1>10. ASSUME NEW x \in Req!Proxies, NEW ph \in Req!Phase, Req!SetPhase(x, ph)
       PROVE  RequestInv'
  <2>1. phase' \in [Req!Proxies -> Phases]
    BY <1>10 DEF Req!SetPhase, Req!Phase, Phases, RequestInv, RequestsTyped
  <2>. QED  BY <1>10, <2>1, ChangeKeeps DEF Req!SetPhase, RequestInv, RequestsTyped
<1>11. ASSUME NEW x \in Req!Proxies, NEW b \in Backend, Req!SetContainer(x, b)
       PROVE  RequestInv'
  <2>1. has' \in [Req!Proxies -> SUBSET Backend]
    BY <1>11 DEF Req!SetContainer, RequestInv, RequestsTyped
  <2>. QED  BY <1>11, <2>1, ChangeKeeps DEF Req!SetContainer, RequestInv, RequestsTyped
<1>12. ASSUME NEW x \in Req!Proxies, NEW arrives \in BOOLEAN, Req!Sync(x, arrives)
       PROVE  RequestInv'
  <2>1. Req!Advertised(Req!Peer(x)) \in Views /\ Req!NoView \in Views
    BY DEF Req!Advertised, Req!Runs, Req!NoView, Views, RequestInv, RequestsTyped, Req!Peer,
           Req!Proxies
  <2>2. view' \in [Req!Proxies -> Views]
    BY <1>12, <2>1 DEF Req!Sync, RequestInv, RequestsTyped
  <2>. QED  BY <1>12, <2>2, ChangeKeeps DEF Req!Sync, RequestInv, RequestsTyped
<1>13. ASSUME NEW x \in Req!Proxies, NEW t \in sick[x], Req!Recover(x, t) PROVE RequestInv'
  BY <1>13, ChangeKeeps DEF Req!Recover, RequestInv, RequestsTyped
<1>14. CASE UNCHANGED Req!vars
  <2>1. UNCHANGED <<has, view, phase, pin, req, counts>>
    BY <1>14 DEF Req!vars
  <2>2. ASSUME NEW s \in Session PROVE Good(req[s], counts[s])'
    <3>1. PICK r, cs : r = req[s] /\ cs = counts[s]
      OBVIOUS
    <3>2. Good(r, cs)'
      BY <2>1, <3>1, GoodStays DEF RequestInv
    <3>. QED  BY <2>1, <3>1, <3>2, GoodAfter
  <2>. QED  BY <2>1, <2>2 DEF RequestInv, RequestsTyped
<1>. QED  BY <1>1, <1>2, <1>3, <1>4, <1>5, <1>6, <1>7, <1>8, <1>9, <1>10, <1>11, <1>12, <1>13,
             <1>14 DEF Req!Next

(***************************************************************************)
(* For every set of containers and sessions: a request under test is       *)
(* counted at most once over both proxies while the forwarder's view of    *)
(* its peer is current and no answer is lost, whatever fails, comes and    *)
(* goes; and a counted session's page that a container answered is counted *)
(* if nothing moved meanwhile (abRecordServed, the hop protocol).          *)
(***************************************************************************)
THEOREM RequestCountedOnce == Req!Spec => []Req!CountedOnce
<1>1. RequestInv => Req!CountedOnce
  <2>. SUFFICES ASSUME RequestInv, NEW s \in Session, req[s].pc = "done"
               PROVE  /\ ~req[s].misled /\ ~req[s].dup => Len(counts[s]) <= 1
                      /\ (/\ req[s].calm /\ ~req[s].dup /\ req[s].frames[1].d.record
                          /\ req[s].by # "none" /\ ~req[s].frames[1].fb /\ req[s].kind = "page")
                           => Len(counts[s]) = 1
    BY DEF Req!CountedOnce, Req!Ended, Req!Assignment, Req!None
  <2>1. PICK r, cs : r = req[s] /\ cs = counts[s]
    OBVIOUS
  <2>2. Good(r, cs) /\ r.pc = "done"
    BY <2>1 DEF RequestInv
  <2>3. ~r.misled /\ ~r.dup => Len(cs) <= 1
    BY <2>2 DEF Good, Once
  <2>4. (/\ r.calm /\ ~r.dup /\ r.frames[1].d.record
         /\ r.by # "none" /\ ~r.frames[1].fb /\ r.kind = "page") => Len(cs) = 1
    BY <2>2 DEF Good, Least, FramesOK, Outer
  <2>. QED  BY <2>1, <2>3, <2>4
<1>. QED  BY <1>1, RequestInit, RequestNext, PTL DEF Req!Spec
=============================================================================
