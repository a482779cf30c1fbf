---------------------------- MODULE StagesProofs ----------------------------
(***************************************************************************)
(* Staged rollouts, Rollout.tla: for any replicas, plans, faults and       *)
(* restarts, none ends half done, and capacity is kept meanwhile.          *)
(*                                                                         *)
(* The drain, Graceful.tla, at the end: for any requests and any timeout,  *)
(* no request escapes it and none is disturbed early.                      *)
(***************************************************************************)
EXTENDS Rollout, Graceful, SequenceTheorems, FiniteSetTheorems, WellFoundedInduction, TLAPS

-----------------------------------------------------------------------------
(* Rollout: operators                                                      *)

LEMMA MinIs ==
  ASSUME NEW S \in SUBSET Nat, S # {}
  PROVE  Min(S) \in S
<1>. DEFINE less == OpToRel(<, Nat)
<1>1. PICK m \in S : \A y \in S : ~ (<<y, m>> \in less)
  BY WFMin, NatLessThanWellFounded
<1>2. \A y \in S : ~ (y < m)
  BY <1>1 DEF OpToRel
<1>3. \A y \in S : m <= y
  BY <1>2
<1>. QED  BY <1>3 DEF Min

\* A share of the replicas is at least one of them and at most all.
LEMMA ShareBounds ==
  ASSUME NEW total \in Nat \ {0}, NEW pct \in 1 .. 100
  PROVE  /\ ceilPct(total, pct) \in 1 .. total
         /\ pct = 100 => ceilPct(total, pct) = total
         /\ \A more \in pct .. 100 : ceilPct(total, pct) <= ceilPct(total, more)
<1>1. \A a, b \in Nat : /\ a <= b => Max({a, b}) = b
                        /\ a >= b => Max({a, b}) = a
  BY DEF Max
<1>2. ASSUME NEW p \in 1 .. 100, NEW q \in p .. 100
      PROVE  total * p <= total * q
  BY <1>2
<1>3. \A p \in 1 .. 100 : total * p \in Nat /\ total * p <= total * 100
  BY <1>2
<1>4. \A p \in 1 .. 100 :
        /\ (total * p + 99) \div 100 \in 1 .. total
        /\ ceilPct(total, p) = (total * p + 99) \div 100
  <2>. TAKE p \in 1 .. 100
  <2>. DEFINE x == total * p
  <2>1. x \in Nat /\ x <= total * 100 /\ 1 <= x
    <3>1. total * 1 <= x
      BY <1>2
    <3>. QED  BY <1>3, <3>1
  <2>. HIDE DEF x
  <2>2. (x + 99) \div 100 \in 1 .. total
    BY <2>1
  <2>3. Max({(x + 99) \div 100, 1}) = (x + 99) \div 100
    BY <1>1, <2>2
  <2>. QED  BY <2>2, <2>3 DEF x, ceilPct
<1>5. pct = 100 => (total * pct + 99) \div 100 = total
  OBVIOUS
<1>6. \A more \in pct .. 100 : (total * pct + 99) \div 100 <= (total * more + 99) \div 100
  <2>. TAKE more \in pct .. 100
  <2>. DEFINE x == total * pct
              y == total * more
  <2>1. x \in Nat /\ y \in Nat /\ x <= y
    BY <1>2, <1>3
  <2>. HIDE DEF x, y
  <2>2. (x + 99) \div 100 <= (y + 99) \div 100
    BY <2>1
  <2>. QED  BY <2>2 DEF x, y
<1>7. \A more \in pct .. 100 : more \in 1 .. 100
  OBVIOUS
<1>8. \A more \in pct .. 100 : ceilPct(total, pct) <= ceilPct(total, more)
  <2>. TAKE more \in pct .. 100
  <2>1. /\ ceilPct(total, pct) = (total * pct + 99) \div 100
        /\ ceilPct(total, more) = (total * more + 99) \div 100
    BY <1>4, <1>7, Zenon
  <2>2. (total * pct + 99) \div 100 <= (total * more + 99) \div 100
    BY <1>6, Zenon
  <2>. QED  BY <2>1, <2>2, Zenon
<1>9. /\ ceilPct(total, pct) \in 1 .. total
      /\ pct = 100 => ceilPct(total, pct) = total
  <2>1. /\ ceilPct(total, pct) = (total * pct + 99) \div 100
        /\ (total * pct + 99) \div 100 \in 1 .. total
    BY <1>4, Zenon
  <2>. QED  BY <1>5, <2>1, Zenon
<1>. QED  BY <1>8, <1>9, Zenon

-----------------------------------------------------------------------------
(* The inductive invariant, first part: who is at work, and what stays up  *)

Containers == [canary : BOOLEAN, ours : BOOLEAN, running : BOOLEAN, sick : BOOLEAN]

Works == [create : Nat, canary : BOOLEAN, gate : BOOLEAN, promote : SUBSET Id, swap : SUBSET Id,
          drop : SUBSET Id, onFail : {"stop", "ignore", "remember"}, failed : BOOLEAN]

\* The calls a job may have; no job scales live to nothing.
CallsOf(kind) ==
  {c \in [do : Special \cup {"scaleLive", "createCanary", "stage", "scaleCanary", "promote",
                             "discard"},
          n : Nat] :
     /\ c.do = "scaleLive" => c.n > 0
     /\ c.do = "startList" => kind = "start"
     /\ c.do = "health" => kind \in {"tick", "advance"}
     /\ c.do = "rollback" => kind \in {"rollback", "abort"}}

JobTyped(j) ==
  j \in [kind : Kinds, calls : Seq(CallsOf(j.kind)), work : Works, orig : Nat,
         steps : Plans \cup {<<>>}]

RolloutTyped ==
  /\ rollout \in [status : Statuses, idx : Nat, orig : Nat, steps : Plans \cup {<<>>},
                  why : {"", "promote", "unhealthy", "rollback"}]
  /\ rolloutActive => /\ rollout.steps \in Plans /\ rollout.idx \in 1 .. Len(rollout.steps)
                      /\ rollout.orig > 0 /\ rollout.why = ""

ContainersTyped == All \subseteq Id /\ ct \in [All -> Containers]

Typed ==
  /\ ContainersTyped
  /\ probed \in BOOLEAN
  /\ lock \in Actor \cup {Nobody}
  /\ RolloutTyped
  /\ job = [a \in Actor |-> job[a]] /\ \A a \in Actor : JobTyped(job[a])

\* What a job may be while the manager is in its state.
First(j, do) == j.calls = <<Call(do, 0)>> /\ j.work = NoWork
Waits == rollout.status = "awaiting-advance"

Fits(a, j) ==
  /\ j.kind = "idle" => j = Idle
  /\ j.kind \notin {"idle", "plain"} => lock = a
  /\ a = "ticker" => j.kind \in {"idle", "tick", "rollback"}
  /\ j.kind \in {"start", "plain"} => ~rolloutActive
  /\ j.kind = "tick" => Waits
  /\ j.kind \in {"rollback", "abort"} => rollout.status = "rolling-back"
  /\ j.kind \in {"advance", "promote"} => rolloutActive
  /\ j.kind = "start" => j.steps \in Plans /\ (First(j, "startList") \/ j.orig > 0)
  /\ j.kind = "advance" => First(j, "health") \/ ~atLastStep

\* A live container that scaleService would be the last to remove.
Stays(c) == ct[c].running \/ ~ct[c].ours
LiveServes == \E c \in Live : Stays(c)

\* What is left of a call leaves such a container, or is about to make one.
WorkOK(w) ==
  /\ w.promote \subseteq Canary /\ w.swap \subseteq Canary /\ w.drop \subseteq All
  /\ w.promote \cap w.swap = {}
  /\ w.create > 0 => ~w.gate /\ w.promote = {} /\ w.swap = {} /\ w.drop = {}
  /\ w.promote # {} \/ w.swap # {} => w.drop \subseteq Live
  /\ (\E c \in Live \ w.drop : Stays(c)) \/ (w.promote # {} /\ w.swap = {})

JobsFit == \A a \in Actor : Fits(a, job[a])
WorksOK == \A a \in Actor : WorkOK(job[a].work)
Base == Typed /\ LiveServes /\ JobsFit /\ WorksOK

-----------------------------------------------------------------------------
(* Containers                                                              *)

LEMMA SizesOf ==
  ASSUME RolloutAssumption, ContainersTyped
  PROVE  /\ IsFiniteSet(All) /\ IsFiniteSet(Live) /\ IsFiniteSet(Canary)
         /\ Cardinality(All) \in Nat /\ Cardinality(Live) \in Nat /\ Cardinality(Canary) \in Nat
         /\ Cardinality(All) = Cardinality(Live) + Cardinality(Canary)
         /\ Live \cup Canary = All /\ Live \cap Canary = {}
         /\ Cardinality(Live) = 0 <=> Live = {}
         /\ Cardinality(Canary) = 0 <=> Canary = {}
<1>1. IsFiniteSet(All)
  BY FS_Subset DEF ContainersTyped, RolloutAssumption
<1>2. Live \in SUBSET All /\ Canary \in SUBSET All
  BY DEF Live, Canary
<1>3. IsFiniteSet(Live) /\ IsFiniteSet(Canary)
  BY <1>1, <1>2, FS_Subset
<1>4. Live \cup Canary = All /\ Live \cap Canary = {}
  BY DEF Live, Canary
<1>5. Cardinality(Live \cup Canary)
        = Cardinality(Live) + Cardinality(Canary) - Cardinality(Live \cap Canary)
  BY <1>3, FS_Union
<1>6. Cardinality(Live) \in Nat /\ Cardinality(Canary) \in Nat /\ Cardinality({}) = 0
  BY <1>3, FS_CardinalityType, FS_EmptySet
<1>7. Cardinality(All) = Cardinality(Live) + Cardinality(Canary)
  <2>1. Cardinality(Live \cap Canary) = 0 /\ Cardinality(Live \cup Canary) = Cardinality(All)
    BY <1>4, <1>6, Zenon
  <2>. QED  BY <1>5, <1>6, <2>1
<1>8. /\ Cardinality(Live) = 0 <=> Live = {}
      /\ Cardinality(Canary) = 0 <=> Canary = {}
  BY <1>3, FS_EmptySet
<1>. QED  BY <1>1, <1>3, <1>4, <1>6, <1>7, <1>8

\* A new container.
LEMMA Added ==
  ASSUME RolloutAssumption, ContainersTyped, Id \ All # {}, NEW new \in Containers,
         ct' = With(Fresh, new)
  PROVE  /\ ContainersTyped'
         /\ \E f \in Id \ All :
              /\ All' = All \cup {f} /\ ct'[f] = new /\ \A c \in All : ct'[c] = ct[c]
              /\ new.canary => /\ Canary' = Canary \cup {f} /\ Live' = Live
                               /\ Cardinality(Canary') = Cardinality(Canary) + 1
              /\ ~new.canary => /\ Canary' = Canary /\ Live' = Live \cup {f}
                                /\ Cardinality(Live') = Cardinality(Live) + 1
<1>1. PICK f \in Id \ All : f = Fresh
  BY MinIs DEF Fresh, RolloutAssumption
<1>2. ct' = [x \in All \cup {f} |-> IF x = f THEN new ELSE ct[x]]
  BY <1>1 DEF With
<1>3. All' = All \cup {f} /\ ct'[f] = new /\ \A c \in All : ct'[c] = ct[c]
  BY <1>1, <1>2 DEF All
<1>4. ContainersTyped'
  <2>1. All' \subseteq Id
    BY <1>1, <1>3 DEF ContainersTyped
  <2>2. ct' \in [All \cup {f} -> Containers]
    BY <1>2 DEF ContainersTyped
  <2>. QED  BY <1>3, <2>1, <2>2 DEF ContainersTyped
<1>5. new.canary => Canary' = Canary \cup {f} /\ Live' = Live
  BY <1>1, <1>3 DEF Canary, Live
<1>6. ~new.canary => Canary' = Canary /\ Live' = Live \cup {f}
  BY <1>1, <1>3 DEF Canary, Live
<1>7. f \notin Live /\ f \notin Canary
  BY <1>1 DEF Live, Canary
<1>8. /\ Cardinality(Canary \cup {f}) = Cardinality(Canary) + 1
      /\ Cardinality(Live \cup {f}) = Cardinality(Live) + 1
  BY <1>7, SizesOf, FS_AddElement
<1>. QED  BY <1>3, <1>4, <1>5, <1>6, <1>8

\* One container less.
LEMMA Removed ==
  ASSUME RolloutAssumption, ContainersTyped, NEW c \in All, ct' = Without(c)
  PROVE  /\ ContainersTyped'
         /\ All' = All \ {c} /\ \A x \in All \ {c} : ct'[x] = ct[x]
         /\ Canary' = Canary \ {c} /\ Live' = Live \ {c}
<1>1. ct' = [x \in All \ {c} |-> ct[x]]
  BY DEF Without
<1>2. All' = All \ {c} /\ \A x \in All \ {c} : ct'[x] = ct[x]
  BY <1>1 DEF All
<1>3. ct' \in [All \ {c} -> Containers]
  BY <1>1 DEF ContainersTyped
<1>4. ContainersTyped'
  BY <1>2, <1>3 DEF ContainersTyped
<1>5. Canary' = Canary \ {c} /\ Live' = Live \ {c}
  BY <1>2 DEF Canary, Live
<1>. QED  BY <1>2, <1>4, <1>5

\* One that stays behind, stopped or running.
LEMMA Left ==
  ASSUME ContainersTyped, NEW c \in All, ct' \in {ct, Stopped(c)}
  PROVE  /\ ContainersTyped'
         /\ All' = All /\ Canary' = Canary /\ Live' = Live
         /\ \A x \in All \ {c} : ct'[x] = ct[x]
<1>1. CASE ct' = ct
  BY <1>1 DEF ContainersTyped, All, Canary, Live
<1>2. CASE ct' = Stopped(c)
  <2>1. ct' = [ct EXCEPT ![c].running = FALSE]
    BY <1>2 DEF Stopped
  <2>2. All' = All /\ \A x \in All \ {c} : ct'[x] = ct[x]
    BY <2>1 DEF All, ContainersTyped
  <2>3. ct[c] \in Containers /\ ct'[c] = [ct[c] EXCEPT !.running = FALSE]
    BY <2>1 DEF All, ContainersTyped
  <2>4. ct'[c] \in Containers /\ ct'[c].canary = ct[c].canary
    BY <2>3 DEF Containers
  <2>5. ct' \in [All -> Containers]
    BY <2>1, <2>2, <2>4 DEF ContainersTyped, All
  <2>6. Canary' = Canary
    BY <2>2, <2>4 DEF Canary
  <2>. QED  BY <2>2, <2>5, <2>6 DEF ContainersTyped, Live
<1>. QED  BY <1>1, <1>2

-----------------------------------------------------------------------------
(* Jobs                                                                    *)

LEMMA NoWorkOK ==
  /\ NoWork \in Works /\ JobTyped(Idle) /\ \A a \in Actor : Fits(a, Idle)
  /\ LiveServes => WorkOK(NoWork)
<1>1. NoWork \in Works
  BY DEF NoWork, Work, Works
<1>2. JobTyped(Idle)
  <2>1. <<>> \in Seq(CallsOf("idle"))
    OBVIOUS
  <2>. QED  BY <1>1, <2>1 DEF Idle, Job, JobTyped, Kinds
<1>3. \A a \in Actor : Fits(a, Idle)
  BY DEF Fits, Idle, Job
<1>4. LiveServes => WorkOK(NoWork)
  BY DEF LiveServes, WorkOK, NoWork, Work
<1>. QED  BY <1>1, <1>2, <1>3, <1>4

\* Operator and ticker are never at work together.
LEMMA OneAtWork ==
  ASSUME Base, NEW a \in Actor, job[a].kind # "idle"
  PROVE  \A b \in Actor \ {a} : job[b] = Idle
<1>1. \A b \in Actor : Fits(b, job[b])
  BY DEF Base, JobsFit
<1>2. SUFFICES ASSUME job["operator"].kind # "idle", job["ticker"].kind # "idle"
               PROVE  FALSE
  BY <1>1 DEF Actor, Fits
<1>3. job["ticker"].kind \in {"tick", "rollback"} /\ lock = "ticker" /\ rolloutActive
  BY <1>1, <1>2 DEF Actor, Fits, rolloutActive, Waits
<1>4. job["operator"].kind = "plain"
  BY <1>1, <1>2, <1>3 DEF Actor, Fits
<1>. QED  BY <1>1, <1>3, <1>4 DEF Actor, Fits

\* A step of one actor while the other is idle.
LEMMA StepKeepsBase ==
  ASSUME Base, NEW a \in Actor, \A b \in Actor \ {a} : job[b] = Idle,
         NEW j, JobTyped(j), job' = [job EXCEPT ![a] = j],
         Fits(a, j)', RolloutTyped', lock' \in Actor \cup {Nobody}, probed' = probed,
         ContainersTyped', LiveServes', WorkOK(j.work)'
  PROVE  Base'
<1>1. /\ job' = [b \in Actor |-> job'[b]] /\ job'[a] = j
      /\ \A b \in Actor \ {a} : job'[b] = Idle
  BY DEF Base, Typed
<1>2. \A b \in Actor : JobTyped(job'[b])
  BY <1>1, NoWorkOK
<1>3. Typed'
  BY <1>1, <1>2 DEF Base, Typed, JobTyped
<1>4. \A b \in Actor : Fits(b, Idle)'
  BY DEF Fits, Idle, Job
<1>5. JobsFit'
  BY <1>1, <1>4 DEF JobsFit
<1>6. WorkOK(NoWork)'
  BY DEF LiveServes, WorkOK, NoWork, Work
<1>7. Idle.work = NoWork
  BY DEF Idle, Job
<1>8. WorksOK'
  BY <1>1, <1>6, <1>7 DEF WorksOK
<1>. QED  BY <1>3, <1>5, <1>8 DEF Base

\* The manager is left alone.
LEMMA MoveKeepsBase ==
  ASSUME Base, NEW a \in Actor, job[a].kind # "idle",
         NEW j, JobTyped(j), Fits(a, j), SetJob(a, j), KeepManager, probed' = probed,
         ContainersTyped', LiveServes', WorkOK(j.work)'
  PROVE  Base'
<1>1. Fits(a, j)'
  BY DEF Fits, KeepManager, rolloutActive, Waits, atLastStep, First
<1>2. RolloutTyped'
  BY DEF KeepManager, Base, Typed, RolloutTyped, rolloutActive
<1>. QED
  BY <1>1, <1>2, OneAtWork, StepKeepsBase DEF SetJob, KeepManager, Base, Typed

\* A job ends, at its last call or, a check of the ticker, at its only one.
LEMMA EndKeepsBase ==
  ASSUME RolloutAssumption, Base, NEW a \in Actor, job[a].kind # "idle",
         NEW ok \in BOOLEAN, ok => job[a].calls = <<>> \/ job[a].kind = "tick", End(a, ok),
         probed' = probed, ContainersTyped', LiveServes'
  PROVE  Base'
<1>. DEFINE j == job[a]
            r == rollout
<1>1. JobTyped(j) /\ Fits(a, j) /\ RolloutTyped
  BY DEF Base, Typed, JobsFit
<1>2. rollout' = Outcome(j, ok)
  BY DEF End
<1>3. RolloutTyped'
  <2>1. CASE rollout' = r
    BY <1>1, <2>1 DEF RolloutTyped, rolloutActive
  <2>2. CASE j.kind = "start" /\ ok
    <3>1. rollout' = RolloutState("awaiting-advance", 1, j.orig, j.steps, "")
      BY <1>2, <2>2 DEF Outcome
    <3>2. j.calls = <<>> /\ j.steps \in Plans /\ j.orig \in Nat
      BY <1>1, <2>2 DEF Fits, JobTyped
    <3>3. j.orig > 0
      BY <1>1, <2>2, <3>2 DEF Fits, First
    <3>4. 1 \in 1 .. Len(j.steps)
      BY <3>2 DEF RolloutAssumption
    <3>. QED  BY <3>1, <3>2, <3>3, <3>4 DEF RolloutTyped, RolloutState, rolloutActive, Statuses
  <2>3. CASE j.kind = "advance" /\ ok
    <3>1. rollout' = RolloutState(r.status, r.idx + 1, r.orig, r.steps, r.why)
      BY <1>2, <2>3 DEF Outcome
    <3>2. j.calls = <<>> /\ rolloutActive
      BY <1>1, <2>3 DEF Fits
    <3>3. ~atLastStep
      BY <1>1, <2>3, <3>2 DEF Fits, First
    <3>4. r.steps \in Plans /\ r.idx \in 1 .. Len(r.steps) /\ r.orig > 0 /\ r.why = ""
      BY <1>1, <3>2 DEF RolloutTyped
    <3>5. r.steps \in Seq(1 .. 100)
      BY <3>4 DEF RolloutAssumption
    <3>6. r.idx + 1 \in Nat /\ r.idx + 1 \in 1 .. Len(r.steps)
      <4>1. Len(r.steps) \in Nat /\ r.idx # Len(r.steps)
        BY <3>3, <3>5 DEF atLastStep
      <4>2. \A n \in Nat : \A i \in 1 .. n : i # n => i + 1 \in Nat /\ i + 1 \in 1 .. n
        OBVIOUS
      <4>. QED  BY <3>4, <4>1, <4>2
    <3>7. r.status \in Statuses /\ r.orig \in Nat
      BY <1>1 DEF RolloutTyped
    <3>8. /\ rollout'.status = r.status /\ rollout'.idx = r.idx + 1 /\ rollout'.orig = r.orig
          /\ rollout'.steps = r.steps /\ rollout'.why = ""
      BY <3>1, <3>4 DEF RolloutState
    <3>9. rollout' \in [status : Statuses, idx : Nat, orig : Nat, steps : Plans \cup {<<>>},
                        why : {"", "promote", "unhealthy", "rollback"}]
      BY <3>1, <3>4, <3>6, <3>7 DEF RolloutState
    <3>. QED  BY <3>4, <3>6, <3>8, <3>9 DEF RolloutTyped
  <2>4. CASE \E status \in {"completed", "failed", "rolled-back"},
                why \in {"", "promote", "unhealthy", "rollback"} :
                rollout' = RolloutState(status, r.idx, r.orig, r.steps, why)
    <3>1. PICK status \in {"completed", "failed", "rolled-back"},
               why \in {"", "promote", "unhealthy", "rollback"} :
               rollout' = RolloutState(status, r.idx, r.orig, r.steps, why)
      BY <2>4
    <3>2. r.idx \in Nat /\ r.orig \in Nat /\ r.steps \in Plans \cup {<<>>}
      BY <1>1 DEF RolloutTyped
    <3>. QED  BY <3>1, <3>2 DEF RolloutTyped, RolloutState, rolloutActive, Statuses
  <2>5. CASE ~(j.kind = "start" /\ ok) /\ ~(j.kind = "advance" /\ ok)
             /\ j.kind \in {"promote", "rollback", "abort"}
    BY <1>2, <2>1, <2>4, <2>5 DEF Outcome, Promoted
  <2>6. CASE ~(j.kind = "start" /\ ok) /\ ~(j.kind = "advance" /\ ok)
             /\ j.kind \notin {"promote", "rollback", "abort"}
    BY <1>2, <2>1, <2>6 DEF Outcome
  <2>. QED  BY <2>2, <2>3, <2>5, <2>6
<1>4. Fits(a, Idle)'
  BY DEF Fits, Idle, Job
<1>5. lock' \in Actor \cup {Nobody}
  BY DEF End, Base, Typed
<1>6. WorkOK(Idle.work)'
  BY DEF LiveServes, WorkOK, Idle, Job, NoWork, Work
<1>. QED
  BY <1>3, <1>4, <1>5, <1>6, OneAtWork, NoWorkOK, StepKeepsBase DEF End

-----------------------------------------------------------------------------
(* Calls                                                                   *)

LEMMA HeadIs ==
  ASSUME NEW S, NEW s \in Seq(S), s # <<>>
  PROVE  Head(s) \in S /\ Tail(s) \in Seq(S)
OBVIOUS

LEMMA HeadOfConcat ==
  ASSUME NEW S, NEW c \in S, NEW t \in Seq(S)
  PROVE  LET s == <<c>> \o t IN
         s \in Seq(S) /\ s # <<>> /\ Head(s) = c /\ Tail(s) = t
<1>1. PICK s : s = <<c>> \o t
  OBVIOUS
<1>2. <<c>> \in Seq(S) /\ Len(<<c>>) = 1
  OBVIOUS
<1>3. /\ s \in Seq(S) /\ Len(s) = 1 + Len(t) /\ s[1] = c
      /\ \A i \in 1 .. Len(t) : s[i + 1] = t[i]
  BY <1>1, <1>2, ConcatProperties
<1>4. s # <<>>
  BY <1>3
<1>5. Tail(s) \in Seq(S) /\ Len(Tail(s)) = Len(t) /\ \A i \in 1 .. Len(t) : Tail(s)[i] = s[i + 1]
  BY <1>3, <1>4
<1>6. Tail(s) = t
  BY <1>3, <1>5, SeqEqual
<1>. QED  BY <1>1, <1>3, <1>4, <1>6

LEMMA TwoCalls ==
  ASSUME NEW c, NEW d
  PROVE  <<c>> \o <<d>> # <<>> /\ Head(<<c>> \o <<d>>) = c /\ Tail(<<c>> \o <<d>>) = <<d>>
<1>1. c \in {c, d} /\ <<d>> \in Seq({c, d})
  OBVIOUS
<1>. QED  BY <1>1, HeadOfConcat

LEMMA ElementIs ==
  ASSUME NEW S, NEW s \in Seq(S), NEW i \in 1 .. Len(s)
  PROVE  s[i] \in S
OBVIOUS

\* The calls of a ramp step.
LEMMA RampIs ==
  ASSUME NEW kind, NEW do \in {"createCanary", "scaleCanary"}, NEW orig \in Nat, NEW n \in 0 .. orig
  PROVE  LET s == <<Call(do, n)>> \o scaleLiveTo(orig - n) IN
         /\ s \in Seq(CallsOf(kind)) /\ s # <<>>
         /\ Head(s) = Call(do, n) /\ Tail(s) = scaleLiveTo(orig - n)
<1>1. Call(do, n) \in CallsOf(kind)
  BY DEF Call, CallsOf, Special
<1>2. scaleLiveTo(orig - n) \in Seq(CallsOf(kind))
  <2>1. n # orig => Call("scaleLive", orig - n) \in CallsOf(kind)
    BY DEF Call, CallsOf, Special
  <2>. QED  BY <2>1 DEF scaleLiveTo
<1>. QED  BY <1>1, <1>2, HeadOfConcat

LEMMA ScaleIs ==
  ASSUME NEW m \in Nat
  PROVE  /\ m = 0 => scaleLiveTo(m) = <<>>
         /\ m > 0 => /\ scaleLiveTo(m) = <<Call("scaleLive", m)>> /\ scaleLiveTo(m) # <<>>
                     /\ Head(scaleLiveTo(m)) = Call("scaleLive", m)
                     /\ Tail(scaleLiveTo(m)) = <<>>
<1>1. m > 0 => scaleLiveTo(m) = <<Call("scaleLive", m)>>
  BY DEF scaleLiveTo
<1>2. \A c : <<c>> # <<>> /\ Head(<<c>>) = c /\ Tail(<<c>>) = <<>>
  OBVIOUS
<1>. QED  BY <1>1, <1>2 DEF scaleLiveTo

\* A job of its kind with nothing begun.
LEMMA JobIs ==
  ASSUME NEW kind \in Kinds, NEW calls \in Seq(CallsOf(kind)), NEW orig \in Nat,
         NEW steps \in Plans \cup {<<>>}, NEW j, j = Job(kind, calls, orig, steps)
  PROVE  /\ JobTyped(j) /\ j.kind = kind /\ j.calls = calls /\ j.work = NoWork
         /\ j.orig = orig /\ j.steps = steps
BY NoWorkOK DEF Job, JobTyped

LEMMA OneCall ==
  ASSUME NEW kind, NEW c \in CallsOf(kind)
  PROVE  <<c>> \in Seq(CallsOf(kind))
OBVIOUS

\* Who is about to make a call of its own.
LEMMA AtWork ==
  ASSUME Base, NEW a \in Actor, job[a].calls # <<>>
  PROVE  LET c == Head(job[a].calls) IN
         /\ job[a].kind # "idle" /\ c \in CallsOf(job[a].kind)
         /\ Tail(job[a].calls) \in Seq(CallsOf(job[a].kind))
         /\ c.do = "startList" => job[a].kind = "start"
         /\ c.do = "health" => job[a].kind \in {"tick", "advance"}
         /\ c.do = "rollback" => job[a].kind \in {"rollback", "abort"}
<1>1. JobTyped(job[a]) /\ Fits(a, job[a])
  BY DEF Base, Typed, JobsFit
<1>2. job[a].kind # "idle"
  BY <1>1 DEF Fits, Idle, Job
<1>3. job[a].calls \in Seq(CallsOf(job[a].kind))
  BY <1>1 DEF JobTyped
<1>4. Head(job[a].calls) \in CallsOf(job[a].kind) /\ Tail(job[a].calls) \in Seq(CallsOf(job[a].kind))
  BY <1>3, HeadIs
<1>. QED  BY <1>2, <1>4 DEF CallsOf

LEMMA FirstIs ==
  ASSUME NEW j, NEW do, First(j, do)
  PROVE  j.calls # <<>> /\ Head(j.calls).do = do /\ WorkDone(j.work)
<1>1. \A c : <<c>> # <<>> /\ Head(<<c>>) = c
  OBVIOUS
<1>. QED  BY <1>1 DEF First, Call, WorkDone, NoWork, Work

\* A job that has got past its first call stays the manager's.
LEMMA StillFits ==
  ASSUME NEW a \in Actor, NEW j, NEW q, Fits(a, j), j.kind # "idle",
         ~First(j, "startList"), ~First(j, "health"),
         q.kind = j.kind, q.steps = j.steps, q.orig = j.orig
  PROVE  Fits(a, q)
BY DEF Fits

-----------------------------------------------------------------------------
(* Primitives                                                              *)

\* scaleService leaves the number it was told, and one that stays.
LEMMA RemovableLeaves ==
  ASSUME RolloutAssumption, ContainersTyped, LiveServes, NEW n \in Nat \ {0},
         Cardinality(Live) > n, NEW S \in Removable(Cardinality(Live) - n)
  PROVE  /\ S \subseteq Live /\ S # {} /\ Cardinality(Live \ S) = n
         /\ \E c \in Live \ S : Stays(c)
<1>. DEFINE ours == {c \in Live : ct[c].ours}
            stopped == ours \ runningOnly(ours)
<1>1. /\ S \subseteq ours /\ Cardinality(S) = Cardinality(Live) - n
      /\ S \subseteq stopped \/ stopped \subseteq S
  BY DEF Removable
<1>2. IsFiniteSet(Live) /\ Cardinality(Live) \in Nat
  BY SizesOf
<1>3. S \subseteq Live
  BY <1>1
<1>4. Cardinality(Live \ S) = n
  <2>1. Live \cap S = S
    BY <1>3
  <2>2. Cardinality(Live \ S) = Cardinality(Live) - Cardinality(S)
    BY <1>2, <2>1, FS_Difference
  <2>. QED  BY <1>1, <1>2, <2>2
<1>5. S # {}
  BY <1>1, <1>2, FS_EmptySet
<1>6. Live \ S # {}
  BY <1>4, FS_EmptySet
<1>7. \A c \in Live : c \notin stopped => Stays(c)
  BY DEF Stays, runningOnly
<1>8. \A c \in Live : Stays(c) => c \notin stopped
  BY DEF Stays, runningOnly
<1>. HIDE DEF stopped
<1>9. S \subseteq stopped => \E c \in Live \ S : Stays(c)
  BY <1>8 DEF LiveServes
<1>10. stopped \subseteq S => \E c \in Live \ S : Stays(c)
  BY <1>6, <1>7
<1>. QED  BY <1>1, <1>3, <1>4, <1>5, <1>9, <1>10

LEMMA CreateOK ==
  ASSUME LiveServes, NEW n \in Nat, NEW canary \in BOOLEAN
  PROVE  /\ Create(n, canary) \in Works /\ WorkOK(Create(n, canary))
BY DEF Create, Work, Works, WorkOK, LiveServes

LEMMA DropOK ==
  ASSUME ContainersTyped, NEW S \in SUBSET All, \E c \in Live \ S : Stays(c),
         NEW onFail \in {"stop", "ignore", "remember"}
  PROVE  /\ Drop(S, onFail) \in Works /\ WorkOK(Drop(S, onFail))
BY DEF Drop, Work, Works, WorkOK, ContainersTyped

\* Whatever a call finds to do leaves a container that serves.
LEMMA WorkOfOK ==
  ASSUME RolloutAssumption, ContainersTyped, LiveServes, NEW kind,
         NEW call \in CallsOf(kind), call.do \notin Special, NEW w \in WorkOf(call)
  PROVE  w \in Works /\ WorkOK(w)
<1>1. call.n \in Nat /\ (call.do = "scaleLive" => call.n > 0)
  BY DEF CallsOf
<1>2. Live \subseteq All /\ Canary \subseteq All /\ Live \cap Canary = {}
  BY DEF Live, Canary
<1>3. ASSUME NEW S \in SUBSET Canary, NEW onFail \in {"stop", "ignore", "remember"}
      PROVE  Drop(S, onFail) \in Works /\ WorkOK(Drop(S, onFail))
  <2>1. S \in SUBSET All /\ \E c \in Live \ S : Stays(c)
    BY <1>2 DEF LiveServes
  <2>. QED  BY <2>1, DropOK
<1>4. Cardinality(Live) \in Nat /\ Cardinality(Canary) \in Nat
  BY SizesOf
<1>5. CASE call.do = "scaleLive"
  <2>1. w \in scaleService(call.n)
    BY <1>5 DEF WorkOf
  <2>2. CASE Cardinality(Live) <= call.n
    <3>1. w = Create(call.n - Cardinality(Live), FALSE)
      BY <2>1, <2>2 DEF scaleService
    <3>2. call.n - Cardinality(Live) \in Nat
      BY <1>1, <1>4, <2>2
    <3>. QED  BY <3>1, <3>2, CreateOK
  <2>3. CASE Cardinality(Live) > call.n
    <3>0. call.n \in Nat \ {0} /\ ~(Cardinality(Live) <= call.n)
      BY <1>1, <1>4, <1>5, <2>3
    <3>1. PICK S \in Removable(Cardinality(Live) - call.n) : w = Drop(S, "stop")
      BY <2>1, <3>0 DEF scaleService
    <3>2. S \subseteq Live /\ \E c \in Live \ S : Stays(c)
      BY <2>3, <3>0, RemovableLeaves
    <3>. QED  BY <1>2, <3>1, <3>2, DropOK
  <2>. QED  BY <1>1, <1>4, <2>2, <2>3
<1>6. CASE call.do = "createCanary"
  <2>1. w = Create(call.n, TRUE)
    BY <1>6 DEF WorkOf, createCanaryReplicas
  <2>. QED  BY <1>1, <2>1, CreateOK
<1>7. CASE call.do = "stage"
  <2>1. w = Create(Cardinality(preferRunning(Live)), TRUE)
    BY <1>7 DEF WorkOf, stageCanary, createCanaryReplicas
  <2>2. preferRunning(Live) \in SUBSET Live
    BY DEF preferRunning, runningOnly
  <2>3. Cardinality(preferRunning(Live)) \in Nat
    BY <2>2, SizesOf, FS_Subset, FS_CardinalityType
  <2>. QED  BY <2>1, <2>3, CreateOK
<1>8. CASE call.do = "scaleCanary"
  <2>1. w \in scaleCanary(call.n)
    BY <1>8 DEF WorkOf
  <2>2. CASE Cardinality(Canary) <= call.n
    <3>1. w = Create(call.n - Cardinality(Canary), TRUE)
      BY <2>1, <2>2 DEF scaleCanary
    <3>2. call.n - Cardinality(Canary) \in Nat
      BY <1>1, <1>4, <2>2
    <3>. QED  BY <3>1, <3>2, CreateOK
  <2>3. CASE ~(Cardinality(Canary) <= call.n)
    <3>1. PICK S \in SUBSET Canary : w = Drop(S, "stop")
      BY <2>1, <2>3 DEF scaleCanary, kSubset
    <3>. QED  BY <1>3, <3>1
  <2>. QED  BY <2>2, <2>3
<1>9. CASE call.do = "promote"
  <2>1. Canary # {} /\ w = Work(0, FALSE, TRUE, Canary, {}, Live, "ignore", FALSE)
    BY <1>9 DEF WorkOf, promoteCanary
  <2>2. Canary \in SUBSET Id /\ Live \in SUBSET Id
    BY <1>2 DEF ContainersTyped
  <2>. QED  BY <1>2, <2>1, <2>2 DEF Work, Works, WorkOK
<1>10. CASE call.do = "discard"
  <2>1. w = Drop(Canary, "remember")
    BY <1>10 DEF WorkOf, discardCanary
  <2>. QED  BY <1>3, <2>1
<1>. QED  BY <1>5, <1>6, <1>7, <1>8, <1>9, <1>10 DEF CallsOf

-----------------------------------------------------------------------------
(* Steps that leave the containers alone                                   *)

LEMMA StartListBase ==
  ASSUME RolloutAssumption, Base, NEW a \in Actor, StartList(a)
  PROVE  Base'
<1>1. /\ job[a].calls # <<>> /\ Head(job[a].calls).do = "startList"
      /\ probed' = probed /\ ct' = ct
  BY DEF StartList, At, KeepBounds
<1>2. job[a].kind = "start" /\ Fits(a, job[a]) /\ RolloutTyped
  BY <1>1, AtWork DEF Base, JobsFit, Typed
<1>3. ContainersTyped' /\ LiveServes'
  BY <1>1 DEF Base, Typed, ContainersTyped, LiveServes, Live, Canary, All, Stays
<1>4. CASE End(a, FALSE)
  BY <1>1, <1>2, <1>3, <1>4, EndKeepsBase
<1>5. CASE ~End(a, FALSE)
  <2>. DEFINE orig == Cardinality(Live)
              n == ceilPct(orig, job[a].steps[1])
  <2>1. /\ orig # 0 /\ KeepManager
        /\ SetJob(a, Job("start", <<Call("createCanary", n)>> \o scaleLiveTo(orig - n),
                         orig, job[a].steps))
    BY <1>5 DEF StartList
  <2>2. orig \in Nat \ {0}
    BY <2>1, SizesOf DEF Base, Typed
  <2>3. job[a].steps \in Plans
    BY <1>2 DEF Fits
  <2>4. job[a].steps[1] \in 1 .. 100
    <3>1. job[a].steps \in Seq(1 .. 100) /\ job[a].steps # <<>>
      BY <2>3 DEF RolloutAssumption
    <3>2. 1 \in 1 .. Len(job[a].steps)
      BY <3>1
    <3>. QED  BY <3>1, <3>2, ElementIs
  <2>. HIDE DEF orig
  <2>5. n \in 1 .. orig
    BY <2>2, <2>4, ShareBounds
  <2>. HIDE DEF n
  <2>6. <<Call("createCanary", n)>> \o scaleLiveTo(orig - n) \in Seq(CallsOf("start"))
    <3>1. orig \in Nat /\ n \in 0 .. orig
      BY <2>2, <2>5
    <3>. QED  BY <3>1, RampIs
  <2>7. PICK j : j = Job("start", <<Call("createCanary", n)>> \o scaleLiveTo(orig - n),
                         orig, job[a].steps)
    OBVIOUS
  <2>8. JobTyped(j) /\ j.kind = "start" /\ j.work = NoWork /\ j.orig = orig /\ j.steps \in Plans
    <3>1. "start" \in Kinds /\ job[a].steps \in Plans \cup {<<>>} /\ orig \in Nat
      BY <2>2, <2>3 DEF Kinds
    <3>2. /\ JobTyped(j) /\ j.kind = "start" /\ j.work = NoWork /\ j.orig = orig
          /\ j.steps = job[a].steps
      <4>1. PICK s : s = <<Call("createCanary", n)>> \o scaleLiveTo(orig - n)
        OBVIOUS
      <4>2. s \in Seq(CallsOf("start")) /\ j = Job("start", s, orig, job[a].steps)
        BY <2>6, <2>7, <4>1, Zenon
      <4>. QED  BY <3>1, <4>2, JobIs
    <3>. QED  BY <2>3, <3>2
  <2>9. Fits(a, j)
    BY <1>2, <2>2, <2>8 DEF Fits
  <2>10. WorkOK(j.work)'
    BY <1>3, <2>8 DEF LiveServes, WorkOK, NoWork, Work
  <2>. QED  BY <1>1, <1>2, <1>3, <2>1, <2>7, <2>8, <2>9, <2>10, MoveKeepsBase
<1>. QED  BY <1>4, <1>5

LEMMA NextStepIs ==
  ASSUME RolloutAssumption, RolloutTyped, rolloutActive, ~atLastStep
  PROVE  /\ rollout.steps \in Seq(1 .. 100) /\ rollout.steps \in Plans
         /\ rollout.idx \in Nat /\ rollout.idx + 1 \in 1 .. Len(rollout.steps)
         /\ rollout.steps[rollout.idx + 1] \in 1 .. 100
         /\ rollout.orig \in Nat \ {0}
         /\ ceilPct(rollout.orig, rollout.steps[rollout.idx + 1]) \in 1 .. rollout.orig
<1>1. rollout.steps \in Plans /\ rollout.idx \in 1 .. Len(rollout.steps) /\ rollout.orig \in Nat \ {0}
  <2>1. rollout.orig \in Nat /\ rollout.orig > 0
    BY DEF RolloutTyped
  <2>2. rollout.orig # 0
    BY <2>1
  <2>. QED  BY <2>1, <2>2 DEF RolloutTyped
<1>2. rollout.steps \in Seq(1 .. 100)
  BY <1>1 DEF RolloutAssumption
<1>3. Len(rollout.steps) \in Nat /\ rollout.idx # Len(rollout.steps)
  BY <1>2 DEF atLastStep
<1>4. \A n \in Nat : \A i \in 1 .. n : i # n => i \in Nat /\ i + 1 \in 1 .. n
  OBVIOUS
<1>5. rollout.idx \in Nat /\ rollout.idx + 1 \in 1 .. Len(rollout.steps)
  BY <1>1, <1>3, <1>4
<1>6. rollout.steps[rollout.idx + 1] \in 1 .. 100
  BY <1>2, <1>5, ElementIs
<1>. QED  BY <1>1, <1>2, <1>5, <1>6, ShareBounds

LEMMA CheckHealthBase ==
  ASSUME RolloutAssumption, Base, NEW a \in Actor, CheckHealth(a)
  PROVE  Base'
<1>1. /\ job[a].calls # <<>> /\ Head(job[a].calls).do = "health"
      /\ probed' = probed /\ ct' = ct
  BY DEF CheckHealth, At, KeepBounds
<1>2. job[a].kind \in {"tick", "advance"} /\ Fits(a, job[a]) /\ RolloutTyped
  BY <1>1, AtWork DEF Base, JobsFit, Typed
<1>3. ContainersTyped' /\ LiveServes'
  BY <1>1 DEF Base, Typed, ContainersTyped, LiveServes, Live, Canary, All, Stays
<1>4. WorkOK(NoWork)'
  BY <1>3 DEF LiveServes, WorkOK, NoWork, Work
<1>5. lock = a /\ rolloutActive /\ lock \in Actor \cup {Nobody}
  BY <1>2 DEF Fits, Waits, rolloutActive, Base, Typed
<1>6. CASE ~checkCanaryHealth
  <2>1. /\ SetJob(a, Job("rollback", <<Call("rollback", 0)>>, 0, <<>>))
        /\ rollout' = [rollout EXCEPT !.status = "rolling-back"] /\ lock' = lock
    BY <1>6 DEF CheckHealth
  <2>2. PICK j : j = Job("rollback", <<Call("rollback", 0)>>, 0, <<>>)
    OBVIOUS
  <2>3. Call("rollback", 0) \in CallsOf("rollback")
    BY DEF Call, CallsOf, Special
  <2>4. JobTyped(j) /\ j.kind = "rollback" /\ j.work = NoWork
    <3>1. <<Call("rollback", 0)>> \in Seq(CallsOf("rollback"))
      BY <2>3, OneCall
    <3>2. "rollback" \in Kinds /\ 0 \in Nat /\ <<>> \in Plans \cup {<<>>}
      BY DEF Kinds
    <3>3. PICK s : s = <<Call("rollback", 0)>>
      OBVIOUS
    <3>4. s \in Seq(CallsOf("rollback")) /\ j = Job("rollback", s, 0, <<>>)
      BY <2>2, <3>1, <3>3, Zenon
    <3>. QED  BY <3>2, <3>4, JobIs
  <2>5. RolloutTyped'
    BY <1>2, <1>5, <2>1 DEF RolloutTyped, rolloutActive, Statuses
  <2>6. rollout'.status = "rolling-back"
    BY <1>2, <2>1 DEF RolloutTyped
  <2>7. Fits(a, j)'
    BY <1>5, <2>1, <2>4, <2>6 DEF Fits
  <2>. QED
    BY <1>1, <1>2, <1>3, <1>4, <1>5, <2>1, <2>2, <2>4, <2>5, <2>7, OneAtWork, StepKeepsBase DEF SetJob
<1>7. CASE checkCanaryHealth /\ job[a].kind = "tick"
  <2>1. End(a, TRUE)
    BY <1>7 DEF CheckHealth
  <2>. QED  BY <1>1, <1>3, <1>7, <2>1, EndKeepsBase
<1>8. CASE checkCanaryHealth /\ job[a].kind # "tick" /\ atLastStep
  <2>1. PICK j : j = Job("promote", <<Call("promote", 0)>>, 0, <<>>)
    OBVIOUS
  <2>2. Call("promote", 0) \in CallsOf("promote")
    BY DEF Call, CallsOf, Special
  <2>3. JobTyped(j) /\ j.kind = "promote" /\ j.work = NoWork
    <3>1. <<Call("promote", 0)>> \in Seq(CallsOf("promote"))
      BY <2>2, OneCall
    <3>2. "promote" \in Kinds /\ 0 \in Nat /\ <<>> \in Plans \cup {<<>>}
      BY DEF Kinds
    <3>3. PICK s : s = <<Call("promote", 0)>>
      OBVIOUS
    <3>4. s \in Seq(CallsOf("promote")) /\ j = Job("promote", s, 0, <<>>)
      BY <2>1, <3>1, <3>3, Zenon
    <3>. QED  BY <3>2, <3>4, JobIs
  <2>4. SetJob(a, j) /\ KeepManager
    BY <1>8, <2>1 DEF CheckHealth
  <2>5. Fits(a, j)
    BY <1>2, <1>5, <1>8, <2>3 DEF Fits
  <2>. QED  BY <1>1, <1>2, <1>3, <1>4, <2>3, <2>4, <2>5, MoveKeepsBase
<1>9. CASE checkCanaryHealth /\ job[a].kind # "tick" /\ ~atLastStep
  <2>. DEFINE n == ceilPct(rollout.orig, rollout.steps[rollout.idx + 1])
  <2>1. PICK j : j = Job("advance", Ramp(n), 0, <<>>)
    OBVIOUS
  <2>2. n \in 1 .. rollout.orig /\ rollout.orig \in Nat
    BY <1>2, <1>5, <1>9, NextStepIs
  <2>3. SetJob(a, j) /\ KeepManager
    BY <1>9, <2>1 DEF CheckHealth
  <2>. HIDE DEF n
  <2>4. Ramp(n) \in Seq(CallsOf("advance"))
    <3>1. n \in 0 .. rollout.orig
      BY <2>2
    <3>. QED  BY <2>2, <3>1, RampIs DEF Ramp
  <2>5. JobTyped(j) /\ j.kind = "advance" /\ j.work = NoWork
    BY <2>1, <2>4, JobIs DEF Kinds
  <2>6. Fits(a, j)
    BY <1>2, <1>5, <1>9, <2>5 DEF Fits
  <2>. QED  BY <1>1, <1>2, <1>3, <1>4, <2>3, <2>5, <2>6, MoveKeepsBase
<1>. QED  BY <1>6, <1>7, <1>8, <1>9

LEMMA RollbackBase ==
  ASSUME RolloutAssumption, Base, NEW a \in Actor, Rollback(a)
  PROVE  Base'
<1>1. /\ job[a].calls # <<>> /\ Head(job[a].calls).do = "rollback"
      /\ probed' = probed /\ ct' = ct /\ KeepManager
  BY DEF Rollback, At, KeepBounds
<1>2. job[a].kind \in {"rollback", "abort"} /\ Fits(a, job[a]) /\ RolloutTyped
  BY <1>1, AtWork DEF Base, JobsFit, Typed
<1>3. ContainersTyped' /\ LiveServes'
  BY <1>1 DEF Base, Typed, ContainersTyped, LiveServes, Live, Canary, All, Stays
<1>4. WorkOK(NoWork)'
  BY <1>3 DEF LiveServes, WorkOK, NoWork, Work
<1>5. rollout.orig \in Nat \ {0}
  <2>1. rollout.orig \in Nat /\ rollout.orig > 0
    BY <1>2 DEF Fits, RolloutTyped, rolloutActive
  <2>. QED  BY <2>1
<1>. DEFINE kind == job[a].kind
            first == IF Canary # {} THEN <<Call("discard", 0)>> ELSE <<>>
            last == <<Call("scaleLive", rollout.orig)>>
<1>6. Call("discard", 0) \in CallsOf(kind) /\ Call("scaleLive", rollout.orig) \in CallsOf(kind)
  BY <1>5 DEF Call, CallsOf, Special
<1>7. first \in Seq(CallsOf(kind)) /\ last \in Seq(CallsOf(kind))
  <2>1. last \in Seq(CallsOf(kind))
    BY <1>6, OneCall
  <2>2. <<Call("discard", 0)>> \in Seq(CallsOf(kind)) /\ <<>> \in Seq(CallsOf(kind))
    BY <1>6, OneCall
  <2>. QED  BY <2>1, <2>2
<1>8. PICK j : j = Job(kind, first \o last, 0, <<>>)
  OBVIOUS
<1>9. SetJob(a, j)
  BY <1>8 DEF Rollback
<1>. HIDE DEF first, last
<1>10. JobTyped(j) /\ j.kind = kind /\ j.work = NoWork
  <2>1. first \o last \in Seq(CallsOf(kind))
    BY <1>7
  <2>2. kind \in Kinds
    BY <1>2 DEF Kinds
  <2>3. 0 \in Nat /\ <<>> \in Plans \cup {<<>>}
    OBVIOUS
  <2>4. PICK s : s = first \o last
    OBVIOUS
  <2>5. s \in Seq(CallsOf(kind)) /\ j = Job(kind, s, 0, <<>>)
    BY <1>8, <2>1, <2>4, Zenon
  <2>. QED  BY <2>2, <2>3, <2>5, JobIs
<1>11. Fits(a, j)
  BY <1>2, <1>10 DEF Fits
<1>. QED  BY <1>1, <1>2, <1>3, <1>4, <1>9, <1>10, <1>11, MoveKeepsBase

LEMMA ListBase ==
  ASSUME RolloutAssumption, Base, NEW a \in Actor, List(a)
  PROVE  Base'
<1>1. /\ job[a].calls # <<>> /\ Head(job[a].calls).do \notin Special
      /\ probed' = probed /\ ct' = ct
  BY DEF List, KeepBounds
<1>2. /\ job[a].kind # "idle" /\ Head(job[a].calls) \in CallsOf(job[a].kind)
      /\ Tail(job[a].calls) \in Seq(CallsOf(job[a].kind))
      /\ Fits(a, job[a]) /\ JobTyped(job[a]) /\ ContainersTyped /\ LiveServes
  BY <1>1, AtWork DEF Base, JobsFit, Typed
<1>3. ContainersTyped' /\ LiveServes'
  BY <1>1 DEF Base, Typed, ContainersTyped, LiveServes, Live, Canary, All, Stays
<1>4. CASE End(a, FALSE)
  BY <1>1, <1>2, <1>3, <1>4, EndKeepsBase
<1>5. CASE ~End(a, FALSE)
  <2>1. PICK w \in WorkOf(Head(job[a].calls)) :
          SetJob(a, [job[a] EXCEPT !.calls = Tail(job[a].calls), !.work = w])
    BY <1>5 DEF List
  <2>2. KeepManager
    BY <1>5 DEF List
  <2>3. w \in Works /\ WorkOK(w)
    BY <1>1, <1>2, <2>1, WorkOfOK
  <2>4. PICK j : j = [job[a] EXCEPT !.calls = Tail(job[a].calls), !.work = w]
    OBVIOUS
  <2>5. JobTyped(j) /\ j.kind = job[a].kind /\ j.work = w /\ j.steps = job[a].steps
        /\ j.orig = job[a].orig
    BY <1>2, <2>3, <2>4 DEF JobTyped
  <2>6. ~First(job[a], "startList") /\ ~First(job[a], "health")
    BY <1>1, FirstIs DEF Special
  <2>7. Fits(a, j)
    BY <1>2, <2>5, <2>6, StillFits
  <2>8. WorkOK(j.work)'
    BY <1>1, <2>3, <2>5 DEF WorkOK, Live, Canary, All, Stays
  <2>. QED  BY <1>1, <1>2, <1>3, <2>1, <2>2, <2>4, <2>5, <2>7, <2>8, MoveKeepsBase
<1>. QED  BY <1>4, <1>5

LEMMA FinishBase ==
  ASSUME RolloutAssumption, Base, NEW a \in Actor, Finish(a)
  PROVE  Base'
<1>1. /\ job[a].kind # "idle" /\ job[a].calls = <<>> /\ End(a, TRUE)
      /\ probed' = probed /\ ct' = ct
  BY DEF Finish, KeepBounds
<1>2. ContainersTyped' /\ LiveServes'
  BY <1>1 DEF Base, Typed, ContainersTyped, LiveServes, Live, Canary, All, Stays
<1>. QED  BY <1>1, <1>2, EndKeepsBase

-----------------------------------------------------------------------------
(* Steps of the work of a call                                             *)

\* A work that is not done is one of a job past its first call.
LEMMA WorkFacts ==
  ASSUME Base, NEW a \in Actor, ~WorkDone(job[a].work)
  PROVE  /\ job[a].kind # "idle" /\ job[a].work \in Works /\ WorkOK(job[a].work)
         /\ JobTyped(job[a]) /\ Fits(a, job[a])
         /\ ~First(job[a], "startList") /\ ~First(job[a], "health")
<1>1. JobTyped(job[a]) /\ Fits(a, job[a]) /\ WorkOK(job[a].work)
  BY DEF Base, Typed, JobsFit, WorksOK
<1>2. WorkDone(NoWork)
  BY DEF WorkDone, NoWork, Work
<1>3. job[a].kind # "idle"
  BY <1>1, <1>2 DEF Fits, Idle, Job
<1>4. job[a].work \in Works
  BY <1>1 DEF JobTyped
<1>. QED  BY <1>1, <1>3, <1>4, FirstIs

LEMMA WorkKeepsBase ==
  ASSUME Base, NEW a \in Actor, ~WorkDone(job[a].work), NEW w \in Works, SetWork(a, w),
         KeepManager, probed' = probed, ContainersTyped', LiveServes', WorkOK(w)'
  PROVE  Base'
<1>1. PICK j : j = [job[a] EXCEPT !.work = w]
  OBVIOUS
<1>2. SetJob(a, j)
  BY <1>1 DEF SetWork, SetJob, Base, Typed
<1>3. /\ JobTyped(j) /\ j.kind = job[a].kind /\ j.work = w /\ j.steps = job[a].steps
      /\ j.orig = job[a].orig
  BY <1>1, WorkFacts DEF JobTyped
<1>4. Fits(a, j)
  BY <1>3, WorkFacts, StillFits
<1>. QED  BY <1>2, <1>3, <1>4, WorkFacts, MoveKeepsBase

\* Nothing that serves goes away with a container more.
LEMMA AddedServes ==
  ASSUME RolloutAssumption, ContainersTyped, LiveServes, Id \ All # {}, NEW new \in Containers,
         ct' = With(Fresh, new)
  PROVE  LiveServes' /\ ContainersTyped'
<1>1. PICK f \in Id \ All :
         /\ All' = All \cup {f} /\ ct'[f] = new /\ \A c \in All : ct'[c] = ct[c]
         /\ Live \subseteq Live' /\ Live \subseteq All
  BY Added DEF Live
<1>2. \A c \in Live : Stays(c) => Stays(c)'
  BY <1>1 DEF Stays
<1>. QED  BY <1>1, <1>2, Added DEF LiveServes

LEMMA CreateOneBase ==
  ASSUME RolloutAssumption, Base, NEW a \in Actor, CreateOne(a)
  PROVE  Base'
<1>. DEFINE w == job[a].work
<1>1. /\ w.create > 0 /\ Id \ All # {} /\ ct' = With(Fresh, Container(w.canary, TRUE, TRUE))
      /\ SetWork(a, [w EXCEPT !.create = w.create - 1]) /\ KeepManager /\ probed' = probed
  BY DEF CreateOne, KeepBounds
<1>2. ~WorkDone(w)
  BY <1>1 DEF WorkDone
<1>3. w \in Works /\ WorkOK(w)
  BY <1>2, WorkFacts
<1>4. Container(w.canary, TRUE, TRUE) \in Containers
  BY <1>3 DEF Container, Containers, Works
<1>5. ContainersTyped' /\ LiveServes'
  BY <1>1, <1>4, AddedServes DEF Base, Typed
<1>6. PICK v : v = [w EXCEPT !.create = w.create - 1]
  OBVIOUS
<1>7. /\ v \in Works /\ v.promote = {} /\ v.swap = {} /\ v.drop = {} /\ ~v.gate
  BY <1>1, <1>3, <1>6 DEF Works, WorkOK
<1>8. WorkOK(v)'
  BY <1>5, <1>7 DEF WorkOK, LiveServes
<1>. QED  BY <1>1, <1>2, <1>5, <1>6, <1>7, <1>8, WorkKeepsBase

LEMMA GateBase ==
  ASSUME RolloutAssumption, Base, NEW a \in Actor, Gate(a)
  PROVE  Base'
<1>. DEFINE w == job[a].work
<1>1. w.gate /\ ct' = ct /\ probed' = probed
  BY DEF Gate, KeepBounds
<1>2. ~WorkDone(w)
  BY <1>1 DEF WorkDone
<1>3. w \in Works /\ WorkOK(w)
  BY <1>2, WorkFacts
<1>4. ContainersTyped' /\ LiveServes'
  BY <1>1 DEF Base, Typed, ContainersTyped, LiveServes, Live, Canary, All, Stays
<1>5. CASE checkCanaryHealth
  <2>1. PICK v : v = [w EXCEPT !.gate = FALSE]
    OBVIOUS
  <2>2. SetWork(a, v) /\ KeepManager
    BY <1>5, <2>1 DEF Gate
  <2>3. /\ v \in Works /\ v.promote = w.promote /\ v.swap = w.swap /\ v.drop = w.drop
        /\ ~v.gate /\ v.create = w.create
    BY <1>3, <2>1 DEF Works
  <2>4. WorkOK(v)
    BY <1>3, <2>3 DEF WorkOK
  <2>5. WorkOK(v)'
    BY <1>1, <2>4 DEF WorkOK, Live, Canary, All, Stays
  <2>. QED  BY <1>1, <1>2, <1>4, <2>2, <2>3, <2>5, WorkKeepsBase
<1>6. CASE ~checkCanaryHealth
  <2>1. End(a, FALSE)
    BY <1>6 DEF Gate
  <2>. QED  BY <1>1, <1>2, <1>4, <2>1, WorkFacts, EndKeepsBase
<1>. QED  BY <1>5, <1>6

LEMMA PromoteOneBase ==
  ASSUME RolloutAssumption, Base, NEW a \in Actor, PromoteOne(a)
  PROVE  Base'
<1>. DEFINE w == job[a].work
<1>1. /\ w.swap = {} /\ w.promote # {} /\ Id \ All # {}
      /\ ct' = With(Fresh, Container(FALSE, TRUE, TRUE))
      /\ SetWork(a, [w EXCEPT !.promote = w.promote \ {Min(w.promote)}, !.swap = {Min(w.promote)}])
      /\ KeepManager /\ probed' = probed
  BY DEF PromoteOne, KeepBounds
<1>2. ~WorkDone(w)
  BY <1>1 DEF WorkDone
<1>3. w \in Works /\ WorkOK(w)
  BY <1>2, WorkFacts
<1>4. PICK new : new = Container(FALSE, TRUE, TRUE)
  OBVIOUS
<1>5. new \in Containers /\ ~new.canary /\ new.running
  BY <1>4 DEF Container, Containers
<1>6. ContainersTyped' /\ LiveServes'
  BY <1>1, <1>4, <1>5, AddedServes DEF Base, Typed
<1>7. PICK f \in Id \ All : /\ All' = All \cup {f} /\ ct'[f] = new /\ Canary' = Canary
                            /\ Live' = Live \cup {f}
  BY <1>1, <1>4, <1>5, Added DEF Base, Typed
<1>8. w.promote \in SUBSET Nat
  BY <1>3 DEF Works, RolloutAssumption
<1>9. PICK c \in w.promote : c = Min(w.promote)
  BY <1>1, <1>8, MinIs
<1>10. PICK v : v = [w EXCEPT !.promote = w.promote \ {c}, !.swap = {c}]
  OBVIOUS
<1>11. /\ v \in Works /\ v.promote = w.promote \ {c} /\ v.swap = {c} /\ v.drop = w.drop
       /\ v.create = w.create
  BY <1>3, <1>9, <1>10 DEF Works
<1>12. WorkOK(v)'
  <2>1. v.create = 0
    BY <1>1, <1>3, <1>11 DEF WorkOK, Works
  <2>2. f \in Live' \ v.drop /\ Stays(f)'
    BY <1>3, <1>5, <1>7, <1>11 DEF WorkOK, Stays
  <2>3. v.drop \subseteq Live' /\ v.drop \subseteq All'
    BY <1>1, <1>3, <1>7, <1>11 DEF WorkOK
  <2>. QED  BY <1>3, <1>7, <1>9, <1>11, <2>1, <2>2, <2>3 DEF WorkOK
<1>. QED  BY <1>1, <1>2, <1>6, <1>9, <1>10, <1>11, <1>12, WorkKeepsBase

LEMMA ToDropFacts ==
  ASSUME NEW w \in Works, WorkOK(w), NEW c \in ToDrop(w)
  PROVE  /\ ~WorkDone(w) /\ c \in All /\ c \notin w.promote /\ w.create = 0
         /\ c \in w.swap \/ (w.swap = {} /\ c \in w.drop /\ w.promote = {} /\ ~w.gate)
         /\ \E x \in Live \ w.drop : Stays(x) /\ x # c
<1>1. c \in w.swap \/ (w.swap = {} /\ c \in w.drop /\ w.promote = {} /\ ~w.gate)
  BY DEF ToDrop
<1>2. ~WorkDone(w)
  BY <1>1 DEF WorkDone
<1>3. c \in All /\ c \notin w.promote /\ w.create = 0
  BY <1>1 DEF WorkOK, Works, Canary
<1>4. PICK x \in Live \ w.drop : Stays(x)
  BY <1>1 DEF WorkOK
<1>5. x # c
  BY <1>1, <1>4 DEF WorkOK, Live
<1>. QED  BY <1>1, <1>2, <1>3, <1>4, <1>5

\* What is left to do when one container has had its turn.
LEMMA LeftIs ==
  ASSUME NEW w \in Works, NEW c, NEW failed \in BOOLEAN, NEW v,
         v = [w EXCEPT !.swap = w.swap \ {c}, !.drop = w.drop \ {c}, !.failed = failed]
  PROVE  /\ v \in Works /\ v.swap = w.swap \ {c} /\ v.drop = w.drop \ {c} /\ v.failed = failed
         /\ v.create = w.create /\ v.canary = w.canary /\ v.gate = w.gate
         /\ v.promote = w.promote /\ v.onFail = w.onFail
BY DEF Works

LEMMA RemoveBase ==
  ASSUME RolloutAssumption, Base, NEW a \in Actor, NEW c, Remove(a, c)
  PROVE  Base'
<1>. DEFINE w == job[a].work
<1>1. c \in ToDrop(w) /\ ct' = Without(c) /\ probed' = probed
  BY DEF Remove, KeepBounds
<1>2. ~WorkDone(w)
  BY <1>1 DEF ToDrop, WorkDone
<1>3. w \in Works /\ WorkOK(w)
  BY <1>2, WorkFacts
<1>4. /\ c \in All /\ c \notin w.promote /\ w.create = 0
      /\ c \in w.swap \/ (w.swap = {} /\ c \in w.drop /\ w.promote = {} /\ ~w.gate)
  BY <1>1, <1>3, ToDropFacts
<1>5. PICK x \in Live \ w.drop : Stays(x) /\ x # c
  BY <1>1, <1>3, ToDropFacts
<1>6. /\ ContainersTyped' /\ All' = All \ {c} /\ \A y \in All \ {c} : ct'[y] = ct[y]
      /\ Canary' = Canary \ {c} /\ Live' = Live \ {c}
  BY <1>1, <1>4, Removed DEF Base, Typed
<1>7. x \in Live' \ w.drop /\ Stays(x)'
  BY <1>5, <1>6 DEF Stays, Live
<1>8. LiveServes'
  BY <1>7 DEF LiveServes
<1>9. PICK v : v = [w EXCEPT !.swap = w.swap \ {c}, !.drop = w.drop \ {c}]
  OBVIOUS
<1>10. /\ v \in Works /\ v.swap = w.swap \ {c} /\ v.drop = w.drop \ {c}
       /\ v.create = w.create /\ v.promote = w.promote
  BY <1>3, <1>9 DEF Works
<1>11. WorkOK(v)'
  <2>1. v.promote \subseteq Canary' /\ v.swap \subseteq Canary' /\ v.drop \subseteq All'
    BY <1>3, <1>4, <1>6, <1>10 DEF WorkOK
  <2>2. v.promote # {} \/ v.swap # {} => v.drop \subseteq Live'
    BY <1>3, <1>6, <1>10 DEF WorkOK
  <2>3. x \in Live' \ v.drop
    BY <1>7, <1>10
  <2>4. v.promote \cap v.swap = {} /\ ~(v.create > 0)
    BY <1>3, <1>4, <1>10 DEF WorkOK
  <2>. QED  BY <1>7, <2>1, <2>2, <2>3, <2>4 DEF WorkOK
<1>12. CASE End(a, FALSE)
  BY <1>1, <1>2, <1>6, <1>8, <1>12, WorkFacts, EndKeepsBase
<1>13. CASE ~End(a, FALSE)
  <2>1. SetWork(a, v) /\ KeepManager
    BY <1>9, <1>13 DEF Remove
  <2>. QED  BY <1>1, <1>2, <1>6, <1>8, <1>10, <1>11, <2>1, WorkKeepsBase
<1>. QED  BY <1>12, <1>13

LEMMA RemoveFailsBase ==
  ASSUME RolloutAssumption, Base, NEW a \in Actor, NEW c, RemoveFails(a, c)
  PROVE  Base'
<1>. DEFINE w == job[a].work
            kind == IF w.swap # {} THEN "ignore" ELSE w.onFail
<1>1. c \in ToDrop(w) /\ ct' \in {ct, Stopped(c)} /\ probed' = probed
  BY DEF RemoveFails, KeepBounds
<1>2. ~WorkDone(w)
  BY <1>1 DEF ToDrop, WorkDone
<1>3. w \in Works /\ WorkOK(w)
  BY <1>2, WorkFacts
<1>4. c \in All /\ w.create = 0
  BY <1>1, <1>3, ToDropFacts
<1>5. PICK x \in Live \ w.drop : Stays(x) /\ x # c
  BY <1>1, <1>3, ToDropFacts
<1>6. /\ ContainersTyped' /\ All' = All /\ Canary' = Canary /\ Live' = Live
      /\ \A y \in All \ {c} : ct'[y] = ct[y]
  BY <1>1, <1>4, Left DEF Base, Typed
<1>7. x \in Live' \ w.drop /\ Stays(x)'
  BY <1>5, <1>6 DEF Stays, Live
<1>8. LiveServes'
  BY <1>7 DEF LiveServes
<1>9. PICK failed \in BOOLEAN : failed = (w.failed \/ kind = "remember")
  OBVIOUS
<1>10. PICK v : v = [w EXCEPT !.swap = w.swap \ {c}, !.drop = w.drop \ {c},
                              !.failed = w.failed \/ kind = "remember"]
  OBVIOUS
<1>11. /\ v \in Works /\ v.swap = w.swap \ {c} /\ v.drop = w.drop \ {c}
       /\ v.create = w.create /\ v.promote = w.promote
  <2>1. v = [w EXCEPT !.swap = w.swap \ {c}, !.drop = w.drop \ {c}, !.failed = failed]
    BY <1>9, <1>10
  <2>. QED  BY <1>3, <2>1 DEF Works
<1>12. WorkOK(v)'
  <2>1. v.promote \subseteq Canary' /\ v.swap \subseteq Canary' /\ v.drop \subseteq All'
    BY <1>3, <1>6, <1>11 DEF WorkOK
  <2>2. v.promote # {} \/ v.swap # {} => v.drop \subseteq Live'
    BY <1>3, <1>6, <1>11 DEF WorkOK
  <2>3. x \in Live' \ v.drop
    BY <1>7, <1>11
  <2>4. v.promote \cap v.swap = {} /\ ~(v.create > 0)
    BY <1>3, <1>4, <1>11 DEF WorkOK
  <2>. QED  BY <1>7, <2>1, <2>2, <2>3, <2>4 DEF WorkOK
<1>13. CASE End(a, FALSE)
  BY <1>1, <1>2, <1>6, <1>8, <1>13, WorkFacts, EndKeepsBase
<1>14. CASE ~End(a, FALSE)
  <2>1. SetWork(a, v) /\ KeepManager
    BY <1>10, <1>14 DEF RemoveFails
  <2>. QED  BY <1>1, <1>2, <1>6, <1>8, <1>11, <1>12, <2>1, WorkKeepsBase
<1>. QED  BY <1>13, <1>14

\* The containers when a call fails.
LEMMA FailedCall ==
  ASSUME RolloutAssumption, Base, NEW a \in Actor, CallFails(a)
  PROVE  /\ job[a].kind # "idle"
         /\ End(a, FALSE) /\ probed' = probed /\ job[a].work \in Works
         /\ \/ ct' = ct
            \/ /\ Id \ All # {} /\ Container(job[a].work.canary, TRUE, FALSE) \in Containers
               /\ ct' = With(Fresh, Container(job[a].work.canary, TRUE, FALSE))
               /\ job[a].work.create > 0 \/ job[a].work.promote # {}
<1>. DEFINE w == job[a].work
<1>1. JobTyped(job[a]) /\ Fits(a, job[a])
  BY DEF Base, Typed, JobsFit
<1>2. job[a].kind # "idle"
  <2>1. w.create > 0 \/ w.gate \/ w.promote # {} \/ job[a].calls # <<>>
    BY DEF CallFails
  <2>. QED  BY <1>1, <2>1 DEF Fits, Idle, Job, NoWork, Work
<1>3. w \in Works
  BY <1>1 DEF JobTyped
<1>4. Container(w.canary, TRUE, FALSE) \in Containers
  BY <1>3 DEF Container, Containers, Works
<1>. QED  BY <1>2, <1>3, <1>4 DEF CallFails, KeepBounds

LEMMA CallFailsBase ==
  ASSUME RolloutAssumption, Base, NEW a \in Actor, CallFails(a)
  PROVE  Base'
<1>1. job[a].kind # "idle" /\ End(a, FALSE) /\ probed' = probed
  BY FailedCall
<1>2. CASE ct' = ct
  <2>1. ContainersTyped' /\ LiveServes'
    BY <1>2 DEF Base, Typed, ContainersTyped, LiveServes, Live, Canary, All, Stays
  <2>. QED  BY <1>1, <2>1, EndKeepsBase
<1>3. CASE ct' # ct
  <2>1. ContainersTyped' /\ LiveServes'
    BY <1>3, FailedCall, AddedServes DEF Base, Typed
  <2>. QED  BY <1>1, <2>1, EndKeepsBase
<1>. QED  BY <1>2, <1>3

-----------------------------------------------------------------------------
(* Entry points, health and restarts                                       *)

LEMMA Flipped ==
  ASSUME ContainersTyped, NEW c, Flip(c)
  PROVE  /\ ContainersTyped' /\ All' = All /\ Canary' = Canary /\ Live' = Live
         /\ \A x \in All : ct'[x].running = ct[x].running /\ ct'[x].ours = ct[x].ours
<1>1. c \in All /\ ct' = [ct EXCEPT ![c].sick = ~ct[c].sick]
  BY DEF Flip, runningOnly, Canary
<1>2. ct[c] \in Containers /\ All' = All /\ \A x \in All \ {c} : ct'[x] = ct[x]
  BY <1>1 DEF All, ContainersTyped
<1>3. ct'[c] = [ct[c] EXCEPT !.sick = ~ct[c].sick]
  BY <1>1 DEF All, ContainersTyped
<1>4. /\ ct'[c] \in Containers /\ ct'[c].canary = ct[c].canary
      /\ ct'[c].running = ct[c].running /\ ct'[c].ours = ct[c].ours
  BY <1>2, <1>3 DEF Containers
<1>5. ct' \in [All -> Containers]
  BY <1>1, <1>2, <1>4 DEF ContainersTyped, All
<1>6. Canary' = Canary
  BY <1>2, <1>4 DEF Canary
<1>7. \A x \in All : ct'[x].running = ct[x].running /\ ct'[x].ours = ct[x].ours
  BY <1>2, <1>4
<1>. QED  BY <1>2, <1>5, <1>6, <1>7 DEF ContainersTyped, Live

LEMMA FlipBase ==
  ASSUME Base, NEW c, Flip(c)
  PROVE  Base'
<1>1. /\ ContainersTyped' /\ All' = All /\ Canary' = Canary /\ Live' = Live
      /\ \A x \in All : ct'[x].running = ct[x].running /\ ct'[x].ours = ct[x].ours
  BY Flipped DEF Base, Typed
<1>2. UNCHANGED <<probed, job, lock, rollout>>
  BY DEF Flip
<1>3. \A x \in Live : Stays(x)' <=> Stays(x)
  BY <1>1 DEF Stays, Live
<1>4. Typed'
  BY <1>1, <1>2 DEF Base, Typed, RolloutTyped, rolloutActive, JobTyped
<1>5. LiveServes'
  BY <1>1, <1>3 DEF Base, LiveServes
<1>6. JobsFit'
  BY <1>2 DEF Base, JobsFit, Fits, rolloutActive, Waits, atLastStep, First
<1>7. WorksOK'
  <2>. SUFFICES ASSUME NEW a \in Actor PROVE WorkOK(job[a].work)'
    BY DEF WorksOK
  <2>1. WorkOK(job[a].work) /\ job'[a] = job[a]
    BY <1>2 DEF Base, WorksOK
  <2>. QED  BY <1>1, <1>3, <2>1 DEF WorkOK
<1>. QED  BY <1>4, <1>5, <1>6, <1>7 DEF Base

LEMMA CrashBase ==
  ASSUME Base, Crash
  PROVE  Base'
<1>1. /\ job' = [a \in Actor |-> Idle] /\ lock' = Nobody /\ rollout' = NoRollout
      /\ ct' = ct /\ probed' = probed
  BY DEF Crash
<1>2. ContainersTyped' /\ LiveServes'
  BY <1>1 DEF Base, Typed, ContainersTyped, LiveServes, Live, Canary, All, Stays
<1>3. RolloutTyped'
  BY <1>1 DEF RolloutTyped, NoRollout, RolloutState, Statuses, rolloutActive
<1>4. Typed'
  BY <1>1, <1>2, <1>3, NoWorkOK DEF Base, Typed, JobTyped
<1>5. JobsFit'
  BY <1>1 DEF JobsFit, Fits, Idle, Job
<1>6. WorkOK(NoWork)'
  BY <1>2 DEF LiveServes, WorkOK, NoWork, Work
<1>7. WorksOK'
  BY <1>1, <1>6 DEF WorksOK, Idle, Job
<1>. QED  BY <1>2, <1>4, <1>5, <1>7 DEF Base

LEMMA TickerIdle ==
  ASSUME Base, lock = Nobody \/ ~rolloutActive
  PROVE  job["ticker"] = Idle
<1>1. Fits("ticker", job["ticker"])
  BY DEF Base, JobsFit, Actor
<1>. QED  BY <1>1 DEF Fits, Nobody, rolloutActive, Waits

LEMMA OperatorIdle ==
  ASSUME Base, lock = Nobody, rolloutActive
  PROVE  job["operator"] = Idle
<1>1. Fits("operator", job["operator"])
  BY DEF Base, JobsFit, Actor
<1>. QED  BY <1>1 DEF Fits, Nobody

\* The operator or the ticker begins a job.
LEMMA BeginBase ==
  ASSUME Base, NEW a \in Actor, \A b \in Actor : job[b] = Idle, NEW kind \in Kinds,
         NEW c \in CallsOf(kind), NEW steps \in Plans \cup {<<>>},
         job' = [job EXCEPT ![a] = Job(kind, <<c>>, 0, steps)],
         Fits(a, Job(kind, <<c>>, 0, steps))', RolloutTyped', lock' \in Actor \cup {Nobody},
         ct' = ct, probed' = probed
  PROVE  Base'
<1>1. PICK s : s = <<c>>
  OBVIOUS
<1>2. PICK j : j = Job(kind, s, 0, steps)
  OBVIOUS
<1>3. s \in Seq(CallsOf(kind))
  BY <1>1, OneCall
<1>4. JobTyped(j) /\ j.work = NoWork
  BY <1>2, <1>3, JobIs
<1>5. ContainersTyped' /\ LiveServes'
  BY DEF Base, Typed, ContainersTyped, LiveServes, Live, Canary, All, Stays
<1>6. WorkOK(j.work)'
  BY <1>4, <1>5 DEF LiveServes, WorkOK, NoWork, Work
<1>7. j = Job(kind, <<c>>, 0, steps)
  BY <1>1, <1>2, Zenon
<1>8. job' = [job EXCEPT ![a] = j] /\ Fits(a, j)'
  BY <1>7
<1>. QED  BY <1>4, <1>5, <1>6, <1>8, StepKeepsBase

LEMMA EntryBase ==
  ASSUME RolloutAssumption, Base,
         \/ \E steps \in Plans : startRollout(steps)
         \/ advanceRollout \/ abortRollout \/ stage \/ promote \/ discard
         \/ \E n \in Desired : scale(n)
         \/ checkOne
  PROVE  Base' /\ \A b \in Actor : job[b] = Idle
<1>. USE DEF Begin, SetJob, KeepManager, Locked, KeepBounds
<1>0. RolloutTyped /\ lock \in Actor \cup {Nobody}
  BY DEF Base, Typed
<1>1. Call("startList", 0) \in CallsOf("start")
  BY DEF Call, CallsOf, Special
<1>2. Call("health", 0) \in CallsOf("advance") /\ Call("health", 0) \in CallsOf("tick")
  BY DEF Call, CallsOf, Special
<1>3. Call("rollback", 0) \in CallsOf("abort")
  BY DEF Call, CallsOf, Special
<1>4. ASSUME NEW steps \in Plans, startRollout(steps)
      PROVE  Base' /\ \A b \in Actor : job[b] = Idle
  <2>1. /\ ~rolloutActive /\ job["operator"] = Idle /\ lock' = "operator"
        /\ job' = [job EXCEPT !["operator"] = Job("start", <<Call("startList", 0)>>, 0, steps)]
        /\ ct' = ct /\ probed' = probed /\ rollout' = rollout
    BY <1>4 DEF startRollout
  <2>2. \A b \in Actor : job[b] = Idle
    BY <2>1, TickerIdle DEF Actor
  <2>3. RolloutTyped'
    BY <1>0, <2>1 DEF RolloutTyped, rolloutActive
  <2>4. Fits("operator", Job("start", <<Call("startList", 0)>>, 0, steps))'
    BY <2>1 DEF Fits, Job, First, rolloutActive
  <2>. QED  BY <1>1, <2>1, <2>2, <2>3, <2>4, BeginBase DEF Actor, Kinds
<1>5. ASSUME advanceRollout
      PROVE  Base' /\ \A b \in Actor : job[b] = Idle
  <2>1. /\ rolloutActive /\ job["operator"] = Idle /\ lock = Nobody /\ lock' = "operator"
        /\ job' = [job EXCEPT !["operator"] = Job("advance", <<Call("health", 0)>>, 0, <<>>)]
        /\ ct' = ct /\ probed' = probed /\ rollout' = rollout
    BY <1>5 DEF advanceRollout
  <2>2. \A b \in Actor : job[b] = Idle
    BY <2>1, TickerIdle DEF Actor
  <2>3. RolloutTyped'
    BY <1>0, <2>1 DEF RolloutTyped, rolloutActive
  <2>4. Fits("operator", Job("advance", <<Call("health", 0)>>, 0, <<>>))'
    BY <2>1 DEF Fits, Job, First, rolloutActive
  <2>. QED  BY <1>2, <2>1, <2>2, <2>3, <2>4, BeginBase DEF Actor, Kinds
<1>6. ASSUME abortRollout
      PROVE  Base' /\ \A b \in Actor : job[b] = Idle
  <2>1. /\ rolloutActive /\ job["operator"] = Idle /\ lock = Nobody /\ lock' = "operator"
        /\ job' = [job EXCEPT !["operator"] = Job("abort", <<Call("rollback", 0)>>, 0, <<>>)]
        /\ ct' = ct /\ probed' = probed
        /\ rollout' = [rollout EXCEPT !.status = "rolling-back"]
    BY <1>6 DEF abortRollout
  <2>2. \A b \in Actor : job[b] = Idle
    BY <2>1, TickerIdle DEF Actor
  <2>3. RolloutTyped' /\ rollout'.status = "rolling-back"
    BY <1>0, <2>1 DEF RolloutTyped, rolloutActive, Statuses
  <2>4. Fits("operator", Job("abort", <<Call("rollback", 0)>>, 0, <<>>))'
    BY <2>1, <2>3 DEF Fits, Job
  <2>. QED  BY <1>3, <2>1, <2>2, <2>3, <2>4, BeginBase DEF Actor, Kinds
<1>7. ASSUME NEW c \in CallsOf("plain"), Plain(c)
      PROVE  Base' /\ \A b \in Actor : job[b] = Idle
  <2>1. /\ ~rolloutActive /\ job["operator"] = Idle /\ lock' = lock
        /\ job' = [job EXCEPT !["operator"] = Job("plain", <<c>>, 0, <<>>)]
        /\ ct' = ct /\ probed' = probed /\ rollout' = rollout
    BY <1>7 DEF Plain
  <2>2. \A b \in Actor : job[b] = Idle
    BY <2>1, TickerIdle DEF Actor
  <2>3. RolloutTyped'
    BY <1>0, <2>1 DEF RolloutTyped, rolloutActive
  <2>4. Fits("operator", Job("plain", <<c>>, 0, <<>>))'
    BY <2>1 DEF Fits, Job, rolloutActive
  <2>. QED  BY <1>0, <1>7, <2>1, <2>2, <2>3, <2>4, BeginBase DEF Actor, Kinds
<1>8. /\ Call("stage", 0) \in CallsOf("plain") /\ Call("promote", 0) \in CallsOf("plain")
      /\ Call("discard", 0) \in CallsOf("plain")
      /\ \A n \in Desired : Call("scaleLive", n) \in CallsOf("plain")
  BY DEF Call, CallsOf, Special, RolloutAssumption
<1>9. ASSUME checkOne
      PROVE  Base' /\ \A b \in Actor : job[b] = Idle
  <2>1. /\ Waits /\ job["ticker"] = Idle /\ lock = Nobody /\ lock' = "ticker"
        /\ job' = [job EXCEPT !["ticker"] = Job("tick", <<Call("health", 0)>>, 0, <<>>)]
        /\ ct' = ct /\ probed' = probed /\ rollout' = rollout
    BY <1>9 DEF checkOne, Waits
  <2>2. \A b \in Actor : job[b] = Idle
    BY <2>1, OperatorIdle DEF Actor, Waits, rolloutActive
  <2>3. RolloutTyped'
    BY <1>0, <2>1 DEF RolloutTyped, rolloutActive
  <2>4. Fits("ticker", Job("tick", <<Call("health", 0)>>, 0, <<>>))'
    BY <2>1 DEF Fits, Job, Waits
  <2>. QED  BY <1>2, <2>1, <2>2, <2>3, <2>4, BeginBase DEF Actor, Kinds
<1>. QED  BY <1>4, <1>5, <1>6, <1>7, <1>8, <1>9 DEF stage, promote, discard, scale

LEMMA InitBase ==
  ASSUME RolloutAssumption, Init
  PROVE  Base
<1>1. PICK n \in Origs : \E own \in 0 .. n : ct = [c \in 1 .. n |-> Container(FALSE, c <= own, TRUE)]
  BY DEF Init
<1>0. PICK own \in 0 .. n : ct = [c \in 1 .. n |-> Container(FALSE, c <= own, TRUE)]
  BY <1>1
<1>2. /\ probed \in BOOLEAN /\ job = [a \in Actor |-> Idle] /\ lock = Nobody
      /\ rollout = NoRollout
  BY DEF Init
<1>3. n \in Nat /\ n >= 1 /\ 1 .. n \subseteq Id
  BY DEF RolloutAssumption
<1>4. All = 1 .. n /\ \A c \in All : ct[c] = Container(FALSE, c <= own, TRUE)
  BY <1>0 DEF All
<1>5. ContainersTyped
  <2>1. \A b \in BOOLEAN : Container(FALSE, b, TRUE) \in Containers
    BY DEF Container, Containers
  <2>2. \A c \in All : ct[c] \in Containers
    <3>1. \A c \in All : (c <= own) \in BOOLEAN
      BY <1>0, <1>3, <1>4
    <3>. QED  BY <1>4, <2>1, <3>1, Zenon
  <2>3. ct = [c \in All |-> ct[c]]
    BY <1>0, <1>4
  <2>. QED  BY <1>3, <1>4, <2>2, <2>3 DEF ContainersTyped
<1>6. LiveServes
  <2>1. 1 \in All
    BY <1>3, <1>4
  <2>2. ct[1].running /\ ~ct[1].canary
    <3>1. \A b : Container(FALSE, b, TRUE).running /\ ~Container(FALSE, b, TRUE).canary
      BY DEF Container
    <3>. QED  BY <1>4, <2>1, <3>1, Zenon
  <2>. QED  BY <2>1, <2>2 DEF LiveServes, Live, Canary, Stays
<1>7. RolloutTyped
  BY <1>2 DEF RolloutTyped, NoRollout, RolloutState, Statuses, rolloutActive
<1>8. Typed
  BY <1>2, <1>5, <1>7, NoWorkOK DEF Typed
<1>9. JobsFit
  BY <1>2, NoWorkOK DEF JobsFit
<1>10. WorksOK
  BY <1>2, <1>6, NoWorkOK DEF WorksOK, Idle, Job
<1>. QED  BY <1>6, <1>8, <1>9, <1>10 DEF Base

LEMMA NextBase ==
  ASSUME RolloutAssumption, Base, [Next]_vars
  PROVE  Base'
<1>1. CASE \/ \E steps \in Plans : startRollout(steps)
           \/ advanceRollout \/ abortRollout \/ stage \/ promote \/ discard
           \/ \E n \in Desired : scale(n)
           \/ checkOne
  BY <1>1, EntryBase
<1>2. ASSUME NEW a \in Actor, Step(a)
      PROVE  Base'
  BY <1>2, StartListBase, CheckHealthBase, RollbackBase, ListBase, CreateOneBase, GateBase,
     PromoteOneBase, RemoveBase, FinishBase DEF Step
<1>3. ASSUME NEW a \in Actor, CallFails(a) \/ \E c \in Id : RemoveFails(a, c)
      PROVE  Base'
  BY <1>3, CallFailsBase, RemoveFailsBase
<1>4. CASE \E c \in Id : Flip(c)
  BY <1>4, FlipBase
<1>5. CASE Crash
  BY <1>5, CrashBase
<1>6. CASE UNCHANGED vars
  <2>. USE <1>6 DEF vars
  <2>1. Typed'
    BY DEF Base, Typed, ContainersTyped, RolloutTyped, rolloutActive, JobTyped, All
  <2>2. LiveServes'
    BY DEF Base, LiveServes, Stays, All, Live, Canary
  <2>3. JobsFit'
    BY DEF Base, JobsFit, Fits, First, rolloutActive, Waits, atLastStep
  <2>4. WorksOK'
    BY DEF Base, WorksOK, WorkOK, Stays, All, Live, Canary
  <2>. QED  BY <2>1, <2>2, <2>3, <2>4 DEF Base
<1>. QED  BY <1>1, <1>2, <1>3, <1>4, <1>5, <1>6 DEF Next

-----------------------------------------------------------------------------
(* The inductive invariant, second part: how far a job has got             *)

\* Of the calls' works: containers are created, or removed.
Creating(w, canary) ==
  w.canary = canary /\ ~w.gate /\ w.promote = {} /\ w.swap = {} /\ w.drop = {} /\ ~w.failed
Dropping(w) ==
  w.create = 0 /\ ~w.gate /\ w.promote = {} /\ w.swap = {}

\* n canaries take over from as many of orig replicas: they are created, then
\* live is scaled.  At no time are there fewer replicas than before.
Ramping(calls, w, n, orig) ==
  /\ Cardinality(All) >= orig /\ Cardinality(Canary) <= n
  /\ \/ /\ w = NoWork
        /\ \E do \in {"createCanary", "scaleCanary"} :
             calls = <<Call(do, n)>> \o scaleLiveTo(orig - n)
     \/ /\ calls = scaleLiveTo(orig - n)
        /\ Creating(w, TRUE) /\ Cardinality(Canary) + w.create = n
     \/ /\ calls = <<>> /\ Cardinality(Canary) = n
        /\ Creating(w, FALSE)
     \/ /\ calls = <<>> /\ Cardinality(Canary) = n
        /\ Dropping(w) /\ w.onFail = "stop" /\ w.drop \subseteq Live
        /\ Cardinality(Live \ w.drop) >= orig - n

\* A rollback removes the canaries, all of them or it fails, then scales live.
Restoring(calls, w, orig) ==
  \/ calls = <<Call("rollback", 0)>> /\ w = NoWork
  \/ calls = <<Call("discard", 0)>> \o <<Call("scaleLive", orig)>> /\ w = NoWork
  \/ /\ calls = <<Call("scaleLive", orig)>>
     /\ Dropping(w) /\ w.drop \subseteq Canary
     /\ w.drop # {} => w.onFail = "remember"
     /\ w.drop = {} => ~w.failed
     /\ ~w.failed => w.drop = Canary
  \/ /\ calls = <<>> /\ Canary = {}
     /\ Creating(w, FALSE) /\ Cardinality(Live) + w.create = orig
  \/ /\ calls = <<>> /\ Canary = {}
     /\ Dropping(w) /\ w.onFail = "stop" /\ w.drop \subseteq Live
     /\ Cardinality(Live \ w.drop) = orig

\* A promotion makes a running replica of every canary before it removes live.
Serving(w) == {c \in Live \ w.drop : ct[c].running}
Promoting(calls, w) ==
  \/ calls = <<Call("promote", 0)>> /\ w = NoWork
  \/ /\ calls = <<>> /\ w.create = 0 /\ w.onFail = "ignore" /\ ~w.failed
     /\ Waits => Cardinality(Serving(w)) + Cardinality(w.promote) >= rollout.orig

NextCanaries == ceilPct(rollout.orig, rollout.steps[rollout.idx + 1])

Goes(j) ==
  /\ j.kind = "tick" => First(j, "health")
  /\ j.kind = "start" =>
       First(j, "startList") \/ Ramping(j.calls, j.work, ceilPct(j.orig, j.steps[1]), j.orig)
  /\ j.kind = "advance" /\ Waits =>
       First(j, "health") \/ Ramping(j.calls, j.work, NextCanaries, rollout.orig)
  /\ j.kind = "promote" => atLastStep /\ Promoting(j.calls, j.work)
  /\ j.kind \in {"rollback", "abort"} => Restoring(j.calls, j.work, rollout.orig)

\* What a rollout has while it waits: all replicas, and no more canaries than
\* its next step wants, or at its last step as many as there were replicas.
Capacity ==
  /\ Cardinality(All) >= rollout.orig
  /\ atLastStep => Cardinality(Canary) >= rollout.orig
  /\ ~atLastStep => Cardinality(Canary) <= NextCanaries

Replacing(j) == j.kind = "promote" /\ j.calls = <<>>

AllGo == \A a \in Actor : Goes(job[a])
Held == Waits /\ (\A a \in Actor : ~Replacing(job[a])) => Capacity

Inv == Base /\ AllGo /\ Held

StepsOK == RollbackRestoresStep /\ CompletedServesStep

-----------------------------------------------------------------------------
(* What a step has to show                                                 *)

LEMMA InvFacts ==
  ASSUME Inv, NEW a \in Actor, job[a].kind # "idle"
  PROVE  /\ Base /\ Typed /\ RolloutTyped /\ ContainersTyped /\ LiveServes
         /\ JobTyped(job[a]) /\ Fits(a, job[a]) /\ Goes(job[a]) /\ WorkOK(job[a].work)
         /\ \A b \in Actor \ {a} : job[b] = Idle
         /\ Waits /\ ~Replacing(job[a]) => Capacity
<1>1. \A b \in Actor \ {a} : job[b] = Idle
  BY OneAtWork DEF Inv
<1>2. \A b \in Actor \ {a} : ~Replacing(job[b])
  BY <1>1 DEF Replacing, Idle, Job
<1>3. Waits /\ ~Replacing(job[a]) => Capacity
  BY <1>2 DEF Inv, Held
<1>. QED  BY <1>1, <1>3 DEF Inv, Base, Typed, JobsFit, WorksOK, AllGo

\* The manager is left alone.
LEMMA MoveKeeps ==
  ASSUME Inv, Base', NEW a \in Actor, \A b \in Actor \ {a} : job[b] = Idle,
         NEW j, job' = [job EXCEPT ![a] = j], rollout' = rollout,
         Goes(j)', Waits /\ ~Replacing(j) => Capacity'
  PROVE  Inv' /\ StepsOK
<1>1. job'[a] = j /\ \A b \in Actor \ {a} : job'[b] = Idle
  BY DEF Inv, Base, Typed
<1>2. Goes(Idle)'
  BY DEF Goes, Idle, Job
<1>3. AllGo'
  BY <1>1, <1>2 DEF AllGo
<1>4. Held'
  BY <1>1 DEF Held, Waits, Replacing
<1>5. StepsOK
  BY DEF StepsOK, RollbackRestoresStep, CompletedServesStep, Inv, Base, Typed, RolloutTyped,
     rolloutActive
<1>. QED  BY <1>3, <1>4, <1>5 DEF Inv

\* A job fails, or finds nothing to do: a rollout that goes on waiting has its
\* replicas.
LEMMA EndKeeps ==
  ASSUME Inv, Base', NEW a \in Actor, job[a].kind # "idle",
         NEW ok \in BOOLEAN, ok => job[a].kind = "tick", End(a, ok),
         Waits /\ job[a].kind \in {"advance", "tick"} /\ rollout' = rollout => Capacity'
  PROVE  Inv' /\ StepsOK
<1>. DEFINE j == job[a]
            r == rollout
<1>1. RolloutTyped /\ Fits(a, j) /\ JobTyped(j) /\ \A b \in Actor \ {a} : job[b] = Idle
  BY InvFacts
<1>2. \A b \in Actor : job'[b] = Idle
  BY <1>1 DEF End, Inv, Base, Typed
<1>3. AllGo'
  BY <1>2 DEF AllGo, Goes, Idle, Job
<1>4. rollout' = Outcome(j, ok)
  BY DEF End
<1>5. CASE j.kind \in {"promote", "rollback"}
  <2>1. \E why \in {"promote", "rollback"} :
          rollout' = RolloutState("failed", r.idx, r.orig, r.steps, why)
    BY <1>4, <1>5 DEF Outcome, Promoted
  <2>2. rollout'.status = "failed" /\ rollout'.why # "unhealthy"
    BY <2>1 DEF RolloutState
  <2>. QED  BY <1>3, <2>2 DEF Inv, Held, Waits, StepsOK, RollbackRestoresStep, CompletedServesStep
<1>6. CASE j.kind \notin {"promote", "rollback"}
  <2>1. rollout' = r
    BY <1>4, <1>6 DEF Outcome
  <2>2. StepsOK
    BY <1>1, <2>1 DEF StepsOK, RollbackRestoresStep, CompletedServesStep, RolloutTyped, rolloutActive
  <2>3. Waits => j.kind \in {"advance", "tick"}
    BY <1>1, <1>6 DEF Waits, Fits, JobTyped, Kinds, rolloutActive
  <2>4. Held'
    BY <2>1, <2>3 DEF Held, Waits
  <2>. QED  BY <1>3, <2>2, <2>4 DEF Inv
<1>. QED  BY <1>5, <1>6

LEMMA ShareOf ==
  ASSUME RolloutAssumption, NEW steps \in Plans, NEW i \in 1 .. Len(steps), NEW orig \in Nat \ {0}
  PROVE  /\ steps \in Seq(1 .. 100) /\ steps[i] \in 1 .. 100
         /\ ceilPct(orig, steps[i]) \in 1 .. orig
         /\ i = Len(steps) => ceilPct(orig, steps[i]) = orig
         /\ i # Len(steps) => ceilPct(orig, steps[i]) <= ceilPct(orig, steps[i + 1])
<1>1. steps \in Seq(1 .. 100) /\ steps # <<>> /\ ValidSteps(steps)
  BY DEF RolloutAssumption
<1>2. steps[i] \in 1 .. 100
  BY <1>1, ElementIs
<1>3. ceilPct(orig, steps[i]) \in 1 .. orig
  BY <1>2, ShareBounds
<1>4. i = Len(steps) => ceilPct(orig, steps[i]) = orig
  BY <1>1, <1>2, ShareBounds DEF ValidSteps
<1>5. ASSUME i # Len(steps) PROVE ceilPct(orig, steps[i]) <= ceilPct(orig, steps[i + 1])
  <2>1. Len(steps) \in Nat /\ i \in 1 .. Len(steps) - 1 /\ i + 1 \in 1 .. Len(steps)
    BY <1>1, <1>5
  <2>2. steps[i] < steps[i + 1] /\ steps[i + 1] \in 1 .. 100
    <3>1. steps[i + 1] \in 1 .. 100
      BY <1>1, <2>1, ElementIs
    <3>. QED  BY <1>1, <2>1, <3>1 DEF ValidSteps
  <2>3. steps[i + 1] \in steps[i] .. 100
    <3>1. \A x, y \in 1 .. 100 : x < y => y \in x .. 100
      OBVIOUS
    <3>. QED  BY <1>2, <2>2, <3>1
  <2>. QED  BY <1>2, <2>3, ShareBounds
<1>. QED  BY <1>1, <1>2, <1>3, <1>4, <1>5

LEMMA RampDone ==
  ASSUME NEW w, NEW orig \in Nat, NEW n \in 0 .. orig, Ramping(<<>>, w, n, orig), WorkDone(w),
         Cardinality(Canary) \in Nat
  PROVE  Cardinality(Canary) = n /\ Cardinality(All) >= orig
<1>1. \A do \in {"createCanary", "scaleCanary"} : <<Call(do, n)>> \o scaleLiveTo(orig - n) # <<>>
  BY RampIs
<1>2. CASE Creating(w, TRUE) /\ Cardinality(Canary) + w.create = n
  BY <1>2 DEF WorkDone, Ramping
<1>3. CASE Cardinality(Canary) = n
  BY <1>3 DEF Ramping
<1>. QED  BY <1>1, <1>2, <1>3 DEF Ramping

LEMMA FinishKeeps ==
  ASSUME RolloutAssumption, Inv, NEW a \in Actor, Finish(a)
  PROVE  Inv' /\ StepsOK
<1>. DEFINE j == job[a]
            r == rollout
<1>1. j.kind # "idle" /\ WorkDone(j.work) /\ j.calls = <<>> /\ End(a, TRUE) /\ ct' = ct
  BY DEF Finish
<1>2. /\ Base /\ RolloutTyped /\ Fits(a, j) /\ JobTyped(j) /\ Goes(j) /\ ContainersTyped
      /\ \A b \in Actor \ {a} : job[b] = Idle
  BY <1>1, InvFacts
<1>3. Base'
  BY <1>2, FinishBase
<1>4. \A b \in Actor : job'[b] = Idle
  BY <1>1, <1>2 DEF End, Base, Typed
<1>5. AllGo'
  BY <1>4 DEF AllGo, Goes, Idle, Job
<1>6. rollout' = Outcome(j, TRUE)
  BY <1>1 DEF End
<1>7. \A do : ~First(j, do)
  BY <1>1, FirstIs
<1>8. Cardinality(Canary) \in Nat /\ Cardinality(Live) \in Nat /\ Cardinality(All) \in Nat
  BY <1>2, SizesOf
<1>9. All' = All /\ Canary' = Canary /\ Live' = Live
  BY <1>1 DEF All, Canary, Live
<1>10. CASE j.kind = "start"
  <2>1. rollout' = RolloutState("awaiting-advance", 1, j.orig, j.steps, "")
    BY <1>6, <1>10 DEF Outcome
  <2>2. j.steps \in Plans /\ j.orig \in Nat \ {0} /\ ~rolloutActive
    BY <1>2, <1>7, <1>10 DEF Fits, JobTyped
  <2>3. PICK n : n = ceilPct(j.orig, j.steps[1])
    OBVIOUS
  <2>4. 1 \in 1 .. Len(j.steps)
    BY <2>2 DEF RolloutAssumption
  <2>5. /\ n \in 1 .. j.orig
        /\ 1 = Len(j.steps) => n = j.orig
        /\ 1 # Len(j.steps) => n <= ceilPct(j.orig, j.steps[1 + 1])
    BY <2>2, <2>3, <2>4, ShareOf
  <2>6. Ramping(<<>>, j.work, n, j.orig)
    BY <1>1, <1>2, <1>7, <1>10, <2>3 DEF Goes
  <2>7. Cardinality(Canary) = n /\ Cardinality(All) >= j.orig
    <3>1. n \in 0 .. j.orig /\ j.orig \in Nat
      BY <2>2, <2>5
    <3>. QED  BY <1>1, <1>8, <2>6, <3>1, RampDone
  <2>8. rollout'.idx = 1 /\ rollout'.orig = j.orig /\ rollout'.steps = j.steps
        /\ rollout'.status = "awaiting-advance"
    BY <2>1 DEF RolloutState
  <2>9. Capacity'
    BY <1>9, <2>2, <2>5, <2>7, <2>8 DEF Capacity, atLastStep, NextCanaries
  <2>10. StepsOK
    BY <2>2, <2>8 DEF StepsOK, RollbackRestoresStep, CompletedServesStep
  <2>. QED  BY <1>3, <1>5, <2>9, <2>10 DEF Inv, Held
<1>11. CASE j.kind = "advance"
  <2>1. rollout' = RolloutState(r.status, r.idx + 1, r.orig, r.steps, r.why)
    BY <1>6, <1>11 DEF Outcome
  <2>2. /\ rollout'.idx = r.idx + 1 /\ rollout'.orig = r.orig /\ rollout'.steps = r.steps
        /\ rollout'.status = r.status /\ rollout'.why = r.why
    BY <2>1 DEF RolloutState
  <2>3. rolloutActive /\ ~atLastStep
    BY <1>2, <1>7, <1>11 DEF Fits
  <2>4. StepsOK
    BY <1>2, <2>2, <2>3 DEF StepsOK, RollbackRestoresStep, CompletedServesStep, RolloutTyped,
       rolloutActive
  <2>5. ASSUME Waits PROVE Capacity'
    <3>1. PICK n : n = NextCanaries
      OBVIOUS
    <3>2. PICK i : i = r.idx + 1
      OBVIOUS
    <3>3. r.steps \in Plans /\ i \in 1 .. Len(r.steps) /\ r.orig \in Nat \ {0} /\ n = ceilPct(r.orig, r.steps[i])
      BY <1>2, <2>3, <3>1, <3>2, NextStepIs DEF NextCanaries
    <3>4. /\ n \in 1 .. r.orig
          /\ i = Len(r.steps) => n = r.orig
          /\ i # Len(r.steps) => n <= ceilPct(r.orig, r.steps[i + 1])
      BY <3>3, ShareOf
    <3>5. Ramping(<<>>, j.work, n, r.orig)
      BY <1>1, <1>2, <1>7, <1>11, <2>5, <3>1 DEF Goes
    <3>6. Cardinality(Canary) = n /\ Cardinality(All) >= r.orig
      <4>1. n \in 0 .. r.orig /\ r.orig \in Nat
        BY <3>3, <3>4
      <4>. QED  BY <1>1, <1>8, <3>5, <4>1, RampDone
    <3>. QED  BY <1>9, <2>2, <3>2, <3>3, <3>4, <3>6 DEF Capacity, atLastStep, NextCanaries
  <2>6. Held'
    BY <2>2, <2>5 DEF Held, Waits
  <2>. QED  BY <1>3, <1>5, <2>4, <2>6 DEF Inv
<1>12. CASE j.kind = "promote"
  <2>1. rollout' = RolloutState("completed", r.idx, r.orig, r.steps, "")
    BY <1>6, <1>12 DEF Outcome, Promoted
  <2>2. rollout'.status = "completed" /\ rollout'.why = ""
    BY <2>1 DEF RolloutState
  <2>3. ASSUME Waits
        PROVE  Cardinality({c \in Live' : ct'[c].running}) >= r.orig
    <3>1. <<>> # <<Call("promote", 0)>>
      OBVIOUS
    <3>2. Cardinality(Serving(j.work)) + Cardinality(j.work.promote) >= r.orig
      BY <1>1, <1>2, <1>12, <2>3, <3>1 DEF Goes, Promoting
    <3>3. j.work.promote = {} /\ j.work.drop = {}
      BY <1>1 DEF WorkDone
    <3>4. Serving(j.work) = {c \in Live' : ct'[c].running}
      BY <1>1, <1>9, <3>3 DEF Serving
    <3>5. Serving(j.work) \in SUBSET Live
      BY DEF Serving
    <3>6. Cardinality(Serving(j.work)) \in Nat
      BY <1>2, <3>5, SizesOf, FS_Subset, FS_CardinalityType
    <3>7. Cardinality(j.work.promote) = 0
      BY <3>3, FS_EmptySet
    <3>8. Cardinality(Serving(j.work)) >= r.orig
      BY <3>2, <3>6, <3>7
    <3>. QED  BY <3>4, <3>8, Zenon
  <2>4. StepsOK
    BY <2>2, <2>3 DEF StepsOK, RollbackRestoresStep, CompletedServesStep, Waits
  <2>. QED  BY <1>3, <1>5, <2>2, <2>4 DEF Inv, Held, Waits
<1>13. CASE j.kind \in {"rollback", "abort"}
  <2>1. rollout'.status \in {"failed", "rolled-back"}
    <3>1. PICK status \in {"failed", "rolled-back"} :
            \E why : rollout' = RolloutState(status, r.idx, r.orig, r.steps, why)
      BY <1>6, <1>13 DEF Outcome
    <3>. QED  BY <3>1 DEF RolloutState
  <2>3. Restoring(<<>>, j.work, r.orig)
    BY <1>1, <1>2, <1>13 DEF Goes
  <2>4. \A c : <<c>> # <<>>
    OBVIOUS
  <2>5. <<Call("discard", 0)>> \o <<Call("scaleLive", r.orig)>> # <<>>
    BY TwoCalls
  <2>6. Canary = {} /\ Cardinality(Live) = r.orig
    <3>1. Live \ {} = Live /\ j.work.drop = {} /\ j.work.create = 0
      BY <1>1 DEF WorkDone
    <3>2. /\ Canary = {}
          /\ Cardinality(Live) + j.work.create = r.orig \/ Cardinality(Live \ j.work.drop) = r.orig
      BY <2>3, <2>4, <2>5 DEF Restoring
    <3>3. Cardinality(Live \ j.work.drop) = r.orig => Cardinality(Live) = r.orig
      BY <3>1, Zenon
    <3>4. Cardinality(Live) + j.work.create = Cardinality(Live)
      BY <1>8, <3>1
    <3>. QED  BY <3>2, <3>3, <3>4
  <2>7. StepsOK
    BY <1>9, <2>1, <2>6 DEF StepsOK, RollbackRestoresStep, CompletedServesStep
  <2>. QED  BY <1>3, <1>5, <2>1, <2>7 DEF Inv, Held, Waits
<1>14. CASE j.kind = "plain"
  <2>1. rollout' = r
    BY <1>6, <1>14 DEF Outcome
  <2>2. ~rolloutActive
    BY <1>2, <1>14 DEF Fits
  <2>3. StepsOK
    BY <2>1, <2>2 DEF StepsOK, RollbackRestoresStep, CompletedServesStep, rolloutActive
  <2>. QED  BY <1>3, <1>5, <2>1, <2>2, <2>3 DEF Inv, Held, Waits, rolloutActive
<1>15. j.kind # "tick"
  BY <1>2, <1>7 DEF Goes
<1>. QED  BY <1>1, <1>2, <1>10, <1>11, <1>12, <1>13, <1>14, <1>15 DEF JobTyped, Kinds

-----------------------------------------------------------------------------
(* Steps that leave the containers alone, again                            *)

LEMMA SameCapacity ==
  ASSUME ct' = ct, rollout' = rollout, Capacity
  PROVE  Capacity'
BY DEF Capacity, atLastStep, NextCanaries, All, Canary

LEMMA StartListKeeps ==
  ASSUME RolloutAssumption, Inv, NEW a \in Actor, StartList(a)
  PROVE  Inv' /\ StepsOK
<1>1. job[a].calls # <<>> /\ Head(job[a].calls).do = "startList" /\ ct' = ct
  BY DEF StartList, At
<1>2. job[a].kind = "start"
  BY <1>1, AtWork DEF Inv
<1>3. /\ Base /\ ContainersTyped /\ Fits(a, job[a]) /\ \A b \in Actor \ {a} : job[b] = Idle
  BY <1>2, InvFacts
<1>4. Base'
  BY <1>3, StartListBase
<1>5. CASE End(a, FALSE)
  BY <1>2, <1>4, <1>5, EndKeeps
<1>6. CASE ~End(a, FALSE)
  <2>1. PICK orig : orig = Cardinality(Live)
    OBVIOUS
  <2>2. PICK n : n = ceilPct(orig, job[a].steps[1])
    OBVIOUS
  <2>3. PICK j : j = Job("start", <<Call("createCanary", n)>> \o scaleLiveTo(orig - n), orig, job[a].steps)
    OBVIOUS
  <2>4. Canary = {} /\ orig # 0 /\ KeepManager /\ SetJob(a, j)
    BY <1>6, <2>1, <2>2, <2>3 DEF StartList
  <2>5. orig \in Nat \ {0} /\ Cardinality(All) = orig /\ Cardinality(Canary) = 0
    BY <1>3, <2>1, <2>4, SizesOf
  <2>6. job[a].steps \in Plans
    BY <1>2, <1>3 DEF Fits
  <2>7. 1 \in 1 .. Len(job[a].steps)
    BY <2>6 DEF RolloutAssumption
  <2>8. n \in 1 .. orig
    BY <2>2, <2>5, <2>6, <2>7, ShareOf
  <2>9. /\ j.kind = "start" /\ j.work = NoWork /\ j.orig = orig /\ j.steps = job[a].steps
        /\ j.calls = <<Call("createCanary", n)>> \o scaleLiveTo(orig - n)
    BY <2>3 DEF Job
  <2>10. ceilPct(j.orig, j.steps[1]) = n
    BY <2>2, <2>9
  <2>11. Ramping(j.calls, j.work, n, orig)
    BY <2>5, <2>8, <2>9 DEF Ramping
  <2>12. Ramping(j.calls, j.work, n, orig)'
    BY <1>1, <2>11 DEF Ramping, All, Canary, Live
  <2>13. Goes(j)'
    BY <2>9, <2>10, <2>12 DEF Goes
  <2>14. ~Waits
    BY <1>2, <1>3 DEF Fits, Waits, rolloutActive
  <2>. QED  BY <1>3, <1>4, <2>4, <2>13, <2>14, MoveKeeps DEF SetJob, KeepManager
<1>. QED  BY <1>5, <1>6

LEMMA CheckHealthKeeps ==
  ASSUME RolloutAssumption, Inv, NEW a \in Actor, CheckHealth(a)
  PROVE  Inv' /\ StepsOK
<1>1. job[a].calls # <<>> /\ Head(job[a].calls).do = "health" /\ ct' = ct
  BY DEF CheckHealth, At
<1>2. job[a].kind \in {"tick", "advance"}
  BY <1>1, AtWork DEF Inv
<1>3. /\ Base /\ RolloutTyped /\ ContainersTyped /\ Fits(a, job[a])
      /\ \A b \in Actor \ {a} : job[b] = Idle
      /\ Waits => Capacity
  BY <1>2, InvFacts DEF Replacing
<1>4. Base'
  BY <1>3, CheckHealthBase
<1>5. rolloutActive
  BY <1>2, <1>3 DEF Fits, Waits, rolloutActive
<1>6. CASE ~checkCanaryHealth
  <2>1. PICK j : j = Job("rollback", <<Call("rollback", 0)>>, 0, <<>>)
    OBVIOUS
  <2>2. job' = [job EXCEPT ![a] = j] /\ rollout' = [rollout EXCEPT !.status = "rolling-back"]
    BY <1>6, <2>1 DEF CheckHealth, SetJob
  <2>3. rollout'.status = "rolling-back" /\ rollout'.why = ""
    BY <1>3, <1>5, <2>2 DEF RolloutTyped
  <2>4. j.kind = "rollback" /\ j.calls = <<Call("rollback", 0)>> /\ j.work = NoWork
    BY <2>1 DEF Job
  <2>5. Goes(j)' /\ Goes(Idle)'
    BY <2>4 DEF Goes, Restoring, Idle, Job
  <2>6. job'[a] = j /\ \A b \in Actor \ {a} : job'[b] = Idle
    BY <1>3, <2>2 DEF Base, Typed
  <2>7. AllGo'
    BY <2>5, <2>6 DEF AllGo
  <2>8. StepsOK
    BY <2>3 DEF StepsOK, RollbackRestoresStep, CompletedServesStep
  <2>. QED  BY <1>4, <2>3, <2>7, <2>8 DEF Inv, Held, Waits
<1>7. CASE checkCanaryHealth /\ job[a].kind = "tick"
  <2>1. End(a, TRUE)
    BY <1>7 DEF CheckHealth
  <2>. QED  BY <1>1, <1>3, <1>4, <1>7, <2>1, SameCapacity, EndKeeps
<1>8. CASE checkCanaryHealth /\ job[a].kind # "tick" /\ atLastStep
  <2>1. PICK j : j = Job("promote", <<Call("promote", 0)>>, 0, <<>>)
    OBVIOUS
  <2>2. SetJob(a, j) /\ KeepManager
    BY <1>8, <2>1 DEF CheckHealth
  <2>3. j.kind = "promote" /\ j.calls = <<Call("promote", 0)>> /\ j.work = NoWork
    BY <2>1 DEF Job
  <2>4. Goes(j)'
    BY <1>8, <2>2, <2>3 DEF Goes, Promoting, atLastStep, KeepManager
  <2>. QED  BY <1>1, <1>3, <1>4, <2>2, <2>4, SameCapacity, MoveKeeps DEF SetJob, KeepManager
<1>9. CASE checkCanaryHealth /\ job[a].kind # "tick" /\ ~atLastStep
  <2>1. PICK n : n = NextCanaries
    OBVIOUS
  <2>2. PICK orig : orig = rollout.orig
    OBVIOUS
  <2>3. PICK j : j = Job("advance", Ramp(n), 0, <<>>)
    OBVIOUS
  <2>4. SetJob(a, j) /\ KeepManager
    BY <1>9, <2>1, <2>3 DEF CheckHealth, NextCanaries
  <2>5. j.kind = "advance" /\ j.work = NoWork /\ j.calls = Ramp(n)
    BY <2>3 DEF Job
  <2>6. j.calls = <<Call("scaleCanary", n)>> \o scaleLiveTo(orig - n)
    BY <2>2, <2>5 DEF Ramp
  <2>7. Waits => Ramping(j.calls, j.work, n, orig)
    BY <1>3, <1>9, <2>1, <2>2, <2>5, <2>6 DEF Ramping, Capacity
  <2>8. Waits => Ramping(j.calls, j.work, n, orig)'
    BY <1>1, <2>7 DEF Ramping, All, Canary, Live
  <2>9. NextCanaries' = n /\ rollout'.orig = orig /\ Waits' = Waits
    BY <2>1, <2>2, <2>4 DEF NextCanaries, KeepManager, Waits
  <2>10. Goes(j)'
    BY <2>5, <2>8, <2>9 DEF Goes
  <2>. QED  BY <1>1, <1>3, <1>4, <2>4, <2>10, SameCapacity, MoveKeeps DEF SetJob, KeepManager
<1>. QED  BY <1>6, <1>7, <1>8, <1>9

LEMMA RollbackKeeps ==
  ASSUME RolloutAssumption, Inv, NEW a \in Actor, Rollback(a)
  PROVE  Inv' /\ StepsOK
<1>1. /\ job[a].calls # <<>> /\ Head(job[a].calls).do = "rollback" /\ ct' = ct /\ KeepManager
  BY DEF Rollback, At
<1>2. job[a].kind \in {"rollback", "abort"}
  BY <1>1, AtWork DEF Inv
<1>3. Base /\ Fits(a, job[a]) /\ \A b \in Actor \ {a} : job[b] = Idle
  BY <1>2, InvFacts
<1>4. Base'
  BY <1>3, RollbackBase
<1>5. PICK orig : orig = rollout.orig
  OBVIOUS
<1>6. PICK j : j = Job(job[a].kind, (IF Canary # {} THEN <<Call("discard", 0)>> ELSE <<>>)
                                      \o <<Call("scaleLive", rollout.orig)>>, 0, <<>>)
  OBVIOUS
<1>7. SetJob(a, j)
  BY <1>6 DEF Rollback
<1>8. /\ j.kind = job[a].kind /\ j.work = NoWork
      /\ j.calls = (IF Canary # {} THEN <<Call("discard", 0)>> ELSE <<>>)
                     \o <<Call("scaleLive", orig)>>
  BY <1>5, <1>6 DEF Job
<1>9. Restoring(j.calls, j.work, orig)
  <2>1. CASE Canary # {}
    BY <1>8, <2>1 DEF Restoring
  <2>2. CASE Canary = {}
    <3>1. <<Call("scaleLive", orig)>> \in Seq({Call("scaleLive", orig)})
      OBVIOUS
    <3>2. <<>> \o <<Call("scaleLive", orig)>> = <<Call("scaleLive", orig)>>
      BY <3>1, ConcatEmptySeq
    <3>3. j.calls = <<>> \o <<Call("scaleLive", orig)>>
      BY <1>8, <2>2, Zenon
    <3>4. j.calls = <<Call("scaleLive", orig)>>
      BY <3>2, <3>3
    <3>. QED  BY <1>8, <2>2, <3>4 DEF Restoring, Dropping, NoWork, Work
  <2>. QED  BY <2>1, <2>2
<1>10. Restoring(j.calls, j.work, orig)'
  BY <1>1, <1>9 DEF Restoring, All, Canary, Live
<1>11. rollout'.orig = orig
  BY <1>1, <1>5 DEF KeepManager
<1>12. Goes(j)'
  BY <1>2, <1>8, <1>10, <1>11 DEF Goes
<1>13. ~Waits
  BY <1>2, <1>3 DEF Fits, Waits
<1>. QED  BY <1>1, <1>3, <1>4, <1>7, <1>12, <1>13, MoveKeeps DEF SetJob, KeepManager

\* What scaleService finds to do.
LEMMA ScaleWork ==
  ASSUME RolloutAssumption, ContainersTyped, LiveServes, NEW m \in Nat \ {0},
         NEW v \in WorkOf(Call("scaleLive", m))
  PROVE  \/ Creating(v, FALSE) /\ v.create \in Nat /\ Cardinality(Live) + v.create = m
         \/ /\ Dropping(v) /\ v.onFail = "stop" /\ v.drop \subseteq Live
            /\ Cardinality(Live \ v.drop) = m
<1>1. v \in scaleService(m)
  BY DEF WorkOf, Call
<1>2. Cardinality(Live) \in Nat
  BY SizesOf
<1>3. CASE Cardinality(Live) <= m
  <2>1. v = Create(m - Cardinality(Live), FALSE)
    BY <1>1, <1>3 DEF scaleService
  <2>2. Creating(v, FALSE) /\ v.create = m - Cardinality(Live)
    BY <2>1 DEF Create, Work, Creating
  <2>3. m - Cardinality(Live) \in Nat /\ Cardinality(Live) + (m - Cardinality(Live)) = m
    BY <1>2, <1>3
  <2>. QED  BY <2>2, <2>3
<1>4. CASE ~(Cardinality(Live) <= m)
  <2>1. PICK S \in Removable(Cardinality(Live) - m) : v = Drop(S, "stop")
    BY <1>1, <1>4 DEF scaleService
  <2>2. Cardinality(Live) > m
    BY <1>2, <1>4
  <2>3. S \subseteq Live /\ Cardinality(Live \ S) = m
    BY <2>2, RemovableLeaves
  <2>4. Dropping(v) /\ v.onFail = "stop" /\ v.drop = S
    BY <2>1 DEF Drop, Work, Dropping
  <2>. QED  BY <2>3, <2>4
<1>. QED  BY <1>3, <1>4

LEMMA ListRamps ==
  ASSUME RolloutAssumption, ContainersTyped, LiveServes,
         NEW calls, NEW w, NEW orig \in Nat, NEW n \in 1 .. orig,
         Ramping(calls, w, n, orig), WorkDone(w), calls # <<>>, NEW v \in WorkOf(Head(calls))
  PROVE  Ramping(Tail(calls), v, n, orig)
<1>1. Cardinality(Canary) \in Nat /\ Cardinality(Canary) <= n /\ Cardinality(All) >= orig
  BY SizesOf DEF Ramping
<1>2. n \in 0 .. orig
  OBVIOUS
<1>3. ASSUME NEW do \in {"createCanary", "scaleCanary"},
             calls = <<Call(do, n)>> \o scaleLiveTo(orig - n)
      PROVE  Ramping(Tail(calls), v, n, orig)
  <2>1. Head(calls) = Call(do, n) /\ Tail(calls) = scaleLiveTo(orig - n)
    BY <1>2, <1>3, RampIs
  <2>2. v \in WorkOf(Call(do, n))
    BY <2>1
  <2>3. \E k \in Nat : v = Create(k, TRUE) /\ Cardinality(Canary) + k = n
    <3>1. CASE do = "createCanary"
      <4>1. v \in createCanaryReplicas(n)
        BY <2>2, <3>1 DEF WorkOf, Call
      <4>2. Canary = {} /\ v = Create(n, TRUE)
        BY <4>1 DEF createCanaryReplicas
      <4>3. Cardinality(Canary) = 0
        BY <4>2, SizesOf
      <4>4. n \in Nat /\ Cardinality(Canary) + n = n
        BY <4>3
      <4>. QED  BY <4>2, <4>4
    <3>2. CASE do = "scaleCanary"
      <4>1. v \in scaleCanary(n)
        BY <2>2, <3>2 DEF WorkOf, Call
      <4>2. v = Create(n - Cardinality(Canary), TRUE)
        BY <1>1, <4>1 DEF scaleCanary
      <4>3. n - Cardinality(Canary) \in Nat /\ Cardinality(Canary) + (n - Cardinality(Canary)) = n
        BY <1>1
      <4>. QED  BY <4>2, <4>3
    <3>. QED  BY <3>1, <3>2
  <2>4. Creating(v, TRUE) /\ Cardinality(Canary) + v.create = n
    BY <2>3 DEF Create, Work, Creating
  <2>. QED  BY <1>1, <2>1, <2>4 DEF Ramping
<1>4. ASSUME calls = scaleLiveTo(orig - n), Creating(w, TRUE), Cardinality(Canary) + w.create = n
      PROVE  Ramping(Tail(calls), v, n, orig)
  <2>1. Cardinality(Canary) = n
    BY <1>1, <1>4 DEF WorkDone
  <2>2. orig - n \in Nat /\ orig - n > 0
    BY <1>4, ScaleIs
  <2>3. Head(calls) = Call("scaleLive", orig - n) /\ Tail(calls) = <<>>
    BY <1>4, <2>2, ScaleIs
  <2>4. PICK m \in Nat \ {0} : m = orig - n
    BY <2>2
  <2>5. v \in WorkOf(Call("scaleLive", m))
    BY <2>3, <2>4
  <2>6. \/ Creating(v, FALSE)
        \/ /\ Dropping(v) /\ v.onFail = "stop" /\ v.drop \subseteq Live
           /\ Cardinality(Live \ v.drop) = m
    BY <2>5, ScaleWork
  <2>7. Cardinality(Live \ v.drop) = m => Cardinality(Live \ v.drop) >= orig - n
    BY <2>4
  <2>. QED  BY <1>1, <2>1, <2>3, <2>6, <2>7 DEF Ramping
<1>. QED  BY <1>3, <1>4 DEF Ramping

LEMMA ListRestores ==
  ASSUME RolloutAssumption, ContainersTyped, LiveServes,
         NEW calls, NEW w, NEW orig \in Nat \ {0}, Restoring(calls, w, orig), WorkDone(w),
         calls # <<>>, Head(calls).do \notin Special, NEW v \in WorkOf(Head(calls))
  PROVE  Restoring(Tail(calls), v, orig)
<1>0. \A c : Head(<<c>>) = c /\ Tail(<<c>>) = <<>>
  OBVIOUS
<1>1. calls # <<Call("rollback", 0)>>
  BY <1>0 DEF Call, Special
<1>2. CASE calls = <<Call("discard", 0)>> \o <<Call("scaleLive", orig)>>
  <2>1. Head(calls) = Call("discard", 0) /\ Tail(calls) = <<Call("scaleLive", orig)>>
    BY <1>2, TwoCalls
  <2>2. v = Drop(Canary, "remember")
    BY <2>1 DEF WorkOf, Call, discardCanary
  <2>3. Dropping(v) /\ v.drop = Canary /\ v.onFail = "remember" /\ ~v.failed
    BY <2>2 DEF Drop, Work, Dropping
  <2>. QED  BY <2>1, <2>3 DEF Restoring
<1>3. CASE calls = <<Call("scaleLive", orig)>>
  <2>1. Head(calls) = Call("scaleLive", orig) /\ Tail(calls) = <<>>
    BY <1>0, <1>3
  <2>2. Canary = {}
    <3>1. calls # <<Call("discard", 0)>> \o <<Call("scaleLive", orig)>>
      <4>1. Call("discard", 0) # Call("scaleLive", orig)
        BY DEF Call
      <4>. QED  BY <2>1, <4>1, TwoCalls
    <3>2. w.drop = {}
      BY DEF WorkDone
    <3>3. calls # <<>>
      BY <1>3
    <3>. QED  BY <1>1, <3>1, <3>2, <3>3 DEF Restoring
  <2>3. \/ Creating(v, FALSE) /\ Cardinality(Live) + v.create = orig
        \/ /\ Dropping(v) /\ v.onFail = "stop" /\ v.drop \subseteq Live
           /\ Cardinality(Live \ v.drop) = orig
    BY <2>1, ScaleWork
  <2>. QED  BY <2>1, <2>2, <2>3 DEF Restoring
<1>. QED  BY <1>1, <1>2, <1>3 DEF Restoring

LEMMA ListKeeps ==
  ASSUME RolloutAssumption, Inv, NEW a \in Actor, List(a)
  PROVE  Inv' /\ StepsOK
<1>1. /\ WorkDone(job[a].work) /\ job[a].calls # <<>> /\ Head(job[a].calls).do \notin Special
      /\ ct' = ct
  BY DEF List
<1>2. job[a].kind # "idle"
  BY <1>1, AtWork DEF Inv
<1>3. /\ Base /\ RolloutTyped /\ ContainersTyped /\ LiveServes /\ Fits(a, job[a])
      /\ JobTyped(job[a]) /\ Goes(job[a])
      /\ \A b \in Actor \ {a} : job[b] = Idle
      /\ Waits => Capacity
  BY <1>1, <1>2, InvFacts DEF Replacing
<1>4. Base'
  BY <1>3, ListBase
<1>5. CASE End(a, FALSE)
  BY <1>1, <1>2, <1>3, <1>4, <1>5, SameCapacity, EndKeeps
<1>6. CASE ~End(a, FALSE)
  <2>1. PICK v \in WorkOf(Head(job[a].calls)) :
          SetJob(a, [job[a] EXCEPT !.calls = Tail(job[a].calls), !.work = v])
    BY <1>6 DEF List
  <2>2. rollout' = rollout
    BY <1>6 DEF List, KeepManager
  <2>3. PICK calls, w : calls = job[a].calls /\ w = job[a].work
    OBVIOUS
  <2>4. PICK j : j = [job[a] EXCEPT !.calls = Tail(calls), !.work = v]
    OBVIOUS
  <2>5. /\ j.kind = job[a].kind /\ j.calls = Tail(calls) /\ j.work = v
        /\ j.orig = job[a].orig /\ j.steps = job[a].steps
    BY <1>3, <2>4 DEF JobTyped
  <2>6. job' = [job EXCEPT ![a] = j]
    BY <2>1, <2>3, <2>4 DEF SetJob
  <2>7. ~First(job[a], "startList") /\ ~First(job[a], "health")
    BY <1>1, FirstIs DEF Special
  <2>8. job[a].kind # "tick"
    BY <1>3, <2>7 DEF Goes
  <2>9. ASSUME NEW n, NEW orig \in Nat, n \in 1 .. orig, Ramping(job[a].calls, job[a].work, n, orig)
        PROVE  Ramping(j.calls, j.work, n, orig)'
    <3>1. Ramping(j.calls, j.work, n, orig)
      BY <1>1, <1>3, <2>1, <2>3, <2>5, <2>9, ListRamps
    <3>. QED  BY <1>1, <3>1 DEF Ramping, All, Canary, Live
  <2>10. CASE j.kind = "start"
    <3>1. job[a].orig \in Nat \ {0} /\ job[a].steps \in Plans /\ ~rolloutActive
      BY <1>3, <2>5, <2>7, <2>10 DEF Fits, JobTyped
    <3>2. PICK n, orig : orig = job[a].orig /\ n = ceilPct(orig, job[a].steps[1])
      OBVIOUS
    <3>3. 1 \in 1 .. Len(job[a].steps)
      BY <3>1 DEF RolloutAssumption
    <3>4. orig \in Nat /\ n \in 1 .. orig
      BY <3>1, <3>2, <3>3, ShareOf
    <3>5. Ramping(job[a].calls, job[a].work, n, orig)
      BY <1>3, <2>5, <2>7, <2>10, <3>2 DEF Goes
    <3>6. Ramping(j.calls, j.work, n, orig)'
      BY <2>9, <3>4, <3>5
    <3>7. Goes(j)'
      BY <2>5, <2>10, <3>2, <3>6 DEF Goes
    <3>. QED  BY <1>3, <1>4, <2>2, <2>6, <3>1, <3>7, MoveKeeps DEF Waits, rolloutActive
  <2>11. CASE j.kind = "advance"
    <3>1. Waits' = Waits /\ NextCanaries' = NextCanaries /\ rolloutActive /\ ~atLastStep
      BY <1>3, <2>2, <2>5, <2>7, <2>11 DEF Waits, NextCanaries, Fits
    <3>2. PICK n, orig : n = NextCanaries /\ orig = rollout.orig
      OBVIOUS
    <3>3. orig \in Nat /\ n \in 1 .. orig
      BY <1>3, <3>1, <3>2, NextStepIs DEF NextCanaries
    <3>4. Waits => Ramping(job[a].calls, job[a].work, n, orig)
      BY <1>3, <2>5, <2>7, <2>11, <3>2 DEF Goes
    <3>5. Waits => Ramping(j.calls, j.work, n, orig)'
      BY <2>9, <3>3, <3>4
    <3>6. Goes(j)'
      BY <2>2, <2>5, <2>11, <3>1, <3>2, <3>5 DEF Goes
    <3>. QED  BY <1>1, <1>3, <1>4, <2>2, <2>6, <3>6, SameCapacity, MoveKeeps
  <2>12. CASE j.kind = "promote"
    <3>1. atLastStep /\ calls = <<Call("promote", 0)>>
      BY <1>1, <1>3, <2>3, <2>5, <2>12 DEF Goes, Promoting
    <3>2. Head(calls) = Call("promote", 0) /\ Tail(calls) = <<>>
      BY <3>1
    <3>3. v = Work(0, FALSE, TRUE, Canary, {}, Live, "ignore", FALSE)
      <4>1. v \in WorkOf(Call("promote", 0))
        BY <2>1, <2>3, <3>2, Zenon
      <4>. QED  BY <4>1 DEF WorkOf, Call, promoteCanary
    <3>4. /\ v.create = 0 /\ v.onFail = "ignore" /\ ~v.failed /\ v.promote = Canary /\ v.drop = Live
      BY <3>3 DEF Work
    <3>5. Waits => Cardinality(Serving(v)) + Cardinality(v.promote) >= rollout.orig
      <4>1. Serving(v) = {}
        BY <3>4 DEF Serving
      <4>2. Cardinality(Serving(v)) = 0 /\ Cardinality(v.promote) = Cardinality(Canary)
        BY <3>4, <4>1, FS_EmptySet, Zenon
      <4>3. Cardinality(Canary) \in Nat
        BY <1>3, SizesOf
      <4>. QED  BY <1>3, <3>1, <4>2, <4>3 DEF Capacity
    <3>6. Promoting(j.calls, j.work)
      BY <2>5, <3>2, <3>4, <3>5 DEF Promoting
    <3>7. Promoting(j.calls, j.work)'
      BY <1>1, <2>2, <3>6 DEF Promoting, Serving, Waits, All, Canary, Live
    <3>8. Goes(j)'
      BY <2>2, <2>12, <3>1, <3>7 DEF Goes, atLastStep
    <3>. QED  BY <1>1, <1>3, <1>4, <2>2, <2>6, <3>8, SameCapacity, MoveKeeps
  <2>13. CASE j.kind \in {"rollback", "abort"}
    <3>1. PICK orig : orig = rollout.orig
      OBVIOUS
    <3>2. rollout.status = "rolling-back" /\ rolloutActive
      BY <1>3, <2>5, <2>13 DEF Fits, rolloutActive
    <3>3. orig \in Nat \ {0}
      <4>1. rollout.orig \in Nat /\ rollout.orig > 0
        BY <1>3, <3>2 DEF RolloutTyped
      <4>. QED  BY <3>1, <4>1
    <3>4. Restoring(calls, w, orig)
      BY <1>3, <2>3, <2>5, <2>13, <3>1 DEF Goes
    <3>5. Restoring(j.calls, j.work, orig)
      BY <1>1, <1>3, <2>1, <2>3, <2>5, <3>3, <3>4, ListRestores
    <3>6. Restoring(j.calls, j.work, orig)'
      BY <1>1, <3>5 DEF Restoring, All, Canary, Live
    <3>7. Goes(j)'
      BY <2>2, <2>13, <3>1, <3>6 DEF Goes
    <3>. QED  BY <1>3, <1>4, <2>2, <2>6, <3>2, <3>7, MoveKeeps DEF Waits
  <2>14. CASE j.kind = "plain"
    <3>1. Goes(j)'
      BY <2>14 DEF Goes
    <3>2. ~Waits
      BY <1>3, <2>5, <2>14 DEF Fits, Waits, rolloutActive
    <3>. QED  BY <1>3, <1>4, <2>2, <2>6, <3>1, <3>2, MoveKeeps
  <2>. QED  BY <1>2, <1>3, <2>5, <2>8, <2>10, <2>11, <2>12, <2>13, <2>14 DEF JobTyped, Kinds
<1>. QED  BY <1>5, <1>6

-----------------------------------------------------------------------------
(* Steps of the work of a call, again                                      *)

\* A step of the work goes on as its kind of job goes.
LEMMA WorkKeeps ==
  ASSUME RolloutAssumption, Inv, Base', NEW a \in Actor, NEW calls, NEW w, NEW v,
         calls = job[a].calls, w = job[a].work, ~WorkDone(w), SetWork(a, v), KeepManager,
         \A orig \in Nat : \A n \in 1 .. orig :
           Ramping(calls, w, n, orig) => Ramping(calls, v, n, orig)',
         \A orig \in Nat \ {0} : Restoring(calls, w, orig) => Restoring(calls, v, orig)',
         calls = <<>> /\ Promoting(calls, w) => Promoting(calls, v)'
  PROVE  Inv' /\ StepsOK
<1>1. job[a].kind # "idle" /\ ~First(job[a], "startList") /\ ~First(job[a], "health")
  BY WorkFacts DEF Inv
<1>2. /\ Base /\ RolloutTyped /\ ContainersTyped /\ Fits(a, job[a]) /\ JobTyped(job[a])
      /\ Goes(job[a]) /\ \A b \in Actor \ {a} : job[b] = Idle
      /\ Waits /\ ~Replacing(job[a]) => Capacity
  BY <1>1, InvFacts
<1>3. PICK j : j = [job[a] EXCEPT !.work = v]
  OBVIOUS
<1>4. /\ j.kind = job[a].kind /\ j.calls = calls /\ j.work = v
      /\ j.orig = job[a].orig /\ j.steps = job[a].steps
  BY <1>2, <1>3 DEF JobTyped
<1>5. job' = [job EXCEPT ![a] = j] /\ rollout' = rollout
  BY <1>2, <1>3 DEF SetWork, KeepManager, Base, Typed
<1>6. job[a].kind # "tick"
  BY <1>1, <1>2 DEF Goes
<1>7. CASE j.kind = "start"
  <2>1. job[a].orig \in Nat \ {0} /\ job[a].steps \in Plans /\ ~rolloutActive
    BY <1>1, <1>2, <1>4, <1>7 DEF Fits, JobTyped
  <2>2. PICK n, orig : orig = job[a].orig /\ n = ceilPct(orig, job[a].steps[1])
    OBVIOUS
  <2>3. 1 \in 1 .. Len(job[a].steps)
    BY <2>1 DEF RolloutAssumption
  <2>4. orig \in Nat /\ n \in 1 .. orig
    BY <2>1, <2>2, <2>3, ShareOf
  <2>5. Ramping(calls, w, n, orig)
    BY <1>1, <1>2, <1>4, <1>7, <2>2 DEF Goes
  <2>6. Ramping(calls, v, n, orig)'
    BY <2>4, <2>5
  <2>7. Goes(j)'
    BY <1>4, <1>7, <2>2, <2>6 DEF Goes
  <2>. QED  BY <1>2, <1>5, <2>1, <2>7, MoveKeeps DEF Waits, rolloutActive
<1>8. CASE j.kind = "advance"
  <2>1. Waits' = Waits /\ NextCanaries' = NextCanaries /\ rolloutActive /\ ~atLastStep
    BY <1>1, <1>2, <1>4, <1>5, <1>8 DEF Waits, NextCanaries, Fits
  <2>2. PICK n, orig : n = NextCanaries /\ orig = rollout.orig
    OBVIOUS
  <2>3. orig \in Nat /\ n \in 1 .. orig
    BY <1>2, <2>1, <2>2, NextStepIs DEF NextCanaries
  <2>4. Waits => Ramping(calls, w, n, orig)
    BY <1>1, <1>2, <1>4, <1>8, <2>2 DEF Goes
  <2>5. Waits => Ramping(calls, v, n, orig)'
    BY <2>3, <2>4
  <2>6. Goes(j)'
    BY <1>4, <1>5, <1>8, <2>1, <2>2, <2>5 DEF Goes
  <2>7. Waits => Capacity'
    BY <1>5, <2>1, <2>2, <2>5 DEF Capacity, Ramping, atLastStep
  <2>. QED  BY <1>2, <1>5, <2>6, <2>7, MoveKeeps
<1>9. CASE j.kind = "promote"
  <2>1. calls = <<>> /\ Promoting(calls, w) /\ atLastStep
    <3>1. WorkDone(NoWork)
      BY DEF WorkDone, NoWork, Work
    <3>. QED  BY <1>2, <1>4, <1>9, <3>1 DEF Goes, Promoting
  <2>2. Promoting(calls, v)'
    BY <2>1
  <2>3. Goes(j)'
    BY <1>4, <1>5, <1>9, <2>1, <2>2 DEF Goes, atLastStep
  <2>4. Replacing(j)
    BY <1>4, <1>9, <2>1 DEF Replacing
  <2>. QED  BY <1>2, <1>5, <2>3, <2>4, MoveKeeps
<1>10. CASE j.kind \in {"rollback", "abort"}
  <2>1. PICK orig : orig = rollout.orig
    OBVIOUS
  <2>2. rollout.status = "rolling-back" /\ rolloutActive
    BY <1>2, <1>4, <1>10 DEF Fits, rolloutActive
  <2>3. orig \in Nat \ {0}
    <3>1. rollout.orig \in Nat /\ rollout.orig > 0
      BY <1>2, <2>2 DEF RolloutTyped
    <3>. QED  BY <2>1, <3>1
  <2>4. Restoring(calls, w, orig)
    BY <1>2, <1>4, <1>10, <2>1 DEF Goes
  <2>5. Restoring(calls, v, orig)'
    BY <2>3, <2>4
  <2>6. Goes(j)'
    BY <1>4, <1>5, <1>10, <2>1, <2>5 DEF Goes
  <2>. QED  BY <1>2, <1>5, <2>2, <2>6, MoveKeeps DEF Waits
<1>11. CASE j.kind = "plain"
  <2>1. Goes(j)'
    BY <1>11 DEF Goes
  <2>2. ~Waits
    BY <1>2, <1>4, <1>11 DEF Fits, Waits, rolloutActive
  <2>. QED  BY <1>2, <1>5, <2>1, <2>2, MoveKeeps
<1>. QED  BY <1>1, <1>2, <1>4, <1>6, <1>7, <1>8, <1>9, <1>10, <1>11 DEF JobTyped, Kinds

\* A call fails in its work.
LEMMA WorkEnds ==
  ASSUME RolloutAssumption, Inv, Base', NEW a \in Actor, NEW calls, NEW w,
         calls = job[a].calls, w = job[a].work, ~WorkDone(w), End(a, FALSE),
         \A orig \in Nat : \A n \in 1 .. orig :
           Ramping(calls, w, n, orig) => Cardinality(All') >= orig /\ Cardinality(Canary') <= n
  PROVE  Inv' /\ StepsOK
<1>1. job[a].kind # "idle" /\ ~First(job[a], "startList") /\ ~First(job[a], "health")
  BY WorkFacts DEF Inv
<1>2. Base /\ RolloutTyped /\ Fits(a, job[a]) /\ Goes(job[a])
  BY <1>1, InvFacts
<1>3. job[a].kind # "tick"
  BY <1>1, <1>2 DEF Goes
<1>4. ASSUME Waits, job[a].kind = "advance", rollout' = rollout
      PROVE  Capacity'
  <2>1. Waits' = Waits /\ NextCanaries' = NextCanaries /\ rolloutActive /\ ~atLastStep
    BY <1>1, <1>2, <1>4 DEF Waits, NextCanaries, Fits
  <2>2. PICK n, orig : n = NextCanaries /\ orig = rollout.orig
    OBVIOUS
  <2>3. orig \in Nat /\ n \in 1 .. orig
    BY <1>2, <2>1, <2>2, NextStepIs DEF NextCanaries
  <2>4. Ramping(calls, w, n, orig)
    BY <1>1, <1>2, <1>4, <2>2 DEF Goes
  <2>5. Cardinality(All') >= orig /\ Cardinality(Canary') <= n
    BY <2>3, <2>4
  <2>. QED  BY <1>4, <2>1, <2>2, <2>5 DEF Capacity, atLastStep
<1>. QED  BY <1>1, <1>3, <1>4, EndKeeps

LEMMA Shapes ==
  ASSUME NEW calls, NEW w, NEW n, NEW orig, Ramping(calls, w, n, orig) \/ Restoring(calls, w, orig)
  PROVE  ~w.gate /\ w.promote = {} /\ w.swap = {}
BY DEF Ramping, Restoring, Creating, Dropping, NoWork, Work

LEMMA GateKeeps ==
  ASSUME RolloutAssumption, Inv, NEW a \in Actor, Gate(a)
  PROVE  Inv' /\ StepsOK
<1>1. PICK calls, w : calls = job[a].calls /\ w = job[a].work
  OBVIOUS
<1>2. w.gate /\ ct' = ct
  BY <1>1 DEF Gate
<1>3. ~WorkDone(w)
  BY <1>2 DEF WorkDone
<1>4. Base /\ w \in Works
  BY <1>1, <1>3, WorkFacts DEF Inv
<1>5. Base'
  BY <1>4, GateBase
<1>6. \A n, orig : ~Ramping(calls, w, n, orig) /\ ~Restoring(calls, w, orig)
  BY <1>2, Shapes
<1>7. CASE checkCanaryHealth
  <2>1. PICK v : v = [w EXCEPT !.gate = FALSE]
    OBVIOUS
  <2>2. SetWork(a, v) /\ KeepManager
    BY <1>1, <1>7, <2>1 DEF Gate
  <2>3. /\ v.promote = w.promote /\ v.drop = w.drop /\ v.create = w.create
        /\ v.onFail = w.onFail /\ v.failed = w.failed
    BY <1>4, <2>1 DEF Works
  <2>4. calls = <<>> /\ Promoting(calls, w) => Promoting(calls, v)'
    <3>1. calls = <<>> => calls # <<Call("promote", 0)>>
      OBVIOUS
    <3>2. Serving(v)' = Serving(w) /\ Waits' = Waits /\ rollout' = rollout
      BY <1>2, <2>2, <2>3 DEF Serving, Live, Canary, All, Waits, KeepManager
    <3>. QED  BY <2>3, <3>1, <3>2 DEF Promoting
  <2>. QED  BY <1>1, <1>3, <1>5, <1>6, <2>2, <2>4, WorkKeeps
<1>8. CASE ~checkCanaryHealth
  <2>1. End(a, FALSE)
    BY <1>8 DEF Gate
  <2>. QED  BY <1>1, <1>3, <1>5, <1>6, <2>1, WorkEnds
<1>. QED  BY <1>7, <1>8

\* A container more.
LEMMA AddedSizes ==
  ASSUME RolloutAssumption, ContainersTyped, Id \ All # {}, NEW new \in Containers,
         ct' = With(Fresh, new)
  PROVE  /\ Cardinality(All) \in Nat /\ Cardinality(All') = Cardinality(All) + 1
         /\ Cardinality(Canary) \in Nat /\ Cardinality(Live) \in Nat
         /\ new.canary => Live' = Live /\ Cardinality(Canary') = Cardinality(Canary) + 1
         /\ ~new.canary => Canary' = Canary /\ Cardinality(Live') = Cardinality(Live) + 1
<1>1. PICK f \in Id \ All :
        /\ All' = All \cup {f}
        /\ new.canary => Live' = Live /\ Cardinality(Canary') = Cardinality(Canary) + 1
        /\ ~new.canary => Canary' = Canary /\ Cardinality(Live') = Cardinality(Live) + 1
  BY Added
<1>2. Cardinality(All \cup {f}) = Cardinality(All) + 1
  BY SizesOf, FS_AddElement
<1>3. Cardinality(All') = Cardinality(All) + 1
  BY <1>1, <1>2
<1>. QED  BY <1>1, <1>3, SizesOf

LEMMA CreateOneKeeps ==
  ASSUME RolloutAssumption, Inv, NEW a \in Actor, CreateOne(a)
  PROVE  Inv' /\ StepsOK
<1>1. PICK calls, w : calls = job[a].calls /\ w = job[a].work
  OBVIOUS
<1>2. PICK v : v = [w EXCEPT !.create = w.create - 1]
  OBVIOUS
<1>3. /\ w.create > 0 /\ Id \ All # {} /\ ct' = With(Fresh, Container(w.canary, TRUE, TRUE))
      /\ SetWork(a, v) /\ KeepManager
  BY <1>1, <1>2 DEF CreateOne
<1>4. ~WorkDone(w)
  BY <1>3 DEF WorkDone
<1>5. Base /\ w \in Works /\ ContainersTyped
  BY <1>1, <1>4, WorkFacts DEF Inv, Base, Typed
<1>6. Base'
  BY <1>5, CreateOneBase
<1>7. PICK new : new = Container(w.canary, TRUE, TRUE)
  OBVIOUS
<1>8. new \in Containers /\ new.canary = w.canary
  BY <1>5, <1>7 DEF Container, Containers, Works
<1>9. /\ Cardinality(All) \in Nat /\ Cardinality(All') = Cardinality(All) + 1
      /\ Cardinality(Canary) \in Nat /\ Cardinality(Live) \in Nat
      /\ w.canary => Live' = Live /\ Cardinality(Canary') = Cardinality(Canary) + 1
      /\ ~w.canary => Canary' = Canary /\ Cardinality(Live') = Cardinality(Live) + 1
  BY <1>3, <1>5, <1>7, <1>8, AddedSizes
<1>10. /\ v.create = w.create - 1 /\ v.canary = w.canary /\ v.gate = w.gate /\ v.promote = w.promote
       /\ v.swap = w.swap /\ v.drop = w.drop /\ v.failed = w.failed
  BY <1>2, <1>5 DEF Works
<1>11. \A canary : Creating(w, canary) => Creating(v, canary)
  BY <1>10 DEF Creating
<1>12. ~(w = NoWork) /\ ~Dropping(w) /\ w.create \in Nat
  BY <1>3, <1>5 DEF NoWork, Work, Dropping, Works
<1>13. \A k, n \in Nat : k + w.create = n => k + 1 <= n /\ (k + 1) + v.create = n
  BY <1>3, <1>10, <1>12
<1>14. ASSUME NEW orig \in Nat, NEW n \in 1 .. orig, Ramping(calls, w, n, orig)
       PROVE  Ramping(calls, v, n, orig)'
  <2>1. Cardinality(All') >= orig /\ Cardinality(Canary) <= n /\ n \in Nat
    BY <1>9, <1>14 DEF Ramping
  <2>2. CASE calls = scaleLiveTo(orig - n) /\ Creating(w, TRUE) /\ Cardinality(Canary) + w.create = n
    <3>1. w.canary
      BY <2>2 DEF Creating
    <3>2. Cardinality(Canary') <= n /\ Cardinality(Canary') + v.create = n
      BY <1>9, <1>13, <2>1, <2>2, <3>1
    <3>3. calls = scaleLiveTo(orig - n)'
      BY <2>2 DEF scaleLiveTo
    <3>. QED  BY <1>11, <2>1, <2>2, <3>2, <3>3 DEF Ramping, Creating
  <2>3. CASE calls = <<>> /\ Cardinality(Canary) = n /\ Creating(w, FALSE)
    <3>1. ~w.canary
      BY <2>3 DEF Creating
    <3>2. Cardinality(Canary') = n
      BY <1>9, <2>3, <3>1
    <3>3. Cardinality(Canary') <= n
      BY <2>1, <3>2
    <3>. QED  BY <1>11, <2>1, <2>3, <3>2, <3>3 DEF Ramping, Creating
  <2>. QED  BY <1>12, <1>14, <2>2, <2>3 DEF Ramping
<1>15. ASSUME NEW orig \in Nat \ {0}, Restoring(calls, w, orig)
       PROVE  Restoring(calls, v, orig)'
  <2>1. calls = <<>> /\ Canary = {} /\ Creating(w, FALSE) /\ Cardinality(Live) + w.create = orig
    BY <1>12, <1>15 DEF Restoring
  <2>2. ~w.canary
    BY <2>1 DEF Creating
  <2>3. Canary' = {} /\ Cardinality(Live') + v.create = orig
    BY <1>9, <1>13, <2>1, <2>2
  <2>. QED  BY <1>11, <2>1, <2>3 DEF Restoring, Creating
<1>16. calls = <<>> => ~Promoting(calls, w)
  <2>1. calls = <<>> => calls # <<Call("promote", 0)>>
    OBVIOUS
  <2>. QED  BY <1>3, <2>1 DEF Promoting
<1>. QED  BY <1>1, <1>3, <1>4, <1>6, <1>14, <1>15, <1>16, WorkKeeps

LEMMA PromoteOneKeeps ==
  ASSUME RolloutAssumption, Inv, NEW a \in Actor, PromoteOne(a)
  PROVE  Inv' /\ StepsOK
<1>1. PICK calls, w : calls = job[a].calls /\ w = job[a].work
  OBVIOUS
<1>2. /\ w.promote # {} /\ Id \ All # {} /\ KeepManager
      /\ ct' = With(Fresh, Container(FALSE, TRUE, TRUE))
      /\ SetWork(a, [w EXCEPT !.promote = w.promote \ {Min(w.promote)}, !.swap = {Min(w.promote)}])
  BY <1>1 DEF PromoteOne
<1>3. ~WorkDone(w)
  BY <1>2 DEF WorkDone
<1>4. Base /\ w \in Works /\ WorkOK(w) /\ ContainersTyped
  BY <1>1, <1>3, WorkFacts DEF Inv, Base, Typed
<1>5. Base'
  BY <1>4, PromoteOneBase
<1>6. w.promote \in SUBSET Nat
  BY <1>4 DEF Works, RolloutAssumption
<1>7. PICK c \in w.promote : c = Min(w.promote)
  BY <1>2, <1>6, MinIs
<1>8. PICK v : v = [w EXCEPT !.promote = w.promote \ {c}, !.swap = {c}]
  OBVIOUS
<1>9. /\ v.promote = w.promote \ {c} /\ v.drop = w.drop /\ v.create = w.create
      /\ v.onFail = w.onFail /\ v.failed = w.failed
  BY <1>4, <1>8 DEF Works
<1>10. SetWork(a, v)
  BY <1>2, <1>7, <1>8
<1>11. PICK new : new = Container(FALSE, TRUE, TRUE)
  OBVIOUS
<1>12. new \in Containers /\ ~new.canary /\ new.running
  BY <1>11 DEF Container, Containers
<1>13. PICK f \in Id \ All : /\ ct'[f] = new /\ Live' = Live \cup {f}
                             /\ \A x \in All : ct'[x] = ct[x]
  BY <1>2, <1>4, <1>11, <1>12, Added
<1>14. Serving(v)' = Serving(w) \cup {f} /\ f \notin Serving(w)
  <2>1. f \notin w.drop /\ f \notin Live
    BY <1>4, <1>13 DEF WorkOK, Live
  <2>2. \A x \in Live : ct'[x] = ct[x]
    BY <1>13 DEF Live
  <2>. QED  BY <1>9, <1>12, <1>13, <2>1, <2>2 DEF Serving
<1>15. PICK S : S = Serving(w)
  OBVIOUS
<1>16. /\ IsFiniteSet(S) /\ Cardinality(S) \in Nat /\ Cardinality(Serving(v)') = Cardinality(S) + 1
  <2>1. S \in SUBSET Live
    BY <1>15 DEF Serving
  <2>2. IsFiniteSet(S)
    BY <1>4, <2>1, SizesOf, FS_Subset
  <2>3. Cardinality(S) \in Nat /\ Cardinality(S \cup {f}) = Cardinality(S) + 1
    BY <1>14, <1>15, <2>2, FS_AddElement, FS_CardinalityType
  <2>4. Serving(v)' = S \cup {f}
    BY <1>14, <1>15
  <2>. QED  BY <2>2, <2>3, <2>4
<1>17. Cardinality(w.promote) \in Nat /\ Cardinality(v.promote) = Cardinality(w.promote) - 1
  <2>1. IsFiniteSet(w.promote)
    BY <1>4, SizesOf, FS_Subset DEF WorkOK
  <2>2. Cardinality(w.promote \ {c}) = Cardinality(w.promote) - 1
    BY <1>7, <2>1, FS_RemoveElement
  <2>. QED  BY <1>9, <2>1, <2>2, FS_CardinalityType
<1>18. \A n, orig : ~Ramping(calls, w, n, orig) /\ ~Restoring(calls, w, orig)
  BY <1>2, Shapes
<1>19. calls = <<>> /\ Promoting(calls, w) => Promoting(calls, v)'
  <2>1. calls = <<>> => calls # <<Call("promote", 0)>>
    OBVIOUS
  <2>2. Waits' = Waits /\ rollout' = rollout
    BY <1>2 DEF Waits, KeepManager
  <2>3. Cardinality(Serving(v)') + Cardinality(v.promote) = Cardinality(S) + Cardinality(w.promote)
    BY <1>16, <1>17
  <2>. QED  BY <1>9, <1>15, <2>1, <2>2, <2>3 DEF Promoting
<1>. QED  BY <1>1, <1>2, <1>3, <1>5, <1>10, <1>18, <1>19, WorkKeeps

\* Live shrinks by one of those that were to go.
LEMMA StillThere ==
  ASSUME RolloutAssumption, ContainersTyped, NEW c \in Live, NEW D \in SUBSET Live, c \in D,
         NEW orig \in Nat, NEW n \in 0 .. orig, Cardinality(Canary) = n,
         Cardinality(Live \ D) >= orig - n
  PROVE  Cardinality(All \ {c}) >= orig
<1>. DEFINE K == Live \ D
<1>1. IsFiniteSet(All) /\ IsFiniteSet(Live) /\ IsFiniteSet(Canary) /\ Live \cap Canary = {}
      /\ Live \cup Canary = All
  BY SizesOf
<1>2. IsFiniteSet(K) /\ K \cap Canary = {} /\ K \cup Canary \subseteq All \ {c}
  BY <1>1, FS_Subset
<1>3. IsFiniteSet(All \ {c})
  BY <1>1, FS_Subset
<1>4. Cardinality(K \cup Canary) = Cardinality(K) + Cardinality(Canary) - Cardinality(K \cap Canary)
  BY <1>1, <1>2, FS_Union
<1>5. Cardinality(K \cap Canary) = 0
  BY <1>2, FS_EmptySet, Zenon
<1>6. Cardinality(K \cup Canary) <= Cardinality(All \ {c})
  BY <1>2, <1>3, FS_Subset
<1>7. Cardinality(K) \in Nat /\ Cardinality(All \ {c}) \in Nat
  BY <1>2, <1>3, FS_CardinalityType
<1>8. Cardinality(K) >= orig - n
  OBVIOUS
<1>. HIDE DEF K
<1>. QED  BY <1>4, <1>5, <1>6, <1>7, <1>8

LEMMA RemoveKeeps ==
  ASSUME RolloutAssumption, Inv, NEW a \in Actor, NEW c, Remove(a, c)
  PROVE  Inv' /\ StepsOK
<1>1. PICK calls, w : calls = job[a].calls /\ w = job[a].work
  OBVIOUS
<1>2. PICK v : v = [w EXCEPT !.swap = w.swap \ {c}, !.drop = w.drop \ {c}]
  OBVIOUS
<1>3. /\ c \in ToDrop(w) /\ ct' = Without(c)
      /\ \/ End(a, FALSE)
         \/ SetWork(a, v) /\ KeepManager /\ ~(WorkDone(v) /\ w.failed)
  BY <1>1, <1>2 DEF Remove
<1>4. ~WorkDone(w)
  BY <1>3 DEF ToDrop, WorkDone
<1>5. Base /\ w \in Works /\ WorkOK(w) /\ ContainersTyped
  BY <1>1, <1>4, WorkFacts DEF Inv, Base, Typed
<1>6. Base'
  BY <1>5, RemoveBase
<1>7. c \in All /\ (c \in w.swap \/ (w.swap = {} /\ c \in w.drop /\ w.promote = {} /\ ~w.gate))
  BY <1>3, <1>5, ToDropFacts
<1>8. /\ All' = All \ {c} /\ \A x \in All \ {c} : ct'[x] = ct[x]
      /\ Canary' = Canary \ {c} /\ Live' = Live \ {c}
  BY <1>3, <1>5, <1>7, Removed
<1>9. /\ v.swap = w.swap \ {c} /\ v.drop = w.drop \ {c} /\ v.create = w.create
      /\ v.canary = w.canary /\ v.gate = w.gate /\ v.promote = w.promote
      /\ v.onFail = w.onFail /\ v.failed = w.failed
  BY <1>2, <1>5 DEF Works
<1>10. \A n, orig : Ramping(calls, w, n, orig) \/ Restoring(calls, w, orig) => c \in w.drop
  BY <1>7, Shapes
<1>11. Dropping(w) => Dropping(v)
  BY <1>9 DEF Dropping
<1>12. c \in w.drop => Live' \ v.drop = Live \ w.drop
  BY <1>8, <1>9
<1>13. NoWork.drop = {} /\ \A canary : Creating(w, canary) => w.drop = {}
  BY DEF NoWork, Work, Creating
<1>14. ASSUME NEW orig \in Nat, NEW n \in 1 .. orig, Ramping(calls, w, n, orig)
       PROVE  /\ calls = <<>> /\ Cardinality(Canary) = n /\ Dropping(w) /\ w.onFail = "stop"
              /\ w.drop \subseteq Live /\ Cardinality(Live \ w.drop) >= orig - n /\ c \in w.drop
              /\ Canary' = Canary /\ Cardinality(All') >= orig /\ Cardinality(Canary') <= n
  <2>1. c \in w.drop
    BY <1>10, <1>14
  <2>2. /\ calls = <<>> /\ Cardinality(Canary) = n /\ Dropping(w) /\ w.onFail = "stop"
        /\ w.drop \subseteq Live /\ Cardinality(Live \ w.drop) >= orig - n
    BY <1>13, <1>14, <2>1 DEF Ramping
  <2>3. Canary' = Canary
    BY <1>8, <2>1, <2>2 DEF Live
  <2>4. Cardinality(All \ {c}) >= orig
    <3>1. n \in 0 .. orig
      OBVIOUS
    <3>. QED  BY <1>5, <2>1, <2>2, <3>1, StillThere
  <2>5. Cardinality(Canary') <= n
    BY <1>14, <2>3 DEF Ramping
  <2>. QED  BY <1>8, <2>1, <2>2, <2>3, <2>4, <2>5
<1>15. CASE End(a, FALSE)
  BY <1>1, <1>4, <1>6, <1>14, <1>15, WorkEnds
<1>16. CASE SetWork(a, v) /\ KeepManager /\ ~(WorkDone(v) /\ w.failed)
  <2>1. ASSUME NEW orig \in Nat, NEW n \in 1 .. orig, Ramping(calls, w, n, orig)
        PROVE  Ramping(calls, v, n, orig)'
    <3>1. /\ calls = <<>> /\ Cardinality(Canary) = n /\ Dropping(w) /\ w.onFail = "stop"
          /\ w.drop \subseteq Live /\ Cardinality(Live \ w.drop) >= orig - n /\ c \in w.drop
          /\ Canary' = Canary /\ Cardinality(All') >= orig /\ Cardinality(Canary') <= n
      BY <1>14, <2>1
    <3>2. Cardinality(Live' \ v.drop) = Cardinality(Live \ w.drop) /\ v.drop \subseteq Live'
      BY <1>8, <1>9, <1>12, <3>1
    <3>3. Dropping(v)' /\ Cardinality(Canary') = n
      BY <1>11, <3>1 DEF Dropping
    <3>. QED  BY <1>9, <3>1, <3>2, <3>3 DEF Ramping
  <2>2. ASSUME NEW orig \in Nat \ {0}, Restoring(calls, w, orig)
        PROVE  Restoring(calls, v, orig)'
    <3>1. c \in w.drop
      BY <1>10, <2>2
    <3>2. CASE /\ calls = <<Call("scaleLive", orig)>>
               /\ Dropping(w) /\ w.drop \subseteq Canary
               /\ w.drop # {} => w.onFail = "remember"
               /\ ~w.failed => w.drop = Canary
      <4>1. Dropping(v)' /\ v.drop \subseteq Canary' /\ v.onFail = "remember"
        BY <1>8, <1>9, <1>11, <3>1, <3>2 DEF Dropping
      <4>2. v.drop = {} => ~v.failed
        <5>1. v.drop = {} => WorkDone(v)
          BY <4>1 DEF WorkDone, Dropping
        <5>. QED  BY <1>9, <1>16, <5>1
      <4>3. ~v.failed => v.drop = Canary'
        BY <1>8, <1>9, <3>2
      <4>4. calls = <<Call("scaleLive", orig)>>'
        BY <3>2 DEF Call
      <4>. QED  BY <4>1, <4>2, <4>3, <4>4 DEF Restoring
    <3>3. CASE /\ calls = <<>> /\ Canary = {}
               /\ Dropping(w) /\ w.onFail = "stop" /\ w.drop \subseteq Live
               /\ Cardinality(Live \ w.drop) = orig
      <4>1. Canary' = {} /\ v.drop \subseteq Live' /\ v.onFail = "stop" /\ Dropping(v)'
        BY <1>8, <1>9, <1>11, <3>3 DEF Dropping
      <4>2. Cardinality(Live' \ v.drop) = orig
        BY <1>12, <3>1, <3>3
      <4>. QED  BY <3>3, <4>1, <4>2 DEF Restoring
    <3>. QED  BY <1>13, <2>2, <3>1, <3>2, <3>3 DEF Restoring
  <2>3. calls = <<>> /\ Promoting(calls, w) => Promoting(calls, v)'
    <3>1. calls = <<>> => calls # <<Call("promote", 0)>>
      OBVIOUS
    <3>2. Serving(v)' = Serving(w)
      <4>1. c \in w.drop \/ c \notin Live
        BY <1>5, <1>7 DEF WorkOK, Live
      <4>2. Live' \ v.drop = Live \ w.drop /\ \A x \in Live \ w.drop : ct'[x] = ct[x]
        BY <1>8, <1>9, <4>1 DEF Live
      <4>. QED  BY <4>2 DEF Serving
    <3>3. Waits' = Waits /\ rollout' = rollout
      BY <1>16 DEF Waits, KeepManager
    <3>. QED  BY <1>9, <3>1, <3>2, <3>3 DEF Promoting
  <2>. QED  BY <1>1, <1>4, <1>6, <1>16, <2>1, <2>2, <2>3, WorkKeeps
<1>. QED  BY <1>3, <1>15, <1>16

LEMMA RemoveFailsKeeps ==
  ASSUME RolloutAssumption, Inv, NEW a \in Actor, NEW c, RemoveFails(a, c)
  PROVE  Inv' /\ StepsOK
<1>1. PICK calls, w : calls = job[a].calls /\ w = job[a].work
  OBVIOUS
<1>2. PICK kind : kind = IF w.swap # {} THEN "ignore" ELSE w.onFail
  OBVIOUS
<1>3. PICK v : v = [w EXCEPT !.swap = w.swap \ {c}, !.drop = w.drop \ {c},
                             !.failed = w.failed \/ kind = "remember"]
  OBVIOUS
<1>4. /\ c \in ToDrop(w) /\ ct' \in {ct, Stopped(c)}
      /\ \/ End(a, FALSE)
         \/ SetWork(a, v) /\ KeepManager /\ kind # "stop" /\ ~(WorkDone(v) /\ v.failed)
  BY <1>1, <1>2, <1>3 DEF RemoveFails
<1>5. ~WorkDone(w)
  BY <1>4 DEF ToDrop, WorkDone
<1>6. Base /\ w \in Works /\ WorkOK(w) /\ ContainersTyped
  BY <1>1, <1>5, WorkFacts DEF Inv, Base, Typed
<1>7. Base'
  BY <1>6, RemoveFailsBase
<1>8. c \in All /\ (c \in w.swap \/ (w.swap = {} /\ c \in w.drop /\ w.promote = {} /\ ~w.gate))
  BY <1>4, <1>6, ToDropFacts
<1>9. All' = All /\ Canary' = Canary /\ Live' = Live /\ \A x \in All \ {c} : ct'[x] = ct[x]
  BY <1>4, <1>6, <1>8, Left
<1>10. PICK failed \in BOOLEAN : failed = (w.failed \/ kind = "remember")
  OBVIOUS
<1>11. /\ v.swap = w.swap \ {c} /\ v.drop = w.drop \ {c} /\ v.failed = failed
       /\ v.create = w.create /\ v.gate = w.gate
       /\ v.promote = w.promote /\ v.onFail = w.onFail
  <2>1. v = [w EXCEPT !.swap = w.swap \ {c}, !.drop = w.drop \ {c}, !.failed = failed]
    BY <1>3, <1>10
  <2>. QED  BY <1>6, <2>1 DEF Works
<1>12. \A n, orig : Ramping(calls, w, n, orig) \/ Restoring(calls, w, orig) =>
                      c \in w.drop /\ kind = w.onFail
  BY <1>2, <1>8, Shapes
<1>13. NoWork.drop = {} /\ \A canary : Creating(w, canary) => w.drop = {}
  BY DEF NoWork, Work, Creating
<1>14. CASE End(a, FALSE)
  <2>1. ASSUME NEW orig \in Nat, NEW n \in 1 .. orig, Ramping(calls, w, n, orig)
        PROVE  Cardinality(All') >= orig /\ Cardinality(Canary') <= n
    BY <1>9, <2>1 DEF Ramping
  <2>. QED  BY <1>1, <1>5, <1>7, <1>14, <2>1, WorkEnds
<1>15. CASE SetWork(a, v) /\ KeepManager /\ kind # "stop" /\ ~(WorkDone(v) /\ v.failed)
  <2>1. ASSUME NEW orig \in Nat, NEW n \in 1 .. orig, Ramping(calls, w, n, orig)
        PROVE  FALSE
    BY <1>12, <1>13, <1>15, <2>1 DEF Ramping
  <2>2. ASSUME NEW orig \in Nat \ {0}, Restoring(calls, w, orig)
        PROVE  Restoring(calls, v, orig)'
    <3>1. c \in w.drop /\ kind = w.onFail
      BY <1>12, <2>2
    <3>2. /\ calls = <<Call("scaleLive", orig)>> /\ Dropping(w) /\ w.drop \subseteq Canary
          /\ w.onFail = "remember"
      BY <1>13, <1>15, <2>2, <3>1 DEF Restoring
    <3>3. v.failed /\ Dropping(v) /\ v.drop \subseteq Canary' /\ v.onFail = "remember"
      BY <1>9, <1>10, <1>11, <3>1, <3>2 DEF Dropping
    <3>4. v.drop # {}
      BY <1>15, <3>3 DEF WorkDone, Dropping
    <3>5. calls = <<Call("scaleLive", orig)>>' /\ Dropping(v)'
      BY <3>2, <3>3 DEF Call, Dropping
    <3>. QED  BY <3>3, <3>4, <3>5 DEF Restoring
  <2>3. calls = <<>> /\ Promoting(calls, w) => Promoting(calls, v)'
    <3>1. calls = <<>> => calls # <<Call("promote", 0)>>
      OBVIOUS
    <3>2. Serving(w) \subseteq Serving(v)'
      <4>1. c \in w.drop \/ c \notin Live
        BY <1>6, <1>8 DEF WorkOK, Live
      <4>2. Live \ w.drop \subseteq Live' \ v.drop /\ \A x \in Live \ w.drop : ct'[x] = ct[x]
        BY <1>9, <1>11, <4>1 DEF Live
      <4>. QED  BY <4>2 DEF Serving
    <3>3. Cardinality(Serving(w)) <= Cardinality(Serving(v)')
      <4>1. Serving(v)' \in SUBSET Live
        BY <1>9 DEF Serving
      <4>2. IsFiniteSet(Serving(v)')
        BY <1>6, <4>1, SizesOf, FS_Subset
      <4>. QED  BY <3>2, <4>2, FS_Subset
    <3>4. Cardinality(Serving(w)) \in Nat /\ Cardinality(Serving(v)') \in Nat /\ Cardinality(w.promote) \in Nat
      <4>1. Serving(v)' \in SUBSET Live /\ Serving(w) \in SUBSET Live /\ w.promote \in SUBSET Canary
        BY <1>6, <1>9 DEF Serving, WorkOK
      <4>2. IsFiniteSet(Serving(v)') /\ IsFiniteSet(Serving(w)) /\ IsFiniteSet(w.promote)
        BY <1>6, <4>1, SizesOf, FS_Subset
      <4>. QED  BY <4>2, FS_CardinalityType
    <3>5. Waits' = Waits /\ rollout' = rollout /\ rollout.orig \in Nat
      BY <1>6, <1>15 DEF Waits, KeepManager, Base, Typed, RolloutTyped
    <3>6. Cardinality(Serving(w)) + Cardinality(w.promote) >= rollout.orig
            => Cardinality(Serving(v)') + Cardinality(w.promote) >= rollout.orig
      BY <3>3, <3>4, <3>5
    <3>7. w.onFail = "ignore" /\ ~w.failed => ~v.failed
      BY <1>2, <1>10, <1>11
    <3>. QED  BY <1>11, <3>1, <3>5, <3>6, <3>7 DEF Promoting
  <2>. QED  BY <1>1, <1>5, <1>7, <1>15, <2>1, <2>2, <2>3, WorkKeeps
<1>. QED  BY <1>4, <1>14, <1>15

LEMMA CallFailsKeeps ==
  ASSUME RolloutAssumption, Inv, NEW a \in Actor, CallFails(a)
  PROVE  Inv' /\ StepsOK
<1>1. PICK calls, w : calls = job[a].calls /\ w = job[a].work
  OBVIOUS
<1>2. Base /\ ContainersTyped
  BY DEF Inv, Base, Typed
<1>3. /\ job[a].kind # "idle" /\ End(a, FALSE) /\ w \in Works
      /\ \/ ct' = ct
         \/ /\ Id \ All # {} /\ Container(w.canary, TRUE, FALSE) \in Containers
            /\ ct' = With(Fresh, Container(w.canary, TRUE, FALSE))
            /\ w.create > 0 \/ w.promote # {}
  BY <1>1, <1>2, FailedCall
<1>4. Base'
  BY <1>2, CallFailsBase
<1>5. CASE ct' = ct /\ job[a].kind \in {"advance", "tick"}
  <2>1. Waits => Capacity
    BY <1>3, <1>5, InvFacts DEF Replacing
  <2>. QED  BY <1>3, <1>4, <1>5, <2>1, SameCapacity, EndKeeps
<1>6. CASE ct' = ct /\ job[a].kind \notin {"advance", "tick"}
  BY <1>3, <1>4, <1>6, EndKeeps
<1>7. CASE ct' # ct
  <2>1. PICK new : new = Container(w.canary, TRUE, FALSE)
    OBVIOUS
  <2>2. new \in Containers /\ new.canary = w.canary /\ ct' = With(Fresh, new) /\ Id \ All # {}
    BY <1>3, <1>7, <2>1 DEF Container
  <2>3. /\ Cardinality(All) \in Nat /\ Cardinality(All') = Cardinality(All) + 1
        /\ Cardinality(Canary) \in Nat
        /\ w.canary => Cardinality(Canary') = Cardinality(Canary) + 1
        /\ ~w.canary => Canary' = Canary
    BY <1>2, <2>2, AddedSizes
  <2>0. w.create > 0 \/ w.promote # {}
    BY <1>3, <1>7
  <2>4. ~WorkDone(w)
    BY <2>0 DEF WorkDone
  <2>5. ASSUME NEW orig \in Nat, NEW n \in 1 .. orig, Ramping(calls, w, n, orig)
        PROVE  Cardinality(All') >= orig /\ Cardinality(Canary') <= n
    <3>0. w.create > 0 /\ w.create \in Nat
      BY <1>3, <2>0, <2>5, Shapes DEF Works
    <3>1. w.create > 0 /\ w.create \in Nat /\ w # NoWork /\ ~Dropping(w)
      BY <3>0 DEF NoWork, Work, Dropping
    <3>2. Cardinality(All') >= orig /\ Cardinality(Canary) <= n
      BY <2>3, <2>5 DEF Ramping
    <3>3. CASE Creating(w, TRUE) /\ Cardinality(Canary) + w.create = n
      <4>1. w.canary
        BY <3>3 DEF Creating
      <4>2. \A k, m \in Nat : k + w.create = m => k + 1 <= m
        BY <3>1
      <4>3. Cardinality(Canary) + 1 <= n
        BY <2>3, <3>3, <4>2
      <4>. QED  BY <2>3, <3>2, <4>1, <4>3
    <3>4. CASE Creating(w, FALSE)
      BY <2>3, <3>2, <3>4 DEF Creating
    <3>. QED  BY <2>5, <3>1, <3>3, <3>4 DEF Ramping
  <2>. QED  BY <1>1, <1>3, <1>4, <2>4, <2>5, WorkEnds
<1>. QED  BY <1>5, <1>6, <1>7

-----------------------------------------------------------------------------
(* Entry points, health and restarts, again                                *)

\* Neither the containers, but for their health, nor jobs or manager change.
LEMMA SameKeeps ==
  ASSUME Inv, Base', job' = job, rollout' = rollout,
         All' = All, Canary' = Canary, Live' = Live,
         \A x \in All : ct'[x].running = ct[x].running
  PROVE  Inv' /\ StepsOK
<1>1. \A w : Serving(w)' = Serving(w)
  BY DEF Serving, Live
<1>2. Waits' = Waits /\ atLastStep' = atLastStep /\ NextCanaries' = NextCanaries
  BY DEF Waits, atLastStep, NextCanaries
<1>3. ASSUME NEW a \in Actor PROVE Goes(job[a])'
  <2>1. PICK j : j = job[a]
    OBVIOUS
  <2>2. Goes(j) /\ job'[a] = j
    BY <2>1 DEF Inv, AllGo
  <2>3. \A n, orig : Ramping(j.calls, j.work, n, orig) => Ramping(j.calls, j.work, n, orig)'
    BY DEF Ramping
  <2>4. \A orig : Restoring(j.calls, j.work, orig) => Restoring(j.calls, j.work, orig)'
    BY DEF Restoring
  <2>5. Promoting(j.calls, j.work) => Promoting(j.calls, j.work)'
    BY <1>1, <1>2 DEF Promoting
  <2>6. Goes(j)'
    BY <1>2, <2>2, <2>3, <2>4, <2>5 DEF Goes
  <2>. QED  BY <2>2, <2>6
<1>4. AllGo'
  BY <1>3 DEF AllGo
<1>5. Held'
  BY <1>2 DEF Inv, Held, Replacing, Capacity
<1>6. StepsOK
  BY DEF StepsOK, RollbackRestoresStep, CompletedServesStep, Inv, Base, Typed, RolloutTyped,
     rolloutActive
<1>. QED  BY <1>4, <1>5, <1>6 DEF Inv

LEMMA FlipKeeps ==
  ASSUME RolloutAssumption, Inv, NEW c, Flip(c)
  PROVE  Inv' /\ StepsOK
<1>1. /\ All' = All /\ Canary' = Canary /\ Live' = Live
      /\ \A x \in All : ct'[x].running = ct[x].running
  BY Flipped DEF Inv, Base, Typed
<1>2. Base' /\ job' = job /\ rollout' = rollout
  BY FlipBase DEF Flip, Inv
<1>. QED  BY <1>1, <1>2, SameKeeps

LEMMA CrashKeeps ==
  ASSUME RolloutAssumption, Inv, Crash
  PROVE  Inv' /\ StepsOK
<1>1. job' = [a \in Actor |-> Idle] /\ rollout' = NoRollout
  BY DEF Crash
<1>2. Base'
  BY CrashBase DEF Inv
<1>3. rollout'.status = "none" /\ rollout'.why = ""
  BY <1>1 DEF NoRollout, RolloutState
<1>4. AllGo'
  BY <1>1 DEF AllGo, Goes, Idle, Job
<1>. QED
  BY <1>2, <1>3, <1>4 DEF Inv, Held, Waits, StepsOK, RollbackRestoresStep, CompletedServesStep

\* A job begins where none was at work.
LEMMA BeginKeeps ==
  ASSUME Inv, Base', NEW a \in Actor, \A b \in Actor : job[b] = Idle, NEW j,
         job' = [job EXCEPT ![a] = j], Goes(j)', ct' = ct, j.kind # "promote",
         rollout' = rollout \/ (rollout'.status = "rolling-back" /\ rollout'.why # "unhealthy")
  PROVE  Inv' /\ StepsOK
<1>1. job'[a] = j /\ \A b \in Actor \ {a} : job'[b] = Idle
  BY DEF Inv, Base, Typed
<1>2. Goes(Idle)'
  BY DEF Goes, Idle, Job
<1>3. AllGo'
  BY <1>1, <1>2 DEF AllGo
<1>4. Waits => Capacity
  <2>1. \A b \in Actor : ~Replacing(job[b])
    BY DEF Replacing, Idle, Job
  <2>. QED  BY <2>1 DEF Inv, Held
<1>5. Held'
  <2>1. CASE rollout' = rollout
    BY <1>4, <2>1, SameCapacity DEF Held, Waits
  <2>2. CASE rollout'.status = "rolling-back"
    BY <2>2 DEF Held, Waits
  <2>. QED  BY <2>1, <2>2
<1>6. StepsOK
  BY DEF StepsOK, RollbackRestoresStep, CompletedServesStep, Inv, Base, Typed, RolloutTyped,
     rolloutActive
<1>. QED  BY <1>3, <1>5, <1>6 DEF Inv

LEMMA EntryKeeps ==
  ASSUME RolloutAssumption, Inv,
         \/ \E steps \in Plans : startRollout(steps)
         \/ advanceRollout \/ abortRollout \/ stage \/ promote \/ discard
         \/ \E n \in Desired : scale(n)
         \/ checkOne
  PROVE  Inv' /\ StepsOK
<1>. USE DEF Begin, SetJob, KeepManager, Locked, KeepBounds
<1>1. Base' /\ \A b \in Actor : job[b] = Idle
  BY EntryBase DEF Inv
<1>2. "operator" \in Actor /\ "ticker" \in Actor /\ RolloutTyped
  BY DEF Actor, Inv, Base, Typed
<1>3. ASSUME NEW steps \in Plans, startRollout(steps) PROVE Inv' /\ StepsOK
  <2>1. PICK j : j = Job("start", <<Call("startList", 0)>>, 0, steps)
    OBVIOUS
  <2>2. job' = [job EXCEPT !["operator"] = j] /\ ct' = ct /\ rollout' = rollout
    BY <1>3, <2>1 DEF startRollout
  <2>3. j.kind = "start" /\ Goes(j)'
    BY <2>1 DEF Goes, Job, First
  <2>. QED  BY <1>1, <1>2, <2>2, <2>3, BeginKeeps
<1>4. ASSUME advanceRollout PROVE Inv' /\ StepsOK
  <2>1. PICK j : j = Job("advance", <<Call("health", 0)>>, 0, <<>>)
    OBVIOUS
  <2>2. job' = [job EXCEPT !["operator"] = j] /\ ct' = ct /\ rollout' = rollout
    BY <1>4, <2>1 DEF advanceRollout
  <2>3. j.kind = "advance" /\ Goes(j)'
    BY <2>1 DEF Goes, Job, First
  <2>. QED  BY <1>1, <1>2, <2>2, <2>3, BeginKeeps
<1>5. ASSUME abortRollout PROVE Inv' /\ StepsOK
  <2>1. PICK j : j = Job("abort", <<Call("rollback", 0)>>, 0, <<>>)
    OBVIOUS
  <2>2. /\ job' = [job EXCEPT !["operator"] = j] /\ ct' = ct /\ rolloutActive
        /\ rollout' = [rollout EXCEPT !.status = "rolling-back"]
    BY <1>5, <2>1 DEF abortRollout
  <2>3. rollout'.status = "rolling-back" /\ rollout'.why # "unhealthy"
    BY <1>2, <2>2 DEF RolloutTyped
  <2>4. j.kind = "abort" /\ Goes(j)'
    BY <2>1 DEF Goes, Job, Restoring
  <2>. QED  BY <1>1, <1>2, <2>2, <2>3, <2>4, BeginKeeps
<1>6. ASSUME NEW c, Plain(c) PROVE Inv' /\ StepsOK
  <2>1. PICK j : j = Job("plain", <<c>>, 0, <<>>)
    OBVIOUS
  <2>2. job' = [job EXCEPT !["operator"] = j] /\ ct' = ct /\ rollout' = rollout
    BY <1>6, <2>1 DEF Plain
  <2>3. j.kind = "plain" /\ Goes(j)'
    BY <2>1 DEF Goes, Job
  <2>. QED  BY <1>1, <1>2, <2>2, <2>3, BeginKeeps
<1>7. ASSUME checkOne PROVE Inv' /\ StepsOK
  <2>1. PICK j : j = Job("tick", <<Call("health", 0)>>, 0, <<>>)
    OBVIOUS
  <2>2. job' = [job EXCEPT !["ticker"] = j] /\ ct' = ct /\ rollout' = rollout
    BY <1>7, <2>1 DEF checkOne
  <2>3. j.kind = "tick" /\ Goes(j)'
    BY <2>1 DEF Goes, Job, First
  <2>. QED  BY <1>1, <1>2, <2>2, <2>3, BeginKeeps
<1>. QED  BY <1>3, <1>4, <1>5, <1>6, <1>7 DEF stage, promote, discard, scale

-----------------------------------------------------------------------------
(* Results                                                                 *)

LEMMA InitInv ==
  ASSUME RolloutAssumption, Init
  PROVE  Inv
<1>1. Base
  BY InitBase
<1>2. job = [a \in Actor |-> Idle] /\ rollout.status = "none"
  BY DEF Init, NoRollout, RolloutState
<1>3. AllGo
  BY <1>2 DEF AllGo, Goes, Idle, Job
<1>. QED  BY <1>1, <1>2, <1>3 DEF Inv, Held, Waits

LEMMA NextInv ==
  ASSUME RolloutAssumption, Inv, [Next]_vars
  PROVE  Inv' /\ StepsOK
<1>1. CASE \/ \E steps \in Plans : startRollout(steps)
           \/ advanceRollout \/ abortRollout \/ stage \/ promote \/ discard
           \/ \E n \in Desired : scale(n)
           \/ checkOne
  BY <1>1, EntryKeeps
<1>2. ASSUME NEW a \in Actor, Step(a)
      PROVE  Inv' /\ StepsOK
  BY <1>2, StartListKeeps, CheckHealthKeeps, RollbackKeeps, ListKeeps, CreateOneKeeps, GateKeeps,
     PromoteOneKeeps, RemoveKeeps, FinishKeeps DEF Step
<1>3. ASSUME NEW a \in Actor, CallFails(a) \/ \E c \in Id : RemoveFails(a, c)
      PROVE  Inv' /\ StepsOK
  BY <1>3, CallFailsKeeps, RemoveFailsKeeps
<1>4. CASE \E c \in Id : Flip(c)
  BY <1>4, FlipKeeps
<1>5. CASE Crash
  BY <1>5, CrashKeeps
<1>6. CASE UNCHANGED vars
  <2>1. Base'
    BY <1>6, NextBase DEF Inv
  <2>2. job' = job /\ rollout' = rollout /\ ct' = ct
    BY <1>6 DEF vars
  <2>3. All' = All /\ Canary' = Canary /\ Live' = Live
    BY <2>2 DEF All, Live, Canary
  <2>. QED  BY <2>1, <2>2, <2>3, SameKeeps
<1>. QED  BY <1>1, <1>2, <1>3, <1>4, <1>5, <1>6 DEF Next

LEMMA InvImplies ==
  ASSUME RolloutAssumption, Inv
  PROVE  CapacityKept /\ NeverDark
<1>1. Base /\ Typed /\ ContainersTyped /\ RolloutTyped
  BY DEF Inv, Base, Typed
<1>2. TypeOK
  <2>1. \A a \in Actor : job[a].kind \in Kinds /\ job[a].work.create \in Nat
    BY <1>1 DEF Typed, JobTyped, Works
  <2>2. rollout.status \in Statuses /\ (rolloutActive => rollout.idx \in 1 .. Len(rollout.steps))
    BY <1>1 DEF RolloutTyped
  <2>. QED  BY <1>1, <2>1, <2>2 DEF TypeOK, Typed, ContainersTyped, Containers
<1>3. NeverDark
  <2>1. PICK c \in Live : Stays(c)
    BY <1>1 DEF Base, LiveServes
  <2>. QED  BY <2>1 DEF Stays, NeverDark, runningOnly, Live
<1>4. ASSUME Waits PROVE Cardinality(All) >= rollout.orig
  <2>1. CASE \A a \in Actor : ~Replacing(job[a])
    BY <1>4, <2>1 DEF Inv, Held, Capacity
  <2>2. ASSUME NEW a \in Actor, Replacing(job[a])
        PROVE  Cardinality(All) >= rollout.orig
    <3>1. PICK w : w = job[a].work
      OBVIOUS
    <3>2. <<>> # <<Call("promote", 0)>>
      OBVIOUS
    <3>3. Cardinality(Serving(w)) + Cardinality(w.promote) >= rollout.orig
      BY <1>4, <2>2, <3>1, <3>2 DEF Inv, AllGo, Goes, Promoting, Replacing
    <3>4. WorkOK(w)
      BY <1>1, <3>1 DEF Base, WorksOK
    <3>5. PICK S : S = Serving(w)
      OBVIOUS
    <3>6. PICK P : P = w.promote
      OBVIOUS
    <3>7. S \subseteq All /\ P \subseteq All /\ S \cap P = {}
      BY <3>4, <3>5, <3>6 DEF Serving, WorkOK, Live, Canary
    <3>8. IsFiniteSet(All) /\ IsFiniteSet(S) /\ IsFiniteSet(P)
      BY <1>1, <3>7, SizesOf, FS_Subset
    <3>9. Cardinality(S \cup P) = Cardinality(S) + Cardinality(P) - Cardinality(S \cap P)
      BY <3>8, FS_Union
    <3>10. Cardinality(S \cap P) = 0
      BY <3>7, FS_EmptySet, Zenon
    <3>11. Cardinality(S \cup P) <= Cardinality(All)
      BY <3>7, <3>8, FS_Subset
    <3>12. /\ Cardinality(S) \in Nat /\ Cardinality(P) \in Nat /\ Cardinality(All) \in Nat
           /\ rollout.orig \in Nat
      BY <1>1, <3>8, FS_CardinalityType DEF RolloutTyped
    <3>13. Cardinality(S) + Cardinality(P) >= rollout.orig
      BY <3>3, <3>5, <3>6
    <3>. QED  BY <3>9, <3>10, <3>11, <3>12, <3>13
  <2>. QED  BY <2>1, <2>2
<1>. QED  BY <1>2, <1>3, <1>4 DEF CapacityKept, ReplicasKept, Waits

LEMMA RolloutInductive ==
  ASSUME RolloutAssumption
  PROVE  Spec => [](Inv /\ CapacityKept)
<1>1. Init => Inv
  BY InitInv
<1>2. Inv /\ [Next]_vars => Inv'
  BY NextInv
<1>3. Inv => CapacityKept
  BY InvImplies
<1>. QED  BY <1>1, <1>2, <1>3, PTL DEF Spec

\* However calls fail, are repeated from what they left and race with the
\* ticker, and wherever the dashboard restarts, for any number of replicas and
\* any plan: a rollout that waits or takes its step (doAdvance) has as many
\* replicas as the service had, and some container runs.
THEOREM RolloutKeepsCapacity ==
  ASSUME RolloutAssumption
  PROVE  Spec => []CapacityKept
BY RolloutInductive, PTL

\* rollbackContainers and promoteCanary are all or nothing to the manager: what
\* it reports as rolled back has all live replicas and no canary, what it
\* reports as completed has as many running as the service had.
THEOREM RolloutEndsWhole ==
  ASSUME RolloutAssumption
  PROVE  Spec => EndsWhole
<1>1. Inv /\ [Next]_vars => [RollbackRestoresStep /\ CompletedServesStep]_vars
  BY NextInv DEF StepsOK
<1>. QED  BY <1>1, RolloutInductive, PTL DEF Spec, EndsWhole

-----------------------------------------------------------------------------
(* The drain: the inductive invariant                                      *)

DrainTyped ==
  /\ StreamGrace \in Nat /\ StreamGrace <= Timeout
  /\ phase \in {"serving", "draining", "cancelled", "hijacksClosed", "closed", "auxDown",
                "exited", "killed"}
  /\ clock \in Nat /\ clock <= Timeout
  /\ req \in [Request -> {"none", "conn", "running", "left", "gone"}]
  /\ hijack \in [Request -> {"no", "taken", "tracked"}]
  /\ cancelled \subseteq Request /\ shut \subseteq Request
  /\ cut \in BOOLEAN /\ changed \in BOOLEAN
  /\ waiter \in {"shutdown", "check", "blocked", "done"}

\* Only a running request is hijacked, only an upgrade is, and only one that
\* was begun is cancelled.
Begun ==
  \A r \in Request :
    /\ hijack[r] # "no" => req[r] = "running" /\ r \in Upgrade
    /\ r \in cancelled => req[r] \in {"running", "left", "gone"}

\* Streams are cut in the drain or after it, and all of them.
CutPhase ==
  /\ phase = "serving" => ~cut /\ waiter = "shutdown" /\ clock = 0
  /\ phase \in {"hijacksClosed", "closed", "auxDown", "exited"} => cut
  /\ (cut /\ phase = "draining") => (reqs \cap Long) \subseteq cancelled

\* closeHijacked closes what the tracker knows of, and nothing becomes tracked
\* after it; Close the rest, and nothing begins after it.
ClosedPhase ==
  /\ phase \in {"hijacksClosed", "closed", "auxDown", "exited"} =>
       \A r \in reqs : hijack[r] = "tracked" => r \in shut
  /\ phase \in {"closed", "auxDown", "exited"} =>
       /\ \A r \in Request : req[r] = "conn" => r \in shut
       /\ \A r \in reqs : r \in cancelled \cup shut \/ hijack[r] = "taken"

\* Before the time is up the waiter goes on only when Shutdown had nothing to
\* wait for, finds nobody running only when nobody runs any more, and only
\* then is anything cancelled, or a stream cut before its grace.
EarlyEnd ==
  clock < Timeout =>
    /\ waiter # "shutdown" => \A r \in Request : req[r] = "conn" => r \in shut
    /\ waiter = "done" => reqs = {}
    /\ phase \in {"cancelled", "hijacksClosed", "closed", "auxDown", "exited"} => waiter = "done"
    /\ cut /\ clock < StreamGrace => waiter = "done"

DrainInv == DrainTyped /\ Begun /\ CutPhase /\ ClosedPhase /\ EarlyEnd /\ GraceKept /\ WakesWhenIdle

LEMMA DrainStarts ==
  ASSUME GracefulAssumption, RunInit
  PROVE  DrainInv
<1>1. reqs = {}
  BY DEF RunInit, reqs
<1>2. StreamGrace \in Nat /\ StreamGrace <= Timeout
  BY DEF RunInit, Grace
<1>3. DrainTyped
  <2>1. req \in [Request -> {"none", "conn", "running", "left", "gone"}]
    BY DEF RunInit
  <2>2. hijack \in [Request -> {"no", "taken", "tracked"}]
    BY DEF RunInit
  <2>3. clock \in Nat /\ clock <= Timeout
    BY DEF GracefulAssumption, RunInit
  <2>4. cut \in BOOLEAN /\ changed \in BOOLEAN
    BY DEF RunInit
  <2>. QED  BY <1>2, <2>1, <2>2, <2>3, <2>4 DEF RunInit, DrainTyped
<1>4. Begun /\ CutPhase /\ ClosedPhase
  BY DEF RunInit, Begun, CutPhase, ClosedPhase
<1>5. EarlyEnd
  BY <1>1 DEF RunInit, EarlyEnd
<1>6. GraceKept /\ WakesWhenIdle
  BY <1>1 DEF RunInit, GraceKept, WakesWhenIdle
<1>. QED  BY <1>3, <1>4, <1>5, <1>6 DEF DrainInv

LEMMA DrainGoesOn ==
  ASSUME GracefulAssumption, DrainInv, [RunNext]_runVars
  PROVE  DrainInv'
<1>. USE DEF GracefulAssumption
<1>1. ASSUME NEW r \in Request, Accept(r) PROVE DrainInv'
  <2>1. DrainTyped'
    BY <1>1 DEF Accept, DrainInv, DrainTyped
  <2>2. Begun'
    BY <1>1 DEF Accept, DrainInv, Begun
  <2>3. CutPhase'
    BY <1>1 DEF Accept, DrainInv, CutPhase
  <2>4. ClosedPhase'
    BY <1>1 DEF Accept, ClosedPhase
  <2>5. EarlyEnd'
    BY <1>1 DEF Accept, DrainInv, EarlyEnd, CutPhase
  <2>6. GraceKept'
    BY <1>1 DEF Accept, DrainInv, GraceKept, reqs
  <2>7. WakesWhenIdle'
    BY <1>1 DEF Accept, DrainInv, WakesWhenIdle, CutPhase
  <2>. QED  BY <2>1, <2>2, <2>3, <2>4, <2>5, <2>6, <2>7 DEF DrainInv
<1>2. ASSUME NEW r \in Request, Serve(r) PROVE DrainInv'
  <2>1. DrainTyped'
    BY <1>2 DEF Serve, DrainInv, DrainTyped
  <2>2. Begun'
    BY <1>2 DEF Serve, DrainInv, Begun, DrainTyped
  <2>3. CutPhase'
    BY <1>2 DEF Serve, DrainInv, CutPhase, CutOnArrival, reqs
  <2>4. ClosedPhase'
    BY <1>2 DEF Serve, DrainInv, ClosedPhase, Begun, reqs
  <2>5. EarlyEnd'
    BY <1>2 DEF Serve, DrainInv, EarlyEnd
  <2>6. GraceKept'
    BY <1>2 DEF Serve, DrainInv, GraceKept, CutOnArrival, DrainTyped, Begun, EarlyEnd, reqs
  <2>7. WakesWhenIdle'
    BY <1>2 DEF Serve, DrainInv, WakesWhenIdle, reqs
  <2>. QED  BY <2>1, <2>2, <2>3, <2>4, <2>5, <2>6, <2>7 DEF DrainInv
<1>3. ASSUME NEW r \in Request, Hijack(r) PROVE DrainInv'
  <2>1. DrainTyped'
    BY <1>3 DEF Hijack, DrainInv, DrainTyped
  <2>2. Begun'
    BY <1>3 DEF Hijack, DrainInv, Begun
  <2>3. ClosedPhase'
    BY <1>3 DEF Hijack, DrainInv, ClosedPhase, reqs
  <2>4. CutPhase' /\ EarlyEnd' /\ GraceKept' /\ WakesWhenIdle'
    BY <1>3 DEF Hijack, DrainInv, CutPhase, EarlyEnd, GraceKept, WakesWhenIdle, reqs
  <2>. QED  BY <2>1, <2>2, <2>3, <2>4 DEF DrainInv
<1>4. ASSUME NEW r \in Request, ConnState(r) PROVE DrainInv'
  <2>1. DrainTyped'
    BY <1>4 DEF ConnState, DrainInv, DrainTyped
  <2>2. Begun'
    BY <1>4 DEF ConnState, DrainInv, Begun
  <2>3. ClosedPhase'
    BY <1>4 DEF ConnState, DrainInv, ClosedPhase, CutPhase, reqs
  <2>4. EarlyEnd'
    BY <1>4 DEF ConnState, DrainInv, EarlyEnd, reqs
  <2>5. GraceKept'
    BY <1>4 DEF ConnState, DrainInv, GraceKept, DrainTyped, Begun, EarlyEnd, reqs
  <2>6. CutPhase' /\ WakesWhenIdle'
    BY <1>4 DEF ConnState, DrainInv, CutPhase, WakesWhenIdle, reqs
  <2>. QED  BY <2>1, <2>2, <2>3, <2>4, <2>5, <2>6 DEF DrainInv
<1>5. ASSUME NEW r \in Request, Leave(r) PROVE DrainInv'
  <2>1. DrainTyped'
    BY <1>5 DEF Leave, DrainInv, DrainTyped
  <2>2. Begun'
    BY <1>5 DEF Leave, DrainInv, Begun, DrainTyped
  <2>3. CutPhase'
    BY <1>5 DEF Leave, DrainInv, CutPhase, reqs
  <2>4. ClosedPhase'
    BY <1>5 DEF Leave, DrainInv, ClosedPhase, reqs
  <2>5. EarlyEnd'
    BY <1>5 DEF Leave, DrainInv, EarlyEnd, reqs
  <2>6. GraceKept'
    BY <1>5 DEF Leave, DrainInv, GraceKept, reqs
  <2>7. WakesWhenIdle'
    BY <1>5 DEF Leave, DrainInv, WakesWhenIdle, DrainTyped
  <2>. QED  BY <2>1, <2>2, <2>3, <2>4, <2>5, <2>6, <2>7 DEF DrainInv
<1>6. ASSUME NEW r \in Request, Notify(r) PROVE DrainInv'
  <2>1. DrainTyped'
    BY <1>6 DEF Notify, DrainInv, DrainTyped
  <2>2. Begun'
    BY <1>6 DEF Notify, DrainInv, Begun
  <2>3. CutPhase'
    BY <1>6 DEF Notify, DrainInv, CutPhase, reqs
  <2>4. ClosedPhase'
    BY <1>6 DEF Notify, DrainInv, ClosedPhase, reqs
  <2>5. EarlyEnd'
    BY <1>6 DEF Notify, DrainInv, EarlyEnd, reqs
  <2>6. GraceKept'
    BY <1>6 DEF Notify, DrainInv, GraceKept, reqs
  <2>7. WakesWhenIdle'
    BY <1>6 DEF Notify, WakesWhenIdle
  <2>. QED  BY <2>1, <2>2, <2>3, <2>4, <2>5, <2>6, <2>7 DEF DrainInv
<1>7. ASSUME NEW r \in Request, CloseIdle(r) PROVE DrainInv'
  <2>1. DrainTyped'
    BY <1>7 DEF CloseIdle, DrainInv, DrainTyped
  <2>2. Begun'
    BY <1>7 DEF CloseIdle, DrainInv, Begun
  <2>3. CutPhase'
    BY <1>7 DEF CloseIdle, DrainInv, CutPhase, reqs
  <2>4. ClosedPhase'
    BY <1>7 DEF CloseIdle, ClosedPhase
  <2>5. EarlyEnd'
    BY <1>7 DEF CloseIdle, DrainInv, EarlyEnd, reqs
  <2>6. GraceKept'
    BY <1>7 DEF CloseIdle, DrainInv, GraceKept, reqs
  <2>7. WakesWhenIdle'
    BY <1>7 DEF CloseIdle, DrainInv, WakesWhenIdle, reqs
  <2>. QED  BY <2>1, <2>2, <2>3, <2>4, <2>5, <2>6, <2>7 DEF DrainInv
<1>8. CASE Signal
  <2>1. DrainTyped'
    BY <1>8 DEF Signal, DrainInv, DrainTyped
  <2>2. CutPhase'
    BY <1>8 DEF Signal, DrainInv, CutPhase
  <2>3. ClosedPhase'
    BY <1>8 DEF Signal, ClosedPhase
  <2>4. EarlyEnd'
    BY <1>8 DEF Signal, DrainInv, EarlyEnd, CutPhase
  <2>5. Begun' /\ GraceKept' /\ WakesWhenIdle'
    BY <1>8 DEF Signal, DrainInv, Begun, GraceKept, WakesWhenIdle, reqs
  <2>. QED  BY <2>1, <2>2, <2>3, <2>4, <2>5 DEF DrainInv
<1>9. CASE Kill
  <2>1. DrainTyped'
    BY <1>9 DEF Kill, DrainInv, DrainTyped
  <2>2. CutPhase'
    BY <1>9 DEF Kill, CutPhase
  <2>3. ClosedPhase'
    BY <1>9 DEF Kill, ClosedPhase
  <2>4. EarlyEnd'
    BY <1>9 DEF Kill, DrainInv, EarlyEnd, reqs
  <2>5. Begun' /\ GraceKept' /\ WakesWhenIdle'
    BY <1>9 DEF Kill, DrainInv, Begun, GraceKept, WakesWhenIdle, reqs
  <2>. QED  BY <2>1, <2>2, <2>3, <2>4, <2>5 DEF DrainInv
<1>10. CASE Tick
  <2>1. DrainTyped'
    BY <1>10 DEF Tick, DrainInv, DrainTyped
  <2>2. CutPhase'
    BY <1>10 DEF Tick, DrainInv, CutPhase, reqs
  <2>3. EarlyEnd'
    BY <1>10 DEF Tick, DrainInv, EarlyEnd, DrainTyped, reqs
  <2>4. GraceKept'
    BY <1>10 DEF Tick, DrainInv, GraceKept, DrainTyped, reqs
  <2>5. Begun' /\ ClosedPhase' /\ WakesWhenIdle'
    BY <1>10 DEF Tick, DrainInv, Begun, ClosedPhase, WakesWhenIdle, reqs
  <2>. QED  BY <2>1, <2>2, <2>3, <2>4, <2>5 DEF DrainInv
<1>11. CASE cutStreams
  <2>1. DrainTyped'
    BY <1>11 DEF cutStreams, DrainInv, DrainTyped, Tracked, reqs
  <2>2. Begun'
    BY <1>11 DEF cutStreams, DrainInv, Begun, reqs
  <2>3. CutPhase'
    BY <1>11 DEF cutStreams, CutPhase, reqs
  <2>4. ClosedPhase'
    BY <1>11 DEF cutStreams, ClosedPhase
  <2>5. EarlyEnd'
    BY <1>11 DEF cutStreams, DrainInv, EarlyEnd, DrainTyped, reqs
  <2>6. GraceKept'
    BY <1>11 DEF cutStreams, DrainInv, GraceKept, Tracked, DrainTyped, Begun, reqs
  <2>7. WakesWhenIdle'
    BY <1>11 DEF cutStreams, DrainInv, WakesWhenIdle, reqs
  <2>. QED  BY <2>1, <2>2, <2>3, <2>4, <2>5, <2>6, <2>7 DEF DrainInv
<1>12. CASE ShutdownReturns
  <2>1. DrainTyped'
    BY <1>12 DEF ShutdownReturns, DrainInv, DrainTyped
  <2>2. CutPhase'
    BY <1>12 DEF ShutdownReturns, DrainInv, CutPhase, reqs
  <2>3. EarlyEnd'
    BY <1>12 DEF ShutdownReturns, DrainInv, EarlyEnd, Busy, Begun
  <2>4. WakesWhenIdle'
    BY <1>12 DEF ShutdownReturns, WakesWhenIdle
  <2>5. Begun' /\ ClosedPhase' /\ GraceKept'
    BY <1>12 DEF ShutdownReturns, DrainInv, Begun, ClosedPhase, GraceKept, reqs
  <2>. QED  BY <2>1, <2>2, <2>3, <2>4, <2>5 DEF DrainInv
<1>13. CASE WaitCheck
  <2>1. DrainTyped'
    BY <1>13 DEF WaitCheck, DrainInv, DrainTyped
  <2>2. CutPhase'
    BY <1>13 DEF WaitCheck, DrainInv, CutPhase, reqs
  <2>3. EarlyEnd'
    BY <1>13 DEF WaitCheck, DrainInv, EarlyEnd, reqs
  <2>4. WakesWhenIdle'
    BY <1>13 DEF WaitCheck, WakesWhenIdle, reqs
  <2>5. Begun' /\ ClosedPhase' /\ GraceKept'
    BY <1>13 DEF WaitCheck, DrainInv, Begun, ClosedPhase, GraceKept, reqs
  <2>. QED  BY <2>1, <2>2, <2>3, <2>4, <2>5 DEF DrainInv
<1>14. CASE WaitToken
  <2>1. DrainTyped'
    BY <1>14 DEF WaitToken, DrainInv, DrainTyped
  <2>2. CutPhase'
    BY <1>14 DEF WaitToken, DrainInv, CutPhase, reqs
  <2>3. EarlyEnd'
    BY <1>14 DEF WaitToken, DrainInv, EarlyEnd
  <2>4. WakesWhenIdle'
    BY <1>14 DEF WaitToken, WakesWhenIdle
  <2>5. Begun' /\ ClosedPhase' /\ GraceKept'
    BY <1>14 DEF WaitToken, DrainInv, Begun, ClosedPhase, GraceKept, reqs
  <2>. QED  BY <2>1, <2>2, <2>3, <2>4, <2>5 DEF DrainInv
<1>15. CASE cancelAll
  <2>1. DrainTyped'
    BY <1>15 DEF cancelAll, DrainInv, DrainTyped, reqs
  <2>2. Begun'
    BY <1>15 DEF cancelAll, DrainInv, Begun, reqs
  <2>3. CutPhase'
    BY <1>15 DEF cancelAll, CutPhase
  <2>4. ClosedPhase'
    BY <1>15 DEF cancelAll, ClosedPhase
  <2>5. EarlyEnd'
    BY <1>15 DEF cancelAll, DrainInv, EarlyEnd, reqs
  <2>6. GraceKept'
    BY <1>15 DEF cancelAll, DrainInv, GraceKept, DrainTyped, EarlyEnd, reqs
  <2>7. WakesWhenIdle'
    BY <1>15 DEF cancelAll, DrainInv, WakesWhenIdle, reqs
  <2>. QED  BY <2>1, <2>2, <2>3, <2>4, <2>5, <2>6, <2>7 DEF DrainInv
<1>16. CASE closeHijacked
  <2>1. DrainTyped'
    BY <1>16 DEF closeHijacked, DrainInv, DrainTyped, Tracked, reqs
  <2>2. CutPhase'
    BY <1>16 DEF closeHijacked, CutPhase
  <2>3. ClosedPhase'
    BY <1>16 DEF closeHijacked, ClosedPhase, Tracked, reqs
  <2>4. EarlyEnd'
    BY <1>16 DEF closeHijacked, DrainInv, EarlyEnd, reqs
  <2>5. GraceKept'
    BY <1>16 DEF closeHijacked, DrainInv, GraceKept, DrainTyped, EarlyEnd, reqs
  <2>6. Begun' /\ WakesWhenIdle'
    BY <1>16 DEF closeHijacked, DrainInv, Begun, WakesWhenIdle, reqs
  <2>. QED  BY <2>1, <2>2, <2>3, <2>4, <2>5, <2>6 DEF DrainInv
<1>17. CASE Close
  <2>1. DrainTyped'
    BY <1>17 DEF Close, DrainInv, DrainTyped
  <2>2. CutPhase'
    BY <1>17 DEF Close, DrainInv, CutPhase
  <2>3. ClosedPhase'
    BY <1>17 DEF Close, DrainInv, ClosedPhase, DrainTyped, Begun, reqs
  <2>4. EarlyEnd'
    BY <1>17 DEF Close, DrainInv, EarlyEnd, reqs
  <2>5. GraceKept'
    BY <1>17 DEF Close, DrainInv, GraceKept, DrainTyped, EarlyEnd, reqs
  <2>6. Begun' /\ WakesWhenIdle'
    BY <1>17 DEF Close, DrainInv, Begun, WakesWhenIdle, reqs
  <2>. QED  BY <2>1, <2>2, <2>3, <2>4, <2>5, <2>6 DEF DrainInv
<1>18. CASE AuxDown
  <2>1. DrainTyped'
    BY <1>18 DEF AuxDown, DrainInv, DrainTyped
  <2>2. CutPhase'
    BY <1>18 DEF AuxDown, DrainInv, CutPhase
  <2>3. ClosedPhase'
    BY <1>18 DEF AuxDown, DrainInv, ClosedPhase, reqs
  <2>4. EarlyEnd'
    BY <1>18 DEF AuxDown, DrainInv, EarlyEnd, reqs
  <2>5. Begun' /\ GraceKept' /\ WakesWhenIdle'
    BY <1>18 DEF AuxDown, DrainInv, Begun, GraceKept, WakesWhenIdle, reqs
  <2>. QED  BY <2>1, <2>2, <2>3, <2>4, <2>5 DEF DrainInv
<1>19. CASE Hooks
  <2>1. DrainTyped'
    BY <1>19 DEF Hooks, DrainInv, DrainTyped
  <2>2. CutPhase'
    BY <1>19 DEF Hooks, DrainInv, CutPhase
  <2>3. ClosedPhase'
    BY <1>19 DEF Hooks, DrainInv, ClosedPhase, reqs
  <2>4. EarlyEnd'
    BY <1>19 DEF Hooks, DrainInv, EarlyEnd, reqs
  <2>5. Begun' /\ GraceKept' /\ WakesWhenIdle'
    BY <1>19 DEF Hooks, DrainInv, Begun, GraceKept, WakesWhenIdle, reqs
  <2>. QED  BY <2>1, <2>2, <2>3, <2>4, <2>5 DEF DrainInv
<1>20. CASE UNCHANGED runVars
  BY <1>20 DEF runVars, DrainInv, DrainTyped, Begun, CutPhase, ClosedPhase, EarlyEnd, GraceKept,
     WakesWhenIdle, reqs
<1>. QED BY <1>1, <1>2, <1>3, <1>4, <1>5, <1>6, <1>7, <1>8, <1>9, <1>10, <1>11, <1>12,
            <1>13, <1>14, <1>15, <1>16, <1>17, <1>18, <1>19, <1>20 DEF RunNext, Drain

LEMMA GracefulInductive ==
  ASSUME GracefulAssumption
  PROVE  RunSpec => []DrainInv
<1>1. RunInit => DrainInv
  BY DrainStarts
<1>2. DrainInv /\ [RunNext]_runVars => DrainInv'
  BY DrainGoesOn
<1>. QED  BY <1>1, <1>2, PTL DEF RunSpec

-----------------------------------------------------------------------------
(* The drain: the theorems                                                 *)

(* Whatever the order in which requests arrive, are hijacked and are cut,  *)
(* and for every number of them: a stream served after cutStreams has its  *)
(* context cancelled, and no request goes on into the hooks untouched.     *)
THEOREM NoRequestEscapes ==
  ASSUME GracefulAssumption
  PROVE  RunSpec => []NothingEscapes
<1>1. DrainInv => NothingEscapes
  BY DEF DrainInv, CutPhase, ClosedPhase, NothingEscapes
<1>. QED  BY <1>1, GracefulInductive, PTL

(* No request loses its context or its connection before its time: streams *)
(* have StreamGrace, the others the whole timeout.                         *)
THEOREM NobodyCutEarly ==
  ASSUME GracefulAssumption
  PROVE  RunSpec => []GraceKept
<1>1. DrainInv => GraceKept
  BY DEF DrainInv
<1>. QED  BY <1>1, GracefulInductive, PTL

(* The one token of the tracker's channel is enough: waitIdle never sleeps *)
(* once the last request has left, with no token there or on its way.      *)
THEOREM NoLostWakeup ==
  ASSUME GracefulAssumption
  PROVE  RunSpec => []WakesWhenIdle
<1>1. DrainInv => WakesWhenIdle
  BY DEF DrainInv
<1>. QED  BY <1>1, GracefulInductive, PTL

\* The three together: an orderly drain, whatever requests do meanwhile.
THEOREM DrainIsOrderly ==
  ASSUME GracefulAssumption
  PROVE  RunSpec => []DrainsCleanly
BY NoRequestEscapes, NobodyCutEarly, NoLostWakeup, PTL DEF DrainsCleanly
=============================================================================
