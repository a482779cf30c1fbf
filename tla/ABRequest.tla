----------------------------- MODULE ABRequest -----------------------------
(***************************************************************************)
(* One request of a service under an A/B test (cmd/proxy/abtest.go and the *)
(* hop protocol of abmesh.go): the variant its session gets, the backend   *)
(* it is sent to, the hop over a peer proxy, and who counts it.            *)
(*                                                                         *)
(* A proxy knows its own containers and, from the last push it merged, the *)
(* pools of its peer.  Labels reach the two proxies at different moments,  *)
(* containers come and go, attempts fail, and a peer's answer may be lost  *)
(* after the peer served and counted the request.  Which of several equal  *)
(* backends the cursor takes is left open, as are header and random        *)
(* assignment, groups and account ids: each ends in one of two variants.   *)
(***************************************************************************)
EXTENDS Naturals, Sequences, FiniteSets

CONSTANTS
  Backend,      \* containers
  Home,         \* Home[b]: the proxy whose local backend b is
  Variant,      \* Variant[b]: "A" or "B"
  Session,      \* browsers, each with a cookie jar
  Kinds,        \* the kinds of path asked for: "page", "static", "excluded"
  MaxRequests,  \* bound: requests of one session
  MaxFails,     \* bound: failed attempts and lost answers
  MaxChanges    \* bound: label, container, health and mesh changes

Proxies == {"p", "q"}
Peer(x) == IF x = "p" THEN "q" ELSE "p"
Phase == {"running", "aborted", "promoting", "discarding"}
None == "none"
maxRetries == 3

VARIABLES
  has,      \* has[x]: the local containers of x's table
  view,     \* view[x]: what x knows of its peer's pools
  phase,    \* phase[x]: the effective phase at x
  sick,     \* sick[x]: targets of x that failed their last probe or request
  pin,      \* pin[s]: the ab_v_ cookie of the session
  req,      \* req[s]: the request under way
  counts,   \* counts[s]: history, the records made of it in the proxies' runs
  used      \* used: requests, fails and changes so far

vars == <<has, view, phase, sick, pin, req, counts, used>>

NoView == [test |-> FALSE, a |-> FALSE, b |-> FALSE]
NoPin  == [variant |-> None, src |-> "n"]
NoOne  == <<None, None>>

abOther(v) == IF v = "A" THEN "B" ELSE "A"
abFrozen(ph) == ph \in {"aborted", "discarding"}

\* A backend of a table: a container, or one of the peer's two pools.
Cont(b)  == <<"c", b>>
Pool(v)  == <<"peer", v>>
Learned(t) == t[1] = "peer"
VariantOf(t) == IF Learned(t) THEN t[2] ELSE Variant[t[2]]

\* The group of x runs the test: a B backend is in it, its own or the peer's.
Runs(x) == \/ \E b \in has[x] : Variant[b] = "B"
           \/ view[x].b

\* overlay, abSplitFor, peerBackendsFor: with a test and a verified peer that
\* has B replicas two pools, else one that counts as A.
Split(w) == {Pool(v) : v \in {u \in {"A", "B"} : IF u = "A" THEN w.a ELSE w.b /\ w.test}}
Table(f) == {Cont(b) : b \in f.has} \cup Split(f.view)

\* What the next push of x's peer will say of it: its local pools, and the
\* test if it is attached there.
Advertised(y) == [test |-> Runs(y),
                  a |-> \E b \in has[y] : Variant[b] = "A",
                  b |-> \E b \in has[y] : Variant[b] = "B"]

\* abDecision; ab is FALSE where the group has no test.
Decision(ab, variant, failover, record, from, static) ==
  [ab |-> ab, variant |-> variant, failover |-> failover, record |-> record,
   from |-> from, static |-> static]

Finish(x, v, record, static) ==
  Decision(TRUE, v,
           IF v = "B" THEN "A" ELSE IF phase[x] = "promoting" THEN "B" ELSE None,
           record, None, static)

\* The variant a new session may get, by phase: abAssign steps 5 to 9.
NewVariant(x) ==
  CASE abFrozen(phase[x])      -> {"A"}
    [] phase[x] = "promoting" -> {"B"}
    [] OTHER                  -> {"A", "B"}

\* abAssign of a request straight from the client: the decisions and the pin
\* the browser is left with.  ask is the QA override in the query, if any.
Assigned(x, kind, p, ask) ==
  LET static == kind = "static"
      keep(v, src) == IF static THEN p ELSE [variant |-> v, src |-> src]
  IN CASE kind = "excluded" -> {<<Finish(x, "A", FALSE, FALSE), p>>}
       [] kind # "excluded" /\ p.variant # None ->
            {<<Finish(x, p.variant, ~abFrozen(phase[x]) /\ p.src # "q", static), p>>}
       [] kind # "excluded" /\ p.variant = None /\ ask # None ->
            {<<Finish(x, ask, FALSE, static), keep(ask, "q")>>}
       [] OTHER -> {<<Finish(x, v, ~abFrozen(phase[x]), static), keep(v, "n")>> :
                      v \in NewVariant(x)}

\* abAssign of an authenticated hop, which carries the variant, and the flag
\* that the forwarder failed over.
Hopped(x, kind, v, failover) ==
  CASE kind = "excluded" -> Finish(x, "A", FALSE, FALSE)
    [] kind # "excluded" /\ failover ->
         Decision(TRUE, abOther(v), None, ~abFrozen(phase[x]), v, kind = "static")
    [] OTHER -> Finish(x, v, ~abFrozen(phase[x]), kind = "static")

NoTest == Decision(FALSE, None, None, FALSE, None, FALSE)

\* One proxy's abProxyToGroup (or proxyToGroup, without a test), on the group
\* that was published when the request came.
Frame(x, d) == [at |-> x, d |-> d, has |-> has[x], view |-> view[x],
                tried |-> {}, n |-> 0, on |-> NoOne, fb |-> FALSE]

\* pickHealthy and pickAny: the local tier before the peer's, of one variant.
Of(x, T, v) == {t \in T : v = None \/ VariantOf(t) = v}
Tier(T) == IF \E t \in T : ~Learned(t) THEN {t \in T : ~Learned(t)} ELSE T

\* The first of a sequence of sets that is not empty.
FirstOf(seq) ==
  IF \E i \in DOMAIN seq : seq[i] # {}
  THEN seq[CHOOSE i \in DOMAIN seq : seq[i] # {} /\ \A j \in 1 .. i - 1 : seq[j] = {}]
  ELSE {}

abPick(f, allowPeer) ==
  LET x == f.at
      free == {t \in Table(f) : t \notin f.tried /\ (allowPeer \/ ~Learned(t))}
      well == free \ sick[x]
      own == f.d.variant
      pick(T, v) == Tier(Of(x, T, v))
  IN IF f.d.ab /\ f.d.failover # None
     THEN FirstOf(<<pick(well, own), pick(well, f.d.failover),
                    pick(free, own), pick(free, f.d.failover)>>)
     ELSE FirstOf(<<pick(well, own), pick(free, own)>>)

\* peerRuns: the backend is a peer verified to run this test.
peerRuns(f, t) == f.d.ab /\ Learned(t) /\ f.view.test

\* Mutant: the variant served, not the session's.
recordVariantServed(d) == d.variant

recordVariant(d) == IF d.from # None THEN d.from ELSE d.variant

\* abRun.record rechecks the phase; the record is kept with the proxy.
Recorded(x, v, out, cs) ==
  IF abFrozen(phase[x]) THEN cs ELSE Append(cs, [by |-> x, variant |-> v, out |-> out])

\* abRecordServed
abRecordServed(f, t, cs) ==
  LET d == f.d IN
  IF ~d.ab \/ peerRuns(f, t) \/ ~d.record THEN cs
  ELSE IF d.from # None \/ VariantOf(t) # d.variant
       THEN Recorded(f.at, recordVariant(d), "failover", cs)
       ELSE IF Learned(t) THEN cs ELSE Recorded(f.at, d.variant, "served", cs)

\* No backend is left, or the body cannot be sent again: the failure is
\* counted if the last backend was a local one.
TransportRecorded(f, cs) ==
  IF f.d.ab /\ f.d.record /\ f.on # NoOne /\ ~Learned(f.on)
  THEN Recorded(f.at, recordVariant(f.d), "transport", cs) ELSE cs

\* req[s]: kind, body and QA override of the request, the frames, outermost
\* first, the answer on its way back, and the container it came from.  calm,
\* misled and dup are history: nothing moved and all agreed while it ran; a
\* hop was sent on a stale view; a peer's answer was lost, or a static file
\* fetched from the peer.
Idle == [pc |-> "idle", kind |-> None, replay |-> TRUE, ask |-> None, frames |-> <<>>,
         code |-> None, by |-> None, calm |-> TRUE, misled |-> FALSE, dup |-> FALSE]

Top(r) == r.frames[Len(r.frames)]
SetTop(r, f) == [r EXCEPT !.frames[Len(r.frames)] = f]

\* The frame on top is over and its proxy answers: the browser, or the frame
\* below.
Pop(r, code) ==
  IF Len(r.frames) = 1 THEN [r EXCEPT !.pc = "done", !.code = code]
  ELSE [r EXCEPT !.pc = "answer", !.code = code, !.frames = <<r.frames[1]>>]

\* All proxies know all pools and are in the same phase.
Agreed == /\ \A x \in Proxies : view[x] = Advertised(Peer(x))
          /\ phase["p"] = phase["q"]

Init ==
  /\ has = [x \in Proxies |-> {b \in Backend : Home[b] = x}]
  /\ view = [x \in Proxies |-> [test |-> TRUE,
               a |-> \E b \in Backend : Home[b] = Peer(x) /\ Variant[b] = "A",
               b |-> \E b \in Backend : Home[b] = Peer(x) /\ Variant[b] = "B"]]
  /\ phase = [x \in Proxies |-> "running"]
  /\ sick = [x \in Proxies |-> {}]
  /\ pin = [s \in Session |-> NoPin]
  /\ req = [s \in Session |-> Idle]
  /\ counts = [s \in Session |-> <<>>]
  /\ used = [requests |-> [s \in Session |-> 0], fails |-> 0, changes |-> 0]

\* ServeHTTP: the request comes in at x, which decides.
Send(s, x, kind, replay, ask) ==
  /\ req[s].pc = "idle"
  /\ used.requests[s] < MaxRequests
  /\ \E o \in IF Runs(x) THEN Assigned(x, kind, pin[s], ask) ELSE {<<NoTest, pin[s]>>} :
       /\ req' = [req EXCEPT ![s] =
            [Idle EXCEPT !.pc = "pick", !.kind = kind, !.replay = replay, !.ask = ask,
                         !.frames = <<Frame(x, o[1])>>, !.calm = Agreed]]
       /\ pin' = [pin EXCEPT ![s] = o[2]]
  /\ used' = [used EXCEPT !.requests[s] = @ + 1]
  /\ UNCHANGED <<has, view, phase, sick, counts>>

\* The request goes to t.  A container is awaited; a peer's proxy decides in
\* turn, from the headers it gets: one that runs this test the session's
\* variant and the failover flag, any other the served variant; without a
\* test here nothing vouches for a variant.
SentTo(s, f, t, variant) ==
  LET r == SetTop(req[s], [f EXCEPT !.on = t, !.n = @ + 1, !.tried = @ \cup {t}])
      x == f.at
      y == Peer(x)
      hop == peerRuns(f, t) /\ VariantOf(t) # variant
      ds == IF ~Runs(y) THEN {NoTest}
            ELSE IF f.d.ab
                 THEN {Hopped(y, r.kind, IF hop THEN variant ELSE VariantOf(t), hop)}
                 ELSE {[o[1] EXCEPT !.record = FALSE] :
                         o \in Assigned(y, r.kind, pin[s], r.ask)}
  IN IF Learned(t)
     THEN {[r EXCEPT !.frames = Append(@, Frame(y, d)), !.pc = "pick",
                     !.misled = @ \/ f.view # Advertised(y),
                     !.dup = @ \/ f.fb] : d \in ds}
     ELSE {[r EXCEPT !.pc = "sent"]}

\* One attempt of the loop of abProxyToGroup.
Attempt(s) ==
  LET r == req[s]
      f == Top(r)
  IN
  /\ r.pc = "pick"
  /\ f.n < maxRetries
  /\ \E t \in abPick(f, Len(r.frames) = 1) :
       \E r2 \in SentTo(s, f, t, f.d.variant) : req' = [req EXCEPT ![s] = r2]
  /\ UNCHANGED <<has, view, phase, sick, pin, counts, used>>

\* The container answers; 404 is told apart only for a static file.
Serve(s, code) ==
  /\ req[s].pc = "sent"
  /\ code = "404" => req[s].kind = "static"
  /\ req' = [req EXCEPT ![s] = [@ EXCEPT !.pc = "answer", !.code = code,
                                         !.by = Top(req[s]).on[2]]]
  /\ UNCHANGED <<has, view, phase, sick, pin, counts, used>>

\* staticRetry of abProxyToGroup
StaticRetry(r, f) == /\ f.d.ab /\ f.d.static /\ r.replay
                     /\ \E t \in Table(f) : VariantOf(t) = abOther(f.d.variant)

\* tryProxy returned an answer: a static file's 404 is swallowed and the
\* other variant is tried; anything else is recorded and passed on, except
\* by a frame that already fell back.
Return(s) ==
  LET r == req[s]
      f == Top(r)
  IN
  /\ r.pc = "answer"
  /\ IF ~f.fb /\ StaticRetry(r, f) /\ r.code = "404"
     THEN /\ req' = [req EXCEPT ![s] = [SetTop(r, [f EXCEPT !.fb = TRUE])
                                          EXCEPT !.pc = "fallback", !.by = None]]
          /\ UNCHANGED counts
     ELSE /\ req' = [req EXCEPT ![s] = Pop(r, r.code)]
          /\ counts' = [counts EXCEPT ![s] = IF f.fb THEN @ ELSE abRecordServed(f, f.on, @)]
  /\ UNCHANGED <<has, view, phase, sick, pin, used>>

\* abStaticFallback: once, on the other variant; with nowhere to go the 404
\* is replayed.
Fallback(s) ==
  LET r == req[s]
      f == Top(r)
      other == abOther(f.d.variant)
      ts == abPick([f EXCEPT !.d.variant = other, !.d.failover = None], Len(r.frames) = 1)
  IN
  /\ r.pc = "fallback"
  /\ IF ts = {} THEN req' = [req EXCEPT ![s] = Pop(r, "404")]
     ELSE \E t \in ts : \E r2 \in SentTo(s, f, t, other) : req' = [req EXCEPT ![s] = r2]
  /\ UNCHANGED <<has, view, phase, sick, pin, counts, used>>

\* tryProxy fails in f, whose request r is: the next backend, or the end
\* where the body is spent or the 404 of a static file is replayed.
Failed(s, r, f, cs) ==
  /\ used.fails < MaxFails
  /\ used' = [used EXCEPT !.fails = @ + 1]
  /\ sick' = [sick EXCEPT ![f.at] = @ \cup {f.on}]
  /\ req' = [req EXCEPT ![s] = CASE f.fb           -> Pop(r, "404")
                                 [] ~f.fb /\ r.replay -> [r EXCEPT !.pc = "pick"]
                                 [] OTHER          -> Pop(r, "502")]
  /\ counts' = [counts EXCEPT ![s] =
       IF ~f.fb /\ ~r.replay THEN TransportRecorded(f, cs) ELSE cs]
  /\ UNCHANGED <<has, view, phase, pin>>

\* The container cannot be reached.
Fail(s) == /\ req[s].pc = "sent"
           /\ Failed(s, req[s], Top(req[s]), counts[s])

\* The peer answered, and counted, and the answer does not arrive.
LoseAnswer(s) ==
  LET r == req[s] IN
  /\ r.pc = "answer" /\ Len(r.frames) = 1 /\ Learned(Top(r).on)
  /\ Failed(s, [r EXCEPT !.dup = TRUE, !.by = None], Top(r), counts[s])

\* No backend is left, or maxRetries were made: 503, which a forwarder takes
\* for its peer's answer.
GiveUp(s) ==
  LET r == req[s]
      f == Top(r)
  IN
  /\ r.pc = "pick"
  /\ f.n = maxRetries \/ abPick(f, Len(r.frames) = 1) = {}
  /\ req' = [req EXCEPT ![s] = Pop(r, "503")]
  /\ counts' = [counts EXCEPT ![s] = TransportRecorded(f, @)]
  /\ UNCHANGED <<has, view, phase, sick, pin, used>>

\* The browser has its answer; its cookie may have expired before it comes
\* again (session_idle, max_session: parseABPin).
NextRequest(s, keep) ==
  /\ req[s].pc = "done"
  /\ req' = [req EXCEPT ![s] = Idle]
  /\ counts' = [counts EXCEPT ![s] = <<>>]
  /\ pin' = [pin EXCEPT ![s] = IF keep THEN @ ELSE NoPin]
  /\ UNCHANGED <<has, view, phase, sick, used>>

\* What moves beside the requests.
Change ==
  /\ used.changes < MaxChanges
  /\ used' = [used EXCEPT !.changes = @ + 1]
  /\ req' = [s \in Session |-> [req[s] EXCEPT !.calm = FALSE]]
  /\ UNCHANGED <<pin, counts>>

\* A relabelled B, or the abort latch, reaches x.
SetPhase(x, ph) ==
  /\ phase[x] # ph
  /\ phase' = [phase EXCEPT ![x] = ph]
  /\ Change
  /\ UNCHANGED <<has, view, sick>>

\* A container of x starts or stops, and x refreshes.
SetContainer(x, b) ==
  /\ Home[b] = x
  /\ has' = [has EXCEPT ![x] = IF b \in @ THEN @ \ {b} ELSE @ \cup {b}]
  /\ Change
  /\ UNCHANGED <<view, phase, sick>>

\* A push of the peer is merged, or its entry expires.
Sync(x, arrives) ==
  LET v == IF arrives THEN Advertised(Peer(x)) ELSE NoView IN
  /\ view[x] # v
  /\ view' = [view EXCEPT ![x] = v]
  /\ Change
  /\ UNCHANGED <<has, phase, sick>>

\* A health probe of x succeeds again.
Recover(x, t) ==
  /\ t \in sick[x]
  /\ sick' = [sick EXCEPT ![x] = @ \ {t}]
  /\ Change
  /\ UNCHANGED <<has, view, phase>>

Next ==
  \/ \E s \in Session :
       \/ \E x \in Proxies, kind \in Kinds, replay \in BOOLEAN, ask \in {None, "A", "B"} :
            Send(s, x, kind, replay, ask)
       \/ Attempt(s)
       \/ \E code \in {"ok", "404"} : Serve(s, code)
       \/ Return(s)
       \/ Fallback(s)
       \/ Fail(s)
       \/ LoseAnswer(s)
       \/ GiveUp(s)
       \/ \E keep \in BOOLEAN : NextRequest(s, keep)
  \/ \E x \in Proxies :
       \/ \E ph \in Phase : SetPhase(x, ph)
       \/ \E b \in Backend : SetContainer(x, b)
       \/ \E arrives \in BOOLEAN : Sync(x, arrives)
       \/ \E t \in sick[x] : Recover(x, t)

Spec == Init /\ [][Next]_vars

Ended(s) == req[s].pc = "done"
Assignment(s) == req[s].frames[1].d

(***************************************************************************)
(* "Each request is counted exactly once mesh-wide" (abRecordServed): by   *)
(* whichever proxy, retries and failovers included, never twice while the  *)
(* forwarder's view of its peer is current and the peer's answers arrive;  *)
(* and a counted session's request that a container answered is counted if *)
(* nothing moved meanwhile, unless a static file was fetched elsewhere.    *)
(***************************************************************************)
CountedOnce ==
  \A s \in Session : Ended(s) =>
    /\ ~req[s].misled /\ ~req[s].dup => Len(counts[s]) <= 1
    /\ (/\ req[s].calm /\ ~req[s].dup /\ Assignment(s).record /\ req[s].by # None
        /\ ~req[s].frames[1].fb /\ req[s].kind = "page")
         => Len(counts[s]) = 1

(***************************************************************************)
(* Wherever a request ends up, it counts for the variant of its session: a *)
(* B session served by A, here or over a hop, is a failover of B, and only *)
(* a container of the session's variant makes a "served" of it.            *)
(***************************************************************************)
CountedForItsSession ==
  \A s \in Session : Ended(s) /\ ~req[s].misled /\ ~req[s].dup =>
    \A i \in DOMAIN counts[s] :
      /\ counts[s][i].variant = Assignment(s).variant
      /\ counts[s][i].out = "served" /\ req[s].by # None
           => Variant[req[s].by] = counts[s][i].variant
=============================================================================
