------------------------------ MODULE Dispatch ------------------------------
(***************************************************************************)
(* How one route's requests reach a backend (cmd/proxy/router.go): the     *)
(* retry loop of proxyToGroup, the weighted round-robin of pickHealthy and *)
(* pickAny over the local and the learned tier (or one spread pool),       *)
(* sticky pins, replayable bodies, clients that go away, and the hop a     *)
(* peer proxy takes when the chosen backend is a learned one.              *)
(*                                                                         *)
(* A frame is one proxy's proxyToGroup for one request.  Its path is the   *)
(* proxies the request went through: <<p>> where the client sent it,       *)
(* <<p, r>> where p forwarded it to its peer r.                            *)
(***************************************************************************)
EXTENDS Naturals, Sequences, FiniteSetsExt, Functions

CONSTANTS
  Proxy,       \* proxies of the mesh, each a learned backend of the others
  Backend,     \* containers
  Home,        \* Home[b]: the proxy whose local backend b is
  Order,       \* Order[p]: RouteGroup.Backends of p, local and learned
  Weight,      \* Weight[t]: Backend.Weight; of a proxy, what it advertises
  Sticky,      \* RouteGroup.Sticky
  Spreads,     \* the values of RouteGroup.Spread to explore
  Request,     \* client requests
  Cursors,     \* the values of RouteGroup.cursor to start from
  MaxHops,     \* bound: the longest path explored
  MaxFails,    \* bound: failed attempts
  MaxFlips     \* bound: probe results and stop signals

Target == Backend \cup Proxy
None == "none"

\* const maxRetries of router.go
maxRetries == 3

Local(p) == {b \in Backend : Home[b] = p}
Peers(p) == Proxy \ {p}
Learned(t) == t \in Proxy

Path == {f \in UNION {[1 .. n -> Proxy] : n \in 1 .. MaxHops} :
           \A i \in 1 .. Len(f) - 1 : f[i] # f[i + 1]}
At(f) == f[Len(f)]

DispatchAssumption ==
  /\ Proxy \cap Backend = {} /\ None \notin Target
  /\ Home \in [Backend -> Proxy]
  /\ Weight \in [Target -> Nat]
  /\ \A p \in Proxy : Order[p] \in Seq(Target) /\ IsInjective(Order[p])
                     /\ Range(Order[p]) = Local(p) \cup Peers(p)
  /\ Sticky \in BOOLEAN /\ Spreads \subseteq BOOLEAN
  /\ Cursors \subseteq Nat
  /\ MaxHops \in Nat \ {0} /\ MaxFails \in Nat /\ MaxFlips \in Nat

VARIABLES
  spread,   \* RouteGroup.Spread, the same at every proxy
  out,      \* containers that are draining or DockerUnhealthy
  up,       \* up[p]: the targets of p with healthyFlag set
  cursor,   \* RouteGroup.cursor of each proxy
  client,   \* the client of each request, and whether its body replays
  frame,    \* frame[q][f]: the proxyToGroup of request q at path f
  sends,    \* history: how often each request was sent to each container
  fails,    \* failed attempts so far, for MaxFails
  flips     \* probe results and stop signals so far, for MaxFlips

vars == <<spread, out, up, cursor, client, frame, sends, fails, flips>>

\* One proxyToGroup: pc, attempts made, backends tried, the one in use, the
\* pin not yet consulted, the queued sticky cookies and the outcome.
Frame(pc, attempt, tried, on, pin, cookie, status) ==
  [pc |-> pc, attempt |-> attempt, tried |-> tried, on |-> on, pin |-> pin,
   cookie |-> cookie, status |-> status]

NoFrame == Frame("idle", 0, {}, None, None, {}, None)

TypeOK ==
  /\ spread \in Spreads
  /\ out \subseteq Backend
  /\ up \in [Proxy -> SUBSET Target]
  /\ cursor \in [Proxy -> Nat]
  /\ client \in [Request ->
       [pc : {"idle", "waiting", "served", "gone"}, replayable : BOOLEAN]]
  /\ frame \in [Request -> [Path ->
       [pc : {"idle", "pick", "sent", "done"}, attempt : 0 .. maxRetries,
        tried : SUBSET Target, on : Target \cup {None},
        pin : Target \cup {None}, cookie : SUBSET Target,
        status : {None, "answered", "502", "503", "gone"}]]]
  /\ sends \in [Request -> [Backend -> Nat]]
  /\ fails \in 0 .. MaxFails
  /\ flips \in 0 .. MaxFlips

Init ==
  /\ spread \in Spreads
  /\ out = {}
  /\ up = [p \in Proxy |-> Local(p) \cup Peers(p)]
  /\ cursor \in [Proxy -> Cursors]
  /\ client = [q \in Request |-> [pc |-> "idle", replayable |-> TRUE]]
  /\ frame = [q \in Request |-> [f \in Path |-> NoFrame]]
  /\ sends = [q \in Request |-> [b \in Backend |-> 0]]
  /\ fails = 0
  /\ flips = 0

-----------------------------------------------------------------------------
(* Selection                                                               *)

\* Backend.excludedFrom
excludedFrom(p, t, ignoreHealth) == t \in out \/ (~ignoreHealth /\ t \notin up[p])

\* The pool of pickTier and pickPool: the eligible backends of a tier.
Pool(p, skip, ignoreHealth, tier) ==
  {t \in (tier \cap (Local(p) \cup Peers(p))) \ skip : ~excludedFrom(p, t, ignoreHealth)}

\* pickHealthy and pickAny up to the round-robin: one pool of both tiers for a
\* spread route and a request that may hop, else the local tier and, only if
\* that one is empty, the learned tier.
TierPool(p, skip, allowPeer, ignoreHealth) ==
  LET both    == Pool(p, skip, ignoreHealth, Target)
      local   == Pool(p, skip, ignoreHealth, Backend)
      learned == Pool(p, skip, ignoreHealth, Proxy)
  IN IF spread /\ allowPeer THEN both
     ELSE IF local # {} \/ ~allowPeer THEN local ELSE learned

\* Mutant: panic mode stays in the local tier.
PickPoolLocalPanic(p, skip, allowPeer) ==
  LET trusted == TierPool(p, skip, allowPeer, FALSE)
  IN IF trusted # {} THEN trusted ELSE TierPool(p, skip, FALSE, TRUE)

\* pickHealthy, and pickAny (panic mode) when it returns nil.
PickPool(p, skip, allowPeer) ==
  LET trusted == TierPool(p, skip, allowPeer, FALSE)
  IN IF trusted # {} THEN trusted ELSE TierPool(p, skip, allowPeer, TRUE)

\* A backend stands in the pool Weight times, at least once.
Copies(S) == MapThenSumSet(LAMBDA t : Max({Weight[t], 1}), S)

\* pool[int(g.cursor.Add(1)-1)%len(pool)]: the backend among whose copies, in
\* the order of Backends, the cursor falls.
RoundRobin(p, pool) ==
  LET Position(t) == CHOOSE i \in DOMAIN Order[p] : Order[p][i] = t
      before(t)   == {u \in pool : Position(u) < Position(t)}
      at          == cursor[p] % Copies(pool)
  IN {t \in pool : Copies(before(t)) <= at /\ at < Copies(before(t) \cup {t})}

\* A pin is honoured for a healthy() backend, a learned one only under Spread.
Pinned(p, pin) ==
  {t \in {pin} \cap (Local(p) \cup Peers(p)) :
     ~excludedFrom(p, t, FALSE) /\ (~Learned(t) \/ spread)}

-----------------------------------------------------------------------------
(* Requests                                                                *)

SetFrame(q, f, fr) == frame' = [frame EXCEPT ![q] = [frame[q] EXCEPT ![f] = fr]]

\* The client sends a request: ServeHTTP reads the pin of its sticky cookie
\* and prepareRetryBody decides whether the body can be sent again.
Arrive(q, p, replayable, pin) ==
  /\ client[q].pc = "idle"
  /\ client' = [client EXCEPT ![q] = [pc |-> "waiting", replayable |-> replayable]]
  /\ pin # None => Sticky
  /\ SetFrame(q, <<p>>, Frame("pick", 0, {}, None, pin, {}, None))
  /\ UNCHANGED <<spread, out, up, cursor, sends, fails, flips>>

\* The client goes away; its proxy learns of it when the attempt in progress
\* fails with a cancelled context.
ClientLeaves(q) ==
  /\ client[q].pc = "waiting"
  /\ client' = [client EXCEPT ![q].pc = "gone"]
  /\ UNCHANGED <<spread, out, up, cursor, frame, sends, fails, flips>>

\* PeerHopHeader: set by the director of a peer backend (makePeerBackendAuth).
Hopped(f) == Len(f) > 1

\* setStickyCookie replaces what an earlier attempt queued.
setStickyCookie(f, cookie, t) == IF Sticky /\ ~Hopped(f) THEN {t} ELSE cookie

\* Mutant: the pin stays in force for the retries.
NextPinKept(fr) == fr.pin

\* "Only the first iteration consults the pin": stickyPin = "".
NextPin(fr) == None

\* The attempt on target t: a container runs the request, a peer proxy starts
\* a frame of its own, for a request that carries the hop header.
SendTo(q, f, t) ==
  LET fr == frame[q][f]
      mine == Frame("sent", fr.attempt + 1, fr.tried \cup {t}, t, NextPin(fr),
                    setStickyCookie(f, fr.cookie, t), None)
  IN IF Learned(t)
     THEN /\ Len(f) < MaxHops
          /\ frame' = [frame EXCEPT ![q] =
               [frame[q] EXCEPT ![f] = mine,
                  ![Append(f, t)] = Frame("pick", 0, {}, None, None, {}, None)]]
          /\ UNCHANGED sends
     ELSE /\ SetFrame(q, f, mine)
          /\ sends' = [sends EXCEPT ![q] = [sends[q] EXCEPT ![t] = sends[q][t] + 1]]

\* One iteration of proxyToGroup: the pin, or the next of the pool.
Attempt(q, f) ==
  LET fr   == frame[q][f]
      p    == At(f)
      pin  == Pinned(p, fr.pin)
      pool == PickPool(p, fr.tried, ~Hopped(f))
  IN
  /\ fr.pc = "pick"
  /\ fr.attempt < maxRetries
  /\ \/ /\ pin # {}
        /\ \E t \in pin : SendTo(q, f, t)
        /\ UNCHANGED cursor
     \/ /\ pin = {}
        /\ \E t \in RoundRobin(p, pool) : SendTo(q, f, t)
        /\ cursor' = [cursor EXCEPT ![p] = cursor[p] + 1]
  /\ UNCHANGED <<spread, out, up, client, fails, flips>>

\* The client's answer, when the frame is the one that took its request.
Reply(q, f) ==
  client' = IF Len(f) = 1 /\ client[q].pc = "waiting"
            THEN [client EXCEPT ![q].pc = "served"] ELSE client

Finish(q, f, status) ==
  LET fr == frame[q][f] IN
  /\ SetFrame(q, f, Frame("done", fr.attempt, fr.tried, fr.on, None, fr.cookie, status))
  /\ Reply(q, f)

\* The loop ends with nothing picked, or after maxRetries attempts: 503.
Unavailable(q, f) ==
  LET fr == frame[q][f] IN
  /\ fr.pc = "pick"
  /\ \/ fr.attempt = maxRetries
     \/ Pinned(At(f), fr.pin) = {} /\ PickPool(At(f), fr.tried, ~Hopped(f)) = {}
  /\ Finish(q, f, "503")
  /\ UNCHANGED <<spread, out, up, cursor, sends, fails, flips>>

Child(f, fr) == Append(f, fr.on)

\* The backend wrote a response: tryProxy returns true whatever its status,
\* the 502 or 503 of a peer proxy included.
Answered(q, f) ==
  LET fr == frame[q][f] IN
  /\ fr.pc = "sent"
  /\ Learned(fr.on) =>
       /\ frame[q][Child(f, fr)].pc = "done"
       /\ frame[q][Child(f, fr)].status # "gone"
  /\ Finish(q, f, IF Learned(fr.on) THEN frame[q][Child(f, fr)].status ELSE "answered")
  /\ UNCHANGED <<spread, out, up, cursor, sends, fails, flips>>

\* A failed attempt is repeated only if the body can be sent again, else 502.
AfterFailure(q, f) == LET fr == frame[q][f] IN
  IF client[q].replayable
  THEN /\ SetFrame(q, f, Frame("pick", fr.attempt, fr.tried, fr.on, fr.pin, fr.cookie, None))
       /\ UNCHANGED client
  ELSE Finish(q, f, "502")

\* newBackendErrorHandler: the attempt failed before any response, the backend
\* is marked unhealthy.  The container, or the peer, may still be at work.
AttemptFails(q, f) ==
  LET fr == frame[q][f] IN
  /\ fr.pc = "sent"
  /\ fails < MaxFails
  /\ fails' = fails + 1
  /\ up' = [up EXCEPT ![At(f)] = up[At(f)] \ {fr.on}]
  /\ AfterFailure(q, f)
  /\ UNCHANGED <<spread, out, cursor, sends, flips>>

\* Nobody waits for the answer: the client left or, at a peer, the proxy that
\* forwarded the request no longer waits for this frame.
Abandoned(q, f) ==
  IF Len(f) = 1 THEN client[q].pc = "gone"
  ELSE LET parent == frame[q][SubSeq(f, 1, Len(f) - 1)]
       IN parent.pc # "sent" \/ parent.on # At(f)

\* newBackendErrorHandler with a cancelled context: no verdict, no retry.
ClientGone(q, f) ==
  /\ frame[q][f].pc = "sent"
  /\ Abandoned(q, f)
  /\ Finish(q, f, "gone")
  /\ UNCHANGED <<spread, out, up, cursor, sends, fails, flips>>

-----------------------------------------------------------------------------
(* Health                                                                  *)

\* A probe's verdict (health.go), as Router.tla details it.
Probe(p, t, ok) ==
  /\ flips < MaxFlips
  /\ flips' = flips + 1
  /\ up' = [up EXCEPT ![p] = IF ok THEN up[p] \cup {t} ELSE up[p] \ {t}]
  /\ up' # up
  /\ UNCHANGED <<spread, out, cursor, client, frame, sends, fails>>

\* A stop signal or Docker's verdict takes a container out of every rotation.
TakeOut(b) ==
  /\ flips < MaxFlips
  /\ flips' = flips + 1
  /\ b \notin out
  /\ out' = out \cup {b}
  /\ UNCHANGED <<spread, up, cursor, client, frame, sends, fails>>

RequestNext ==
  \E q \in Request :
    \/ \E p \in Proxy : \E replayable \in BOOLEAN : \E pin \in Target \cup {None} :
         Arrive(q, p, replayable, pin)
    \/ ClientLeaves(q)
    \/ \E f \in Path :
         Attempt(q, f) \/ Unavailable(q, f) \/ Answered(q, f)
           \/ AttemptFails(q, f) \/ ClientGone(q, f)

HealthNext ==
  \/ \E p \in Proxy : \E t \in Local(p) \cup Peers(p) : \E ok \in BOOLEAN : Probe(p, t, ok)
  \/ \E b \in Backend : TakeOut(b)

Next == RequestNext \/ HealthNext

Spec == Init /\ [][Next]_vars

-----------------------------------------------------------------------------
(* Properties                                                              *)

\* PeerHopHeader "is what actually prevents a forwarding loop between two
\* proxies that both only know about each other": no request is forwarded
\* twice, whatever fails and is retried on the way.
NoForwardingLoop ==
  TypeOK /\ \A q \in Request : \A f \in Path : Len(f) > 2 => frame[q][f].pc = "idle"

\* However attempts, pins, probes and hops interleave, no container is sent
\* the same request twice (the tried set, and a pin consulted only once).
\* README "Small request bodies are replayable": a larger body is sent to one
\* container of the whole mesh at most, never a truncated rest to a second.
SentOnce ==
  \A q \in Request :
    /\ \A b \in Backend : sends[q][b] <= 1
    /\ ~client[q].replayable =>
         \A b, c \in Backend : sends[q][b] > 0 /\ sends[q][c] > 0 => b = c

Usable(f) == (Local(At(f)) \ out) \cup (IF Hopped(f) THEN {} ELSE Peers(At(f)))

\* A proxy answers 503 only after three attempts, or when it tried every
\* backend that Docker does not rule out, be it trusted by its probes or not
\* (panic mode), local or at a peer.
UnavailableMeansExhaustedStep ==
  \A q \in Request : \A f \in Path :
    (frame[q][f].pc = "pick" /\ frame'[q][f].status = "503") =>
      \/ frame[q][f].attempt = maxRetries
      \/ Usable(f) \subseteq frame[q][f].tried

\* No step breaks UnavailableMeansExhaustedStep.
UnavailableMeansExhausted == [][UnavailableMeansExhaustedStep]_vars

\* setStickyCookie: an answer carries at most one affinity cookie, and it names
\* the backend that gave the answer, after any number of failed attempts.
CookieNamesServer ==
  \A q \in Request : \A p \in Proxy :
    LET fr == frame[q][<<p>>] IN
    fr.pc = "done" /\ fr.status = "answered" =>
      fr.cookie = (IF Sticky THEN {fr.on} ELSE {})

\* What the mesh does with one request, whatever fails and is retried: it is
\* forwarded once at most, sent to no container twice, to one container if its
\* body cannot be replayed, and answered with the cookie of who answered.
DeliveredOnce == NoForwardingLoop /\ SentOnce /\ CookieNamesServer
=============================================================================
