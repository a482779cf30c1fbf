--------------------------- MODULE DispatchProofs ---------------------------
(***************************************************************************)
(* The retry loop and the hop of Dispatch.tla, for any mesh, any order and *)
(* weight of the backends and any number of requests, probes and failures; *)
(* and the limiters a request passes before: the one of RateLimiter.tla    *)
(* implements TokenBucket for every set of clients and rates, every size   *)
(* of the table and every idle time of at least a minute, and the one of   *)
(* HybridLimiter.tla keeps the rate through any outage, for any number of  *)
(* proxies.                                                                *)
(***************************************************************************)
EXTENDS Dispatch, SequenceTheorems, FiniteSetTheorems, TLAPS

-----------------------------------------------------------------------------
(* Paths                                                                   *)

LEMMA PathType ==
  ASSUME DispatchAssumption, NEW f \in Path
  PROVE  /\ f \in Seq(Proxy) /\ Len(f) \in 1 .. MaxHops
         /\ Len(f) \in Nat /\ (Len(f) = 1 \/ Len(f) > 1)
         /\ f[1] \in Proxy /\ At(f) \in Proxy
         /\ Len(f) = 1 => At(f) = f[1] /\ ~Hopped(f)
         /\ Len(f) = 2 => At(f) = f[2] /\ f[1] # f[2]
<1>1. PICK n \in 1 .. MaxHops : f \in [1 .. n -> Proxy]
  BY DEF Path
<1>2. n \in Nat /\ f \in Seq(Proxy) /\ Len(f) = n
  BY <1>1 DEF DispatchAssumption
<1>3. \A i \in 1 .. Len(f) - 1 : f[i] # f[i + 1]
  BY DEF Path
<1>4. 1 \in 1 .. n /\ n \in 1 .. n
  BY <1>1, <1>2
<1>5. Len(f) = 2 => f[1] # f[2]
  BY <1>2, <1>3
<1>. QED  BY <1>1, <1>2, <1>4, <1>5 DEF At, Hopped

LEMMA PathEqual ==
  ASSUME DispatchAssumption, NEW f \in Path, NEW g \in Path, Len(f) = Len(g), f[1] = g[1],
         Len(f) = 1 \/ (Len(f) = 2 /\ f[2] = g[2])
  PROVE  f = g
<1>1. f \in Seq(Proxy) /\ g \in Seq(Proxy) /\ Len(f) \in Nat
  BY PathType
<1>2. \A i \in 1 .. Len(f) : f[i] = g[i]
  BY <1>1
<1>. QED  BY <1>1, <1>2, SeqEqual

LEMMA RootPath ==
  ASSUME DispatchAssumption, NEW p \in Proxy
  PROVE  <<p>> \in Path /\ Len(<<p>>) = 1 /\ <<p>>[1] = p /\ At(<<p>>) = p
<1>1. <<p>> \in [1 .. 1 -> Proxy]
  OBVIOUS
<1>2. 1 \in 1 .. MaxHops
  BY DEF DispatchAssumption
<1>. QED  BY <1>1, <1>2 DEF Path, At

LEMMA ChildPath ==
  ASSUME DispatchAssumption, NEW f \in Path, NEW t \in Proxy, t # At(f), Len(f) < MaxHops
  PROVE  /\ Append(f, t) \in Path /\ Len(Append(f, t)) = Len(f) + 1
         /\ Append(f, t)[1] = f[1] /\ At(Append(f, t)) = t
         /\ Append(f, t) # f
<1>1. f \in Seq(Proxy) /\ Len(f) \in 1 .. MaxHops
  BY PathType
<1>. DEFINE g == Append(f, t)  n == Len(f) + 1
<1>2. g \in Seq(Proxy) /\ Len(g) = n /\ n \in 1 .. MaxHops
  BY <1>1 DEF DispatchAssumption
<1>3. g \in [1 .. n -> Proxy]
  BY <1>2, LenProperties
<1>4. g[n] = t /\ \A i \in 1 .. Len(f) : g[i] = f[i]
  BY <1>1
<1>5. \A i \in 1 .. Len(g) - 1 : g[i] # g[i + 1]
  <2>1. \A i \in 1 .. Len(f) - 1 : f[i] # f[i + 1]
    BY DEF Path
  <2>2. f[Len(f)] # t
    BY DEF At
  <2>. QED  BY <1>1, <1>2, <1>4, <2>1, <2>2
<1>6. g \in Path
  BY <1>2, <1>3, <1>5 DEF Path
<1>. QED  BY <1>1, <1>2, <1>4, <1>6 DEF At


-----------------------------------------------------------------------------
(* The inductive invariant                                                 *)

Started(q, f) == frame[q][f].pc # "idle"

\* A request comes in at one proxy, and a frame that was not begun is empty.
OneWayIn ==
  \A q \in Request :
    /\ client[q].pc = "idle" => client[q].replayable /\ \A f \in Path : ~Started(q, f)
    /\ \A f \in Path : ~Started(q, f) => frame[q][f] = NoFrame
    /\ \A f, g \in Path : Started(q, f) /\ Started(q, g) => f[1] = g[1]

\* It goes one hop at most, to a proxy that the first one tried.
OneHop ==
  \A q \in Request : \A f \in Path : Started(q, f) =>
    /\ Len(f) \in {1, 2}
    /\ \A g \in Path : (Len(f) = 2 /\ Len(g) = 1 /\ f[1] = g[1]) => f[2] \in frame[q][g].tried

\* A proxy tries its own containers and, for a request of a client, its peers;
\* the pin counts only as long as nothing was tried.
TriesItsOwn ==
  \A q \in Request : \A f \in Path :
    /\ \A b \in frame[q][f].tried \cap Backend : Home[b] = At(f)
    /\ Len(f) > 1 => frame[q][f].tried \cap Proxy = {} /\ frame[q][f].pin = None
    /\ frame[q][f].pin # None => frame[q][f].tried = {}

\* What a container was sent, some frame tried.
SendsTried ==
  \A q \in Request : \A b \in Backend :
    /\ sends[q][b] <= 1
    /\ sends[q][b] > 0 => \E f \in Path : b \in frame[q][f].tried

\* A body that cannot be sent again is sent by each frame at most once.
OneTry ==
  \A q \in Request : ~client[q].replayable => \A f \in Path :
    /\ frame[q][f].pc = "pick" => frame[q][f].tried = {}
    /\ frame[q][f].tried \subseteq {frame[q][f].on}

\* The cookie of the attempt in progress names its backend.
CookieInUse ==
  \A q \in Request : \A f \in Path :
    /\ ~Sticky => frame[q][f].cookie = {}
    /\ Sticky /\ Len(f) = 1 /\ (frame[q][f].pc = "sent" \/ frame[q][f].status = "answered") =>
         frame[q][f].cookie = {frame[q][f].on}

\* A frame in progress has no outcome, and a path to go on if it waits for a peer.
InProgress ==
  \A q \in Request : \A f \in Path :
    /\ frame[q][f].pc # "done" => frame[q][f].status = None
    /\ frame[q][f].pc = "sent" /\ frame[q][f].on \in Proxy => Append(f, frame[q][f].on) \in Path

Frames ==
  OneWayIn /\ OneHop /\ TriesItsOwn /\ SendsTried /\ OneTry /\ CookieInUse /\ InProgress

Inv == TypeOK /\ Frames

FrameType ==
  [pc : {"idle", "pick", "sent", "done"}, attempt : 0 .. maxRetries,
   tried : SUBSET Target, on : Target \cup {None}, pin : Target \cup {None},
   cookie : SUBSET Target, status : {None, "answered", "502", "503", "gone"}]

LEMMA NoFrameType ==
  /\ NoFrame \in FrameType
  /\ NoFrame.pc = "idle" /\ NoFrame.tried = {} /\ NoFrame.pin = None
  /\ NoFrame.status = None /\ NoFrame.cookie = {}
BY DEF NoFrame, Frame, FrameType, maxRetries

LEMMA InitInv ==
  ASSUME DispatchAssumption, Init
  PROVE  Inv
<1>1. TypeOK
  <2>1. frame \in [Request -> [Path -> FrameType]]
    BY NoFrameType DEF Init
  <2>2. up \in [Proxy -> SUBSET Target]
    BY DEF Init, Local, Peers, Target
  <2>3. cursor \in [Proxy -> Nat]
    BY DEF Init, DispatchAssumption
  <2>4. client \in [Request -> [pc : {"idle", "waiting", "served", "gone"}, replayable : BOOLEAN]]
    BY DEF Init
  <2>5. sends \in [Request -> [Backend -> Nat]]
    BY DEF Init
  <2>. QED  BY <2>1, <2>2, <2>3, <2>4, <2>5 DEF Init, TypeOK, FrameType, DispatchAssumption
<1>2. \A q \in Request : \A f \in Path : frame[q][f] = NoFrame
  BY DEF Init
<1>3. \A q \in Request : client[q].replayable
  BY DEF Init
<1>4. OneWayIn /\ OneHop
  BY <1>2, <1>3, NoFrameType DEF OneWayIn, OneHop, Started
<1>5. TriesItsOwn /\ CookieInUse /\ OneTry /\ InProgress
  BY <1>2, <1>3, NoFrameType DEF TriesItsOwn, CookieInUse, OneTry, InProgress, None
<1>6. SendsTried
  BY DEF Init, SendsTried
<1>. QED  BY <1>1, <1>4, <1>5, <1>6 DEF Inv, Frames

\* What replacing one frame leaves of the others.
LEMMA SetFrameEffect ==
  ASSUME TypeOK, NEW q \in Request, NEW f \in Path, NEW fr \in FrameType, SetFrame(q, f, fr)
  PROVE  /\ frame' \in [Request -> [Path -> FrameType]]
         /\ frame'[q][f] = fr
         /\ \A r \in Request : \A g \in Path : r # q \/ g # f => frame'[r][g] = frame[r][g]
<1>1. frame \in [Request -> [Path -> FrameType]]
  BY DEF TypeOK, FrameType
<1>. QED  BY <1>1 DEF SetFrame

ClientType == [Request -> [pc : {"idle", "waiting", "served", "gone"}, replayable : BOOLEAN]]

\* The clients stay who they are: none comes back, none changes its body.
ClientsStay ==
  /\ client' \in ClientType
  /\ \A r \in Request : client'[r].replayable = client[r].replayable
                        /\ (client'[r].pc = "idle" <=> client[r].pc = "idle")

\* A step that neither begins a frame nor tries a backend: the frame of q at f
\* goes on to its next attempt, or ends.
LEMMA SettleInv ==
  ASSUME DispatchAssumption, Inv, NEW q \in Request, NEW f \in Path,
         NEW pc \in {"pick", "done"}, NEW pin \in {None, frame[q][f].pin},
         NEW status \in {None, "answered", "502", "503", "gone"},
         frame[q][f].pc \in {"pick", "sent"},
         SetFrame(q, f, Frame(pc, frame[q][f].attempt, frame[q][f].tried, frame[q][f].on, pin,
                              frame[q][f].cookie, status)),
         status = "answered" => frame[q][f].pc = "sent",
         pc = "pick" => client[q].replayable /\ status = None,
         ClientsStay, sends' = sends
  PROVE  /\ frame' \in [Request -> [Path -> FrameType]]
         /\ Frames'
<1>. DEFINE fr == frame[q][f]
            new == Frame(pc, fr.attempt, fr.tried, fr.on, pin, fr.cookie, status)
<1>1. fr \in FrameType
  BY DEF Inv, TypeOK, FrameType
<1>2. new \in FrameType
  BY <1>1 DEF FrameType, Frame
<1>3. /\ frame' \in [Request -> [Path -> FrameType]]
      /\ frame'[q][f] = new
      /\ \A r \in Request : \A g \in Path : r # q \/ g # f => frame'[r][g] = frame[r][g]
  BY <1>2, SetFrameEffect DEF Inv
<1>4. /\ new.pc = pc /\ new.tried = fr.tried /\ new.on = fr.on /\ new.pin = pin
      /\ new.cookie = fr.cookie /\ new.status = status
  BY DEF Frame
<1>. HIDE DEF new
<1>5. \A r \in Request : \A g \in Path :
        /\ Started(r, g)' = Started(r, g)
        /\ frame'[r][g].tried = frame[r][g].tried /\ frame'[r][g].on = frame[r][g].on
        /\ frame'[r][g].pin \in {None, frame[r][g].pin}
        /\ frame'[r][g].cookie = frame[r][g].cookie
  BY <1>3, <1>4 DEF Started
<1>6. \A r \in Request : \A g \in Path : ~Started(r, g)' => frame'[r][g] = frame[r][g]
  BY <1>3, <1>4 DEF Started
<1>7. OneWayIn'
  BY <1>5, <1>6 DEF Inv, Frames, OneWayIn, ClientsStay
<1>8. OneHop' /\ TriesItsOwn'
  BY <1>5 DEF Inv, Frames, OneHop, TriesItsOwn
<1>9. SendsTried'
  BY <1>5 DEF Inv, Frames, SendsTried
<1>10. OneTry'
  BY <1>3, <1>4, <1>5 DEF Inv, Frames, OneTry, ClientsStay
<1>11. CookieInUse'
  BY <1>3, <1>4, <1>5 DEF Inv, Frames, CookieInUse
<1>12. InProgress'
  BY <1>3, <1>4 DEF Inv, Frames, InProgress
<1>. QED  BY <1>3, <1>7, <1>8, <1>9, <1>10, <1>11, <1>12 DEF Frames

-----------------------------------------------------------------------------
(* Selection                                                               *)

\* pickHealthy and pickAny give a backend of the proxy that was not skipped,
\* and no peer to a request that must not hop.
LEMMA PickChoice ==
  ASSUME NEW p \in Proxy, NEW skip, NEW allowPeer \in BOOLEAN,
         NEW t \in PickPool(p, skip, allowPeer)
  PROVE  t \in (Local(p) \cup Peers(p)) \ skip /\ (allowPeer \/ t \in Backend)
<1>1. \A h \in BOOLEAN : \A tier : Pool(p, skip, h, tier) \subseteq (tier \cap (Local(p) \cup Peers(p))) \ skip
  BY DEF Pool
<1>2. \A h \in BOOLEAN : TierPool(p, skip, allowPeer, h) \subseteq (Local(p) \cup Peers(p)) \ skip
  BY <1>1 DEF TierPool
<1>3. \A h \in BOOLEAN : ~allowPeer => TierPool(p, skip, allowPeer, h) \subseteq Backend
  BY <1>1 DEF TierPool
<1>. QED  BY <1>2, <1>3 DEF PickPool

\* One iteration of proxyToGroup sends the request to a backend of its proxy
\* that it has not tried, and on to a peer only where the client sent it.
LEMMA AttemptChoice ==
  ASSUME DispatchAssumption, Inv, NEW q \in Request, NEW f \in Path, Attempt(q, f)
  PROVE  \E t \in (Local(At(f)) \cup Peers(At(f))) \ frame[q][f].tried :
           SendTo(q, f, t) /\ (t \in Proxy => Len(f) = 1)
<1>. DEFINE fr == frame[q][f]  p == At(f)
<1>1. p \in Proxy /\ Len(f) \in Nat /\ (Len(f) = 1 \/ Len(f) > 1)
  BY PathType
<1>2. fr.pin # None => fr.tried = {} /\ Len(f) = 1
  <2>1. TriesItsOwn
    BY DEF Inv, Frames
  <2>. QED  BY <1>1, <2>1 DEF TriesItsOwn
<1>3. CASE \E t \in Pinned(p, fr.pin) : SendTo(q, f, t)
  <2>1. PICK t \in Pinned(p, fr.pin) : SendTo(q, f, t)
    BY <1>3
  <2>2. t \in Local(p) \cup Peers(p) /\ fr.pin = t
    BY DEF Pinned
  <2>3. t # None
    BY <2>2 DEF DispatchAssumption, Target, Local, Peers
  <2>. QED  BY <1>2, <2>1, <2>2, <2>3
<1>4. CASE \E t \in RoundRobin(p, PickPool(p, fr.tried, ~Hopped(f))) : SendTo(q, f, t)
  <2>. DEFINE mayHop == ~Hopped(f)
  <2>1. PICK t \in PickPool(p, fr.tried, mayHop) : SendTo(q, f, t)
    BY <1>4 DEF RoundRobin
  <2>2. mayHop \in BOOLEAN
    OBVIOUS
  <2>3. t \in (Local(p) \cup Peers(p)) \ fr.tried /\ (mayHop \/ t \in Backend)
    <3>. HIDE DEF mayHop, p, fr
    <3>. QED  BY <1>1, <2>1, <2>2, PickChoice
  <2>4. t \in Proxy => Len(f) = 1
    BY <1>1, <2>3 DEF Hopped, DispatchAssumption
  <2>. QED  BY <2>1, <2>3, <2>4
<1>. QED  BY <1>3, <1>4 DEF Attempt

\* Two frames of a request at the proxy of one container are the same.
LEMMA OneFrameAtHome ==
  ASSUME DispatchAssumption, Inv, NEW q \in Request, NEW f \in Path, NEW g \in Path,
         Started(q, f), Started(q, g), At(f) = At(g)
  PROVE  f = g
<1>1. f[1] = g[1]
  BY DEF Inv, Frames, OneWayIn
<1>2. Len(f) \in {1, 2} /\ Len(g) \in {1, 2}
  BY DEF Inv, Frames, OneHop
<1>3. Len(f) = Len(g)
  BY <1>1, <1>2, PathType
<1>4. Len(f) = 1 \/ (Len(f) = 2 /\ f[2] = g[2])
  BY <1>2, <1>3, PathType
<1>. QED  BY <1>1, <1>3, <1>4, PathEqual

\* A container that the frame at its proxy has not tried was not sent the
\* request by any other.
LEMMA NotYetSent ==
  ASSUME DispatchAssumption, Inv, NEW q \in Request, NEW f \in Path, Started(q, f),
         NEW b \in Local(At(f)) \ frame[q][f].tried
  PROVE  sends[q][b] = 0
<1>1. b \in Backend /\ Home[b] = At(f)
  BY DEF Local
<1>2. sends[q][b] \in Nat
  BY <1>1 DEF Inv, TypeOK
<1>3. SUFFICES ASSUME sends[q][b] > 0
               PROVE  FALSE
  BY <1>2
<1>4. PICK g \in Path : b \in frame[q][g].tried
  BY <1>1, <1>3 DEF Inv, Frames, SendsTried
<1>5. Home[b] = At(g)
  BY <1>1, <1>4 DEF Inv, Frames, TriesItsOwn
<1>6. Started(q, g)
  BY <1>4, NoFrameType DEF Inv, Frames, OneWayIn
<1>. QED  BY <1>1, <1>4, <1>5, <1>6, OneFrameAtHome

-----------------------------------------------------------------------------
(* Attempts                                                                *)

\* The frame after an attempt on t.
SentFrame(q, f, t) ==
  Frame("sent", frame[q][f].attempt + 1, frame[q][f].tried \cup {t}, t, NextPin(frame[q][f]),
        setStickyCookie(f, frame[q][f].cookie, t), None)

LEMMA SentFrameFacts ==
  ASSUME DispatchAssumption, TypeOK, NEW q \in Request, NEW f \in Path, NEW t \in Target,
         frame[q][f].attempt < maxRetries
  PROVE  LET new == SentFrame(q, f, t) IN
         /\ new \in FrameType
         /\ new.pc = "sent" /\ new.tried = frame[q][f].tried \cup {t} /\ new.on = t
         /\ new.pin = None /\ new.status = None
         /\ ~Sticky => new.cookie = frame[q][f].cookie
         /\ Sticky /\ Len(f) = 1 => new.cookie = {t}
<1>. DEFINE fr == frame[q][f]  cookie == setStickyCookie(f, fr.cookie, t)
<1>1. fr \in FrameType
  BY DEF TypeOK, FrameType
<1>2. fr.attempt \in Nat /\ fr.attempt + 1 \in 0 .. maxRetries
  BY <1>1 DEF FrameType, maxRetries
<1>3. cookie \in {{t}, fr.cookie}
  BY DEF setStickyCookie
<1>4. /\ ~Sticky => cookie = fr.cookie
      /\ Sticky /\ Len(f) = 1 => cookie = {t}
  BY PathType DEF setStickyCookie
<1>. HIDE DEF cookie
<1>5. SentFrame(q, f, t) \in FrameType
  BY <1>1, <1>2, <1>3 DEF FrameType, SentFrame, Frame, NextPin, cookie
<1>. QED  BY <1>4, <1>5 DEF SentFrame, Frame, NextPin, cookie

\* The attempt on a container.
LEMMA TryInv ==
  ASSUME DispatchAssumption, Inv, NEW q \in Request, NEW f \in Path,
         NEW b \in Local(At(f)) \ frame[q][f].tried,
         frame[q][f].pc = "pick", frame[q][f].attempt < maxRetries, SendTo(q, f, b), ClientsStay
  PROVE  /\ frame' \in [Request -> [Path -> FrameType]]
         /\ sends' \in [Request -> [Backend -> Nat]]
         /\ Frames'
<1>. DEFINE fr == frame[q][f]
            new == SentFrame(q, f, b)
<1>1. b \in Backend /\ Home[b] = At(f) /\ b \in Target /\ ~Learned(b)
  BY DEF Local, Target, Learned, DispatchAssumption
<1>2. /\ SetFrame(q, f, new)
      /\ sends' = [sends EXCEPT ![q] = [sends[q] EXCEPT ![b] = sends[q][b] + 1]]
  BY <1>1 DEF SendTo, SentFrame
<1>3. /\ new \in FrameType
      /\ new.pc = "sent" /\ new.tried = fr.tried \cup {b} /\ new.on = b
      /\ new.pin = None /\ new.status = None
      /\ ~Sticky => new.cookie = fr.cookie
      /\ Sticky /\ Len(f) = 1 => new.cookie = {b}
  <2>1. TypeOK
    BY DEF Inv
  <2>. QED  BY <1>1, <2>1, SentFrameFacts
<1>. HIDE DEF new
<1>4. /\ frame' \in [Request -> [Path -> FrameType]]
      /\ frame'[q][f] = new
      /\ \A r \in Request : \A g \in Path : r # q \/ g # f => frame'[r][g] = frame[r][g]
  BY <1>3, <1>2, SetFrameEffect DEF Inv
<1>5. \A r \in Request : \A g \in Path :
        /\ Started(r, g)' = Started(r, g)
        /\ frame[r][g].tried \subseteq frame'[r][g].tried
        /\ ~Started(r, g)' => frame'[r][g] = frame[r][g]
  BY <1>3, <1>4 DEF Started
<1>6. sends[q][b] = 0
  BY NotYetSent DEF Started
<1>7. sends' \in [Request -> [Backend -> Nat]]
  BY <1>1, <1>2, <1>6 DEF Inv, TypeOK
<1>8. OneWayIn'
  BY <1>5 DEF Inv, Frames, OneWayIn, ClientsStay
<1>9. OneHop'
  BY <1>5 DEF Inv, Frames, OneHop
<1>10. TriesItsOwn'
  BY <1>1, <1>3, <1>4 DEF Inv, Frames, TriesItsOwn, DispatchAssumption
<1>11. SendsTried'
  <2>1. sends'[q][b] = 1 /\ b \in frame'[q][f].tried
    BY <1>1, <1>3, <1>2, <1>4, <1>6 DEF Inv, TypeOK
  <2>2. \A r \in Request : \A c \in Backend : r # q \/ c # b => sends'[r][c] = sends[r][c]
    BY <1>2 DEF Inv, TypeOK
  <2>. QED  BY <1>5, <2>1, <2>2 DEF Inv, Frames, SendsTried
<1>12. OneTry'
  BY <1>3, <1>4 DEF Inv, Frames, OneTry, ClientsStay
<1>13. CookieInUse'
  BY <1>3, <1>4 DEF Inv, Frames, CookieInUse
<1>14. InProgress'
  BY <1>1, <1>3, <1>4 DEF Inv, Frames, InProgress, Learned
<1>. QED  BY <1>4, <1>7, <1>8, <1>9, <1>10, <1>11, <1>12, <1>13, <1>14 DEF Frames

\* The attempt on a peer, which begins a frame there.
LEMMA HopInv ==
  ASSUME DispatchAssumption, Inv, NEW q \in Request, NEW f \in Path,
         NEW t \in Peers(At(f)) \ frame[q][f].tried, Len(f) = 1,
         frame[q][f].pc = "pick", frame[q][f].attempt < maxRetries, SendTo(q, f, t), ClientsStay
  PROVE  /\ frame' \in [Request -> [Path -> FrameType]]
         /\ sends' = sends
         /\ Frames'
<1>. DEFINE fr == frame[q][f]
            new == SentFrame(q, f, t)
            there == Append(f, t)
            fresh == Frame("pick", 0, {}, None, None, {}, None)
<1>1. t \in Proxy /\ t # At(f) /\ t \in Target /\ t \notin Backend /\ Learned(t)
  BY DEF Peers, Target, Learned, DispatchAssumption
<1>2. /\ Len(f) < MaxHops
      /\ frame' = [frame EXCEPT ![q] = [frame[q] EXCEPT ![f] = new, ![there] = fresh]]
      /\ sends' = sends
  BY <1>1 DEF SendTo, SentFrame
<1>3. /\ there \in Path /\ there # f /\ Len(there) = 2 /\ there[1] = f[1]
      /\ At(there) = t /\ there[2] = t
  BY <1>1, <1>2, ChildPath, PathType
<1>4. /\ new \in FrameType
      /\ new.pc = "sent" /\ new.tried = fr.tried \cup {t} /\ new.on = t
      /\ new.pin = None /\ new.status = None
      /\ ~Sticky => new.cookie = fr.cookie
      /\ Sticky /\ Len(f) = 1 => new.cookie = {t}
  <2>1. TypeOK
    BY DEF Inv
  <2>. QED  BY <1>1, <2>1, SentFrameFacts
<1>5. /\ fresh \in FrameType
      /\ fresh.pc = "pick" /\ fresh.tried = {} /\ fresh.pin = None /\ fresh.status = None
      /\ fresh.cookie = {}
  BY DEF Frame, FrameType, maxRetries
<1>. HIDE DEF new, fresh, there
<1>6. /\ frame' \in [Request -> [Path -> FrameType]]
      /\ frame'[q][f] = new /\ frame'[q][there] = fresh
      /\ \A r \in Request : \A g \in Path : r # q \/ g \notin {f, there} => frame'[r][g] = frame[r][g]
  <2>1. frame \in [Request -> [Path -> FrameType]]
    BY DEF Inv, TypeOK, FrameType
  <2>. QED  BY <1>2, <1>3, <1>4, <1>5, <2>1
<1>7. ~Started(q, there) /\ frame[q][there].tried = {}
  BY <1>3, NoFrameType DEF Inv, Frames, OneHop, OneWayIn
<1>8. /\ \A r \in Request : \A g \in Path :
           Started(r, g)' = (Started(r, g) \/ (r = q /\ g = there))
      /\ \A r \in Request : \A g \in Path :
           /\ frame[r][g].tried \subseteq frame'[r][g].tried
           /\ ~Started(r, g)' => frame'[r][g] = frame[r][g]
  BY <1>3, <1>4, <1>5, <1>6, <1>7 DEF Started
<1>9. OneWayIn'
  BY <1>3, <1>8 DEF Inv, Frames, OneWayIn, ClientsStay, Started
<1>10. OneHop'
  <2>1. \A g \in Path : Len(g) = 1 /\ there[1] = g[1] => g = f
    BY <1>3, PathEqual
  <2>2. t \in frame'[q][f].tried
    BY <1>4, <1>6
  <2>3. \A r \in Request : \A h \in Path : Started(r, h) =>
          /\ Len(h) \in {1, 2}
          /\ \A g \in Path : (Len(h) = 2 /\ Len(g) = 1 /\ h[1] = g[1]) => h[2] \in frame'[r][g].tried
    BY <1>8 DEF Inv, Frames, OneHop
  <2>4. /\ Len(there) \in {1, 2}
        /\ \A g \in Path : (Len(there) = 2 /\ Len(g) = 1 /\ there[1] = g[1]) =>
             there[2] \in frame'[q][g].tried
    BY <1>3, <2>1, <2>2
  <2>. QED  BY <1>8, <2>3, <2>4 DEF OneHop
<1>11. TriesItsOwn'
  <2>1. ~(Len(f) > 1)
    OBVIOUS
  <2>2. \A b \in frame'[q][f].tried \cap Backend : Home[b] = At(f)
    BY <1>1, <1>4, <1>6 DEF Inv, Frames, TriesItsOwn
  <2>3. \A r \in Request : \A h \in Path : r # q \/ h \notin {f, there} =>
          /\ \A b \in frame'[r][h].tried \cap Backend : Home[b] = At(h)
          /\ Len(h) > 1 => frame'[r][h].tried \cap Proxy = {} /\ frame'[r][h].pin = None
          /\ frame'[r][h].pin # None => frame'[r][h].tried = {}
    BY <1>6 DEF Inv, Frames, TriesItsOwn
  <2>4. frame'[q][there].tried = {} /\ frame'[q][there].pin = None /\ frame'[q][f].pin = None
    BY <1>4, <1>5, <1>6
  <2>. QED  BY <2>1, <2>2, <2>3, <2>4 DEF TriesItsOwn
<1>12. SendsTried'
  BY <1>2, <1>8 DEF Inv, Frames, SendsTried
<1>13. OneTry'
  BY <1>4, <1>5, <1>6 DEF Inv, Frames, OneTry, ClientsStay
<1>14. CookieInUse'
  <2>1. Len(there) # 1
    BY <1>3
  <2>. QED  BY <1>4, <1>5, <1>6, <2>1 DEF Inv, Frames, CookieInUse
<1>15. InProgress'
  <2>1. Append(f, new.on) \in Path
    BY <1>3, <1>4 DEF there
  <2>. QED  BY <1>3, <1>4, <1>5, <1>6, <2>1 DEF Inv, Frames, InProgress
<1>. QED  BY <1>2, <1>6, <1>9, <1>10, <1>11, <1>12, <1>13, <1>14, <1>15 DEF Frames

-----------------------------------------------------------------------------
(* Every step keeps the invariant                                          *)

LEMMA ArriveInv ==
  ASSUME DispatchAssumption, Inv, NEW q \in Request, NEW p \in Proxy, NEW replayable \in BOOLEAN,
         NEW pin \in Target \cup {None}, Arrive(q, p, replayable, pin)
  PROVE  Inv'
<1>. DEFINE f == <<p>>  new == Frame("pick", 0, {}, None, pin, {}, None)
<1>1. f \in Path /\ Len(f) = 1 /\ ~(Len(f) > 1)
  BY RootPath
<1>2. /\ new \in FrameType
      /\ new.pc = "pick" /\ new.tried = {} /\ new.pin = pin /\ new.status = None
      /\ new.cookie = {}
  BY DEF Frame, FrameType, maxRetries
<1>3. SetFrame(q, f, new) /\ client[q].pc = "idle"
  BY DEF Arrive
<1>. HIDE DEF f, new
<1>4. /\ frame' \in [Request -> [Path -> FrameType]]
      /\ frame'[q][f] = new
      /\ \A r \in Request : \A g \in Path : r # q \/ g # f => frame'[r][g] = frame[r][g]
  BY <1>1, <1>2, <1>3, SetFrameEffect DEF Inv
<1>5. \A g \in Path : ~Started(q, g) /\ frame[q][g] = NoFrame
  BY <1>3 DEF Inv, Frames, OneWayIn
<1>6. /\ client' \in ClientType
      /\ client'[q] = [pc |-> "waiting", replayable |-> replayable]
      /\ \A r \in Request : r # q => client'[r] = client[r]
  BY DEF Arrive, Inv, TypeOK, ClientType
<1>7. /\ \A r \in Request : r # q => \A g \in Path : frame'[r][g] = frame[r][g]
      /\ \A g \in Path : g # f => frame'[q][g] = NoFrame
      /\ \A r \in Request : \A g \in Path : frame'[r][g].tried = frame[r][g].tried
  BY <1>2, <1>4, <1>5, NoFrameType
<1>8. TypeOK'
  BY <1>4, <1>6 DEF Arrive, Inv, TypeOK, ClientType, FrameType
<1>9. OneWayIn'
  <2>1. /\ client'[q].pc # "idle"
        /\ \A g \in Path : ~Started(q, g)' => frame'[q][g] = NoFrame
        /\ \A g, h \in Path : Started(q, g)' /\ Started(q, h)' => g[1] = h[1]
    <3>1. \A g \in Path : Started(q, g)' => g = f
      BY <1>7, NoFrameType DEF Started
    <3>2. \A g \in Path : ~Started(q, g)' => g # f
      BY <1>2, <1>4 DEF Started
    <3>. QED  BY <1>6, <1>7, <3>1, <3>2
  <2>2. \A r \in Request : r # q =>
          /\ client'[r].pc = "idle" => client'[r].replayable /\ \A g \in Path : ~Started(r, g)'
          /\ \A g \in Path : ~Started(r, g)' => frame'[r][g] = NoFrame
          /\ \A g, h \in Path : Started(r, g)' /\ Started(r, h)' => g[1] = h[1]
    BY <1>6, <1>7 DEF Inv, Frames, OneWayIn, Started
  <2>. QED  BY <2>1, <2>2 DEF OneWayIn
<1>10. OneHop'
  <2>1. \A g \in Path : Started(q, g)' => g = f /\ Len(g) = 1
    BY <1>1, <1>7, NoFrameType DEF Started
  <2>2. \A r \in Request : r # q => \A h \in Path : Started(r, h)' =>
          /\ Len(h) \in {1, 2}
          /\ \A g \in Path : (Len(h) = 2 /\ Len(g) = 1 /\ h[1] = g[1]) => h[2] \in frame'[r][g].tried
    BY <1>7 DEF Inv, Frames, OneHop, Started
  <2>. QED  BY <2>1, <2>2 DEF OneHop
<1>11. TriesItsOwn'
  <2>1. \A r \in Request : \A h \in Path :
          /\ \A b \in frame'[r][h].tried \cap Backend : Home[b] = At(h)
          /\ Len(h) > 1 => frame'[r][h].tried \cap Proxy = {}
    BY <1>7 DEF Inv, Frames, TriesItsOwn
  <2>2. \A r \in Request : \A h \in Path :
          /\ Len(h) > 1 => frame'[r][h].pin = None
          /\ frame'[r][h].pin # None => frame'[r][h].tried = {}
    <3>1. frame'[q][f].tried = {} /\ \A g \in Path : g # f => frame'[q][g].pin = None
      BY <1>2, <1>4, <1>7, NoFrameType
    <3>2. \A r \in Request : r # q => \A h \in Path :
            /\ Len(h) > 1 => frame'[r][h].pin = None
            /\ frame'[r][h].pin # None => frame'[r][h].tried = {}
      BY <1>7 DEF Inv, Frames, TriesItsOwn
    <3>. QED  BY <1>1, <3>1, <3>2
  <2>. QED  BY <2>1, <2>2 DEF TriesItsOwn
<1>12. SendsTried'
  BY <1>7 DEF Inv, Frames, SendsTried, Arrive
<1>13. OneTry'
  BY <1>2, <1>4, <1>5, <1>6, NoFrameType DEF Inv, Frames, OneTry
<1>14. CookieInUse'
  BY <1>2, <1>4 DEF Inv, Frames, CookieInUse, None
<1>15. InProgress'
  BY <1>2, <1>4 DEF Inv, Frames, InProgress
<1>. QED  BY <1>8, <1>9, <1>10, <1>11, <1>12, <1>13, <1>14, <1>15 DEF Inv, Frames

LEMMA AttemptInv ==
  ASSUME DispatchAssumption, Inv, NEW q \in Request, NEW f \in Path, Attempt(q, f)
  PROVE  Inv'
<1>1. PICK t \in (Local(At(f)) \cup Peers(At(f))) \ frame[q][f].tried :
        SendTo(q, f, t) /\ (t \in Proxy => Len(f) = 1)
  BY AttemptChoice
<1>2. frame[q][f].pc = "pick" /\ frame[q][f].attempt < maxRetries
  BY DEF Attempt
<1>3. ClientsStay
  BY DEF Attempt, ClientsStay, ClientType, Inv, TypeOK
<1>4. /\ frame' \in [Request -> [Path -> FrameType]]
      /\ sends' \in [Request -> [Backend -> Nat]]
      /\ Frames'
  <2>1. CASE t \in Local(At(f))
    BY <1>1, <1>2, <1>3, <2>1, TryInv
  <2>2. CASE t \in Peers(At(f))
    <3>1. Len(f) = 1
      BY <1>1, <2>2 DEF Peers
    <3>2. sends \in [Request -> [Backend -> Nat]]
      BY DEF Inv, TypeOK
    <3>. QED  BY <1>1, <1>2, <1>3, <2>2, <3>1, <3>2, HopInv
  <2>. QED  BY <1>1, <2>1, <2>2
<1>5. cursor' \in [Proxy -> Nat]
  <2>1. cursor \in [Proxy -> Nat] /\ At(f) \in Proxy
    BY PathType DEF Inv, TypeOK
  <2>2. cursor' = cursor \/ cursor' = [cursor EXCEPT ![At(f)] = cursor[At(f)] + 1]
    BY DEF Attempt
  <2>. QED  BY <2>1, <2>2
<1>6. TypeOK'
  BY <1>4, <1>5 DEF Attempt, Inv, TypeOK, FrameType
<1>. QED  BY <1>4, <1>6 DEF Inv

\* What the answer to a client changes.
LEMMA ReplyStays ==
  ASSUME TypeOK, NEW q \in Request, NEW f, Reply(q, f)
  PROVE  ClientsStay
<1>1. client \in ClientType
  BY DEF TypeOK, ClientType
<1>2. CASE client' = client
  BY <1>1, <1>2 DEF ClientsStay
<1>3. CASE client[q].pc = "waiting" /\ client' = [client EXCEPT ![q].pc = "served"]
  BY <1>1, <1>3 DEF ClientsStay, ClientType
<1>. QED  BY <1>2, <1>3 DEF Reply

\* A frame that ends.
LEMMA FinishInv ==
  ASSUME DispatchAssumption, Inv, NEW q \in Request, NEW f \in Path,
         NEW status \in {None, "answered", "502", "503", "gone"}, Finish(q, f, status),
         frame[q][f].pc \in {"pick", "sent"}, status = "answered" => frame[q][f].pc = "sent",
         sends' = sends
  PROVE  /\ frame' \in [Request -> [Path -> FrameType]] /\ client' \in ClientType
         /\ Frames'
<1>1. ClientsStay
  BY ReplyStays DEF Inv, Finish
<1>2. client' \in ClientType
  BY <1>1 DEF ClientsStay
<1>3. SetFrame(q, f, Frame("done", frame[q][f].attempt, frame[q][f].tried, frame[q][f].on, None,
                           frame[q][f].cookie, status))
  BY DEF Finish
<1>. QED  BY <1>1, <1>2, <1>3, SettleInv

LEMMA AttemptFailsInv ==
  ASSUME DispatchAssumption, Inv, NEW q \in Request, NEW f \in Path, AttemptFails(q, f)
  PROVE  Inv'
<1>1. frame[q][f].pc = "sent" /\ sends' = sends
  BY DEF AttemptFails
<1>2. /\ frame' \in [Request -> [Path -> FrameType]] /\ client' \in ClientType
      /\ Frames'
  <2>1. CASE client[q].replayable
    <3>1. client' = client
      BY <2>1 DEF AttemptFails, AfterFailure
    <3>2. ClientsStay
      BY <3>1 DEF ClientsStay, ClientType, Inv, TypeOK
    <3>3. SetFrame(q, f, Frame("pick", frame[q][f].attempt, frame[q][f].tried, frame[q][f].on,
                               frame[q][f].pin, frame[q][f].cookie, None))
      BY <2>1 DEF AttemptFails, AfterFailure
    <3>. QED  BY <1>1, <2>1, <3>2, <3>3, SettleInv DEF ClientsStay
  <2>2. CASE ~client[q].replayable
    <3>1. Finish(q, f, "502")
      BY <2>2 DEF AttemptFails, AfterFailure
    <3>. QED  BY <1>1, <3>1, FinishInv
  <2>. QED  BY <2>1, <2>2
<1>3. up' \in [Proxy -> SUBSET Target] /\ fails' \in 0 .. MaxFails
  BY PathType DEF AttemptFails, Inv, TypeOK, DispatchAssumption
<1>4. TypeOK'
  BY <1>2, <1>3 DEF AttemptFails, Inv, TypeOK, FrameType, ClientType
<1>. QED  BY <1>2, <1>4 DEF Inv

LEMMA AnsweredInv ==
  ASSUME DispatchAssumption, Inv, NEW q \in Request, NEW f \in Path, Answered(q, f)
  PROVE  Inv'
<1>. DEFINE fr == frame[q][f]  child == frame[q][Child(f, fr)]
            status == IF Learned(fr.on) THEN child.status ELSE "answered"
<1>1. fr.pc = "sent" /\ sends' = sends /\ Finish(q, f, status)
  BY DEF Answered
<1>2. status \in {None, "answered", "502", "503", "gone"}
  <2>1. CASE Learned(fr.on)
    <3>1. Child(f, fr) \in Path
      BY <1>1, <2>1 DEF Inv, Frames, InProgress, Learned, Child
    <3>. QED  BY <2>1, <3>1 DEF Inv, TypeOK
  <2>2. CASE ~Learned(fr.on)
    BY <2>2
  <2>. QED  BY <2>1, <2>2
<1>. HIDE DEF status
<1>3. frame' \in [Request -> [Path -> FrameType]] /\ client' \in ClientType /\ Frames'
  BY <1>1, <1>2, FinishInv
<1>4. TypeOK'
  BY <1>3 DEF Answered, Inv, TypeOK, FrameType, ClientType
<1>. QED  BY <1>3, <1>4 DEF Inv

LEMMA UnavailableInv ==
  ASSUME DispatchAssumption, Inv, NEW q \in Request, NEW f \in Path, Unavailable(q, f)
  PROVE  Inv'
<1>1. frame[q][f].pc = "pick" /\ sends' = sends /\ Finish(q, f, "503")
  BY DEF Unavailable
<1>2. frame' \in [Request -> [Path -> FrameType]] /\ client' \in ClientType /\ Frames'
  BY <1>1, FinishInv
<1>3. TypeOK'
  BY <1>2 DEF Unavailable, Inv, TypeOK, FrameType, ClientType
<1>. QED  BY <1>2, <1>3 DEF Inv

LEMMA ClientGoneInv ==
  ASSUME DispatchAssumption, Inv, NEW q \in Request, NEW f \in Path, ClientGone(q, f)
  PROVE  Inv'
<1>1. frame[q][f].pc = "sent" /\ sends' = sends /\ Finish(q, f, "gone")
  BY DEF ClientGone
<1>2. frame' \in [Request -> [Path -> FrameType]] /\ client' \in ClientType /\ Frames'
  BY <1>1, FinishInv
<1>3. TypeOK'
  BY <1>2 DEF ClientGone, Inv, TypeOK, FrameType, ClientType
<1>. QED  BY <1>2, <1>3 DEF Inv

\* A step that leaves the frames and what was sent alone.
LEMMA FramesKept ==
  ASSUME Inv, ClientsStay, frame' = frame, sends' = sends
  PROVE  Frames'
<1>1. OneWayIn'
  BY DEF Inv, Frames, OneWayIn, ClientsStay, Started
<1>2. OneHop' /\ TriesItsOwn' /\ SendsTried' /\ CookieInUse' /\ InProgress'
  BY DEF Inv, Frames, OneHop, TriesItsOwn, SendsTried, CookieInUse, InProgress, Started
<1>3. OneTry'
  BY DEF Inv, Frames, OneTry, ClientsStay
<1>. QED  BY <1>1, <1>2, <1>3 DEF Frames

LEMMA NextInv ==
  ASSUME DispatchAssumption, Inv, [Next]_vars
  PROVE  Inv'
<1>1. ASSUME NEW q \in Request, NEW p \in Proxy, NEW replayable \in BOOLEAN,
             NEW pin \in Target \cup {None}, Arrive(q, p, replayable, pin)
      PROVE  Inv'
  BY <1>1, ArriveInv
<1>2. ASSUME NEW q \in Request, ClientLeaves(q)
      PROVE  Inv'
  <2>1. ClientsStay
    BY <1>2 DEF ClientLeaves, ClientsStay, ClientType, Inv, TypeOK
  <2>2. Frames'
    BY <1>2, <2>1, FramesKept DEF ClientLeaves
  <2>3. TypeOK'
    BY <1>2, <2>1 DEF ClientLeaves, ClientsStay, ClientType, Inv, TypeOK
  <2>. QED  BY <2>2, <2>3 DEF Inv
<1>3. ASSUME NEW q \in Request, NEW f \in Path,
             Attempt(q, f) \/ Unavailable(q, f) \/ Answered(q, f) \/ AttemptFails(q, f)
               \/ ClientGone(q, f)
      PROVE  Inv'
  BY <1>3, AttemptInv, UnavailableInv, AnsweredInv, AttemptFailsInv, ClientGoneInv
<1>4. ASSUME client' = client, frame' = frame, sends' = sends
      PROVE  Frames'
  <2>1. ClientsStay
    BY <1>4 DEF ClientsStay, ClientType, Inv, TypeOK
  <2>. QED  BY <1>4, <2>1, FramesKept
<1>5. ASSUME NEW p \in Proxy, NEW t \in Local(p) \cup Peers(p), NEW ok \in BOOLEAN, Probe(p, t, ok)
      PROVE  Inv'
  <2>1. t \in Target
    BY DEF Local, Peers, Target
  <2>2. up' \in [Proxy -> SUBSET Target] /\ flips' \in 0 .. MaxFlips
    BY <1>5, <2>1 DEF Probe, Inv, TypeOK, DispatchAssumption
  <2>3. TypeOK'
    BY <1>5, <2>2 DEF Probe, Inv, TypeOK
  <2>. QED  BY <1>4, <1>5, <2>3 DEF Probe, Inv
<1>6. ASSUME NEW b \in Backend, TakeOut(b)
      PROVE  Inv'
  <2>1. out' \subseteq Backend /\ flips' \in 0 .. MaxFlips
    BY <1>6 DEF TakeOut, Inv, TypeOK, DispatchAssumption
  <2>2. TypeOK'
    BY <1>6, <2>1 DEF TakeOut, Inv, TypeOK
  <2>. QED  BY <1>4, <1>6, <2>2 DEF TakeOut, Inv
<1>7. CASE UNCHANGED vars
  <2>1. TypeOK'
    BY <1>7 DEF vars, Inv, TypeOK
  <2>. QED  BY <1>4, <1>7, <2>1 DEF vars, Inv
<1>. QED  BY <1>1, <1>2, <1>3, <1>5, <1>6, <1>7 DEF Next, RequestNext, HealthNext

LEMMA DispatchInductive ==
  ASSUME DispatchAssumption
  PROVE  Spec => []Inv
<1>1. Init => Inv
  BY InitInv
<1>2. Inv /\ [Next]_vars => Inv'
  BY NextInv
<1>. QED  BY <1>1, <1>2, PTL DEF Spec

-----------------------------------------------------------------------------
(* The theorems                                                            *)

\* PeerHopHeader is enough: in a mesh of any size, whatever fails and is
\* retried, no request is forwarded twice.
THEOREM NeverForwardedTwice ==
  ASSUME DispatchAssumption
  PROVE  Spec => []NoForwardingLoop
<1>1. Inv => NoForwardingLoop
  <2>1. \A n \in {1, 2} : ~(n > 2)
    OBVIOUS
  <2>. QED  BY <2>1 DEF Inv, Frames, OneHop, Started, NoForwardingLoop
<1>. QED  BY <1>1, DispatchInductive, PTL

\* The tried sets of all frames together, and the pin that is consulted once,
\* send a request to no container twice, and one whose body cannot be sent
\* again to one container of the mesh at most.
THEOREM ContainerSentOnce ==
  ASSUME DispatchAssumption
  PROVE  Spec => []SentOnce
<1>1. ASSUME Inv, NEW q \in Request, ~client[q].replayable, NEW b \in Backend, NEW c \in Backend,
             sends[q][b] > 0, sends[q][c] > 0
      PROVE  b = c
  <2>1. PICK f \in Path : b \in frame[q][f].tried
    BY <1>1 DEF Inv, Frames, SendsTried
  <2>2. PICK g \in Path : c \in frame[q][g].tried
    BY <1>1 DEF Inv, Frames, SendsTried
  <2>3. frame[q][f].tried \subseteq {b} /\ frame[q][g].tried \subseteq {c}
    BY <1>1, <2>1, <2>2 DEF Inv, Frames, OneTry
  <2>4. Started(q, f) /\ Started(q, g) /\ f[1] = g[1]
    BY <1>1, <2>1, <2>2, NoFrameType DEF Inv, Frames, OneWayIn
  <2>5. Len(f) \in {1, 2} /\ Len(g) \in {1, 2}
    BY <1>1, <2>4 DEF Inv, Frames, OneHop
  <2>. DEFINE root == <<f[1]>>
  <2>6. root \in Path /\ Len(root) = 1 /\ root[1] = f[1]
    BY PathType, RootPath
  <2>7. \A h \in Path : Started(q, h) /\ Len(h) = 2 /\ h[1] = root[1] =>
          h[2] \in frame[q][root].tried /\ h[2] \in Proxy
    BY <1>1, <2>6, PathType DEF Inv, Frames, OneHop
  <2>8. frame[q][root].tried \subseteq {frame[q][root].on}
    BY <1>1, <2>6 DEF Inv, Frames, OneTry
  <2>. HIDE DEF root
  <2>9. ASSUME NEW h \in Path, h \in {f, g}, Len(h) = 1
        PROVE  h = root
    BY <2>4, <2>6, <2>9, PathEqual
  <2>10. b \notin Proxy /\ c \notin Proxy
    BY DEF DispatchAssumption
  <2>11. CASE Len(f) = 1
    BY <2>1, <2>2, <2>3, <2>4, <2>5, <2>6, <2>7, <2>9, <2>10, <2>11
  <2>12. CASE Len(g) = 1
    BY <2>1, <2>2, <2>3, <2>4, <2>5, <2>6, <2>7, <2>9, <2>10, <2>12
  <2>13. CASE Len(f) = 2 /\ Len(g) = 2
    <3>1. f[2] = g[2]
      BY <2>4, <2>6, <2>7, <2>8, <2>13
    <3>. QED  BY <2>1, <2>2, <2>3, <2>4, <2>13, <3>1, PathEqual
  <2>. QED  BY <2>5, <2>11, <2>12, <2>13
<1>2. Inv => SentOnce
  BY <1>1 DEF Inv, Frames, SendsTried, SentOnce
<1>. QED  BY <1>2, DispatchInductive, PTL

\* After any number of failed attempts, an answer's one affinity cookie names
\* the backend that gave it.
THEOREM CookieOfServer ==
  ASSUME DispatchAssumption
  PROVE  Spec => []CookieNamesServer
<1>1. Inv => CookieNamesServer
  BY RootPath DEF Inv, Frames, CookieInUse, CookieNamesServer, DispatchAssumption
<1>. QED  BY <1>1, DispatchInductive, PTL

\* The three together: what proxyToGroup, on all proxies of the mesh, does with
\* one request.
THEOREM RequestDeliveredOnce ==
  ASSUME DispatchAssumption
  PROVE  Spec => []DeliveredOnce
BY NeverForwardedTwice, ContainerSentOnce, CookieOfServer, PTL DEF DeliveredOnce

\* With nothing left to pick, every backend Docker does not rule out was tried.
LEMMA NothingLeft ==
  ASSUME DispatchAssumption, TypeOK, NEW f \in Path, NEW skip,
         PickPool(At(f), skip, ~Hopped(f)) = {}
  PROVE  Usable(f) \subseteq skip
<1>. DEFINE p == At(f)  mayHop == ~Hopped(f)
<1>1. out \cap Proxy = {}
  BY DEF TypeOK, DispatchAssumption
<1>2. TierPool(p, skip, mayHop, TRUE) = {}
  BY DEF PickPool
<1>3. Pool(p, skip, TRUE, Backend) = {} /\ (mayHop => Pool(p, skip, TRUE, Proxy) = {})
  BY <1>2 DEF TierPool, Pool, Target
<1>4. Local(p) \ out \subseteq skip
  BY <1>3 DEF Pool, Local, excludedFrom
<1>5. mayHop => Peers(p) \subseteq skip
  BY <1>1, <1>3 DEF Pool, Peers, excludedFrom
<1>. QED  BY <1>4, <1>5 DEF Usable

LEMMA SetFrameAt ==
  ASSUME TypeOK, NEW q \in Request, NEW f \in Path, NEW r \in Request, NEW g \in Path, NEW fr,
         SetFrame(r, g, fr)
  PROVE  frame'[q][f] = IF r = q /\ g = f THEN fr ELSE frame[q][f]
<1>1. frame \in [Request -> [Path -> FrameType]]
  BY DEF TypeOK, FrameType
<1>. QED  BY <1>1 DEF SetFrame

\* Only Unavailable turns a frame that is to pick a backend into a 503.
LEMMA OnlyUnavailable ==
  ASSUME DispatchAssumption, Inv, [Next]_vars, NEW q \in Request, NEW f \in Path,
         frame[q][f].pc = "pick", frame'[q][f].status = "503"
  PROVE  Unavailable(q, f)
<1>1. frame[q][f].status = None /\ TypeOK
  BY DEF Inv, Frames, InProgress
<1>2. frame' # frame
  BY <1>1 DEF None
<1>3. ASSUME NEW r \in Request, NEW p \in Proxy, NEW replayable \in BOOLEAN,
             NEW pin \in Target \cup {None}, Arrive(r, p, replayable, pin)
      PROVE  FALSE
  <2>1. SetFrame(r, <<p>>, Frame("pick", 0, {}, None, pin, {}, None)) /\ <<p>> \in Path
    BY <1>3, RootPath DEF Arrive
  <2>2. \/ frame'[q][f] = Frame("pick", 0, {}, None, pin, {}, None)
        \/ frame'[q][f] = frame[q][f]
    BY <1>1, <2>1, SetFrameAt
  <2>. QED  BY <1>1, <2>2 DEF Frame, None
<1>4. ASSUME NEW r \in Request, NEW g \in Path, Attempt(r, g)
      PROVE  FALSE
  <2>1. PICK t \in Target : SendTo(r, g, t) /\ (t \in Proxy => t # At(g))
    BY <1>4, AttemptChoice DEF Local, Peers, Target, DispatchAssumption
  <2>2. frame'[q][f] \in {frame[q][f], SentFrame(r, g, t), Frame("pick", 0, {}, None, None, {}, None)}
    <3>1. frame \in [Request -> [Path -> FrameType]]
      BY <1>1 DEF TypeOK, FrameType
    <3>2. CASE Learned(t)
      <4>1. frame' = [frame EXCEPT ![r] = [frame[r] EXCEPT ![g] = SentFrame(r, g, t),
                        ![Append(g, t)] = Frame("pick", 0, {}, None, None, {}, None)]]
        BY <2>1, <3>2 DEF SendTo, SentFrame
      <4>. QED  BY <3>1, <4>1
    <3>3. CASE ~Learned(t)
      <4>1. SetFrame(r, g, SentFrame(r, g, t))
        BY <2>1, <3>3 DEF SendTo, SentFrame
      <4>. QED  BY <1>1, <4>1, SetFrameAt
    <3>. QED  BY <3>2, <3>3
  <2>. QED  BY <1>1, <2>2 DEF SentFrame, Frame, None
<1>5. ASSUME NEW r \in Request, NEW g \in Path, Unavailable(r, g)
      PROVE  r = q /\ g = f
  BY <1>1, <1>2, <1>5, SetFrameAt DEF Unavailable, Finish, None
<1>6. ASSUME NEW r \in Request, NEW g \in Path, frame[r][g].pc = "sent", NEW fr, SetFrame(r, g, fr)
      PROVE  FALSE
  BY <1>1, <1>6, SetFrameAt DEF None
<1>7. ASSUME NEW r \in Request, NEW g \in Path,
             Answered(r, g) \/ AttemptFails(r, g) \/ ClientGone(r, g)
      PROVE  FALSE
  <2>1. CASE Answered(r, g)
    BY <1>6, <2>1 DEF Answered, Finish
  <2>2. CASE AttemptFails(r, g)
    BY <1>6, <2>2 DEF AttemptFails, AfterFailure, Finish
  <2>3. CASE ClientGone(r, g)
    BY <1>6, <2>3 DEF ClientGone, Finish
  <2>. QED  BY <1>7, <2>1, <2>2, <2>3
<1>8. ~HealthNext /\ ~(\E r \in Request : ClientLeaves(r)) /\ ~(UNCHANGED vars)
  BY <1>2 DEF HealthNext, Probe, TakeOut, ClientLeaves, vars
<1>. QED  BY <1>3, <1>4, <1>5, <1>7, <1>8 DEF Next, RequestNext

\* A proxy that answers 503 made three attempts, or tried every backend it may
\* use, trusted by its probes or not, local or at a peer.
THEOREM ExhaustedWhenUnavailable ==
  ASSUME DispatchAssumption
  PROVE  Spec => UnavailableMeansExhausted
<1>1. ASSUME Inv, [Next]_vars, NEW q \in Request, NEW f \in Path,
             frame[q][f].pc = "pick", frame'[q][f].status = "503"
      PROVE  frame[q][f].attempt = maxRetries \/ Usable(f) \subseteq frame[q][f].tried
  <2>1. Unavailable(q, f)
    BY <1>1, OnlyUnavailable
  <2>2. frame[q][f].attempt = maxRetries \/ PickPool(At(f), frame[q][f].tried, ~Hopped(f)) = {}
    BY <2>1 DEF Unavailable
  <2>. QED  BY <1>1, <2>2, NothingLeft DEF Inv
<1>2. Inv /\ [Next]_vars => [UnavailableMeansExhaustedStep]_vars
  BY <1>1 DEF UnavailableMeansExhaustedStep
<1>. QED  BY <1>2, DispatchInductive, PTL DEF Spec, UnavailableMeansExhausted

-----------------------------------------------------------------------------
(* The limiters                                                            *)

\* The limiter of one proxy.
CONSTANTS Client, Rates, maxBuckets, idleEvict, MaxClock, Minute
VARIABLES clock, rpm, tracked, left, last, answer

Limit == INSTANCE RateLimiter

\* The limiter the mesh shares, for a route of rate requests a minute.
CONSTANTS Ahead, rate, Threshold, Cooldown, MaxOutages
VARIABLES redisUp, outages, shared, own, failures, openUntil, call, viaRedis, viaOwn

Hybrid == INSTANCE HybridLimiter WITH rpm <- rate, up <- redisUp

\* RateLimiter counts with the Cardinality the theorems on finite sets are about.
LEMMA SameCardinality == ASSUME NEW S PROVE Limit!Cardinality(S) = Cardinality(S)
BY DEF Limit!Cardinality, Cardinality

-----------------------------------------------------------------------------
(* Arithmetic of the refill                                                *)

\* More time refills no less.
LEMMA RefillGrows ==
  ASSUME NEW d \in Nat, NEW e \in Nat, NEW r \in Nat, d <= e
  PROVE  /\ d * r \in Nat /\ e * r \in Nat
         /\ d * r <= e * r
         /\ (d + 1) * r = d * r + r
<1>1. d * r \in Nat /\ e * r \in Nat
  OBVIOUS
<1>2. (d + 1) * r = d * r + r
  OBVIOUS
<1>3. d * r <= e * r
  <2>1. PICK k \in Nat : e = d + k
    <3>1. e - d \in Nat /\ e = d + (e - d)
      OBVIOUS
    <3>. QED  BY <3>1
  <2>2. e * r = d * r + k * r
    BY <2>1
  <2>3. k * r \in Nat
    OBVIOUS
  <2>. QED  BY <1>1, <2>2, <2>3
<1>. QED  BY <1>1, <1>2, <1>3

\* What a client has is a number of units, at most the capacity in force.
LEMMA RefilledBounded ==
  ASSUME Limit!RateLimiterAssumption, Limit!MinuteAssumption,
         clock \in Nat, rpm \in Nat,
         left \in [Client -> Nat], last \in [Client -> Nat],
         NEW c \in Client, last[c] <= clock
  PROVE  Limit!refilled(c) \in 0 .. Limit!Capacity(rpm)
<1>1. Limit!Capacity(rpm) \in Nat
  BY DEF Limit!Capacity, Limit!Unit, Limit!MinuteAssumption
<1>2. (clock - last[c]) * rpm \in Nat
  BY clock - last[c] \in Nat
<1>. QED
  BY <1>1, <1>2 DEF Limit!refilled, Limit!Refill, Limit!Lesser

-----------------------------------------------------------------------------
(* Types                                                                   *)

\* TypeOK, with what it needs to be inductive: the table is finite, and no
\* bucket was refilled in the future.
LimiterInv ==
  /\ Limit!TypeOK
  /\ IsFiniteSet(tracked)
  /\ \A c \in Client : last[c] <= clock

\* An answer is a client and a Boolean.
LEMMA PairTyped ==
  ASSUME NEW c \in Client, NEW b \in BOOLEAN
  PROVE  <<c, b>> \in Client \X BOOLEAN
OBVIOUS

LEMMA InitLimiter ==
  ASSUME Limit!RateLimiterAssumption, Limit!MinuteAssumption, Limit!Init
  PROVE  LimiterInv
<1>1. \A r \in Rates : 0 <= Limit!Capacity(r)
  BY DEF Limit!RateLimiterAssumption, Limit!MinuteAssumption, Limit!Capacity, Limit!Unit
<1>2. IsFiniteSet(tracked) /\ Cardinality(tracked) = 0
  BY FS_EmptySet DEF Limit!Init
<1>. QED
  BY <1>1, <1>2, SameCardinality
     DEF Limit!Init, LimiterInv, Limit!TypeOK, Limit!RateLimiterAssumption

LEMMA NextLimiter ==
  ASSUME Limit!RateLimiterAssumption, Limit!MinuteAssumption, LimiterInv, [Limit!Next]_(Limit!vars)
  PROVE  LimiterInv'
<1>. USE DEF Limit!RateLimiterAssumption, Limit!MinuteAssumption
<1>0. clock \in Nat /\ rpm \in Nat /\ last \in [Client -> Nat]
  BY DEF LimiterInv, Limit!TypeOK
<1>1. ASSUME NEW c \in Client, Limit!Allow(c)
      PROVE  LimiterInv'
  <2>1. CASE ~Limit!roomFor(c)
    <3>1. answer' = <<c, FALSE>> /\ UNCHANGED <<clock, rpm, tracked, left, last>>
      BY <1>1, <2>1 DEF Limit!Allow
    <3>2. answer' \in Client \X BOOLEAN
      BY <3>1, PairTyped
    <3>. QED  BY <3>1, <3>2 DEF LimiterInv, Limit!TypeOK
  <2>2. CASE Limit!roomFor(c)
    <3>0. /\ tracked' = tracked \cup {c}
          /\ last' = [last EXCEPT ![c] = clock]
          /\ clock' = clock /\ rpm' = rpm
          /\ \/ /\ Limit!refilled(c) < Limit!Unit
                /\ left' = [left EXCEPT ![c] = Limit!refilled(c)] /\ answer' = <<c, FALSE>>
             \/ /\ ~(Limit!refilled(c) < Limit!Unit)
                /\ left' = [left EXCEPT ![c] = Limit!refilled(c) - Limit!Unit] /\ answer' = <<c, TRUE>>
      BY <1>1, <2>2 DEF Limit!Allow
    <3>1. Limit!refilled(c) \in 0 .. Limit!Capacity(rpm)
      BY <1>0, RefilledBounded DEF LimiterInv, Limit!TypeOK
    <3>2. Limit!Capacity(rpm) \in Nat
      BY <1>0 DEF Limit!Capacity, Limit!Unit
    <3>3. PICK n \in 0 .. Limit!Capacity(rpm) :
            left' = [left EXCEPT ![c] = n] /\ answer' \in Client \X BOOLEAN
      <4>1. CASE Limit!refilled(c) < Limit!Unit
        BY <3>0, <3>1, <4>1, PairTyped
      <4>2. CASE ~(Limit!refilled(c) < Limit!Unit)
        <5>1. Limit!refilled(c) - Limit!Unit \in 0 .. Limit!Capacity(rpm)
          BY <3>1, <3>2, <4>2 DEF Limit!Unit
        <5>. QED  BY <3>0, <4>2, <5>1, PairTyped
      <4>. QED  BY <4>1, <4>2
    <3>4. left' \in [Client -> Nat] /\ \A d \in Client : \E r \in Rates : left'[d] <= Limit!Capacity(r)
      <4>. HIDE DEF Limit!Capacity
      <4>. QED  BY <3>2, <3>3 DEF LimiterInv, Limit!TypeOK
    <3>5. IsFiniteSet(tracked') /\ Cardinality(tracked') <= maxBuckets
      <4>1. CASE c \in tracked
        <5>1. tracked' = tracked
          BY <3>0, <4>1
        <5>. QED  BY <5>1, SameCardinality DEF LimiterInv, Limit!TypeOK
      <4>2. CASE c \notin tracked
        <5>1. Cardinality(tracked) < maxBuckets
          BY <2>2, <4>2, SameCardinality DEF Limit!roomFor
        <5>2. /\ IsFiniteSet(tracked \cup {c})
              /\ Cardinality(tracked \cup {c}) = Cardinality(tracked) + 1
          BY <4>2, FS_AddElement DEF LimiterInv
        <5>3. Cardinality(tracked) \in Nat
          BY FS_CardinalityType DEF LimiterInv
        <5>. QED  BY <3>0, <5>1, <5>2, <5>3
      <4>. QED  BY <4>1, <4>2
    <3>6. last' \in [Client -> 0 .. MaxClock] /\ \A d \in Client : last'[d] <= clock'
      BY <3>0, <1>0 DEF LimiterInv, Limit!TypeOK
    <3>. QED  BY <3>0, <3>3, <3>4, <3>5, <3>6, SameCardinality DEF LimiterInv, Limit!TypeOK
  <2>. QED  BY <2>1, <2>2
<1>2. ASSUME NEW r \in Rates, Limit!SetRate(r)
      PROVE  LimiterInv'
  BY <1>2 DEF Limit!SetRate, LimiterInv, Limit!TypeOK
<1>3. CASE Limit!gc
  <2>. DEFINE idle == {c \in tracked : last[c] + idleEvict < clock}
  <2>1. /\ tracked' = tracked \ idle
        /\ left' = [c \in Client |-> IF c \in idle THEN 0 ELSE left[c]]
        /\ last' = [c \in Client |-> IF c \in idle THEN 0 ELSE last[c]]
        /\ UNCHANGED <<clock, rpm, answer>>
    BY <1>3 DEF Limit!gc
  <2>. HIDE DEF idle
  <2>2. IsFiniteSet(tracked') /\ Cardinality(tracked') <= Cardinality(tracked)
    BY <2>1, FS_Subset DEF LimiterInv
  <2>3. Cardinality(tracked') \in Nat /\ Cardinality(tracked) \in Nat
    BY <2>2, FS_CardinalityType DEF LimiterInv
  <2>4. left' \in [Client -> Nat] /\ last' \in [Client -> 0 .. MaxClock]
    BY <2>1 DEF LimiterInv, Limit!TypeOK
  <2>5. \A c \in Client : last'[c] <= clock'
    BY <1>0, <2>1 DEF LimiterInv
  <2>6. \A c \in Client : \E r \in Rates : left'[c] <= Limit!Capacity(r)
    <3>. SUFFICES ASSUME NEW c \in Client PROVE \E r \in Rates : left'[c] <= Limit!Capacity(r)
      OBVIOUS
    <3>1. PICK r \in Rates : left[c] <= Limit!Capacity(r)
      BY DEF LimiterInv, Limit!TypeOK
    <3>2. Limit!Capacity(r) \in Nat /\ left[c] \in Nat
      BY DEF Limit!Capacity, Limit!Unit, LimiterInv, Limit!TypeOK
    <3>3. left'[c] = 0 \/ left'[c] = left[c]
      BY <2>1
    <3>4. left'[c] <= Limit!Capacity(r)
      BY <3>1, <3>2, <3>3
    <3>. QED  BY <3>4
  <2>. QED  BY <2>1, <2>2, <2>3, <2>4, <2>5, <2>6, SameCardinality DEF LimiterInv, Limit!TypeOK
<1>4. CASE Limit!Tick
  BY <1>0, <1>4 DEF Limit!Tick, LimiterInv, Limit!TypeOK
<1>5. CASE UNCHANGED Limit!vars
  BY <1>5 DEF Limit!vars, LimiterInv, Limit!TypeOK
<1>. QED  BY <1>1, <1>2, <1>3, <1>4, <1>5 DEF Limit!Next

\* The limiter never tracks more than maxBuckets clients, and no bucket holds
\* more than a capacity that was in force (getOrCreate, Allow, gc, SetRate).
THEOREM TableBounded ==
  ASSUME Limit!RateLimiterAssumption, Limit!MinuteAssumption
  PROVE  Limit!Spec => []LimiterInv
<1>1. Limit!Init => LimiterInv
  BY InitLimiter
<1>2. LimiterInv /\ [Limit!Next]_(Limit!vars) => LimiterInv'
  BY NextLimiter
<1>. QED  BY <1>1, <1>2, PTL DEF Limit!Spec
-----------------------------------------------------------------------------
(* The refinement                                                          *)

\* The bucket of client c in the abstract specification, and its next value.
held == [c \in Client |-> Limit!refilled(c)]

\* TokenBucket has its own copy of the arithmetic: it is the same.
LEMMA SameArithmetic ==
  ASSUME NEW n, NEW e, NEW r
  PROVE  /\ Limit!Bucket!Capacity(r) = Limit!Capacity(r)
         /\ Limit!Bucket!Refill(n, e, r) = Limit!Refill(n, e, r)
         /\ Limit!Bucket!Unit = Limit!Unit
BY DEF Limit!Bucket!Capacity, Limit!Bucket!Refill, Limit!Bucket!Lesser, Limit!Bucket!Unit,
       Limit!Capacity, Limit!Refill, Limit!Lesser, Limit!Unit

\* A request of one client changes what it has, and nobody else's bucket.
LEMMA AllowSteps ==
  ASSUME Limit!RateLimiterAssumption, Limit!MinuteAssumption, LimiterInv,
         NEW c \in Client, Limit!Allow(c)
  PROVE  Limit!Bucket!Grant(c) \/ Limit!Bucket!Deny(c)
<1>. USE DEF Limit!RateLimiterAssumption, Limit!MinuteAssumption
<1>0. clock \in Nat /\ rpm \in Nat /\ last \in [Client -> Nat] /\ left \in [Client -> Nat]
  BY DEF LimiterInv, Limit!TypeOK
<1>1. Limit!Capacity(rpm) \in Nat /\ Limit!Unit \in Nat
  BY <1>0 DEF Limit!Capacity, Limit!Unit
<1>2. Limit!refilled(c) \in 0 .. Limit!Capacity(rpm)
  BY <1>0, RefilledBounded DEF LimiterInv
<1>3. CASE ~Limit!roomFor(c)
  <2>1. answer' = <<c, FALSE>> /\ UNCHANGED <<clock, rpm, tracked, left, last>>
    BY <1>3 DEF Limit!Allow, Limit!roomFor
  <2>2. held' = held /\ held[c] = Limit!Capacity(rpm)
    BY <1>3, <2>1 DEF held, Limit!refilled, Limit!roomFor
  <2>. QED
    BY <2>1, <2>2, SameArithmetic DEF Limit!Bucket!Deny, held
<1>4. CASE Limit!roomFor(c)
  <2>1. /\ tracked' = tracked \cup {c}
        /\ last' = [last EXCEPT ![c] = clock]
        /\ clock' = clock /\ rpm' = rpm
    BY <1>4 DEF Limit!Allow
  <2>2. ASSUME NEW n \in 0 .. Limit!Capacity(rpm), left' = [left EXCEPT ![c] = n]
        PROVE  held' = [held EXCEPT ![c] = n]
    <3>1. \A d \in Client : d # c => Limit!refilled(d)' = Limit!refilled(d)
      BY <1>0, <2>1, <2>2 DEF Limit!refilled
    <3>2. Limit!refilled(c)' = n
      <4>1. Limit!refilled(c)' = Limit!Refill(n, clock - clock, rpm)
        BY <1>0, <2>1, <2>2 DEF Limit!refilled
      <4>2. clock - clock = 0 /\ 0 * rpm = 0
        BY <1>0
      <4>. QED  BY <1>1, <4>1, <4>2 DEF Limit!Refill, Limit!Lesser
    <3>. QED  BY <3>1, <3>2 DEF held
  <2>3. CASE Limit!refilled(c) < Limit!Unit
    <3>1. left' = [left EXCEPT ![c] = Limit!refilled(c)] /\ answer' = <<c, FALSE>>
      BY <1>4, <2>3 DEF Limit!Allow
    <3>2. held' = [held EXCEPT ![c] = Limit!refilled(c)]
      BY <1>2, <2>2, <3>1
    <3>3. held' = held /\ held[c] < Limit!Unit
      BY <2>3, <3>2 DEF held
    <3>. QED
      BY <2>1, <3>1, <3>3, SameArithmetic DEF Limit!Bucket!Deny, held
  <2>4. CASE ~(Limit!refilled(c) < Limit!Unit)
    <3>1. left' = [left EXCEPT ![c] = Limit!refilled(c) - Limit!Unit] /\ answer' = <<c, TRUE>>
      BY <1>4, <2>4 DEF Limit!Allow
    <3>2. Limit!refilled(c) - Limit!Unit \in 0 .. Limit!Capacity(rpm) /\ Limit!refilled(c) >= Limit!Unit
      BY <1>1, <1>2, <2>4
    <3>3. held' = [held EXCEPT ![c] = held[c] - Limit!Unit] /\ held[c] >= Limit!Unit
      BY <2>2, <3>1, <3>2 DEF held
    <3>. QED
      BY <2>1, <3>1, <3>3, SameArithmetic DEF Limit!Bucket!Grant, held
  <2>. QED  BY <2>3, <2>4
<1>. QED  BY <1>3, <1>4

\* An edit of the rate leaves every bucket within the new capacity.
LEMMA SetRateSteps ==
  ASSUME Limit!RateLimiterAssumption, Limit!MinuteAssumption, LimiterInv,
         NEW r \in Rates, Limit!SetRate(r)
  PROVE  Limit!Bucket!SetRate(r) \/ UNCHANGED Limit!Bucket!vars
<1>. USE DEF Limit!RateLimiterAssumption, Limit!MinuteAssumption
<1>0. /\ clock \in Nat /\ rpm \in Nat /\ r \in Nat
      /\ last \in [Client -> Nat] /\ left \in [Client -> Nat]
  BY DEF LimiterInv, Limit!TypeOK
<1>1. rpm' = r /\ UNCHANGED <<clock, tracked, left, last, answer>>
  BY DEF Limit!SetRate
<1>2. CASE r = rpm
  <2>1. held' = held
    BY <1>1, <1>2 DEF held, Limit!refilled
  <2>. QED  BY <1>1, <1>2, <2>1 DEF Limit!Bucket!vars, held
<1>3. CASE r # rpm
  <2>1. Limit!Capacity(r) \in Nat
    BY <1>0 DEF Limit!Capacity, Limit!Unit
  <2>2. ASSUME NEW c \in Client
        PROVE  Limit!refilled(c)' \in 0 .. Limit!Capacity(r)
    <3>1. clock - last[c] \in Nat
      BY <1>0 DEF LimiterInv
    <3>2. (clock - last[c]) * r \in Nat /\ left[c] \in Nat
      BY <1>0, <3>1
    <3>. QED  BY <1>1, <2>1, <3>2 DEF Limit!refilled, Limit!Refill, Limit!Lesser
  <2>3. held' \in [Client -> 0 .. Limit!Capacity(r)]
    BY <2>2 DEF held
  <2>. QED  BY <1>1, <1>3, <2>3, SameArithmetic DEF Limit!Bucket!SetRate, held
<1>. QED  BY <1>2, <1>3

\* A client gc forgets had been idle for a minute, so its bucket was full.
LEMMA gcSteps ==
  ASSUME Limit!RateLimiterAssumption, Limit!MinuteAssumption, LimiterInv, Limit!gc
  PROVE  UNCHANGED Limit!Bucket!vars
<1>. USE DEF Limit!RateLimiterAssumption, Limit!MinuteAssumption
<1>. DEFINE idle == {c \in tracked : last[c] + idleEvict < clock}
<1>0. clock \in Nat /\ rpm \in Nat /\ last \in [Client -> Nat] /\ left \in [Client -> Nat]
  BY DEF LimiterInv, Limit!TypeOK
<1>1. /\ tracked' = tracked \ idle
      /\ left' = [c \in Client |-> IF c \in idle THEN 0 ELSE left[c]]
      /\ last' = [c \in Client |-> IF c \in idle THEN 0 ELSE last[c]]
      /\ UNCHANGED <<clock, rpm, answer>>
  BY DEF Limit!gc
<1>2. ASSUME NEW c \in Client
      PROVE  Limit!refilled(c)' = Limit!refilled(c)
  <2>1. CASE c \in idle
    <3>1. c \in tracked /\ clock - last[c] \in Nat /\ Minute <= clock - last[c]
      BY <1>0, <2>1
    <3>2. Minute * rpm <= (clock - last[c]) * rpm /\ (clock - last[c]) * rpm \in Nat
      BY <1>0, <3>1, RefillGrows
    <3>3. Minute * rpm = Limit!Capacity(rpm)
      BY <1>0 DEF Limit!Capacity, Limit!Unit
    <3>4. Limit!refilled(c) = Limit!Capacity(rpm)
      <4>1. left[c] \in Nat /\ Minute * rpm \in Nat
        BY <1>0
      <4>2. Limit!Capacity(rpm) <= left[c] + (clock - last[c]) * rpm
        BY <3>2, <3>3, <4>1
      <4>. QED
        BY <3>1, <4>1, <4>2, <3>2, <3>3 DEF Limit!refilled, Limit!Refill, Limit!Lesser
    <3>5. Limit!refilled(c)' = Limit!Capacity(rpm)
      BY <1>1, <2>1 DEF Limit!refilled
    <3>. QED  BY <3>4, <3>5
  <2>2. CASE c \notin idle
    BY <1>1, <2>2 DEF Limit!refilled
  <2>. QED  BY <2>1, <2>2
<1>3. held' = held
  BY <1>2 DEF held
<1>. QED  BY <1>1, <1>3 DEF Limit!Bucket!vars, held

\* Refilling lazily, when a client is next seen, is refilling at every tick.
LEMMA TickSteps ==
  ASSUME Limit!RateLimiterAssumption, Limit!MinuteAssumption, LimiterInv, Limit!Tick
  PROVE  Limit!Bucket!Fill
<1>. USE DEF Limit!RateLimiterAssumption, Limit!MinuteAssumption
<1>0. clock \in Nat /\ rpm \in Nat /\ last \in [Client -> Nat] /\ left \in [Client -> Nat]
  BY DEF LimiterInv, Limit!TypeOK
<1>1. clock' = clock + 1 /\ UNCHANGED <<rpm, tracked, left, last, answer>>
  BY DEF Limit!Tick
<1>2. Limit!Capacity(rpm) \in Nat
  BY <1>0 DEF Limit!Capacity, Limit!Unit
<1>3. ASSUME NEW c \in Client
      PROVE  Limit!refilled(c)' = Limit!Refill(Limit!refilled(c), 1, rpm)
  <2>1. CASE c \notin tracked
    BY <1>0, <1>1, <1>2, <2>1 DEF Limit!refilled, Limit!Refill, Limit!Lesser
  <2>2. CASE c \in tracked
    <3>. DEFINE e == clock - last[c]
                m == e * rpm
    <3>1. e \in Nat /\ clock' - last[c] = e + 1 /\ left[c] \in Nat
      BY <1>0, <1>1 DEF LimiterInv
    <3>2. (e + 1) * rpm = m + rpm /\ m \in Nat
      BY <1>0, <3>1, RefillGrows
    <3>3. Limit!refilled(c) = Limit!Lesser(Limit!Capacity(rpm), left[c] + m)
      BY <2>2 DEF Limit!refilled, Limit!Refill
    <3>4. Limit!refilled(c)' = Limit!Lesser(Limit!Capacity(rpm), left[c] + (m + rpm))
      BY <1>1, <2>2, <3>1, <3>2 DEF Limit!refilled, Limit!Refill
    <3>5. 1 * rpm = rpm
      BY <1>0
    <3>. HIDE DEF m, e
    <3>. QED
      BY <1>0, <1>2, <3>1, <3>2, <3>3, <3>4, <3>5 DEF Limit!Refill, Limit!Lesser
  <2>. QED  BY <2>1, <2>2
<1>4. held' = [c \in Client |-> Limit!Refill(held[c], 1, rpm)]
  BY <1>3 DEF held
<1>. QED
  BY <1>1, <1>4, SameArithmetic DEF Limit!Bucket!Fill, held

\* The lazily refilled, bounded and garbage-collected table of one route
\* implements one token bucket per client, whatever is tracked, forgotten or
\* reconfigured (rateLimiter.Allow, gc, SetRate).
THEOREM ImplementsTokenBucket ==
  ASSUME Limit!RateLimiterAssumption, Limit!MinuteAssumption
  PROVE  Limit!Spec => Limit!IsTokenBucket
<1>1. Limit!Init => Limit!Bucket!Init
  <2>. SUFFICES ASSUME Limit!Init PROVE Limit!Bucket!Init
    OBVIOUS
  <2>1. held = [c \in Client |-> Limit!Capacity(rpm)]
    BY DEF Limit!Init, held, Limit!refilled
  <2>. QED  BY <2>1, SameArithmetic DEF Limit!Init, Limit!Bucket!Init, held
<1>2. LimiterInv /\ [Limit!Next]_(Limit!vars) => [Limit!Bucket!Next]_(Limit!Bucket!vars)
  <2>. SUFFICES ASSUME LimiterInv, [Limit!Next]_(Limit!vars) PROVE [Limit!Bucket!Next]_(Limit!Bucket!vars)
    OBVIOUS
  <2>1. ASSUME NEW c \in Client, Limit!Allow(c) PROVE Limit!Bucket!Next
    BY <2>1, AllowSteps DEF Limit!Bucket!Next
  <2>2. ASSUME NEW r \in Rates, Limit!SetRate(r) PROVE [Limit!Bucket!Next]_(Limit!Bucket!vars)
    BY <2>2, SetRateSteps DEF Limit!Bucket!Next
  <2>3. CASE Limit!gc
    BY <2>3, gcSteps
  <2>4. CASE Limit!Tick
    BY <2>4, TickSteps DEF Limit!Bucket!Next
  <2>5. CASE UNCHANGED Limit!vars
    BY <2>5 DEF Limit!vars, Limit!Bucket!vars, Limit!refilled
  <2>. QED  BY <2>1, <2>2, <2>3, <2>4, <2>5 DEF Limit!Next
<1>. QED  BY <1>1, <1>2, TableBounded, PTL DEF Limit!Spec, Limit!IsTokenBucket, Limit!Bucket!Spec

-----------------------------------------------------------------------------
(* The limiter the mesh shares: one bucket                                 *)

\* What b lets through from now on and the v requests it let through come to a
\* capacity and what the time up to its stamp has added.
Paid(b, v) ==
  IF b.there THEN v * Limit!Unit + b.tokens <= Limit!Capacity(rate) + b.ts * rate ELSE v = 0

\* A bucket within its capacity, last charged no later than time n.
Sound(b, n) == b \in Hybrid!Bucket /\ b.tokens <= Limit!Capacity(rate) /\ b.ts <= n

\* HybridLimiter has its own copy of the arithmetic: it is the same.
LEMMA HybridArithmetic ==
  ASSUME NEW n, NEW e, NEW r
  PROVE  /\ Hybrid!Capacity(r) = Limit!Capacity(r)
         /\ Hybrid!Refill(n, e, r) = Limit!Refill(n, e, r)
         /\ Hybrid!Unit = Limit!Unit
BY DEF Hybrid!Capacity, Hybrid!Refill, Hybrid!Lesser, Hybrid!Unit,
       Limit!Capacity, Limit!Refill, Limit!Lesser, Limit!Unit

\* A later time is an earlier one and the time between.
LEMMA TimeAdds ==
  ASSUME NEW s \in Nat, NEW n \in Nat, NEW r \in Nat, s <= n
  PROVE  n * r = s * r + (n - s) * r /\ (n - s) * r \in Nat /\ s * r \in Nat
<1>1. PICK k \in Nat : n = s + k
  <2>1. n - s \in Nat /\ n = s + (n - s)
    OBVIOUS
  <2>. QED  BY <2>1
<1>2. n - s = k /\ (s + k) * r = s * r + k * r
  BY <1>1
<1>3. k * r \in Nat /\ s * r \in Nat
  OBVIOUS
<1>. QED  BY <1>1, <1>2, <1>3

\* tokenBucketScript and rateLimiter.Allow charge a bucket for what they allow.
LEMMA ChargedPays ==
  ASSUME Limit!MinuteAssumption, rate \in Nat, NEW n \in Nat, NEW b, Sound(b, n),
         NEW v \in Nat, Paid(b, v)
  PROVE  /\ Sound(Hybrid!Charged(b, n), n)
         /\ Hybrid!Charged(b, n).ts = n
         /\ Paid(Hybrid!Charged(b, n), IF Hybrid!Allowed(b, n) THEN v + 1 ELSE v)
<1>. DEFINE t == Hybrid!Refilled(b, n)
            C == Limit!Capacity(rate)
            u == IF Hybrid!Allowed(b, n) THEN Limit!Unit ELSE 0
            w == IF Hybrid!Allowed(b, n) THEN v + 1 ELSE v
            c == Hybrid!Charged(b, n)
<1>0. C \in Nat /\ Limit!Unit \in Nat /\ n * rate \in Nat
  BY DEF Limit!Capacity, Limit!Unit, Limit!MinuteAssumption
<1>1. b.there \in BOOLEAN /\ b.tokens \in Nat /\ b.ts \in Nat /\ b.ts <= n /\ b.tokens <= C
  BY DEF Sound, Hybrid!Bucket
<1>2. t \in Nat /\ t <= C /\ v * Limit!Unit \in Nat /\ v * Limit!Unit + t <= C + n * rate
  <2>0. v * Limit!Unit \in Nat
    BY <1>0
  <2>1. CASE b.there
    <3>. DEFINE e == n - b.ts
                m == e * rate
    <3>1. Hybrid!Elapsed(b, n) = e
      BY <1>1 DEF Hybrid!Elapsed
    <3>2. t = Limit!Lesser(C, b.tokens + m)
      BY <2>1, <3>1, HybridArithmetic DEF Hybrid!Refilled, Limit!Refill
    <3>3. n * rate = b.ts * rate + m /\ m \in Nat /\ b.ts * rate \in Nat
      BY <1>1, TimeAdds
    <3>4. v * Limit!Unit + b.tokens <= C + b.ts * rate
      BY <2>1 DEF Paid
    <3>. HIDE DEF m, C, t, e
    <3>. QED  BY <1>0, <1>1, <2>0, <3>2, <3>3, <3>4 DEF Limit!Lesser
  <2>2. CASE ~b.there
    <3>1. t = C /\ v = 0
      BY <2>2, HybridArithmetic DEF Hybrid!Refilled, Paid
    <3>2. v * Limit!Unit = 0
      BY <1>0, <3>1
    <3>. HIDE DEF t, C
    <3>. QED  BY <1>0, <3>1, <3>2
  <2>. QED  BY <1>1, <2>1, <2>2
<1>3. Hybrid!Allowed(b, n) <=> t >= Limit!Unit
  BY HybridArithmetic DEF Hybrid!Allowed
<1>4. /\ c.there /\ c.ts = n /\ c.tokens = t - u
      /\ c = [there |-> TRUE, ts |-> n, tokens |-> t - u]
  BY HybridArithmetic DEF Hybrid!Charged
<1>5. w * Limit!Unit = v * Limit!Unit + u
  <2>1. (v + 1) * Limit!Unit = v * Limit!Unit + Limit!Unit
    BY <1>0
  <2>. QED  BY <1>2, <2>1
<1>6. t - u \in Nat /\ t - u <= C /\ u \in Nat
  <2>. HIDE DEF t, C
  <2>. QED  BY <1>0, <1>2, <1>3
<1>7. c \in Hybrid!Bucket
  BY <1>4, <1>6 DEF Hybrid!Bucket
<1>8. w * Limit!Unit + c.tokens <= C + c.ts * rate
  <2>. HIDE DEF t, C, u, w, c
  <2>. QED  BY <1>0, <1>2, <1>4, <1>5, <1>6
<1>9. Sound(c, n)
  <2>. HIDE DEF t, u, c, C
  <2>1. c.tokens <= C /\ c.ts <= n
    BY <1>4, <1>6
  <2>. QED  BY <1>7, <2>1 DEF Sound, C
<1>10. Paid(c, w)
  <2>. HIDE DEF c, w
  <2>. QED  BY <1>4, <1>8 DEF Paid
<1>. QED  BY <1>4, <1>9, <1>10

\* Whatever the caller's time, a charged bucket is one within its capacity.
LEMMA ChargedTyped ==
  ASSUME Limit!MinuteAssumption, rate \in Nat, NEW n \in Nat, NEW b \in Hybrid!Bucket,
         b.tokens <= Limit!Capacity(rate)
  PROVE  /\ Hybrid!Charged(b, n) \in Hybrid!Bucket
         /\ Hybrid!Charged(b, n).tokens <= Limit!Capacity(rate)
<1>. DEFINE t == Hybrid!Refilled(b, n)
            e == Hybrid!Elapsed(b, n)
            C == Limit!Capacity(rate)
            u == IF Hybrid!Allowed(b, n) THEN Limit!Unit ELSE 0
            c == Hybrid!Charged(b, n)
<1>0. C \in Nat /\ Limit!Unit \in Nat
  BY DEF Limit!Capacity, Limit!Unit, Limit!MinuteAssumption
<1>1. e \in Nat /\ b.tokens \in Nat
  BY DEF Hybrid!Elapsed, Hybrid!Bucket
<1>. HIDE DEF e
<1>2. e * rate \in Nat
  BY <1>1
<1>3. t = C \/ t = Limit!Lesser(C, b.tokens + e * rate)
  BY HybridArithmetic DEF Hybrid!Refilled, Limit!Refill, e
<1>. HIDE DEF C
<1>4. t \in Nat /\ t <= C
  BY <1>0, <1>1, <1>2, <1>3 DEF Limit!Lesser
<1>5. Hybrid!Allowed(b, n) <=> t >= Limit!Unit
  BY HybridArithmetic DEF Hybrid!Allowed
<1>6. c = [there |-> TRUE, ts |-> n, tokens |-> t - u]
  BY HybridArithmetic DEF Hybrid!Charged
<1>. HIDE DEF t
<1>7. t - u \in Nat /\ t - u <= C
  BY <1>0, <1>4, <1>5
<1>. QED  BY <1>6, <1>7 DEF Hybrid!Bucket, C

\* A bucket lets through what it holds and what time has added, and no more.
LEMMA PaidBounds ==
  ASSUME Limit!MinuteAssumption, rate \in Nat, NEW n \in Nat, NEW b, Sound(b, n),
         NEW v \in Nat, Paid(b, v)
  PROVE  v * Limit!Unit <= Limit!Capacity(rate) + n * rate
<1>0. /\ Limit!Capacity(rate) \in Nat /\ Limit!Unit \in Nat /\ n * rate \in Nat /\ v * Limit!Unit \in Nat
      /\ b.tokens \in Nat /\ b.ts \in Nat /\ b.ts <= n /\ b.there \in BOOLEAN
  BY DEF Limit!Capacity, Limit!Unit, Limit!MinuteAssumption, Sound, Hybrid!Bucket
<1>1. CASE b.there
  <2>1. b.ts * rate <= n * rate /\ b.ts * rate \in Nat
    BY <1>0, RefillGrows
  <2>. QED  BY <1>0, <1>1, <2>1 DEF Paid
<1>2. CASE ~b.there
  <2>1. v = 0
    BY <1>2 DEF Paid
  <2>2. v * Limit!Unit = 0
    BY <1>0, <2>1
  <2>. QED  BY <1>0, <2>2
<1>. QED  BY <1>0, <1>1, <1>2

-----------------------------------------------------------------------------
(* The limiter the mesh shares: each proxy on its own                      *)

Verdicts == [pc: {"idle", "asked", "answered", "failed"}, at: Proxy \cup {"none"},
             now: Nat, ok: BOOLEAN]

HybridTyped ==
  /\ clock \in 0 .. MaxClock /\ redisUp \in BOOLEAN /\ outages \in 0 .. MaxOutages
  /\ failures \in [Proxy -> Nat] /\ openUntil \in [Proxy -> Nat]
  /\ call \in [Request -> Verdicts]
  /\ \A q \in Request : call[q].pc # "idle" => call[q].at \in Proxy
  /\ viaRedis \in Nat
  /\ viaOwn \in [Proxy -> Nat]
  /\ shared \in Hybrid!Bucket /\ shared.tokens <= Limit!Capacity(rate)
  /\ DOMAIN own = Proxy

\* The fallback of each proxy has charged its bucket for all it let through.
OwnPaid ==
  \A p \in Proxy : Sound(own[p], clock + Ahead[p]) /\ Paid(own[p], viaOwn[p])

HybridInv == HybridTyped /\ OwnPaid

LEMMA InitHybrid ==
  ASSUME Limit!MinuteAssumption, Hybrid!HybridAssumption, Hybrid!Init
  PROVE  HybridInv
<1>0. Hybrid!NoBucket = [there |-> FALSE, tokens |-> 0, ts |-> 0]
  BY DEF Hybrid!NoBucket
<1>1. /\ Hybrid!NoBucket \in Hybrid!Bucket /\ Hybrid!NoBucket.tokens = 0
      /\ Hybrid!NoBucket.ts = 0 /\ ~Hybrid!NoBucket.there
  BY <1>0 DEF Hybrid!Bucket
<1>2. Hybrid!IdleCall \in Verdicts /\ Hybrid!IdleCall.pc = "idle"
  BY DEF Hybrid!IdleCall, Verdicts
<1>3. Limit!Capacity(rate) \in Nat
  BY DEF Limit!Capacity, Limit!Unit, Limit!MinuteAssumption, Hybrid!HybridAssumption
<1>4. HybridTyped
  BY <1>1, <1>2, <1>3 DEF Hybrid!Init, HybridTyped, Hybrid!HybridAssumption
<1>5. \A p \in Proxy : own[p] = Hybrid!NoBucket /\ viaOwn[p] = 0 /\ clock + Ahead[p] \in Nat
  BY DEF Hybrid!Init, Hybrid!HybridAssumption
<1>6. OwnPaid
  BY <1>1, <1>3, <1>5 DEF OwnPaid, Sound, Paid
<1>. QED  BY <1>4, <1>6 DEF HybridInv

\* fallback.Allow
LEMMA AllowOwnPays ==
  ASSUME Limit!MinuteAssumption, Hybrid!HybridAssumption, HybridInv, clock' = clock,
         NEW p \in Proxy, Hybrid!AllowOwn(p)
  PROVE  OwnPaid' /\ viaOwn' \in [Proxy -> Nat] /\ DOMAIN own' = Proxy
<1>. DEFINE n == clock + Ahead[p]
            yes == Hybrid!Allowed(own[p], n)
            v == IF yes THEN viaOwn[p] + 1 ELSE viaOwn[p]
            c == Hybrid!Charged(own[p], n)
<1>0. /\ own' = [own EXCEPT ![p] = c] /\ DOMAIN own = Proxy
      /\ viaOwn' = IF yes THEN [viaOwn EXCEPT ![p] = viaOwn[p] + 1] ELSE viaOwn
  BY DEF Hybrid!AllowOwn, Hybrid!Now, HybridInv, HybridTyped
<1>1. n \in Nat /\ rate \in Nat /\ viaOwn \in [Proxy -> Nat] /\ v \in Nat
  BY DEF HybridInv, HybridTyped, Hybrid!HybridAssumption
<1>2. Sound(c, n) /\ Paid(c, v)
  BY <1>1, ChargedPays DEF HybridInv, OwnPaid
<1>3. viaOwn' = [viaOwn EXCEPT ![p] = v]
  BY <1>0, <1>1
<1>. HIDE DEF v, c, yes
<1>4. own'[p] = c /\ viaOwn'[p] = v
  BY <1>0, <1>1, <1>3
<1>5. \A o \in Proxy \ {p} : own'[o] = own[o] /\ viaOwn'[o] = viaOwn[o]
  BY <1>0, <1>3
<1>6. OwnPaid'
  <2>. SUFFICES ASSUME NEW o \in Proxy
                PROVE  Sound(own'[o], clock + Ahead[o]) /\ Paid(own'[o], viaOwn'[o])
    BY DEF OwnPaid, Sound, Paid
  <2>1. CASE o = p
    BY <1>2, <1>4, <2>1
  <2>2. CASE o # p
    BY <1>5, <2>2 DEF HybridInv, OwnPaid
  <2>. QED  BY <2>1, <2>2
<1>. QED  BY <1>0, <1>1, <1>3, <1>6

LEMMA NextHybrid ==
  ASSUME Limit!MinuteAssumption, Hybrid!HybridAssumption, HybridInv, [Hybrid!Next]_(Hybrid!vars)
  PROVE  HybridInv'
<1>0. /\ rate \in Nat /\ clock \in Nat /\ Limit!Capacity(rate) \in Nat
      /\ \A p \in Proxy : Ahead[p] \in Nat
      /\ Hybrid!IdleCall \in Verdicts /\ Hybrid!IdleCall.pc = "idle"
      /\ Threshold \in Nat /\ Cooldown \in Nat /\ MaxClock \in Nat /\ MaxOutages \in Nat
  BY DEF HybridInv, HybridTyped, Hybrid!HybridAssumption, Limit!Capacity, Limit!Unit, Limit!MinuteAssumption,
         Hybrid!IdleCall, Verdicts
<1>1. ASSUME clock' = clock, UNCHANGED <<own, viaOwn>> PROVE OwnPaid'
  BY <1>1 DEF HybridInv, OwnPaid, Sound, Paid
<1>2. ASSUME NEW q \in Request, NEW p \in Proxy, Hybrid!Degraded(q, p)
      PROVE  HybridInv'
  <2>1. /\ Hybrid!AllowOwn(p)
        /\ UNCHANGED <<clock, redisUp, outages, shared, failures, openUntil, call, viaRedis>>
    BY <1>2 DEF Hybrid!Degraded
  <2>2. OwnPaid' /\ viaOwn' \in [Proxy -> Nat] /\ DOMAIN own' = Proxy
    BY <2>1, AllowOwnPays
  <2>. QED  BY <2>1, <2>2 DEF HybridInv, HybridTyped
<1>3. ASSUME NEW q \in Request, NEW p \in Proxy, Hybrid!Ask(q, p)
      PROVE  HybridInv'
  <2>. DEFINE c == [pc |-> "asked", at |-> p, now |-> clock + Ahead[p], ok |-> FALSE]
  <2>1. /\ call' = [call EXCEPT ![q] = c]
        /\ UNCHANGED <<clock, redisUp, outages, shared, own, failures, openUntil, viaRedis, viaOwn>>
    BY <1>3 DEF Hybrid!Ask, Hybrid!Now
  <2>2. c \in Verdicts /\ c.at \in Proxy
    BY <1>0 DEF Verdicts
  <2>. HIDE DEF c
  <2>3. call' \in [Request -> Verdicts] /\ \A r \in Request : call'[r].pc # "idle" => call'[r].at \in Proxy
    BY <2>1, <2>2 DEF HybridInv, HybridTyped
  <2>. QED  BY <1>1, <2>1, <2>3 DEF HybridInv, HybridTyped
<1>4. ASSUME NEW q \in Request, NEW c \in Verdicts, call' = [call EXCEPT ![q] = c],
             c.pc # "idle" => c.at \in Proxy
      PROVE  call' \in [Request -> Verdicts] /\ \A r \in Request : call'[r].pc # "idle" => call'[r].at \in Proxy
  BY <1>4 DEF HybridInv, HybridTyped
<1>5. ASSUME NEW q \in Request, Hybrid!Script(q)
      PROVE  HybridInv'
  <2>. DEFINE yes == Hybrid!Allowed(shared, call[q].now)
              c == [call[q] EXCEPT !.pc = "answered", !.ok = yes]
  <2>1. /\ shared' = Hybrid!Charged(shared, call[q].now) /\ call[q].pc = "asked"
        /\ call' = [call EXCEPT ![q] = c]
        /\ UNCHANGED <<clock, redisUp, outages, own, failures, openUntil, viaRedis, viaOwn>>
    BY <1>5 DEF Hybrid!Script
  <2>2. call[q] \in Verdicts /\ call[q].now \in Nat /\ yes \in BOOLEAN /\ call[q].at \in Proxy
    BY <2>1 DEF HybridInv, HybridTyped, Verdicts, Hybrid!Allowed
  <2>. HIDE DEF yes
  <2>3. c \in Verdicts /\ c.at \in Proxy
    BY <2>2 DEF Verdicts
  <2>. HIDE DEF c
  <2>4. shared' \in Hybrid!Bucket /\ shared'.tokens <= Limit!Capacity(rate)
    BY <1>0, <2>1, <2>2, ChargedTyped DEF HybridInv, HybridTyped
  <2>. QED  BY <1>1, <1>4, <2>1, <2>3, <2>4 DEF HybridInv, HybridTyped
<1>6. ASSUME NEW q \in Request, Hybrid!Timeout(q)
      PROVE  HybridInv'
  <2>. DEFINE c == [call[q] EXCEPT !.pc = "failed"]
  <2>1. /\ call' = [call EXCEPT ![q] = c] /\ call[q].pc # "idle"
        /\ UNCHANGED <<clock, redisUp, outages, shared, own, failures, openUntil, viaRedis, viaOwn>>
    BY <1>6 DEF Hybrid!Timeout
  <2>2. c \in Verdicts /\ c.at \in Proxy
    BY <2>1 DEF HybridInv, HybridTyped, Verdicts
  <2>. HIDE DEF c
  <2>. QED  BY <1>1, <1>4, <2>1, <2>2 DEF HybridInv, HybridTyped
<1>7. ASSUME NEW q \in Request, Hybrid!Success(q)
      PROVE  HybridInv'
  <2>. DEFINE p == call[q].at
  <2>1. /\ call[q].pc = "answered" /\ call' = [call EXCEPT ![q] = Hybrid!IdleCall]
        /\ failures' = [failures EXCEPT ![p] = 0] /\ openUntil' = [openUntil EXCEPT ![p] = 0]
        /\ viaRedis' = viaRedis + 1 \/ viaRedis' = viaRedis
        /\ UNCHANGED <<clock, redisUp, outages, shared, own, viaOwn>>
    BY <1>7 DEF Hybrid!Success
  <2>2. failures' \in [Proxy -> Nat] /\ openUntil' \in [Proxy -> Nat] /\ viaRedis' \in Nat
    BY <2>1 DEF HybridInv, HybridTyped
  <2>. QED  BY <1>0, <1>1, <1>4, <2>1, <2>2 DEF HybridInv, HybridTyped
<1>8. ASSUME NEW q \in Request, Hybrid!Failure(q)
      PROVE  HybridInv'
  <2>. DEFINE p == call[q].at
  <2>1. /\ call[q].pc = "failed" /\ call' = [call EXCEPT ![q] = Hybrid!IdleCall]
        /\ failures' = [failures EXCEPT ![p] = failures[p] + 1]
        /\ openUntil' = [openUntil EXCEPT ![p] = clock + Ahead[p] + Cooldown] \/ openUntil' = openUntil
        /\ Hybrid!AllowOwn(p)
        /\ UNCHANGED <<clock, redisUp, outages, shared, viaRedis>>
    BY <1>8 DEF Hybrid!Failure, Hybrid!Now
  <2>2. p \in Proxy
    BY <2>1 DEF HybridInv, HybridTyped
  <2>3. failures' \in [Proxy -> Nat] /\ openUntil' \in [Proxy -> Nat]
    BY <1>0, <2>1, <2>2 DEF HybridInv, HybridTyped
  <2>4. OwnPaid' /\ viaOwn' \in [Proxy -> Nat] /\ DOMAIN own' = Proxy
    BY <2>1, <2>2, AllowOwnPays
  <2>. QED  BY <1>0, <1>4, <2>1, <2>3, <2>4 DEF HybridInv, HybridTyped
<1>9. CASE Hybrid!Outage \/ Hybrid!Recovery
  <2>1. /\ redisUp' = TRUE \/ redisUp' = FALSE
        /\ outages' = outages \/ (outages < MaxOutages /\ outages' = outages + 1)
        /\ UNCHANGED <<clock, shared, own, failures, openUntil, call, viaRedis, viaOwn>>
    BY <1>9 DEF Hybrid!Outage, Hybrid!Recovery
  <2>2. redisUp' \in BOOLEAN
    BY <2>1
  <2>3. outages' \in 0 .. MaxOutages
    BY <1>0, <2>1 DEF HybridInv, HybridTyped
  <2>. QED  BY <1>1, <2>1, <2>2, <2>3 DEF HybridInv, HybridTyped
<1>10. CASE Hybrid!Tick
  <2>1. /\ clock < MaxClock /\ clock' = clock + 1
        /\ UNCHANGED <<redisUp, outages, shared, own, failures, openUntil, call, viaRedis, viaOwn>>
    BY <1>10 DEF Hybrid!Tick
  <2>2. OwnPaid'
    <3>. SUFFICES ASSUME NEW p \in Proxy
                  PROVE  Sound(own[p], clock + 1 + Ahead[p]) /\ Paid(own[p], viaOwn[p])
      BY <2>1 DEF OwnPaid, Sound, Paid
    <3>1. Sound(own[p], clock + Ahead[p]) /\ Paid(own[p], viaOwn[p]) /\ Ahead[p] \in Nat
      BY <1>0 DEF HybridInv, OwnPaid
    <3>. QED  BY <1>0, <3>1 DEF Sound, Hybrid!Bucket
  <2>. QED  BY <1>0, <2>1, <2>2 DEF HybridInv, HybridTyped
<1>11. CASE UNCHANGED Hybrid!vars
  BY <1>1, <1>11 DEF Hybrid!vars, HybridInv, HybridTyped
<1>. QED
  BY <1>2, <1>3, <1>5, <1>6, <1>7, <1>8, <1>9, <1>10, <1>11 DEF Hybrid!Next

LEMMA HybridInductive ==
  ASSUME Limit!MinuteAssumption, Hybrid!HybridAssumption
  PROVE  Hybrid!Spec => []HybridInv
<1>1. Hybrid!Init => HybridInv
  BY InitHybrid
<1>2. HybridInv /\ [Hybrid!Next]_(Hybrid!vars) => HybridInv'
  BY NextHybrid
<1>. QED  BY <1>1, <1>2, PTL DEF Hybrid!Spec

\* The allowance is that of the clock furthest ahead.
LEMMA AllowanceFurthest ==
  ASSUME Limit!MinuteAssumption, Hybrid!HybridAssumption, clock \in Nat, NEW p \in Proxy
  PROVE  /\ Limit!Capacity(rate) + (clock + Ahead[p]) * rate <= Hybrid!Allowance
         /\ Hybrid!Allowance \in Nat /\ (clock + Ahead[p]) * rate \in Nat
<1>. DEFINE f == CHOOSE z \in Proxy : \A o \in Proxy : Ahead[o] <= Ahead[z]
<1>1. f \in Proxy /\ Ahead[p] <= Ahead[f] /\ Ahead[f] \in Nat /\ Ahead[p] \in Nat
  BY DEF Hybrid!HybridAssumption
<1>2. Hybrid!Allowance = Limit!Capacity(rate) + (clock + Ahead[f]) * rate
  BY HybridArithmetic DEF Hybrid!Allowance, Hybrid!Now
<1>. HIDE DEF f
<1>3. Limit!Capacity(rate) \in Nat /\ rate \in Nat
  BY DEF Limit!Capacity, Limit!Unit, Limit!MinuteAssumption, Hybrid!HybridAssumption
<1>4. /\ (clock + Ahead[p]) * rate <= (clock + Ahead[f]) * rate
      /\ (clock + Ahead[p]) * rate \in Nat /\ (clock + Ahead[f]) * rate \in Nat
  <2>1. clock + Ahead[p] \in Nat /\ clock + Ahead[f] \in Nat /\ clock + Ahead[p] <= clock + Ahead[f]
    BY <1>1
  <2>. QED  BY <1>3, <2>1, RefillGrows
<1>. QED  BY <1>2, <1>3, <1>4

\* However often and for however long Redis fails, each proxy lets through on
\* its own what the route's rate allows and no more, with any number of
\* requests at once and any skew of the clocks (hybridLimiter.Allow,
\* recordFailure, rateLimiter.Allow).
THEOREM NeverFailsOpen ==
  ASSUME Limit!MinuteAssumption, Hybrid!HybridAssumption
  PROVE  Hybrid!Spec => []Hybrid!OwnCap
<1>1. HybridInv => Hybrid!OwnCap
  <2>. SUFFICES ASSUME HybridInv, NEW p \in Proxy
                PROVE  viaOwn[p] * Limit!Unit <= Hybrid!Allowance
    BY HybridArithmetic DEF Hybrid!OwnCap
  <2>1. /\ clock \in Nat /\ clock + Ahead[p] \in Nat /\ viaOwn[p] \in Nat /\ rate \in Nat
        /\ Sound(own[p], clock + Ahead[p]) /\ Paid(own[p], viaOwn[p])
    BY DEF HybridInv, HybridTyped, OwnPaid, Hybrid!HybridAssumption
  <2>2. viaOwn[p] * Limit!Unit <= Limit!Capacity(rate) + (clock + Ahead[p]) * rate
    BY <2>1, PaidBounds
  <2>3. viaOwn[p] * Limit!Unit \in Nat /\ Limit!Capacity(rate) \in Nat
    BY <2>1 DEF Limit!Unit, Limit!Capacity, Limit!MinuteAssumption
  <2>. QED  BY <2>1, <2>2, <2>3, AllowanceFurthest
<1>. QED  BY <1>1, HybridInductive, PTL

-----------------------------------------------------------------------------
(* The limiter the mesh shares: the bucket in Redis                        *)

\* Calls reach Redis in the order of their clocks when clocks agree and one
\* call is made at a time.  The script stores the caller's time, so a call
\* that is overtaken would have the time between refilled twice.
InOrder ==
  /\ \A p, o \in Proxy : Ahead[p] = Ahead[o]
  /\ \A q, r \in Request : q = r

\* A token was spent on a call that has not returned yet.
Unreturned == \E q \in Request : call[q].pc = "answered" /\ call[q].ok

Spent == IF Unreturned THEN viaRedis + 1 ELSE viaRedis

\* A call reads its clock after the bucket's stamp.
AskedLater ==
  \A q \in Request : call[q].pc = "asked" =>
    shared.ts <= call[q].now /\ call[q].now <= clock + Ahead[call[q].at]

\* Redis has charged the bucket for all that was let through, or will be.
SharedPaid ==
  /\ \A p \in Proxy : shared.ts <= clock + Ahead[p]
  /\ Paid(shared, Spent)
  /\ AskedLater

LEMMA PaidLess ==
  ASSUME Limit!MinuteAssumption, rate \in Nat, NEW b \in Hybrid!Bucket,
         NEW v \in Nat, NEW w \in Nat, w <= v, Paid(b, v)
  PROVE  Paid(b, w)
<1>1. w * Limit!Unit <= v * Limit!Unit /\ w * Limit!Unit \in Nat /\ v * Limit!Unit \in Nat
  BY RefillGrows DEF Limit!MinuteAssumption, Limit!Unit
<1>2. b.tokens \in Nat /\ b.ts \in Nat /\ b.there \in BOOLEAN
  BY DEF Hybrid!Bucket
<1>3. Limit!Capacity(rate) \in Nat /\ b.ts * rate \in Nat
  BY <1>2 DEF Limit!Capacity, Limit!Unit, Limit!MinuteAssumption
<1>. QED  BY <1>1, <1>2, <1>3 DEF Paid

\* A step that leaves Redis alone, and spends no token.
LEMMA RedisIdle ==
  ASSUME Limit!MinuteAssumption, Hybrid!HybridAssumption, HybridInv, HybridInv', SharedPaid,
         shared' = shared, clock <= clock', Spent' <= Spent, AskedLater'
  PROVE  SharedPaid'
<1>1. Spent \in Nat /\ Spent' \in Nat
  <2>1. viaRedis \in Nat /\ viaRedis' \in Nat
    BY DEF HybridInv, HybridTyped
  <2>2. Spent = viaRedis \/ Spent = viaRedis + 1
    BY DEF Spent
  <2>3. Spent' = viaRedis' \/ Spent' = viaRedis' + 1
    BY DEF Spent
  <2>. QED  BY <2>1, <2>2, <2>3
<1>2. Paid(shared, Spent')
  <2>. HIDE DEF Spent
  <2>. QED  BY <1>1, PaidLess DEF SharedPaid, HybridInv, HybridTyped, Hybrid!HybridAssumption
<1>3. \A p \in Proxy : shared.ts <= clock' + Ahead[p]
  BY DEF SharedPaid, HybridInv, HybridTyped, Hybrid!Bucket, Hybrid!HybridAssumption
<1>. QED  BY <1>2, <1>3 DEF SharedPaid, Paid

LEMMA NextShared ==
  ASSUME Limit!MinuteAssumption, Hybrid!HybridAssumption, InOrder, HybridInv, HybridInv',
         SharedPaid, [Hybrid!Next]_(Hybrid!vars)
  PROVE  SharedPaid'
<1>0. /\ clock \in Nat /\ viaRedis \in Nat /\ rate \in Nat
      /\ \A p \in Proxy : Ahead[p] \in Nat
      /\ Hybrid!IdleCall.pc = "idle"
  BY DEF HybridInv, HybridTyped, Hybrid!HybridAssumption, Hybrid!IdleCall
<1>1. ASSUME UNCHANGED <<clock, shared, call, viaRedis>>
      PROVE  SharedPaid'
  BY <1>1 DEF SharedPaid, Paid, Spent, Unreturned, AskedLater
<1>2. ASSUME NEW q \in Request
      PROVE  /\ Unreturned <=> (call[q].pc = "answered" /\ call[q].ok)
             /\ Unreturned' <=> (call'[q].pc = "answered" /\ call'[q].ok)
  BY DEF Unreturned, InOrder
<1>3. ASSUME NEW q \in Request, NEW c, call' = [call EXCEPT ![q] = c]
      PROVE  call'[q] = c /\ call[q] \in Verdicts
  BY <1>3 DEF HybridInv, HybridTyped
<1>4. ASSUME NEW q \in Request, NEW p \in Proxy, Hybrid!Ask(q, p)
      PROVE  SharedPaid'
  <2>. DEFINE c == [pc |-> "asked", at |-> p, now |-> clock + Ahead[p], ok |-> FALSE]
  <2>1. /\ call[q].pc = "idle" /\ call' = [call EXCEPT ![q] = c]
        /\ UNCHANGED <<clock, shared, viaRedis>>
    BY <1>4 DEF Hybrid!Ask, Hybrid!Now
  <2>2. c.pc = "asked" /\ c.at = p /\ c.now = clock + Ahead[p]
    OBVIOUS
  <2>. HIDE DEF c
  <2>3. call'[q] = c
    BY <1>3, <2>1
  <2>4. AskedLater'
    BY <1>0, <2>1, <2>2, <2>3 DEF AskedLater, InOrder, SharedPaid
  <2>5. Spent' <= Spent
    BY <1>0, <1>2, <2>1, <2>2, <2>3 DEF Spent
  <2>. QED  BY <1>0, <2>1, <2>4, <2>5, RedisIdle
<1>5. ASSUME NEW q \in Request, Hybrid!Script(q)
      PROVE  SharedPaid'
  <2>. DEFINE n == call[q].now
              yes == Hybrid!Allowed(shared, n)
              c == [call[q] EXCEPT !.pc = "answered", !.ok = yes]
  <2>1. /\ call[q].pc = "asked" /\ call' = [call EXCEPT ![q] = c]
        /\ shared' = Hybrid!Charged(shared, n)
        /\ UNCHANGED <<clock, viaRedis>>
    BY <1>5 DEF Hybrid!Script
  <2>2. yes \in BOOLEAN
    BY DEF Hybrid!Allowed
  <2>3. n \in Nat /\ shared.ts <= n /\ n <= clock + Ahead[call[q].at] /\ call[q].at \in Proxy
    BY <2>1 DEF SharedPaid, AskedLater, HybridInv, HybridTyped, Verdicts
  <2>4. ~Unreturned /\ Paid(shared, viaRedis)
    BY <1>2, <2>1 DEF SharedPaid, Spent
  <2>5. Sound(shared, n)
    BY <2>3 DEF Sound, HybridInv, HybridTyped
  <2>6. shared'.ts = n /\ Paid(shared', IF yes THEN viaRedis + 1 ELSE viaRedis)
    BY <1>0, <2>1, <2>3, <2>4, <2>5, ChargedPays
  <2>. HIDE DEF yes
  <2>7. c.pc = "answered" /\ c.ok = yes
    BY <1>3, <2>1 DEF Verdicts
  <2>. HIDE DEF c
  <2>8. call'[q] = c
    BY <1>3, <2>1
  <2>9. Unreturned' <=> yes
    BY <1>2, <2>2, <2>7, <2>8
  <2>10. Spent' = IF yes THEN viaRedis + 1 ELSE viaRedis
    BY <2>1, <2>9 DEF Spent
  <2>11. AskedLater'
    BY <2>7, <2>8 DEF AskedLater, InOrder
  <2>12. \A p \in Proxy : n <= clock + Ahead[p]
    BY <2>3 DEF InOrder
  <2>. QED  BY <2>1, <2>6, <2>10, <2>11, <2>12 DEF SharedPaid, Paid
<1>6. ASSUME NEW q \in Request, Hybrid!Timeout(q)
      PROVE  SharedPaid'
  <2>. DEFINE c == [call[q] EXCEPT !.pc = "failed"]
  <2>1. call' = [call EXCEPT ![q] = c] /\ UNCHANGED <<clock, shared, viaRedis>>
    BY <1>6 DEF Hybrid!Timeout
  <2>2. c.pc = "failed"
    BY <1>3, <2>1 DEF Verdicts
  <2>. HIDE DEF c
  <2>3. call'[q] = c
    BY <1>3, <2>1
  <2>4. AskedLater'
    BY <2>2, <2>3 DEF AskedLater, InOrder
  <2>5. Spent' <= Spent
    BY <1>0, <1>2, <2>1, <2>2, <2>3 DEF Spent
  <2>. QED  BY <1>0, <2>1, <2>4, <2>5, RedisIdle
<1>7. ASSUME NEW q \in Request, Hybrid!Success(q)
      PROVE  SharedPaid'
  <2>1. /\ call[q].pc = "answered" /\ call' = [call EXCEPT ![q] = Hybrid!IdleCall]
        /\ viaRedis' = IF call[q].ok THEN viaRedis + 1 ELSE viaRedis
        /\ UNCHANGED <<clock, shared>>
    BY <1>7 DEF Hybrid!Success
  <2>2. call'[q] = Hybrid!IdleCall
    BY <1>3, <2>1
  <2>3. AskedLater'
    BY <1>0, <2>2 DEF AskedLater, InOrder
  <2>4. Spent' = Spent
    BY <1>0, <1>2, <2>1, <2>2 DEF Spent
  <2>5. Spent \in Nat
    BY <1>0 DEF Spent
  <2>. QED  BY <1>0, <2>1, <2>3, <2>4, <2>5, RedisIdle
<1>8. ASSUME NEW q \in Request, Hybrid!Failure(q)
      PROVE  SharedPaid'
  <2>1. /\ call[q].pc = "failed" /\ call' = [call EXCEPT ![q] = Hybrid!IdleCall]
        /\ UNCHANGED <<clock, shared, viaRedis>>
    BY <1>8 DEF Hybrid!Failure
  <2>2. call'[q] = Hybrid!IdleCall
    BY <1>3, <2>1
  <2>3. AskedLater'
    BY <1>0, <2>2 DEF AskedLater, InOrder
  <2>4. Spent' <= Spent
    BY <1>0, <1>2, <2>1, <2>2 DEF Spent
  <2>. QED  BY <1>0, <2>1, <2>3, <2>4, RedisIdle
<1>9. CASE Hybrid!Tick
  <2>1. clock' = clock + 1 /\ UNCHANGED <<shared, call, viaRedis>>
    BY <1>9 DEF Hybrid!Tick
  <2>2. Spent' = Spent /\ Spent \in Nat
    BY <1>0, <2>1 DEF Spent, Unreturned
  <2>3. AskedLater'
    BY <1>0, <2>1 DEF SharedPaid, AskedLater, HybridInv, HybridTyped, Verdicts
  <2>. QED  BY <1>0, <2>1, <2>2, <2>3, RedisIdle
<1>10. ASSUME NEW q \in Request, NEW p \in Proxy, Hybrid!Degraded(q, p)
       PROVE  SharedPaid'
  BY <1>1, <1>10 DEF Hybrid!Degraded
<1>11. CASE Hybrid!Outage \/ Hybrid!Recovery \/ UNCHANGED Hybrid!vars
  BY <1>1, <1>11 DEF Hybrid!Outage, Hybrid!Recovery, Hybrid!vars
<1>. QED
  BY <1>4, <1>5, <1>6, <1>7, <1>8, <1>9, <1>10, <1>11 DEF Hybrid!Next

\* A mesh whose calls reach Redis in the order of their clocks lets through
\* what one bucket holds and no more, and each proxy on its own again as much,
\* whatever is lost with Redis (tokenBucketScript, hybridLimiter.Allow).
THEOREM SharedRateKept ==
  ASSUME Limit!MinuteAssumption, Hybrid!HybridAssumption, InOrder
  PROVE  Hybrid!Spec => []Hybrid!RateKept
<1>1. Hybrid!Init => SharedPaid
  <2>. SUFFICES ASSUME Hybrid!Init PROVE SharedPaid
    OBVIOUS
  <2>1. /\ shared.ts = 0 /\ ~shared.there /\ viaRedis = 0 /\ clock = 0
        /\ \A q \in Request : call[q].pc = "idle"
    BY DEF Hybrid!Init, Hybrid!NoBucket, Hybrid!IdleCall
  <2>2. \A p \in Proxy : Ahead[p] \in Nat
    BY DEF Hybrid!HybridAssumption
  <2>. QED  BY <2>1, <2>2 DEF SharedPaid, Paid, Spent, Unreturned, AskedLater
<1>2. HybridInv /\ HybridInv' /\ SharedPaid /\ [Hybrid!Next]_(Hybrid!vars) => SharedPaid'
  BY NextShared
<1>3. HybridInv /\ SharedPaid => Hybrid!TypeOK /\ Hybrid!SharedCap
  <2>. SUFFICES ASSUME HybridInv, SharedPaid PROVE Hybrid!TypeOK /\ Hybrid!SharedCap
    OBVIOUS
  <2>1. Hybrid!TypeOK
    BY HybridArithmetic DEF Hybrid!TypeOK, HybridInv, HybridTyped, OwnPaid, Sound, Verdicts
  <2>2. PICK p \in Proxy : \A o \in Proxy : Ahead[o] <= Ahead[p]
    BY DEF Hybrid!HybridAssumption
  <2>3. /\ clock \in Nat /\ clock + Ahead[p] \in Nat /\ viaRedis \in Nat /\ rate \in Nat
        /\ Spent \in Nat /\ viaRedis <= Spent
    BY DEF HybridInv, HybridTyped, Hybrid!HybridAssumption, Spent
  <2>4. Sound(shared, clock + Ahead[p]) /\ Paid(shared, viaRedis)
    <3>. HIDE DEF Spent
    <3>. QED  BY <2>3, PaidLess DEF Sound, SharedPaid, HybridInv, HybridTyped
  <2>5. viaRedis * Limit!Unit <= Limit!Capacity(rate) + (clock + Ahead[p]) * rate
    BY <2>3, <2>4, PaidBounds
  <2>6. viaRedis * Limit!Unit \in Nat /\ Limit!Capacity(rate) \in Nat
    BY <2>3 DEF Limit!Unit, Limit!Capacity, Limit!MinuteAssumption
  <2>7. viaRedis * Limit!Unit <= Hybrid!Allowance
    BY <2>3, <2>5, <2>6, AllowanceFurthest
  <2>. QED  BY <2>1, <2>7, HybridArithmetic DEF Hybrid!SharedCap
<1>4. Hybrid!RateKept <=> Hybrid!TypeOK /\ Hybrid!SharedCap /\ Hybrid!OwnCap
  BY DEF Hybrid!RateKept
<1>. QED
  BY <1>1, <1>2, <1>3, <1>4, HybridInductive, NeverFailsOpen, PTL DEF Hybrid!Spec
=============================================================================
