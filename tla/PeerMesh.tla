------------------------------ MODULE PeerMesh ------------------------------
(***************************************************************************)
(* Route sync between peer proxies (cmd/proxy/peersync.go, peermerge.go),  *)
(* for one route.  Every sync interval a proxy pushes the routes it has    *)
(* local backends for; the receiver keeps them in its PeerRouteStore until *)
(* a TTL passes, and lays them over the groups it assembles itself.        *)
(*                                                                         *)
(* refresh() is one step here: Router models how refreshes overlap.        *)
(***************************************************************************)
EXTENDS Naturals, FiniteSets

CONSTANTS
  Host,       \* the proxies of the mesh, all peers of each other
  SvcHosts,   \* hosts whose containers carry the route's proxy.service label
  TTL,        \* PeerRouteStore.ttl in sync intervals (3 in the code)
  MaxEdits,   \* bound: changes of routes, labels and containers
  MaxLoss     \* bound: pushes that get lost

MeshAssumption ==
  /\ SvcHosts \subseteq Host
  /\ TTL \in Nat \ {0}
  /\ MaxEdits \in Nat
  /\ MaxLoss \in Nat

VARIABLES
  owns,     \* hosts whose labels or routes.json define the route
  up,       \* hosts where a container of the route's service runs
  label,    \* hosts with proxy.spread=true on a container of the route
  dirty,    \* hosts with an edit their proxy has not read yet
  learned,  \* PeerRouteStore.routes: what each host holds of each peer
  table,    \* the published RouteGroup of each host
  msgs,     \* pushes in flight
  pushed,   \* hosts that pushed in this sync interval
  edits,    \* changes so far, for MaxEdits
  losses    \* pushes lost so far, for MaxLoss

vars == <<owns, up, label, dirty, learned, table, msgs, pushed, edits, losses>>

\* learnedRoute: the peer, its age in intervals, and its proxy.spread.
Learned == [peer : Host, age : 0 .. TTL + 1, spread : BOOLEAN]

\* RouteGroup: whether there is one, whether it has a local backend, its
\* Learned backends, Spread and SpreadLocal.
Group == [exists : BOOLEAN, local : BOOLEAN, peers : SUBSET Host,
          spread : BOOLEAN, spreadLocal : BOOLEAN]

Push == [from : Host, to : Host, spread : BOOLEAN]

NoGroup == [exists |-> FALSE, local |-> FALSE, peers |-> {},
            spread |-> FALSE, spreadLocal |-> FALSE]

TypeOK ==
  /\ owns \subseteq Host
  /\ up \subseteq Host
  /\ label \subseteq owns
  /\ dirty \subseteq Host
  /\ learned \in [Host -> SUBSET Learned]
  /\ \A h \in Host : \A k, l \in learned[h] : k.peer = l.peer => k = l
  /\ table \in [Host -> Group]
  /\ msgs \subseteq Push
  /\ pushed \subseteq Host
  /\ edits \in 0 .. MaxEdits
  /\ losses \in 0 .. MaxLoss

Init ==
  /\ owns \in SUBSET Host
  /\ up \in SUBSET Host
  /\ label \in SUBSET owns
  /\ dirty = Host
  /\ learned = [h \in Host |-> {}]
  /\ table = [h \in Host |-> NoGroup]
  /\ msgs = {}
  /\ pushed = {}
  /\ edits = 0
  /\ losses = 0

-----------------------------------------------------------------------------
(* What an operator and Docker change (external)                           *)

Edited(h) ==
  /\ edits < MaxEdits
  /\ edits' = edits + 1
  /\ dirty' = dirty \cup {h}
  /\ UNCHANGED <<learned, table, msgs, pushed, losses>>

EditRoute(h) ==
  /\ Edited(h)
  /\ owns' = IF h \in owns THEN owns \ {h} ELSE owns \cup {h}
  /\ label' = label \ {h}
  /\ UNCHANGED up

EditSpread(h) ==
  /\ Edited(h)
  /\ h \in owns
  /\ label' = IF h \in label THEN label \ {h} ELSE label \cup {h}
  /\ UNCHANGED <<owns, up>>

StartStop(h) ==
  /\ Edited(h)
  /\ up' = IF h \in up THEN up \ {h} ELSE up \cup {h}
  /\ UNCHANGED <<owns, label>>

-----------------------------------------------------------------------------
(* refresh(): assembleGroups, PeerRouteStore.overlay, Router.Set           *)

Expired(l) == l.age > TTL

Live(h) == {l \in learned[h] : ~Expired(l)}

\* PeerRouteStore.overlay over the host's own group.  A group only a peer knows
\* is synthesized and backfilled with this host's containers of the service.
\* Spread is adopted from a live advertisement; SpreadLocal never is.
overlay(h, live) ==
  [exists      |-> h \in owns \/ live # {},
   local       |-> h \in up /\ (h \in owns \/ (live # {} /\ h \in SvcHosts)),
   peers       |-> {l.peer : l \in live},
   spread      |-> h \in label \/ \E l \in live : l.spread,
   spreadLocal |-> h \in label]

\* Expired entries are evicted while overlaying.
refresh(h, store) ==
  LET live == {l \in store : ~Expired(l)} IN
  /\ learned' = [learned EXCEPT ![h] = live]
  /\ table' = [table EXCEPT ![h] = overlay(h, live)]
  /\ dirty' = dirty \ {h}

\* A Docker event or the dashboard's /refresh after an edit.
Refresh(h) ==
  /\ h \in dirty
  /\ refresh(h, learned[h])
  /\ UNCHANGED <<owns, up, label, msgs, pushed, edits, losses>>

\* PeerRouteStore.hasExpired
hasExpired(h) == \E l \in learned[h] : Expired(l)

\* The TTL ticker of main refreshes only when an entry is past its TTL.
ExpiryTick(h) ==
  /\ hasExpired(h)
  /\ refresh(h, learned[h])
  /\ UNCHANGED <<owns, up, label, msgs, pushed, edits, losses>>

-----------------------------------------------------------------------------
(* Pushing                                                                 *)

\* Mutant: the adopted flag is advertised.
buildPeerPayloadAdopted(h, p) ==
  [from |-> h, to |-> p, spread |-> table[h].spread]

\* buildPeerPayload: the route as this host advertises it.
buildPeerPayload(h, p) == [from |-> h, to |-> p, spread |-> table[h].spreadLocal]

\* PeerSync.tick: a group without local backends is not advertised, and with
\* nothing to advertise nothing is sent.
PushRoutes(h) ==
  /\ h \notin pushed
  /\ pushed' = pushed \cup {h}
  /\ msgs' = IF table[h].local
             THEN msgs \cup {buildPeerPayload(h, p) : p \in Host \ {h}}
             ELSE msgs
  /\ UNCHANGED <<owns, up, label, dirty, learned, table, edits, losses>>

\* What PeerRouteStore.merge reports: a new route or peer, or a flipped spread.
mergeChanged(h, msg) ==
  ~\E l \in learned[h] : l.peer = msg.from /\ l.spread = msg.spread

\* PeerRouteStore.merge: the sender's entry is replaced, its age starts again.
merge(h, msg) ==
  {l \in learned[h] : l.peer # msg.from}
    \cup {[peer |-> msg.from, age |-> 0, spread |-> msg.spread]}

\* peerRoutesHandler: merge, and refresh only on a change.
PeerRoutes(msg) ==
  /\ msg \in msgs
  /\ msgs' = msgs \ {msg}
  /\ IF mergeChanged(msg.to, msg)
     THEN refresh(msg.to, merge(msg.to, msg))
     ELSE /\ learned' = [learned EXCEPT ![msg.to] = merge(msg.to, msg)]
          /\ UNCHANGED <<table, dirty>>
  /\ UNCHANGED <<owns, up, label, pushed, edits, losses>>

\* PeerSync.send fails silently.
Lose(msg) ==
  /\ msg \in msgs
  /\ losses < MaxLoss
  /\ losses' = losses + 1
  /\ msgs' = msgs \ {msg}
  /\ UNCHANGED <<owns, up, label, dirty, learned, table, pushed, edits>>

\* One sync interval passes.
Interval ==
  /\ pushed' = {}
  /\ learned' = [h \in Host |->
       {[l EXCEPT !.age = IF l.age > TTL THEN l.age ELSE l.age + 1] : l \in learned[h]}]
  /\ UNCHANGED <<owns, up, label, dirty, table, msgs, edits, losses>>

-----------------------------------------------------------------------------
Next ==
  \/ \E h \in Host :
       \/ EditRoute(h) \/ EditSpread(h) \/ StartStop(h)
       \/ Refresh(h) \/ ExpiryTick(h) \/ PushRoutes(h)
  \/ \E msg \in msgs : PeerRoutes(msg) \/ Lose(msg)
  \/ Interval

Spec == Init /\ [][Next]_vars

\* Tickers fire, edits are read, and a push that is not lost arrives.
Fairness ==
  /\ \A h \in Host : WF_vars(Refresh(h)) /\ WF_vars(ExpiryTick(h)) /\ WF_vars(PushRoutes(h))
  /\ \A msg \in Push : WF_vars(PeerRoutes(msg))
  /\ WF_vars(Interval)

LiveSpec == Spec /\ Fairness

-----------------------------------------------------------------------------
(* Properties                                                              *)

Unowned == owns = {}
Forgotten == \A h \in Host : ~table[h].exists

\* A route that no host defines any more leaves every table: the entries of the
\* peers age out, and the anti-recycling filter of PeerSync.tick keeps learned
\* routes from being advertised back.
RouteForgotten == []<>(Unowned => Forgotten)

\* Once no label anywhere asks for spread, no group stays spread: what was
\* adopted from a peer is never advertised back.
Unlabelled == label = {}
Unspread == \A h \in Host : ~table[h].spread
SpreadClears == []<>(Unlabelled => Unspread)

\* A route that stays defined and served on a host is again and again a backend
\* on every other, whatever pushes were lost before.
KnownTo(h, p) == h # p /\ h \in owns \cap up => h \in table[p].peers
RouteLearned == \A h, p \in Host : []<>KnownTo(h, p)

\* Published groups and the store never drift apart, although most pushes
\* refresh nothing: every live advertisement is a backend of the group, and its
\* spread is in force; every learned backend has an entry, live or not yet
\* evicted.
TableMatchesStore ==
  TypeOK /\ \A h \in Host : h \notin dirty =>
    /\ {l.peer : l \in Live(h)} \subseteq table[h].peers
    /\ table[h].peers \subseteq {l.peer : l \in learned[h]}
    /\ \A l \in Live(h) : l.spread => table[h].spread
=============================================================================
