-------------------------- MODULE LabelStoreProofs --------------------------
(***************************************************************************)
(* Proofs about the centrally managed labels for any hosts, services,      *)
(* edits, failures and restarts: what a copy of them, an if_version and a  *)
(* request_id are worth, and what survives a loss of Redis's data.         *)
(***************************************************************************)
EXTENDS LabelStore, FiniteSetTheorems, TLAPS

-----------------------------------------------------------------------------
(* Types                                                                   *)

Overlays == [src : {"none", "redis", "disk"}, ver : Nat, svcs : Maps]
Snapshots == [there : BOOLEAN, ver : Nat, svcs : Maps, wiped : BOOLEAN]
Checks == [pc : {"free", "load", "index", "data"}, by : Edit \cup {Poll}, ver : Nat,
           members : SUBSET Service]
Requests == [pc : Phases, host : Host \cup {"none"}, svc : Service \cup {"none"}, ifv : Nat,
             seen : Labels, todo : Maps, init : BOOLEAN, next : Labels]

RedisTyped ==
  /\ global \in Nat
  /\ rec \in [Service -> [ver : Nat, val : Labels]]
  /\ applied \in [Edit -> Nat]

CopiesTyped ==
  /\ ov \in [Host -> Overlays]
  /\ disk \in [Host -> Overlays] /\ \A h \in Host : disk[h].src # "redis"
  /\ pcheck \in [Host -> Checks]
  /\ snap \in [Host -> Snapshots]
  /\ dcheck \in [Host -> Checks] /\ \A h \in Host : dcheck[h].pc # "load"
  /\ known \subseteq Service

BoundsKept == wipes \in 0 .. MaxWipes /\ faults \in 0 .. MaxFaults

\* A request that has begun is about a service; the check that holds the mutex
\* of a dashboard is a poll, or the one that a request of this host waits for.
RequestsTyped ==
  /\ req \in [Edit -> Requests]
  /\ \A c \in Edit : req[c].pc # "idle" => req[c].svc \in Service /\ req[c].host \in Host
  /\ \A h \in Host : dcheck[h].pc # "free" /\ dcheck[h].by # Poll =>
       req[dcheck[h].by].host = h /\ req[dcheck[h].by].pc \in {"refresh", "reseeded"}

Typed == RedisTyped /\ CopiesTyped /\ BoundsKept /\ RequestsTyped

-----------------------------------------------------------------------------
(* The inductive invariants                                                *)

\* A version read before the data is never ahead of Redis, and a copy that is not
\* behind was read after the last write.
CopiesBehind ==
  wipes = 0 => \A h \in Host :
    /\ \A k \in {pcheck[h], dcheck[h]} :
         /\ k.pc \in {"index", "data"} => k.ver <= global
         /\ k.pc = "data" /\ k.ver = global => k.members = Adopted
    /\ ov[h].src = "redis" =>
         ov[h].ver <= global /\ (ov[h].ver = global /\ global > 0 => ov[h].svcs = Contents)
    /\ snap[h].there /\ ~snap[h].wiped =>
         snap[h].ver <= global /\ (snap[h].ver = global /\ global > 0 => snap[h].svcs = Contents)

\* What the author of an edit looked at was in Redis, and still is if the version is.
SeenWasThere ==
  wipes = 0 => \A c \in Edit : req[c].pc # "idle" =>
    /\ req[c].ifv <= rec[req[c].svc].ver
    /\ req[c].ifv = rec[req[c].svc].ver => req[c].seen = rec[req[c].svc].val

\* The cache file holds what the proxy routes on; nothing is loaded, by a proxy or
\* by a dashboard, while the counter is missing.
DiskIsOverlay ==
  /\ \A h \in Host : ov[h].svcs = disk[h].svcs
  /\ global = 0 => \A h \in Host : pcheck[h].pc \notin {"index", "data"}

\* Each place of the ring of a service is an edit of its own that was written to
\* it.  An edit is forgotten only by a full ring.
RingTyped ==
  /\ ring \in [Service -> Seq(Edit \X Nat)]
  /\ \A s \in Service : Len(ring[s]) <= ringSize

RingHonest ==
  wipes = 0 =>
    /\ \A s \in Service : \A i \in DOMAIN ring[s] :
         /\ req[ring[s][i][1]].pc # "idle" /\ req[ring[s][i][1]].svc = s
         /\ applied[ring[s][i][1]] > 0
         /\ \A j \in DOMAIN ring[s] : ring[s][i][1] = ring[s][j][1] => i = j
    /\ \A c \in Edit : applied[c] > 0 =>
         /\ req[c].pc \notin {"idle", "seed", "seeding"} /\ global > 0
         /\ Replayed(req[c].svc, c) \/ Len(ring[req[c].svc]) = ringSize
         /\ req[c].pc = "refused" => ~Replayed(req[c].svc, c)

\* The services a proxy is about to take over are in Redis, and before the first
\* loss all that were taken over are.
LoadedIsAdopted ==
  /\ \A h \in Host : pcheck[h].pc = "data" => pcheck[h].members \subseteq Adopted
  /\ wipes = 0 => known \subseteq Adopted

\* The overlay of a lone proxy has every service it ever took over, until the
\* counter is back after the first loss.
OverlayHasAll ==
  OneHost => \A h \in Host :
    /\ wipes = 0 /\ pcheck[h].pc = "data" => known \subseteq pcheck[h].members
    /\ wipes = 0 \/ (wipes = 1 /\ global = 0) => known \subseteq DOMAIN ov[h].svcs

Missing == known \ Adopted

\* After the first loss, a request that may create the counter has everything that
\* is missing on its list; once the counter is back, some reseed has.
ReseedHasAll ==
  OneHost /\ wipes = 1 /\ faults = 0 =>
    /\ global = 0 => \A c \in Edit :
         /\ req[c].pc = "seeding" => Missing \subseteq DOMAIN req[c].todo
         /\ req[c].init /\ req[c].pc # "seeding" => Missing = {}
    /\ global > 0 /\ Missing # {} =>
         \E c \in Edit : req[c].pc = "seeding" /\ Missing \subseteq DOMAIN req[c].todo

-----------------------------------------------------------------------------
(* Maps and types                                                          *)

LEMMA MapsOK ==
  /\ NoMap \in Maps
  /\ \A D \in SUBSET Service : [D -> Labels] \subseteq Maps
  /\ \A f \in Maps : DOMAIN f \subseteq Service /\ \A s \in DOMAIN f : f[s] \in Labels
  /\ \A f \in Maps : f = NoMap <=> DOMAIN f = {}
<1>1. \A D \in SUBSET Service : [D -> Labels] \subseteq Maps
  BY DEF Maps
<1>2. NoMap \in [{} -> Labels]
  BY DEF NoMap
<1>3. NoMap \in Maps
  BY <1>1, <1>2
<1>4. ASSUME NEW f \in Maps
      PROVE  /\ DOMAIN f \subseteq Service /\ \A s \in DOMAIN f : f[s] \in Labels
             /\ f = NoMap <=> DOMAIN f = {}
  <2>1. PICK D \in SUBSET Service : f \in [D -> Labels]
    BY DEF Maps
  <2> QED
    BY <2>1 DEF NoMap
<1> QED
  BY <1>1, <1>3, <1>4

\* A map over services, each with the labels of its record.
LEMMA ContentIsMap ==
  ASSUME RedisTyped, NEW D \in SUBSET Service
  PROVE  [s \in D |-> rec[s].val] \in Maps
BY MapsOK DEF RedisTyped

LEMMA InitTyped == Init => Typed
<1> SUFFICES ASSUME Init PROVE Typed
  OBVIOUS
<1> USE LabelAssumption, MapsOK DEF LabelAssumption, Init
<1>1. RedisTyped /\ BoundsKept
  BY DEF RedisTyped, BoundsKept, Labels
<1>2. CopiesTyped
  BY DEF CopiesTyped, NoOverlay, NoSnapshot, Unlocked, Overlays, Snapshots, Checks, Poll
<1>3. RequestsTyped
  BY DEF RequestsTyped, NoRequest, Unlocked, Requests, Phases, Labels
<1> QED
  BY <1>1, <1>2, <1>3 DEF Typed

-----------------------------------------------------------------------------
(* What a step changes                                                     *)

\* A step of an edit leaves the copies alone.
LEMMA EditFrame ==
  ASSUME NEW c \in Edit, EditNext(c)
  PROVE  UNCHANGED <<proxy, dash, known, wipes>> /\ (Fault \/ faults' = faults)
<1>1. ASSUME NEW s \in Service, SeedOne(c, s)
      PROVE  UNCHANGED <<proxy, dash, known, wipes, faults>>
  BY <1>1 DEF SeedOne
<1>2. ASSUME NEW h \in Host, NEW s \in Service, Look(c, h, s)
      PROVE  UNCHANGED <<proxy, dash, known, wipes, faults>>
  BY <1>2 DEF Look
<1>3. CASE Begin(c) \/ Seed(c) \/ Get(c) \/ Write(c) \/ Retry(c)
  BY <1>3 DEF Begin, Seed, Get, Write, Retry
<1>4. CASE SeedBlind(c) \/ SeedFails(c) \/ WriteUnanswered(c)
  BY <1>4 DEF SeedBlind, SeedFails, WriteUnanswered
<1> QED
  BY <1>1, <1>2, <1>3, <1>4 DEF EditNext

\* A step of a dashboard's check leaves Redis and the proxies alone, one of a
\* proxy Redis, the dashboards and the edits.
LEMMA DashFrame ==
  ASSUME NEW h \in Host, DashNext(h)
  PROVE  UNCHANGED <<redis, proxy, known, wipes>> /\ (Fault \/ faults' = faults)
<1>1. ASSUME NEW who \in Edit \cup {Poll}, CheckVersion(h, who)
      PROVE  UNCHANGED <<redis, proxy, known, wipes, faults>>
  BY <1>1 DEF CheckVersion
<1>2. CASE LoadIndex(h) \/ LoadSnapshot(h)
  BY <1>2 DEF LoadIndex, LoadSnapshot
<1>3. CASE CheckFails(h) \/ DashboardRestarts(h)
  BY <1>3 DEF CheckFails, DashboardRestarts
<1> QED
  BY <1>1, <1>2, <1>3 DEF DashNext

LEMMA ProxyFrame ==
  ASSUME NEW h \in Host, ProxyNext(h)
  PROVE  UNCHANGED <<redis, dash, req, wipes>> /\ (Fault \/ faults' = faults)
<1>1. CASE ProxyVersion(h) \/ ProxyLoadVersion(h) \/ ProxyLoadIndex(h) \/ ProxyLoad(h)
  BY <1>1 DEF ProxyVersion, ProxyLoadVersion, ProxyLoadIndex, ProxyLoad
<1>2. CASE ProxyCheckFails(h) \/ ProxyRestarts(h)
  BY <1>2 DEF ProxyCheckFails, ProxyRestarts
<1> QED
  BY <1>1, <1>2 DEF ProxyNext

\* An edit writes one record and counts it, or nothing; by its own write it is
\* applied, by the writes of its reseed nothing is.
LEMMA EditWrites ==
  ASSUME Typed, NEW c \in Edit, EditNext(c)
  PROVE  \/ UNCHANGED redis
         \/ /\ req[c].pc \in {"write", "replay"} /\ req[c].svc \in Service
            /\ ~Replayed(req[c].svc, c) /\ Accepts(req[c].svc, req[c].ifv, req[c].init)
            /\ req[c].next \in Labels /\ Store(req[c].svc, req[c].next)
            /\ ring' = [ring EXCEPT ![req[c].svc] =
                          Newest(Append(ring[req[c].svc], <<c, rec[req[c].svc].ver + 1>>))]
            /\ applied' = [applied EXCEPT ![c] = applied[c] + 1]
         \/ /\ req[c].pc = "seeding"
            /\ UNCHANGED <<ring, applied>>
            /\ \E s \in DOMAIN req[c].todo :
                 /\ s \in Service /\ rec[s].ver = 0 /\ req[c].todo[s] \in Labels
                 /\ Store(s, req[c].todo[s]) /\ SeedOne(c, s)
<1>1. CASE Write(c) \/ WriteUnanswered(c)
  <2>1. req[c].pc \in {"write", "replay"} /\ (Script(c) \/ UNCHANGED redis)
    BY <1>1 DEF Write, WriteUnanswered
  <2>2. req[c].svc \in Service /\ req[c].next \in Labels
    BY <2>1 DEF Typed, RequestsTyped, Requests
  <2> QED
    BY <2>1, <2>2 DEF Script
<1>2. ASSUME NEW s \in Service, SeedOne(c, s), ~UNCHANGED redis
      PROVE  /\ req[c].pc = "seeding" /\ UNCHANGED <<ring, applied>>
             /\ s \in DOMAIN req[c].todo /\ rec[s].ver = 0 /\ req[c].todo[s] \in Labels
             /\ Store(s, req[c].todo[s])
  <2>1. /\ req[c].pc = "seeding" /\ s \in DOMAIN req[c].todo
        /\ IF rec[s].ver = 0
           THEN Store(s, req[c].todo[s]) /\ UNCHANGED <<ring, applied>>
           ELSE UNCHANGED redis
    BY <1>2 DEF SeedOne
  <2>2. req[c].todo[s] \in Labels
    BY <2>1, MapsOK DEF Typed, RequestsTyped, Requests
  <2> QED
    BY <1>2, <2>1, <2>2
<1>3. ASSUME NEW h \in Host, NEW s \in Service, Look(c, h, s) PROVE UNCHANGED redis
  BY <1>3 DEF Look
<1>4. CASE Begin(c) \/ Seed(c) \/ SeedBlind(c) \/ SeedFails(c) \/ Get(c) \/ Retry(c)
  BY <1>4 DEF Begin, Seed, SeedBlind, SeedFails, Get, Retry
<1> QED
  BY <1>1, <1>2, <1>3, <1>4 DEF EditNext

-----------------------------------------------------------------------------
(* Type correctness                                                        *)

LEMMA NextRedisTyped == ASSUME Typed, [Next]_vars PROVE RedisTyped'
<1> USE DEF Typed, RedisTyped
<1>1. ASSUME NEW c \in Edit, EditNext(c) PROVE RedisTyped'
  <2>1. ASSUME NEW s \in Service, NEW labels \in Labels, Store(s, labels)
        PROVE  global' \in Nat /\ rec' \in [Service -> [ver : Nat, val : Labels]]
    BY <2>1 DEF Store
  <2>2. UNCHANGED redis => RedisTyped'
    BY DEF redis
  <2>3. applied' = [applied EXCEPT ![c] = applied[c] + 1] => applied' \in [Edit -> Nat]
    OBVIOUS
  <2>4. CASE UNCHANGED redis
    BY <2>2, <2>4
  <2>5. CASE ~UNCHANGED redis
    <3>1. PICK s \in Service, labels \in Labels : Store(s, labels)
      BY <1>1, <2>5, EditWrites
    <3>2. UNCHANGED applied \/ applied' = [applied EXCEPT ![c] = applied[c] + 1]
      BY <1>1, <2>5, EditWrites
    <3> QED
      BY <2>1, <2>3, <3>1, <3>2
  <2> QED
    BY <2>4, <2>5
<1>2. CASE Wipe
  BY <1>2 DEF Wipe, Labels
<1>3. CASE UNCHANGED redis
  BY <1>3 DEF redis
<1> QED
  BY <1>1, <1>2, <1>3, DashFrame, ProxyFrame DEF Next, vars

LEMMA NextBounds == ASSUME Typed, [Next]_vars PROVE BoundsKept'
<1>1. wipes' = wipes \/ (wipes' = wipes + 1 /\ wipes < MaxWipes)
  <2>1. CASE Wipe
    BY <2>1 DEF Wipe
  <2>2. CASE ~Wipe
    <3>1. wipes' = wipes
      BY <2>2, EditFrame, DashFrame, ProxyFrame DEF Next, vars
    <3> QED
      BY <3>1
  <2> QED
    BY <2>1, <2>2
<1>2. Fault \/ faults' = faults
  BY EditFrame, DashFrame, ProxyFrame DEF Next, vars, Wipe
<1> QED
  BY <1>1, <1>2, LabelAssumption DEF LabelAssumption, Typed, BoundsKept, Fault

LEMMA NextCopiesTyped == ASSUME Typed, [Next]_vars PROVE CopiesTyped'
<1> USE MapsOK DEF Typed, CopiesTyped
<1>1. CASE UNCHANGED <<proxy, dash, known>>
  BY <1>1 DEF proxy, dash
<1>2. ASSUME NEW h \in Host, DashNext(h)
      PROVE  /\ snap' \in [Host -> Snapshots] /\ dcheck' \in [Host -> Checks]
             /\ \A g \in Host : dcheck'[g].pc # "load"
  <2>1. ASSUME NEW x \in Snapshots, NEW y \in Checks, y.pc # "load",
               snap' = snap \/ snap' = [snap EXCEPT ![h] = x],
               dcheck' = dcheck \/ dcheck' = [dcheck EXCEPT ![h] = y]
        PROVE  /\ snap' \in [Host -> Snapshots] /\ dcheck' \in [Host -> Checks]
               /\ \A g \in Host : dcheck'[g].pc # "load"
    BY <2>1
  <2>2. Unlocked \in Checks /\ Unlocked.pc = "free" /\ NoSnapshot \in Snapshots
    BY DEF Unlocked, Checks, Poll, NoSnapshot, Snapshots
  <2>3. ASSUME NEW who \in Edit \cup {Poll}, CheckVersion(h, who)
        PROVE  \E x \in Snapshots, y \in Checks :
                 /\ y.pc # "load"
                 /\ snap' = snap \/ snap' = [snap EXCEPT ![h] = x]
                 /\ dcheck' = dcheck \/ dcheck' = [dcheck EXCEPT ![h] = y]
    <3>1. KeepSnapshot(snap[h]) \in Snapshots
      <4>1. snap[h] \in Snapshots
        OBVIOUS
      <4> QED
        BY <4>1 DEF KeepSnapshot, NoSnapshot, Snapshots
    <3>2. [pc |-> "index", by |-> who, ver |-> global, members |-> {}] \in Checks
      BY DEF Checks, RedisTyped
    <3> QED
      BY <2>3, <3>1, <3>2 DEF CheckVersion
  <2>4. CASE LoadIndex(h)
    <3>1. [dcheck[h] EXCEPT !.pc = "data", !.members = Adopted] \in Checks
      BY DEF Checks, Adopted
    <3>2. dcheck' = [dcheck EXCEPT ![h] = [dcheck[h] EXCEPT !.pc = "data", !.members = Adopted]]
      BY <2>4 DEF LoadIndex, Checks
    <3> QED
      BY <2>4, <3>1, <3>2 DEF LoadIndex, Checks
  <2>5. CASE LoadSnapshot(h)
    <3>1. [there |-> TRUE, ver |-> dcheck[h].ver,
           svcs |-> [s \in dcheck[h].members |-> rec[s].val], wiped |-> FALSE] \in Snapshots
      BY ContentIsMap DEF Checks, Snapshots
    <3> QED
      BY <2>2, <2>5, <3>1 DEF LoadSnapshot
  <2>6. CASE CheckFails(h)
    BY <2>2, <2>6 DEF CheckFails
  <2>7. CASE DashboardRestarts(h)
    BY <2>2, <2>7 DEF DashboardRestarts
  <2> QED
    BY <1>2, <2>1, <2>3, <2>4, <2>5, <2>6, <2>7 DEF DashNext
<1>3. ASSUME NEW h \in Host, ProxyNext(h)
      PROVE  /\ ov' \in [Host -> Overlays] /\ pcheck' \in [Host -> Checks]
             /\ disk' \in [Host -> Overlays] /\ \A g \in Host : disk'[g].src # "redis"
             /\ known' \subseteq Service
  <2>1. Unlocked \in Checks /\ Unlocked.pc = "free"
    BY DEF Unlocked, Checks, Poll
  <2>2. handleWiped(ov[h]) \in Overlays
    <3>1. ov[h] \in Overlays
      OBVIOUS
    <3> QED
      BY <3>1 DEF handleWiped, NoOverlay, Overlays
  <2>4. CASE ProxyVersion(h) \/ ProxyLoadVersion(h) \/ ProxyLoadIndex(h)
    <3>1. pcheck' \in [Host -> Checks]
      <4>1. /\ [pcheck[h] EXCEPT !.pc = "load"] \in Checks
            /\ [pcheck[h] EXCEPT !.pc = "index", !.ver = global] \in Checks
            /\ [pcheck[h] EXCEPT !.pc = "data", !.members = Adopted] \in Checks
        <5>1. pcheck[h] \in Checks /\ Adopted \subseteq Service /\ global \in Nat
          BY DEF Adopted, RedisTyped
        <5> QED
          BY <5>1 DEF Checks
      <4>2. \E x \in Checks : pcheck' = pcheck \/ pcheck' = [pcheck EXCEPT ![h] = x]
        BY <2>1, <2>4, <4>1 DEF ProxyVersion, ProxyLoadVersion, ProxyLoadIndex
      <4> QED
        BY <4>2
    <3>2. ov' \in [Host -> Overlays] /\ UNCHANGED <<disk, known>>
      BY <2>2, <2>4 DEF ProxyVersion, ProxyLoadVersion, ProxyLoadIndex
    <3> QED
      BY <3>1, <3>2
  <2>5. CASE ProxyLoad(h)
    <3>1. /\ [s \in pcheck[h].members |-> rec[s].val] \in Maps
          /\ pcheck[h].ver \in Nat /\ pcheck[h].members \subseteq Service
      BY ContentIsMap DEF Checks
    <3> DEFINE o == [src |-> "redis", ver |-> pcheck[h].ver,
                     svcs |-> [s \in pcheck[h].members |-> rec[s].val]]
    <3>2. o \in Overlays /\ [o EXCEPT !.src = "disk"] \in Overlays /\ [o EXCEPT !.src = "disk"].src = "disk"
      BY <3>1 DEF Overlays
    <3>3. /\ ov' = [ov EXCEPT ![h] = o] /\ disk' = [disk EXCEPT ![h] = [o EXCEPT !.src = "disk"]]
          /\ pcheck' = [pcheck EXCEPT ![h] = Unlocked] /\ known' = known \cup pcheck[h].members
      BY <2>5 DEF ProxyLoad
    <3> HIDE DEF o
    <3> QED
      BY <2>1, <3>1, <3>2, <3>3
  <2>6. CASE ProxyCheckFails(h) \/ ProxyRestarts(h)
    BY <2>1, <2>6 DEF ProxyCheckFails, ProxyRestarts
  <2> QED
    BY <1>3, <2>4, <2>5, <2>6 DEF ProxyNext
<1> QED
  BY <1>1, <1>2, <1>3, EditFrame, DashFrame, ProxyFrame DEF Next, vars, Wipe, proxy, dash

\* What a step does to the requests of the edits.
LEMMA NextRequestsTyped == ASSUME Typed, [Next]_vars PROVE RequestsTyped'
<1> USE MapsOK
<1>0. /\ req \in [Edit -> Requests] /\ global \in Nat
      /\ rec \in [Service -> [ver : Nat, val : Labels]]
      /\ dcheck \in [Host -> Checks] /\ snap \in [Host -> Snapshots] /\ ov \in [Host -> Overlays]
  BY DEF Typed, RequestsTyped, CopiesTyped, RedisTyped
<1>1. ASSUME NEW c \in Edit, EditNext(c) PROVE RequestsTyped'
  <2>1. dcheck' = dcheck
    BY <1>1, EditFrame DEF dash
  <2>2. ASSUME NEW r \in Requests, req' = [req EXCEPT ![c] = r],
               r.pc # "idle" => r.svc \in Service /\ r.host \in Host,
               req[c].pc \notin {"refresh", "reseeded"}
        PROVE  RequestsTyped'
    <3>1. req' \in [Edit -> Requests] /\ \A d \in Edit : req'[d] = IF d = c THEN r ELSE req[d]
      BY <1>0, <2>2
    <3>2. \A h \in Host : dcheck[h].by # Poll => dcheck[h].by \in Edit
      BY <1>0 DEF Checks
    <3> QED
      BY <2>1, <2>2, <3>1, <3>2 DEF Typed, RequestsTyped
  <2>3. req[c] \in Requests
    BY <1>0
  <2>4. ASSUME NEW h \in Host, NEW s \in Service, Look(c, h, s) PROVE RequestsTyped'
    <3> DEFINE r == [NoRequest(c) EXCEPT !.pc = "ready", !.host = h,
                       !.svc = s, !.ifv = rec[s].ver, !.seen = rec[s].val]
    <3>1. r \in Requests /\ r.svc = s /\ r.host = h
      BY <1>0 DEF NoRequest, Requests, Phases, Labels
    <3>2. req' = [req EXCEPT ![c] = r] /\ req[c].pc = "idle"
      BY <2>4 DEF Look
    <3> HIDE DEF r
    <3> QED
      BY <2>2, <3>1, <3>2
  <2>5. ASSUME req[c].pc \notin {"idle", "refresh", "reseeded"},
               NEW r \in Requests, r.svc = req[c].svc, r.host = req[c].host,
               req' = [req EXCEPT ![c] = r]
        PROVE  RequestsTyped'
    <3>1. req[c].svc \in Service /\ req[c].host \in Host
      BY <2>5 DEF Typed, RequestsTyped
    <3> QED
      BY <2>2, <2>5, <3>1
  <2>6. ASSUME NEW pc \in Phases
        PROVE  LET r == [req[c] EXCEPT !.pc = pc] IN
               r \in Requests /\ r.svc = req[c].svc /\ r.host = req[c].host
    BY <2>3 DEF Requests
  <2>7. ASSUME NEW pc \in Phases, NEW init \in BOOLEAN
        PROVE  LET r == [req[c] EXCEPT !.pc = pc, !.init = init] IN
               r \in Requests /\ r.svc = req[c].svc /\ r.host = req[c].host
    BY <2>3 DEF Requests
  <2>8. ASSUME NEW pc \in Phases, NEW todo \in Maps
        PROVE  LET r == [req[c] EXCEPT !.pc = pc, !.todo = todo] IN
               r \in Requests /\ r.svc = req[c].svc /\ r.host = req[c].host
    BY <2>3 DEF Requests
  <2>9. {"ready", "seed", "seeding", "reseeded", "get", "write",
         "replay", "refresh", "unknown", "refused", "done"} \subseteq Phases
    BY DEF Phases
  <2>10. CASE Begin(c)
    <3>1. \E pc \in Phases, init \in BOOLEAN :
            req' = [req EXCEPT ![c] = [req[c] EXCEPT !.pc = pc, !.init = init]]
      BY <2>9, <2>10 DEF Begin
    <3> QED
      BY <2>5, <2>7, <2>10, <3>1 DEF Begin
  <2>11. CASE Seed(c) \/ SeedBlind(c)
    <3>1. req[c].host \in Host /\ req[c].pc = "seed"
      BY <2>11 DEF Seed, SeedBlind, Typed, RequestsTyped
    <3>2. ov[req[c].host].svcs \in Maps /\ snap[req[c].host].svcs \in Maps
      BY <1>0, <3>1 DEF Overlays, Snapshots
    <3>3. \/ \E todo \in Maps :
               req' = [req EXCEPT ![c] = [req[c] EXCEPT !.pc = "seeding", !.todo = todo]]
          \/ req' = [req EXCEPT ![c] = [req[c] EXCEPT !.pc = "get", !.init = TRUE]]
          \/ req' = [req EXCEPT ![c] = [req[c] EXCEPT !.pc = "refused"]]
      BY <2>11, <3>2 DEF Seed, SeedBlind
    <3>4. CASE \E todo \in Maps :
                 req' = [req EXCEPT ![c] = [req[c] EXCEPT !.pc = "seeding", !.todo = todo]]
      BY <2>5, <2>8, <2>9, <3>1, <3>4
    <3>5. CASE req' = [req EXCEPT ![c] = [req[c] EXCEPT !.pc = "get", !.init = TRUE]]
      BY <2>5, <2>7, <2>9, <3>1, <3>5
    <3>6. CASE req' = [req EXCEPT ![c] = [req[c] EXCEPT !.pc = "refused"]]
      BY <2>5, <2>6, <2>9, <3>1, <3>6
    <3> QED
      BY <3>3, <3>4, <3>5, <3>6
  <2>12. ASSUME NEW s \in Service, SeedOne(c, s) PROVE RequestsTyped'
    <3> DEFINE rest == [t \in DOMAIN req[c].todo \ {s} |-> req[c].todo[t]]
    <3>1. rest \in Maps
      <4>1. req[c].todo \in Maps
        BY <2>3 DEF Requests
      <4>2. DOMAIN req[c].todo \ {s} \in SUBSET Service
        BY <4>1
      <4>3. rest \in [DOMAIN req[c].todo \ {s} -> Labels]
        BY <4>1
      <4> QED
        BY <4>2, <4>3
    <3>2. \E pc \in Phases :
            req' = [req EXCEPT ![c] = [req[c] EXCEPT !.todo = rest, !.init = TRUE, !.pc = pc]]
      BY <2>9, <2>12 DEF SeedOne
    <3> HIDE DEF rest
    <3>3. ASSUME NEW pc \in Phases
          PROVE  LET r == [req[c] EXCEPT !.todo = rest, !.init = TRUE, !.pc = pc] IN
                 r \in Requests /\ r.svc = req[c].svc /\ r.host = req[c].host
      BY <2>3, <3>1 DEF Requests
    <3> QED
      BY <2>5, <2>12, <3>2, <3>3 DEF SeedOne
  <2>13. CASE SeedFails(c) \/ WriteUnanswered(c) \/ Retry(c)
    <3>1. \E pc \in Phases : req' = [req EXCEPT ![c] = [req[c] EXCEPT !.pc = pc]]
      BY <2>9, <2>13 DEF SeedFails, WriteUnanswered, Retry, Goto
    <3> QED
      BY <2>5, <2>6, <2>13, <3>1 DEF SeedFails, WriteUnanswered, Retry
  <2>14. CASE Get(c)
    <3>1. rec[req[c].svc].val \in Labels /\ rec[req[c].svc].val \cup {c} \in Labels
      BY <1>0, <2>14 DEF Get, Typed, RequestsTyped, Labels
    <3>2. \/ \E pc \in Phases : req' = [req EXCEPT ![c] = [req[c] EXCEPT !.pc = pc]]
          \/ \E next \in Labels :
               req' = [req EXCEPT ![c] = [req[c] EXCEPT !.pc = "replay", !.next = next, !.init = FALSE]]
          \/ \E next \in Labels :
               req' = [req EXCEPT ![c] = [req[c] EXCEPT !.pc = "write", !.next = next]]
      BY <2>9, <2>14, <3>1 DEF Get, Goto
    <3>3. ASSUME NEW next \in Labels, NEW pc \in Phases
          PROVE  /\ LET r == [req[c] EXCEPT !.pc = pc, !.next = next] IN
                    r \in Requests /\ r.svc = req[c].svc /\ r.host = req[c].host
                 /\ LET r == [req[c] EXCEPT !.pc = pc, !.next = next, !.init = FALSE] IN
                    r \in Requests /\ r.svc = req[c].svc /\ r.host = req[c].host
      BY <2>3 DEF Requests
    <3>4. req[c].pc = "get"
      BY <2>14 DEF Get
    <3> QED
      BY <2>5, <2>6, <2>9, <3>2, <3>3, <3>4
  <2>15. CASE Write(c)
    <3>1. \E pc \in Phases :
            req' = [req EXCEPT ![c] = [req[c] EXCEPT !.init = FALSE, !.pc = pc]]
      BY <2>9, <2>15 DEF Write
    <3>2. ASSUME NEW pc \in Phases
          PROVE  LET r == [req[c] EXCEPT !.init = FALSE, !.pc = pc] IN
                 r \in Requests /\ r.svc = req[c].svc /\ r.host = req[c].host
      BY <2>3 DEF Requests
    <3> QED
      BY <2>5, <2>15, <3>1, <3>2 DEF Write
  <2> QED
    BY <1>1, <2>4, <2>10, <2>11, <2>12, <2>13, <2>14, <2>15 DEF EditNext
<1>2. ASSUME NEW h \in Host, DashNext(h) PROVE RequestsTyped'
  <2>1. ASSUME NEW who \in Edit \cup {Poll}, Checked(who),
               who = Poll \/ (req[who].pc \in {"refresh", "reseeded"} /\ req[who].host = h)
        PROVE  /\ req' \in [Edit -> Requests]
               /\ \A c \in Edit : req'[c].svc = req[c].svc /\ req'[c].host = req[c].host
               /\ \A c \in Edit : c # who => req'[c] = req[c]
               /\ \A c \in Edit : req[c].pc = "idle" => req'[c].pc = "idle"
    <3>1. req' = [c \in Edit |-> IF c # who THEN req[c]
            ELSE [req[c] EXCEPT !.pc = IF req[c].pc = "refresh" THEN "done" ELSE "get"]]
      BY <2>1 DEF Checked
    <3>2. ASSUME NEW c \in Edit, NEW pc \in {"done", "get"}
          PROVE  LET r == [req[c] EXCEPT !.pc = pc] IN
                 r \in Requests /\ r.svc = req[c].svc /\ r.host = req[c].host
      <4>1. req[c] \in Requests /\ pc \in Phases
        BY <1>0 DEF Phases
      <4> QED
        BY <4>1 DEF Requests
    <3>3. Poll \notin Edit
      BY LabelAssumption DEF LabelAssumption, Poll
    <3> QED
      BY <1>0, <2>1, <3>1, <3>2, <3>3
  <2>2. ASSUME NEW who \in Edit \cup {Poll}, Checked(who),
               who = Poll \/ (req[who].pc \in {"refresh", "reseeded"} /\ req[who].host = h),
               \A g \in Host : g = h \/ dcheck'[g] = dcheck[g],
               dcheck'[h].pc = "free"
        PROVE  RequestsTyped'
    <3>1. \A g \in Host : dcheck[g].pc # "free" /\ dcheck[g].by # Poll =>
            dcheck[g].by \in Edit /\ req[dcheck[g].by].host = g
      BY <1>0 DEF Typed, RequestsTyped, Checks
    <3>2. \A g \in Host : dcheck'[g].pc # "free" /\ dcheck'[g].by # Poll =>
            dcheck[g] = dcheck'[g] /\ dcheck[g].by # who
      BY <2>2, <3>1
    <3> QED
      BY <2>1, <2>2, <3>1, <3>2 DEF Typed, RequestsTyped
  <2>3. ASSUME dcheck[h].pc # "free"
        PROVE  /\ dcheck[h].by \in Edit \cup {Poll}
               /\ dcheck[h].by = Poll \/ (/\ req[dcheck[h].by].pc \in {"refresh", "reseeded"}
                                          /\ req[dcheck[h].by].host = h)
    BY <1>0, <2>3 DEF Typed, RequestsTyped, Checks
  <2>4. ASSUME NEW who \in Edit \cup {Poll}, CheckVersion(h, who) PROVE RequestsTyped'
    <3>1. /\ dcheck[h].pc = "free"
          /\ who = Poll \/ (req[who].pc \in {"refresh", "reseeded"} /\ req[who].host = h)
      BY <2>4 DEF CheckVersion, MayCheck
    <3>2. CASE Checked(who) /\ UNCHANGED dcheck
      BY <2>2, <3>1, <3>2
    <3>3. CASE /\ UNCHANGED req
               /\ dcheck' = [dcheck EXCEPT ![h] =
                    [pc |-> "index", by |-> who, ver |-> global, members |-> {}]]
      BY <1>0, <3>1, <3>3 DEF Typed, RequestsTyped
    <3> QED
      BY <2>4, <3>2, <3>3 DEF CheckVersion
  <2>5. CASE LoadIndex(h)
    <3>1. req' = req /\ dcheck[h].pc = "index"
      BY <2>5 DEF LoadIndex
    <3>2. \A g \in Host : dcheck'[g].by = dcheck[g].by /\ (dcheck'[g].pc # "free" => dcheck[g].pc # "free")
      BY <1>0, <2>5, <3>1 DEF LoadIndex, Checks
    <3> QED
      BY <3>1, <3>2 DEF Typed, RequestsTyped
  <2>6. CASE LoadSnapshot(h) \/ CheckFails(h)
    <3>1. /\ dcheck[h].pc # "free" /\ Checked(dcheck[h].by)
          /\ dcheck' = [dcheck EXCEPT ![h] = Unlocked]
      BY <2>6 DEF LoadSnapshot, CheckFails
    <3>2. dcheck'[h].pc = "free" /\ \A g \in Host : g = h \/ dcheck'[g] = dcheck[g]
      BY <1>0, <3>1 DEF Unlocked
    <3> QED
      BY <2>2, <2>3, <3>1, <3>2
  <2>7. CASE DashboardRestarts(h)
    <3>1. dcheck' = [dcheck EXCEPT ![h] = Unlocked]
      BY <2>7 DEF DashboardRestarts
    <3>2. dcheck'[h].pc = "free" /\ \A g \in Host : g = h \/ dcheck'[g] = dcheck[g]
      BY <1>0, <3>1 DEF Unlocked
    <3>3. ASSUME NEW c \in Edit
          PROVE  \/ req'[c] = req[c]
                 \/ /\ req[c].pc # "idle" /\ req[c].host = h
                    /\ req'[c] \in Requests
                    /\ req'[c].svc = req[c].svc /\ req'[c].host = req[c].host
      <4>1. [req[c] EXCEPT !.pc = "unknown", !.todo = NoMap] \in Requests
        <5>1. req[c] \in Requests /\ "unknown" \in Phases /\ NoMap \in Maps
          BY <1>0 DEF Phases
        <5> QED
          BY <5>1 DEF Requests
      <4>2. /\ [req[c] EXCEPT !.pc = "unknown", !.todo = NoMap].svc = req[c].svc
            /\ [req[c] EXCEPT !.pc = "unknown", !.todo = NoMap].host = req[c].host
        BY <1>0 DEF Requests
      <4> QED
        BY <2>7, <4>1, <4>2 DEF DashboardRestarts
    <3>4. req' = [c \in Edit |-> req'[c]]
      BY <2>7 DEF DashboardRestarts
    <3>5. req' \in [Edit -> Requests]
      BY <1>0, <3>3, <3>4
    <3>6. \A g \in Host : dcheck[g].pc # "free" /\ dcheck[g].by # Poll =>
            dcheck[g].by \in Edit /\ req[dcheck[g].by].host = g
      BY <1>0 DEF Typed, RequestsTyped, Checks
    <3> QED
      BY <3>2, <3>3, <3>5, <3>6 DEF Typed, RequestsTyped
  <2> QED
    BY <1>2, <2>4, <2>5, <2>6, <2>7 DEF DashNext
<1>3. CASE UNCHANGED <<dcheck, req>>
  BY <1>3 DEF Typed, RequestsTyped
<1> QED
  BY <1>1, <1>2, <1>3, ProxyFrame DEF Next, vars, Wipe, dash

LEMMA TypedKept == Spec => []Typed
<1>1. ASSUME Typed, [Next]_vars PROVE Typed'
  BY <1>1, NextRedisTyped, NextBounds, NextCopiesTyped, NextRequestsTyped DEF Typed
<1> QED
  BY <1>1, InitTyped, PTL DEF Spec

-----------------------------------------------------------------------------
(* What a step does to the request of an edit                              *)

LEMMA EditRequest ==
  ASSUME Typed, NEW c \in Edit, EditNext(c)
  PROVE  /\ \A d \in Edit \ {c} : req'[d] = req[d]
         /\ req'[c].pc # "idle"
         /\ req[c].pc # "idle" =>
              req'[c].svc = req[c].svc /\ req'[c].ifv = req[c].ifv /\ req'[c].seen = req[c].seen
         /\ req[c].pc = "idle" =>
              /\ req'[c].svc \in Service /\ req'[c].ifv = rec[req'[c].svc].ver
              /\ req'[c].seen = rec[req'[c].svc].val
              /\ UNCHANGED redis /\ req'[c].pc = "ready"
         /\ req'[c].pc = "seed" => req[c].pc = "ready" /\ global = 0
         /\ req'[c].pc = "seeding" => req[c].pc \in {"seed", "seeding"}
         /\ req'[c].pc = "refused" =>
              \/ req[c].pc \in {"seed", "seeding"}
              \/ req[c].pc = "get" /\ req[c].ifv > rec[req[c].svc].ver
              \/ /\ req[c].pc \in {"write", "replay"}
                 /\ ~Replayed(req[c].svc, c) /\ UNCHANGED redis
<1>0. req \in [Edit -> Requests] /\ req[c] \in Requests
  BY DEF Typed, RequestsTyped
<1>1. ASSUME NEW h \in Host, NEW s \in Service, Look(c, h, s)
      PROVE  /\ \A d \in Edit \ {c} : req'[d] = req[d]
             /\ req[c].pc = "idle" /\ req'[c].pc = "ready" /\ UNCHANGED redis
             /\ req'[c].svc = s /\ req'[c].ifv = rec[s].ver /\ req'[c].seen = rec[s].val
  BY <1>0, <1>1 DEF Look, NoRequest
<1>2. CASE Begin(c) \/ Retry(c)
  <2>1. /\ \A d \in Edit \ {c} : req'[d] = req[d]
        /\ req[c].pc \in {"ready", "unknown"} /\ req'[c].pc \in {"ready", "get", "seed"}
        /\ req'[c].svc = req[c].svc /\ req'[c].ifv = req[c].ifv /\ req'[c].seen = req[c].seen
        /\ req'[c].pc = "seed" => req[c].pc = "ready" /\ global = 0
    <3>1. CASE Begin(c)
      BY <1>0, <3>1 DEF Begin, Requests, Typed, RedisTyped
    <3>2. CASE Retry(c)
      BY <1>0, <3>2 DEF Retry, Goto, Requests
    <3> QED
      BY <1>2, <3>1, <3>2
  <2> QED
    BY <2>1
<1>3. CASE Seed(c) \/ SeedBlind(c) \/ SeedFails(c)
  <2>1. /\ \A d \in Edit \ {c} : req'[d] = req[d]
        /\ req[c].pc \in {"seed", "seeding"} /\ req'[c].pc \in {"seeding", "get", "refused"}
        /\ req'[c].svc = req[c].svc /\ req'[c].ifv = req[c].ifv /\ req'[c].seen = req[c].seen
    <3>1. CASE Seed(c)
      <4>1. /\ req[c].pc = "seed"
            /\ \/ \E todo : req' = [req EXCEPT ![c] = [req[c] EXCEPT !.pc = "seeding", !.todo = todo]]
               \/ req' = [req EXCEPT ![c] = [req[c] EXCEPT !.pc = "get", !.init = TRUE]]
        BY <3>1 DEF Seed
      <4>2. CASE req' = [req EXCEPT ![c] = [req[c] EXCEPT !.pc = "get", !.init = TRUE]]
        BY <1>0, <4>1, <4>2 DEF Requests
      <4>3. ASSUME NEW todo, req' = [req EXCEPT ![c] = [req[c] EXCEPT !.pc = "seeding", !.todo = todo]]
            PROVE  /\ \A d \in Edit \ {c} : req'[d] = req[d]
                   /\ req'[c].pc = "seeding" /\ req'[c].svc = req[c].svc
                   /\ req'[c].ifv = req[c].ifv /\ req'[c].seen = req[c].seen
        BY <1>0, <4>3 DEF Requests
      <4> QED
        BY <4>1, <4>2, <4>3
    <3>2. CASE SeedBlind(c)
      BY <1>0, <3>2 DEF SeedBlind, Requests
    <3>3. CASE SeedFails(c)
      BY <1>0, <3>3 DEF SeedFails, Goto, Requests
    <3> QED
      BY <1>3, <3>1, <3>2, <3>3
  <2> QED
    BY <2>1
<1>4. ASSUME NEW s \in Service, SeedOne(c, s)
      PROVE  /\ \A d \in Edit \ {c} : req'[d] = req[d]
             /\ req[c].pc = "seeding" /\ req'[c].pc \in {"seeding", "reseeded"}
             /\ req'[c].svc = req[c].svc /\ req'[c].ifv = req[c].ifv /\ req'[c].seen = req[c].seen
  BY <1>0, <1>4 DEF SeedOne, Requests
<1>5. CASE Get(c)
  <2>1. /\ \A d \in Edit \ {c} : req'[d] = req[d]
        /\ req[c].pc = "get" /\ req'[c].pc \in {"replay", "refused", "done", "write"}
        /\ req'[c].svc = req[c].svc /\ req'[c].ifv = req[c].ifv /\ req'[c].seen = req[c].seen
        /\ req'[c].pc = "refused" => req[c].ifv > rec[req[c].svc].ver
    <3> DEFINE r == rec[req[c].svc]
    <3>1. /\ req[c].pc = "get"
          /\ \/ req' = [req EXCEPT ![c] = [req[c] EXCEPT !.pc = "replay", !.next = r.val, !.init = FALSE]]
             \/ req[c].ifv > r.ver /\ req' = [req EXCEPT ![c] = [req[c] EXCEPT !.pc = "refused"]]
             \/ req' = [req EXCEPT ![c] = [req[c] EXCEPT !.pc = "done"]]
             \/ req' = [req EXCEPT ![c] = [req[c] EXCEPT !.pc = "write", !.next = r.val \cup {c}]]
      BY <1>5 DEF Get, Goto
    <3> HIDE DEF r
    <3>2. \A d \in Edit \ {c} : req'[d] = req[d]
      BY <1>0, <3>1
    <3>3. \/ req'[c] = [req[c] EXCEPT !.pc = "replay", !.next = r.val, !.init = FALSE]
          \/ req[c].ifv > r.ver /\ req'[c] = [req[c] EXCEPT !.pc = "refused"]
          \/ req'[c] = [req[c] EXCEPT !.pc = "done"]
          \/ req'[c] = [req[c] EXCEPT !.pc = "write", !.next = r.val \cup {c}]
      BY <1>0, <3>1, Zenon
    <3>4. /\ req'[c].pc \in {"replay", "refused", "done", "write"}
          /\ req'[c].svc = req[c].svc /\ req'[c].ifv = req[c].ifv /\ req'[c].seen = req[c].seen
          /\ req'[c].pc = "refused" => req[c].ifv > r.ver
      <4>1. CASE req'[c] = [req[c] EXCEPT !.pc = "replay", !.next = r.val, !.init = FALSE]
        BY <1>0, <4>1 DEF Requests
      <4>2. CASE req[c].ifv > r.ver /\ req'[c] = [req[c] EXCEPT !.pc = "refused"]
        BY <1>0, <4>2 DEF Requests
      <4>3. CASE req'[c] = [req[c] EXCEPT !.pc = "done"]
        BY <1>0, <4>3 DEF Requests
      <4>4. CASE req'[c] = [req[c] EXCEPT !.pc = "write", !.next = r.val \cup {c}]
        BY <1>0, <4>4 DEF Requests
      <4> QED
        BY <3>3, <4>1, <4>2, <4>3, <4>4
    <3> QED
      BY <3>1, <3>2, <3>4 DEF r
  <2> QED
    BY <2>1
<1>6. CASE Write(c)
  <2>1. Answer(c) = "refused" => ~Replayed(req[c].svc, c) /\ UNCHANGED redis
    BY <1>6 DEF Answer, Write, Script
  <2>2. /\ \A d \in Edit \ {c} : req'[d] = req[d]
        /\ req[c].pc \in {"write", "replay"}
        /\ req'[c].pc = (IF Answer(c) = "refused" THEN "refused"
                         ELSE IF req[c].pc = "write" THEN "refresh" ELSE "done")
        /\ req'[c].svc = req[c].svc /\ req'[c].ifv = req[c].ifv /\ req'[c].seen = req[c].seen
    BY <1>0, <1>6 DEF Write, Requests
  <2> QED
    BY <2>1, <2>2
<1>7. CASE WriteUnanswered(c)
  BY <1>0, <1>7 DEF WriteUnanswered, Goto, Requests
<1> QED
  BY <1>1, <1>2, <1>3, <1>4, <1>5, <1>6, <1>7 DEF EditNext

\* A check only moves the request that waits for it on, a restart leaves the
\* requests of its dashboard without an answer.
LEMMA DashRequest ==
  ASSUME Typed, NEW h \in Host, DashNext(h), NEW c \in Edit
  PROVE  /\ req'[c].svc = req[c].svc /\ req'[c].ifv = req[c].ifv /\ req'[c].seen = req[c].seen
         /\ req'[c].init = req[c].init
         /\ \/ req'[c] = req[c]
            \/ req[c].pc \in {"refresh", "reseeded"} /\ req'[c].pc \in {"done", "get"}
            \/ req[c].pc # "idle" /\ req'[c].pc = "unknown" /\ Fault
<1>0. req \in [Edit -> Requests] /\ req[c] \in Requests /\ dcheck \in [Host -> Checks]
  BY DEF Typed, RequestsTyped, CopiesTyped
<1>1. Poll \notin Edit
  BY LabelAssumption DEF LabelAssumption, Poll
<1>2. ASSUME NEW who \in Edit \cup {Poll}, Checked(who),
             who # Poll => req[who].pc \in {"refresh", "reseeded"}
      PROVE  /\ req'[c].svc = req[c].svc /\ req'[c].ifv = req[c].ifv /\ req'[c].seen = req[c].seen
             /\ req'[c].init = req[c].init
             /\ \/ req'[c] = req[c]
                \/ req[c].pc \in {"refresh", "reseeded"} /\ req'[c].pc \in {"done", "get"}
  BY <1>0, <1>1, <1>2 DEF Checked, Requests
<1>3. dcheck[h].pc # "free" =>
        /\ dcheck[h].by \in Edit \cup {Poll}
        /\ dcheck[h].by # Poll => req[dcheck[h].by].pc \in {"refresh", "reseeded"}
  BY <1>0 DEF Typed, RequestsTyped, Checks
<1>4. ASSUME NEW who \in Edit \cup {Poll}, CheckVersion(h, who)
      PROVE  req' = req \/ (Checked(who) /\ (who # Poll => req[who].pc \in {"refresh", "reseeded"}))
  BY <1>4 DEF CheckVersion, MayCheck
<1>5. CASE LoadIndex(h)
  BY <1>5 DEF LoadIndex
<1>6. CASE LoadSnapshot(h) \/ CheckFails(h)
  BY <1>2, <1>3, <1>6 DEF LoadSnapshot, CheckFails
<1>7. CASE DashboardRestarts(h)
  BY <1>0, <1>7 DEF DashboardRestarts, Requests
<1> QED
  BY <1>2, <1>4, <1>5, <1>6, <1>7 DEF DashNext

-----------------------------------------------------------------------------
(* The copies                                                              *)

\* What CopiesBehind says of one check, one overlay and one snapshot.
CheckBehind(k) ==
  /\ k.pc \in {"index", "data"} => k.ver <= global
  /\ k.pc = "data" /\ k.ver = global => k.members = Adopted
OverlayBehind(o) ==
  o.src = "redis" => o.ver <= global /\ (o.ver = global /\ global > 0 => o.svcs = Contents)
SnapshotBehind(sn) ==
  sn.there /\ ~sn.wiped => sn.ver <= global /\ (sn.ver = global /\ global > 0 => sn.svcs = Contents)

AllBehind ==
  \A h \in Host : /\ CheckBehind(pcheck[h]) /\ CheckBehind(dcheck[h])
                  /\ OverlayBehind(ov[h]) /\ SnapshotBehind(snap[h])

LEMMA BehindParts == CopiesBehind <=> (wipes = 0 => AllBehind)
BY DEF CopiesBehind, AllBehind, CheckBehind, OverlayBehind, SnapshotBehind

LEMMA InitBehind == Init => CopiesBehind
<1> SUFFICES ASSUME Init PROVE AllBehind
  BY BehindParts
<1> QED
  BY DEF Init, AllBehind, CheckBehind, OverlayBehind, SnapshotBehind,
         Unlocked, NoOverlay, NoSnapshot

LEMMA NextBehind ==
  ASSUME Typed, CopiesBehind, [Next]_vars
  PROVE  CopiesBehind'
<1> SUFFICES ASSUME wipes' = 0 PROVE AllBehind'
  BY BehindParts DEF CopiesBehind, AllBehind, CheckBehind, OverlayBehind, SnapshotBehind
<1>0. /\ global \in Nat /\ dcheck \in [Host -> Checks] /\ pcheck \in [Host -> Checks]
      /\ snap \in [Host -> Snapshots] /\ ov \in [Host -> Overlays] /\ disk \in [Host -> Overlays]
  BY DEF Typed, CopiesTyped, RedisTyped
<1>1. ~Wipe /\ wipes = 0
  <2>1. ~Wipe
    BY DEF Wipe, Typed, BoundsKept
  <2> QED
    BY <2>1, EditFrame, DashFrame, ProxyFrame DEF Next, vars
<1>2. AllBehind
  BY <1>1, BehindParts
<1>3. ASSUME NEW c \in Edit, EditNext(c) PROVE AllBehind'
  <2>1. UNCHANGED <<ov, pcheck, snap, dcheck>>
    BY <1>3, EditFrame DEF proxy, dash
  <2>2. UNCHANGED redis \/ global' = global + 1
    BY <1>3, EditWrites DEF Store
  <2>3. CASE UNCHANGED redis
    BY <1>2, <2>1, <2>3 DEF redis, AllBehind, CheckBehind, OverlayBehind, SnapshotBehind,
                            Adopted, Contents
  <2>4. CASE global' = global + 1
    <3>1. ASSUME NEW h \in Host, NEW k \in {pcheck[h], dcheck[h]}
          PROVE  CheckBehind(k) => (k.pc \in {"index", "data"} => k.ver < global')
      BY <1>0, <2>4 DEF CheckBehind, Checks
    <3>2. ASSUME NEW h \in Host
          PROVE  /\ OverlayBehind(ov[h]) /\ ov[h].src = "redis" => ov[h].ver < global'
                 /\ SnapshotBehind(snap[h]) /\ snap[h].there /\ ~snap[h].wiped =>
                      snap[h].ver < global'
      BY <1>0, <2>4 DEF OverlayBehind, SnapshotBehind, Overlays, Snapshots
    <3>3. ASSUME NEW h \in Host
          PROVE  /\ pcheck[h].ver \in Nat /\ dcheck[h].ver \in Nat
                 /\ ov[h].ver \in Nat /\ snap[h].ver \in Nat /\ global' \in Nat
      BY <1>0, <2>4 DEF Checks, Overlays, Snapshots
    <3> QED
      BY <1>2, <2>1, <3>1, <3>2, <3>3 DEF AllBehind, CheckBehind, OverlayBehind, SnapshotBehind
  <2> QED
    BY <2>2, <2>3, <2>4
<1>4. ASSUME UNCHANGED redis
      PROVE  /\ global' = global /\ Adopted' = Adopted /\ Contents' = Contents
  BY <1>4 DEF redis, Adopted, Contents
<1>5. CheckBehind(Unlocked) /\ SnapshotBehind(NoSnapshot)
  BY <1>0 DEF CheckBehind, SnapshotBehind, Unlocked, NoSnapshot
<1>6. ASSUME NEW h \in Host, DashNext(h) PROVE AllBehind'
  <2>1. UNCHANGED <<ov, pcheck>> /\ UNCHANGED redis
    BY <1>6, DashFrame DEF proxy
  <2>2. ASSUME NEW x, NEW y, CheckBehind(y), SnapshotBehind(x),
               snap' = snap \/ snap' = [snap EXCEPT ![h] = x],
               dcheck' = dcheck \/ dcheck' = [dcheck EXCEPT ![h] = y]
        PROVE  AllBehind'
    <3>1. \A g \in Host : CheckBehind(dcheck'[g]) /\ SnapshotBehind(snap'[g])
      BY <1>0, <1>2, <2>2 DEF AllBehind
    <3> QED
      BY <1>2, <1>4, <2>1, <3>1 DEF AllBehind, CheckBehind, OverlayBehind, SnapshotBehind
  <2>3. ASSUME NEW who \in Edit \cup {Poll}, CheckVersion(h, who) PROVE AllBehind'
    <3>1. CASE /\ global = 0 /\ snap' = [snap EXCEPT ![h] = KeepSnapshot(snap[h])]
               /\ UNCHANGED dcheck
      <4>1. SnapshotBehind(KeepSnapshot(snap[h]))
        <5>1. snap[h] \in Snapshots /\ SnapshotBehind(snap[h])
          BY <1>0, <1>2 DEF AllBehind
        <5>2. [snap[h] EXCEPT !.wiped = TRUE].wiped
          BY <5>1 DEF Snapshots
        <5>3. SnapshotBehind([NoSnapshot EXCEPT !.there = TRUE])
          BY <3>1 DEF SnapshotBehind, NoSnapshot
        <5> QED
          BY <5>1, <5>2, <5>3 DEF KeepSnapshot, SnapshotBehind
      <4> QED
        BY <1>5, <2>2, <3>1, <4>1
    <3>2. CASE UNCHANGED <<snap, dcheck>>
      BY <1>5, <2>2, <3>2
    <3>3. CASE /\ UNCHANGED snap
               /\ dcheck' = [dcheck EXCEPT ![h] =
                    [pc |-> "index", by |-> who, ver |-> global, members |-> {}]]
      <4>1. CheckBehind([pc |-> "index", by |-> who, ver |-> global, members |-> {}])
        BY <1>0 DEF CheckBehind
      <4> QED
        BY <1>5, <2>2, <3>3, <4>1
    <3> QED
      BY <2>3, <3>1, <3>2, <3>3 DEF CheckVersion
  <2>4. CASE LoadIndex(h)
    <3>1. CheckBehind([dcheck[h] EXCEPT !.pc = "data", !.members = Adopted])
      BY <1>0, <1>2, <2>4 DEF AllBehind, CheckBehind, LoadIndex, Checks
    <3> QED
      BY <1>5, <2>2, <2>4, <3>1 DEF LoadIndex
  <2>5. CASE LoadSnapshot(h)
    <3> DEFINE x == [there |-> TRUE, ver |-> dcheck[h].ver,
                     svcs |-> [s \in dcheck[h].members |-> rec[s].val], wiped |-> FALSE]
    <3>1. SnapshotBehind(x)
      BY <1>2, <2>5 DEF AllBehind, CheckBehind, LoadSnapshot, SnapshotBehind, Contents
    <3>2. snap' = [snap EXCEPT ![h] = x] /\ dcheck' = [dcheck EXCEPT ![h] = Unlocked]
      BY <2>5 DEF LoadSnapshot
    <3> HIDE DEF x
    <3> QED
      BY <1>5, <2>2, <3>1, <3>2
  <2>6. CASE CheckFails(h) \/ DashboardRestarts(h)
    BY <1>5, <2>2, <2>6 DEF CheckFails, DashboardRestarts
  <2> QED
    BY <1>6, <2>3, <2>4, <2>5, <2>6 DEF DashNext
<1>7. ASSUME NEW h \in Host, ProxyNext(h) PROVE AllBehind'
  <2>1. UNCHANGED <<snap, dcheck>> /\ UNCHANGED redis
    BY <1>7, ProxyFrame DEF dash
  <2>2. ASSUME NEW o, NEW y, CheckBehind(y), OverlayBehind(o),
               ov' = ov \/ ov' = [ov EXCEPT ![h] = o],
               pcheck' = pcheck \/ pcheck' = [pcheck EXCEPT ![h] = y]
        PROVE  AllBehind'
    <3>1. \A g \in Host : CheckBehind(pcheck'[g]) /\ OverlayBehind(ov'[g])
      BY <1>0, <1>2, <2>2 DEF AllBehind
    <3> QED
      BY <1>2, <1>4, <2>1, <3>1 DEF AllBehind, CheckBehind, OverlayBehind, SnapshotBehind
  <2>3. global = 0 => OverlayBehind(handleWiped(ov[h]))
    <3>1. ov[h] \in Overlays
      BY <1>0
    <3>2. [ov[h] EXCEPT !.src = "disk"].src = "disk"
      BY <3>1 DEF Overlays
    <3>3. global = 0 => OverlayBehind([NoOverlay EXCEPT !.src = "redis"])
      BY DEF OverlayBehind, NoOverlay
    <3> QED
      BY <3>2, <3>3 DEF handleWiped, OverlayBehind
  <2>4. OverlayBehind(disk[h])
    BY DEF OverlayBehind, Typed, CopiesTyped
  <2>5. pcheck[h] \in Checks /\ CheckBehind(pcheck[h])
    BY <1>0, <1>2 DEF AllBehind
  <2>6. CASE ProxyVersion(h)
    <3>1. CheckBehind([pcheck[h] EXCEPT !.pc = "load"])
      BY <2>5 DEF CheckBehind, Checks
    <3> QED
      BY <1>5, <2>2, <2>3, <2>4, <2>6, <3>1 DEF ProxyVersion
  <2>7. CASE ProxyLoadVersion(h)
    <3>1. CheckBehind([pcheck[h] EXCEPT !.pc = "index", !.ver = global])
      BY <1>0, <2>5 DEF CheckBehind, Checks
    <3> QED
      BY <1>5, <2>2, <2>3, <2>4, <2>7, <3>1 DEF ProxyLoadVersion
  <2>8. CASE ProxyLoadIndex(h)
    <3>1. CheckBehind([pcheck[h] EXCEPT !.pc = "data", !.members = Adopted])
      BY <2>5, <2>8 DEF CheckBehind, Checks, ProxyLoadIndex
    <3> QED
      BY <2>2, <2>4, <2>8, <3>1 DEF ProxyLoadIndex
  <2>9. CASE ProxyLoad(h)
    <3> DEFINE o == [src |-> "redis", ver |-> pcheck[h].ver,
                     svcs |-> [s \in pcheck[h].members |-> rec[s].val]]
    <3>1. OverlayBehind(o)
      BY <2>5, <2>9 DEF CheckBehind, ProxyLoad, OverlayBehind, Contents
    <3>2. ov' = [ov EXCEPT ![h] = o] /\ pcheck' = [pcheck EXCEPT ![h] = Unlocked]
      BY <2>9 DEF ProxyLoad
    <3> HIDE DEF o
    <3> QED
      BY <1>5, <2>2, <3>1, <3>2
  <2>10. CASE ProxyCheckFails(h) \/ ProxyRestarts(h)
    BY <1>5, <2>2, <2>4, <2>10 DEF ProxyCheckFails, ProxyRestarts
  <2> QED
    BY <1>7, <2>6, <2>7, <2>8, <2>9, <2>10 DEF ProxyNext
<1>8. CASE UNCHANGED vars
  BY <1>2, <1>8 DEF vars, redis, proxy, dash, AllBehind, CheckBehind, OverlayBehind,
                    SnapshotBehind, Adopted, Contents
<1> QED
  BY <1>1, <1>3, <1>6, <1>7, <1>8 DEF Next

\* A copy whose version is the one in Redis holds what Redis holds (load and Load
\* read the version before the data), for any hosts, services and edits.
THEOREM CopiesAreFresh == Spec => []CopiesFresh
<1>1. CopiesBehind => CopiesFresh
  BY DEF CopiesBehind, CopiesFresh
<1> QED
  BY <1>1, InitBehind, NextBehind, TypedKept, PTL DEF Spec

-----------------------------------------------------------------------------
(* The compare on if_version, and the overlay without the counter          *)

\* While Redis keeps its data, versions only grow, and labels change with them.
LEMMA VersionsGrow ==
  ASSUME Typed, [Next]_vars, wipes' = 0
  PROVE  /\ wipes = 0
         /\ \A s \in Service : rec'[s] = rec[s] \/ rec'[s].ver = rec[s].ver + 1
<1>0. rec \in [Service -> [ver : Nat, val : Labels]]
  BY DEF Typed, RedisTyped
<1>1. ~Wipe /\ wipes = 0
  <2>1. ~Wipe
    BY DEF Wipe, Typed, BoundsKept
  <2> QED
    BY <2>1, EditFrame, DashFrame, ProxyFrame DEF Next, vars
<1>2. rec' = rec \/ \E s \in Service : \E labels \in Labels : Store(s, labels)
  <2>1. ASSUME NEW c \in Edit, EditNext(c)
        PROVE  rec' = rec \/ \E s \in Service : \E labels \in Labels : Store(s, labels)
    BY <2>1, EditWrites DEF redis
  <2> QED
    BY <1>1, <2>1, DashFrame, ProxyFrame DEF Next, vars, redis
<1>3. ASSUME NEW s \in Service, NEW labels \in Labels, Store(s, labels), NEW t \in Service
      PROVE  rec'[t] = rec[t] \/ rec'[t].ver = rec[t].ver + 1
  BY <1>0, <1>3 DEF Store
<1> QED
  BY <1>1, <1>2, <1>3

LEMMA NextSeen ==
  ASSUME Typed, SeenWasThere, [Next]_vars
  PROVE  SeenWasThere'
<1> SUFFICES ASSUME wipes' = 0, NEW c \in Edit, req'[c].pc # "idle"
             PROVE  /\ req'[c].ifv <= rec'[req'[c].svc].ver
                    /\ req'[c].ifv = rec'[req'[c].svc].ver => req'[c].seen = rec'[req'[c].svc].val
  BY DEF SeenWasThere
<1>1. /\ wipes = 0 /\ \A s \in Service : rec'[s] = rec[s] \/ rec'[s].ver = rec[s].ver + 1
  BY VersionsGrow
<1>2. CASE /\ req[c].pc # "idle" /\ req'[c].svc = req[c].svc
           /\ req'[c].ifv = req[c].ifv /\ req'[c].seen = req[c].seen
  <2>1. /\ req[c].svc \in Service /\ req[c].ifv \in Nat /\ rec[req[c].svc].ver \in Nat
    BY <1>2 DEF Typed, RequestsTyped, RedisTyped, Requests
  <2>2. /\ req[c].ifv <= rec[req[c].svc].ver
        /\ req[c].ifv = rec[req[c].svc].ver => req[c].seen = rec[req[c].svc].val
    BY <1>1, <1>2 DEF SeenWasThere
  <2>3. rec'[req[c].svc] = rec[req[c].svc] \/ rec'[req[c].svc].ver = rec[req[c].svc].ver + 1
    BY <1>1, <2>1
  <2> QED
    BY <1>2, <2>1, <2>2, <2>3
<1>3. ASSUME EditNext(c), req[c].pc = "idle"
      PROVE  /\ req'[c].ifv <= rec'[req'[c].svc].ver
             /\ req'[c].ifv = rec'[req'[c].svc].ver => req'[c].seen = rec'[req'[c].svc].val
  <2>1. /\ req'[c].svc \in Service /\ req'[c].ifv = rec[req'[c].svc].ver
        /\ req'[c].seen = rec[req'[c].svc].val /\ UNCHANGED redis
    BY <1>3, EditRequest
  <2>2. rec' = rec /\ rec[req'[c].svc].ver \in Nat
    BY <2>1 DEF redis, Typed, RedisTyped
  <2> QED
    BY <2>1, <2>2
<1>4. CASE EditNext(c)
  BY <1>2, <1>3, <1>4, EditRequest
<1>5. ASSUME NEW d \in Edit, d # c, EditNext(d)
      PROVE  /\ req[c].pc # "idle" /\ req'[c].svc = req[c].svc
             /\ req'[c].ifv = req[c].ifv /\ req'[c].seen = req[c].seen
  BY <1>5, EditRequest
<1>6. ASSUME NEW h \in Host, DashNext(h)
      PROVE  /\ req[c].pc # "idle" /\ req'[c].svc = req[c].svc
             /\ req'[c].ifv = req[c].ifv /\ req'[c].seen = req[c].seen
  BY <1>6, DashRequest
<1>7. CASE UNCHANGED req
  BY <1>2, <1>7
<1> QED
  BY <1>2, <1>4, <1>5, <1>6, <1>7, ProxyFrame DEF Next, vars, Wipe

LEMMA NextDisk ==
  ASSUME Typed, DiskIsOverlay, [Next]_vars
  PROVE  /\ DiskIsOverlay'
         /\ global = 0 => \A h \in Host : ov'[h].svcs = ov[h].svcs
<1>0. /\ global \in Nat /\ pcheck \in [Host -> Checks]
      /\ ov \in [Host -> Overlays] /\ disk \in [Host -> Overlays]
  BY DEF Typed, CopiesTyped, RedisTyped
<1>1. ASSUME UNCHANGED <<proxy>>, global' = global \/ global' > 0
      PROVE  /\ DiskIsOverlay'
             /\ global = 0 => \A h \in Host : ov'[h].svcs = ov[h].svcs
  BY <1>0, <1>1 DEF DiskIsOverlay, proxy
<1>2. ASSUME NEW c \in Edit, EditNext(c)
      PROVE  UNCHANGED proxy /\ (global' = global \/ global' > 0)
  <2>1. UNCHANGED redis \/ global' = global + 1
    BY <1>2, EditWrites DEF Store
  <2>2. UNCHANGED proxy
    BY <1>2, EditFrame
  <2> QED
    BY <1>0, <2>1, <2>2 DEF redis
<1>3. ASSUME NEW h \in Host, DashNext(h) PROVE UNCHANGED proxy /\ global' = global
  BY <1>3, DashFrame DEF redis
<1>4. CASE Wipe
  BY <1>4 DEF Wipe, Quiet, proxy, DiskIsOverlay
<1>5. ASSUME NEW h \in Host, ProxyNext(h)
      PROVE  /\ DiskIsOverlay'
             /\ global = 0 => \A g \in Host : ov'[g].svcs = ov[g].svcs
  <2>0. global' = global
    BY <1>5, ProxyFrame DEF redis
  <2>1. ASSUME NEW o, NEW d, NEW y, o.svcs = d.svcs, ov' = [ov EXCEPT ![h] = o],
               disk' = [disk EXCEPT ![h] = d], pcheck' = [pcheck EXCEPT ![h] = y],
               global = 0 => o.svcs = ov[h].svcs /\ y.pc \notin {"index", "data"}
        PROVE  /\ DiskIsOverlay'
               /\ global = 0 => \A g \in Host : ov'[g].svcs = ov[g].svcs
    <3>1. \A g \in Host : /\ ov'[g] = IF g = h THEN o ELSE ov[g]
                          /\ disk'[g] = IF g = h THEN d ELSE disk[g]
                          /\ pcheck'[g] = IF g = h THEN y ELSE pcheck[g]
      BY <1>0, <2>1
    <3> QED
      BY <2>0, <2>1, <3>1 DEF DiskIsOverlay
  <2>2. /\ ov = [ov EXCEPT ![h] = ov[h]] /\ disk = [disk EXCEPT ![h] = disk[h]]
        /\ pcheck = [pcheck EXCEPT ![h] = pcheck[h]]
    BY <1>0
  <2>3. handleWiped(ov[h]).svcs = ov[h].svcs
    <3>1. ov[h] \in Overlays
      BY <1>0
    <3>2. [ov[h] EXCEPT !.src = "disk"].svcs = ov[h].svcs
      BY <3>1 DEF Overlays
    <3>3. [NoOverlay EXCEPT !.src = "redis"].svcs = NoMap
      BY DEF NoOverlay
    <3> QED
      BY <3>2, <3>3 DEF handleWiped
  <2>4. ov[h].svcs = disk[h].svcs /\ (global = 0 => pcheck[h].pc \notin {"index", "data"})
    BY DEF DiskIsOverlay
  <2>5. Unlocked.pc = "free"
    BY DEF Unlocked
  <2>6. CASE ProxyVersion(h)
    <3>1. [pcheck[h] EXCEPT !.pc = "load"].pc = "load"
      BY <1>0 DEF Checks
    <3>2. disk' = disk
      BY <2>6 DEF ProxyVersion
    <3>3. CASE ov' = [ov EXCEPT ![h] = handleWiped(ov[h])] /\ UNCHANGED pcheck
      <4>1. /\ disk' = [disk EXCEPT ![h] = disk[h]] /\ pcheck' = [pcheck EXCEPT ![h] = pcheck[h]]
            /\ handleWiped(ov[h]).svcs = disk[h].svcs
        BY <2>2, <2>3, <2>4, <3>2, <3>3
      <4> QED
        BY <2>1, <2>3, <2>4, <3>3, <4>1
    <3>4. CASE UNCHANGED ov /\ pcheck' = [pcheck EXCEPT ![h] = [pcheck[h] EXCEPT !.pc = "load"]]
      BY <2>1, <2>2, <2>4, <3>1, <3>2, <3>4
    <3> QED
      BY <2>6, <3>3, <3>4 DEF ProxyVersion
  <2>7. CASE ProxyLoadVersion(h)
    <3>1. disk' = disk
      BY <2>7 DEF ProxyLoadVersion
    <3>2. CASE /\ ov' = [ov EXCEPT ![h] = handleWiped(ov[h])]
               /\ pcheck' = [pcheck EXCEPT ![h] = Unlocked]
      BY <2>1, <2>2, <2>3, <2>4, <2>5, <3>1, <3>2
    <3>3. CASE /\ UNCHANGED ov /\ global # 0
               /\ pcheck' = [pcheck EXCEPT ![h] = [pcheck[h] EXCEPT !.pc = "index", !.ver = global]]
      BY <2>1, <2>2, <2>4, <3>1, <3>3
    <3> QED
      BY <2>7, <3>2, <3>3 DEF ProxyLoadVersion
  <2>8. CASE ProxyLoadIndex(h)
    <3>1. /\ UNCHANGED <<ov, disk>> /\ global # 0
          /\ pcheck' = [pcheck EXCEPT ![h] = [pcheck[h] EXCEPT !.pc = "data", !.members = Adopted]]
      BY <2>4, <2>8 DEF ProxyLoadIndex
    <3> QED
      BY <2>1, <2>2, <2>4, <3>1
  <2>9. CASE ProxyLoad(h)
    <3> DEFINE o == [src |-> "redis", ver |-> pcheck[h].ver,
                     svcs |-> [s \in pcheck[h].members |-> rec[s].val]]
    <3>1. o.svcs = [o EXCEPT !.src = "disk"].svcs
      OBVIOUS
    <3>2. /\ ov' = [ov EXCEPT ![h] = o] /\ pcheck' = [pcheck EXCEPT ![h] = Unlocked]
          /\ disk' = [disk EXCEPT ![h] = [o EXCEPT !.src = "disk"]] /\ global # 0
      BY <2>4, <2>9 DEF ProxyLoad
    <3> HIDE DEF o
    <3> QED
      BY <2>1, <3>1, <3>2
  <2>10. CASE ProxyCheckFails(h)
    <3>1. UNCHANGED <<ov, disk>> /\ pcheck' = [pcheck EXCEPT ![h] = Unlocked]
      BY <2>10 DEF ProxyCheckFails
    <3> QED
      BY <2>1, <2>2, <2>4, <2>5, <3>1
  <2>11. CASE ProxyRestarts(h)
    <3>1. /\ ov' = [ov EXCEPT ![h] = disk[h]] /\ UNCHANGED disk
          /\ pcheck' = [pcheck EXCEPT ![h] = Unlocked]
      BY <2>11 DEF ProxyRestarts
    <3> QED
      BY <2>1, <2>2, <2>4, <2>5, <3>1
  <2> QED
    BY <1>5, <2>6, <2>7, <2>8, <2>9, <2>10, <2>11 DEF ProxyNext
<1>6. CASE UNCHANGED vars
  BY <1>1, <1>6 DEF vars, redis
<1> QED
  BY <1>1, <1>2, <1>3, <1>4, <1>5, <1>6 DEF Next

KeptInv == Typed /\ SeenWasThere /\ DiskIsOverlay

LEMMA KeptAlways == Spec => []KeptInv
<1>1. Init => KeptInv
  <2>1. Init => SeenWasThere /\ DiskIsOverlay
    BY DEF Init, SeenWasThere, DiskIsOverlay, NoRequest, NoOverlay, Unlocked
  <2> QED
    BY <2>1, InitTyped DEF KeptInv
<1>2. ASSUME KeptInv, [Next]_vars, Typed' PROVE KeptInv'
  BY <1>2, NextSeen, NextDisk DEF KeptInv
<1> QED
  BY <1>1, <1>2, TypedKept, PTL DEF Spec

\* An edit is written only over the labels its author looked at (the script's
\* compare on if_version), and while the counter is missing no overlay loses a
\* service, also across restarts (handleWipedLocked, overlayManager.Init).
THEOREM LabelsAreKept == Spec => LabelsKept
<1>1. ASSUME KeptInv, [Next]_vars
      PROVE  [WritesWhatWasSeenStep /\ KeptThroughWipeStep]_vars
  <2> USE <1>1 DEF KeptInv
  <2>1. WritesWhatWasSeenStep
    <3> SUFFICES ASSUME wipes = 0, NEW c \in Edit, applied'[c] > applied[c]
                 PROVE  rec[req[c].svc].val = req[c].seen
      BY DEF WritesWhatWasSeenStep
    <3>0. applied \in [Edit -> Nat]
      BY DEF Typed, RedisTyped
    <3>1. applied' # applied
      BY <3>0
    <3>2. PICK d \in Edit : EditNext(d)
      BY <3>1, DashFrame, ProxyFrame DEF Next, vars, redis, Wipe
    <3>3. /\ req[d].pc \in {"write", "replay"} /\ req[d].svc \in Service
          /\ Accepts(req[d].svc, req[d].ifv, req[d].init)
          /\ applied' = [applied EXCEPT ![d] = applied[d] + 1]
      BY <3>1, <3>2, EditWrites DEF redis
    <3>4. d = c
      BY <3>0, <3>3
    <3> QED
      BY <3>3, <3>4 DEF Accepts, SeenWasThere
  <2>2. KeptThroughWipeStep
    BY NextDisk DEF KeptThroughWipeStep
  <2> QED
    BY <2>1, <2>2
<1> QED
  BY <1>1, KeptAlways, PTL DEF Spec, LabelsKept

-----------------------------------------------------------------------------
(* The ring of request_ids                                                 *)

\* A write appends to the ring, and drops its oldest place when it is full.
LEMMA NewestIs ==
  ASSUME NEW q \in Seq(Edit \X Nat), Len(q) <= ringSize, NEW e \in Edit \X Nat
  PROVE  LET w == Newest(Append(q, e)) IN
         /\ w \in Seq(Edit \X Nat) /\ Len(w) <= ringSize
         /\ \E k \in {0, 1} :
              /\ Len(w) = Len(q) + 1 - k
              /\ k = 0 <=> Len(q) < ringSize
              /\ \A i \in 1 .. Len(w) : w[i] = IF i + k <= Len(q) THEN q[i + k] ELSE e
<1> DEFINE a == Append(q, e)
<1>0. ringSize \in Nat /\ Len(q) \in Nat
  BY LabelAssumption DEF LabelAssumption
<1>1. /\ a \in Seq(Edit \X Nat) /\ Len(a) = Len(q) + 1
      /\ \A i \in 1 .. Len(a) : a[i] = IF i <= Len(q) THEN q[i] ELSE e
  OBVIOUS
<1> HIDE DEF a
<1>2. CASE Len(q) < ringSize
  <2>1. Newest(a) = a /\ Len(a) <= ringSize
    BY <1>0, <1>1, <1>2 DEF Newest
  <2>2. /\ Len(a) = Len(q) + 1 - 0
        /\ \A i \in 1 .. Len(a) : a[i] = IF i + 0 <= Len(q) THEN q[i + 0] ELSE e
    BY <1>0, <1>1
  <2> QED
    BY <1>1, <1>2, <2>1, <2>2 DEF a
<1>3. CASE ~(Len(q) < ringSize)
  <2>1. Newest(a) = Tail(a) /\ Len(q) = ringSize
    BY <1>0, <1>1, <1>3 DEF Newest
  <2>2. a # << >>
    BY <1>0, <1>1
  <2>3. /\ Tail(a) \in Seq(Edit \X Nat) /\ Len(Tail(a)) = Len(a) - 1
        /\ \A i \in 1 .. Len(Tail(a)) : Tail(a)[i] = a[i + 1]
    BY <1>1, <2>2
  <2>4. /\ Len(Tail(a)) = Len(q) + 1 - 1 /\ Len(Tail(a)) <= ringSize
        /\ \A i \in 1 .. Len(Tail(a)) : Tail(a)[i] = IF i + 1 <= Len(q) THEN q[i + 1] ELSE e
    BY <1>0, <1>1, <2>1, <2>3
  <2> QED
    BY <1>3, <2>1, <2>3, <2>4 DEF a
<1> QED
  BY <1>2, <1>3

LEMMA NextRingTyped ==
  ASSUME Typed, RingTyped, [Next]_vars
  PROVE  RingTyped'
<1>0. ringSize \in Nat /\ rec \in [Service -> [ver : Nat, val : Labels]]
  BY LabelAssumption DEF LabelAssumption, Typed, RedisTyped
<1>1. CASE UNCHANGED ring
  BY <1>1 DEF RingTyped
<1>2. CASE Wipe
  <2>1. << >> \in Seq(Edit \X Nat) /\ Len(<< >>) = 0
    OBVIOUS
  <2>2. ring' = ring \/ ring' = [s \in Service |-> << >>]
    BY <1>2 DEF Wipe
  <2>3. CASE ring' = [s \in Service |-> << >>]
    <3>1. \A s \in Service : ring'[s] = << >>
      BY <2>3
    <3>2. ring' \in [Service -> Seq(Edit \X Nat)]
      BY <2>1, <2>3
    <3> QED
      BY <1>0, <2>1, <3>1, <3>2 DEF RingTyped
  <2> QED
    BY <1>1, <2>2, <2>3
<1>3. ASSUME NEW c \in Edit, EditNext(c), ring' # ring PROVE RingTyped'
  <2> DEFINE s == req[c].svc
             w == Newest(Append(ring[s], <<c, rec[s].ver + 1>>))
  <2>1. s \in Service /\ ring' = [ring EXCEPT ![s] = w]
    BY <1>3, EditWrites DEF redis
  <2>2. <<c, rec[s].ver + 1>> \in Edit \X Nat /\ ring[s] \in Seq(Edit \X Nat) /\ Len(ring[s]) <= ringSize
    <3>1. rec[s].ver + 1 \in Nat
      BY <1>0, <2>1
    <3> QED
      BY <2>1, <3>1 DEF RingTyped
  <2>3. w \in Seq(Edit \X Nat) /\ Len(w) <= ringSize
    BY <2>2, NewestIs
  <2> HIDE DEF s, w
  <2> QED
    BY <2>1, <2>3 DEF RingTyped
<1> QED
  BY <1>1, <1>2, <1>3, DashFrame, ProxyFrame DEF Next, vars, redis

LEMMA NextRingHonest ==
  ASSUME Typed, SeenWasThere, RingTyped, RingHonest, [Next]_vars
  PROVE  RingHonest'
<1>0. /\ global \in Nat /\ applied \in [Edit -> Nat] /\ req \in [Edit -> Requests]
      /\ ringSize \in Nat /\ ring \in [Service -> Seq(Edit \X Nat)]
      /\ rec \in [Service -> [ver : Nat, val : Labels]]
  BY LabelAssumption DEF LabelAssumption, Typed, RedisTyped, RequestsTyped, RingTyped
<1> SUFFICES ASSUME wipes' = 0 PROVE RingHonest'
  BY DEF RingHonest
<1>1. wipes = 0 /\ ~Wipe
  BY VersionsGrow DEF Wipe, Typed, BoundsKept
<1>2. \A s \in Service : \A i \in DOMAIN ring[s] : ring[s][i][1] \in Edit
  BY <1>0
<1>3. ASSUME ring' = ring, applied' = applied, global' \in Nat, global' >= global,
             \A c \in Edit : req[c].pc # "idle" => req'[c].pc # "idle" /\ req'[c].svc = req[c].svc,
             \A c \in Edit : applied[c] > 0 =>
               /\ req'[c].pc \notin {"seed", "seeding"}
               /\ req'[c].pc = "refused" => req[c].pc = "refused" \/ ~Replayed(req[c].svc, c)
      PROVE  RingHonest'
  <2>1. ASSUME NEW s \in Service, NEW i \in DOMAIN ring[s]
        PROVE  /\ req'[ring[s][i][1]].pc # "idle" /\ req'[ring[s][i][1]].svc = s
               /\ applied[ring[s][i][1]] > 0
               /\ \A j \in DOMAIN ring[s] : ring[s][i][1] = ring[s][j][1] => i = j
    BY <1>1, <1>2, <1>3 DEF RingHonest
  <2>2. ASSUME NEW c \in Edit, applied[c] > 0
        PROVE  /\ req'[c].pc \notin {"idle", "seed", "seeding"} /\ global' > 0
               /\ Replayed(req'[c].svc, c) \/ Len(ring[req'[c].svc]) = ringSize
               /\ req'[c].pc = "refused" => ~Replayed(req'[c].svc, c)
    <3>1. /\ req[c].pc # "idle" /\ global > 0
          /\ Replayed(req[c].svc, c) \/ Len(ring[req[c].svc]) = ringSize
          /\ req[c].pc = "refused" => ~Replayed(req[c].svc, c)
      BY <1>1, <2>2 DEF RingHonest
    <3> QED
      BY <1>0, <1>3, <2>2, <3>1
  <2> QED
    BY <1>3, <2>1, <2>2 DEF RingHonest, Replayed
<1>4. ASSUME NEW c \in Edit, EditNext(c) PROVE RingHonest'
  <2>0. /\ \A d \in Edit \ {c} : req'[d] = req[d]
        /\ req'[c].pc # "idle" /\ (req[c].pc # "idle" => req'[c].svc = req[c].svc)
    BY <1>4, EditRequest
  <2>1. CASE ring' = ring /\ applied' = applied
    <3>1. global' \in Nat /\ global' >= global
      <4>1. global' = global \/ global' = global + 1
        BY <1>4, EditWrites DEF redis, Store
      <4> QED
        BY <1>0, <4>1
    <3>2. ASSUME applied[c] > 0
          PROVE  /\ req'[c].pc \notin {"seed", "seeding"}
                 /\ req'[c].pc = "refused" => ~Replayed(req[c].svc, c)
      <4>1. req[c].pc \notin {"idle", "seed", "seeding"} /\ global > 0
        BY <1>1, <3>2 DEF RingHonest
      <4>2. req[c].svc \in Service /\ req[c].ifv \in Nat /\ rec[req[c].svc].ver \in Nat
        BY <1>0, <4>1 DEF Typed, RequestsTyped, Requests
      <4>3. ~(req[c].ifv > rec[req[c].svc].ver)
        BY <1>1, <4>1, <4>2 DEF SeenWasThere
      <4>4. global # 0
        BY <1>0, <4>1
      <4> QED
        BY <1>4, <4>1, <4>3, <4>4, EditRequest DEF Replayed
    <3>3. ASSUME NEW d \in Edit, d # c, applied[d] > 0
          PROVE  req'[d].pc \notin {"seed", "seeding"} /\ req'[d] = req[d]
      BY <1>1, <2>0, <3>3 DEF RingHonest
    <3>4. \A d \in Edit : req[d].pc # "idle" => req'[d].pc # "idle" /\ req'[d].svc = req[d].svc
      BY <2>0
    <3>5. \A d \in Edit : applied[d] > 0 =>
            /\ req'[d].pc \notin {"seed", "seeding"}
            /\ req'[d].pc = "refused" => req[d].pc = "refused" \/ ~Replayed(req[d].svc, d)
      BY <3>2, <3>3
    <3> QED
      BY <1>3, <2>1, <3>1, <3>4, <3>5
  <2>2. CASE ~(ring' = ring /\ applied' = applied)
    <3> DEFINE s == req[c].svc
               q == ring[s]
               e == <<c, rec[s].ver + 1>>
               w == Newest(Append(q, e))
    <3>1. /\ req[c].pc \in {"write", "replay"} /\ s \in Service /\ ~Replayed(s, c)
          /\ global' = global + 1
          /\ ring' = [ring EXCEPT ![s] = w] /\ applied' = [applied EXCEPT ![c] = applied[c] + 1]
      BY <1>4, <2>2, EditWrites DEF redis, Store
    <3>2. req'[c].pc \notin {"idle", "seed", "seeding", "refused"} /\ req'[c].svc = s
      BY <1>4, <2>2, <3>1, EditRequest DEF redis
    <3>3. e \in Edit \X Nat /\ e[1] = c /\ q \in Seq(Edit \X Nat) /\ Len(q) \in Nat /\ Len(q) <= ringSize
      BY <1>0, <3>1 DEF RingTyped
    <3>4. PICK k \in {0, 1} :
            /\ Len(w) = Len(q) + 1 - k
            /\ k = 0 <=> Len(q) < ringSize
            /\ \A i \in 1 .. Len(w) : w[i] = IF i + k <= Len(q) THEN q[i + k] ELSE e
      <4> HIDE DEF q, e
      <4> QED  BY <3>3, NewestIs
    <3>5. \A i \in 1 .. Len(q) : q[i][1] # c
      BY <3>1, <3>3 DEF Replayed
    <3>6. /\ w \in Seq(Edit \X Nat) /\ ring' = [ring EXCEPT ![s] = w]
      <4> HIDE DEF q, e
      <4> QED  BY <3>1, <3>3, NewestIs
    <3>7. \A t \in Service : ring'[t] = IF t = s THEN w ELSE ring[t]
      BY <1>0, <3>6
    <3>8. \A d \in Edit : applied'[d] = IF d = c THEN applied[c] + 1 ELSE applied[d]
      BY <1>0, <3>1
    <3> HIDE DEF s, q, e, w
    <3>9. ASSUME NEW i \in 1 .. Len(w)
          PROVE  \/ i + k \in 1 .. Len(q) /\ w[i] = q[i + k]
                 \/ i = Len(w) /\ i + k = Len(q) + 1 /\ w[i] = e
      BY <3>3, <3>4
    <3>10. ASSUME NEW j \in 1 .. Len(q)
           PROVE  /\ q[j][1] \in Edit /\ q[j][1] # c
                  /\ req[q[j][1]].pc # "idle" /\ req[q[j][1]].svc = s /\ applied[q[j][1]] > 0
                  /\ \A l \in 1 .. Len(q) : q[j][1] = q[l][1] => j = l
      BY <1>1, <1>2, <3>1, <3>3, <3>5 DEF RingHonest, q
    <3>11. ASSUME NEW i \in 1 .. Len(w)
           PROVE  /\ req'[w[i][1]].pc # "idle" /\ req'[w[i][1]].svc = s
                  /\ applied'[w[i][1]] > 0
                  /\ \A j \in 1 .. Len(w) : w[i][1] = w[j][1] => i = j
      <4>1. CASE i + k \in 1 .. Len(q) /\ w[i] = q[i + k]
        <5>1. /\ w[i][1] \in Edit /\ w[i][1] # c /\ req'[w[i][1]] = req[w[i][1]]
              /\ applied'[w[i][1]] = applied[w[i][1]]
              /\ req[w[i][1]].pc # "idle" /\ req[w[i][1]].svc = s /\ applied[w[i][1]] > 0
          BY <2>0, <3>8, <3>10, <4>1
        <5>2. ASSUME NEW j \in 1 .. Len(w), w[i][1] = w[j][1] PROVE i = j
          <6>1. w[j] # e
            BY <3>3, <5>1, <5>2
          <6>2. j + k \in 1 .. Len(q) /\ w[j] = q[j + k]
            BY <3>9, <6>1
          <6>3. i + k = j + k
            BY <3>10, <4>1, <5>2, <6>2
          <6> QED
            BY <3>4, <6>3
        <5> QED
          BY <5>1, <5>2
      <4>2. CASE i = Len(w) /\ w[i] = e
        <5>1. w[i][1] = c /\ applied'[c] > 0
          BY <1>0, <3>3, <3>8, <4>2
        <5>2. ASSUME NEW j \in 1 .. Len(w), w[i][1] = w[j][1] PROVE i = j
          <6>1. ~(j + k \in 1 .. Len(q) /\ w[j] = q[j + k])
            BY <3>10, <5>1, <5>2
          <6> QED
            BY <3>9, <4>2, <6>1
        <5> QED
          BY <3>2, <5>1, <5>2
      <4> QED
        BY <3>9, <4>1, <4>2
    <3>12. DOMAIN w = 1 .. Len(w) /\ DOMAIN q = 1 .. Len(q) /\ q = ring[s]
      BY <3>3, <3>6 DEF q
    <3>13. ASSUME NEW t \in Service, NEW i \in DOMAIN ring'[t]
           PROVE  /\ req'[ring'[t][i][1]].pc # "idle" /\ req'[ring'[t][i][1]].svc = t
                  /\ applied'[ring'[t][i][1]] > 0
                  /\ \A j \in DOMAIN ring'[t] : ring'[t][i][1] = ring'[t][j][1] => i = j
      <4>1. CASE t = s
        BY <3>7, <3>11, <3>12, <4>1
      <4>2. CASE t # s
        <5>1. ring'[t] = ring[t]
          BY <3>7, <4>2
        <5>2. /\ ring[t][i][1] \in Edit /\ req[ring[t][i][1]].pc # "idle"
              /\ req[ring[t][i][1]].svc = t /\ applied[ring[t][i][1]] > 0
              /\ \A j \in DOMAIN ring[t] : ring[t][i][1] = ring[t][j][1] => i = j
          BY <1>1, <1>2, <5>1 DEF RingHonest
        <5>3. ring[t][i][1] # c
          BY <4>2, <5>2 DEF s
        <5> QED
          BY <2>0, <3>8, <5>1, <5>2, <5>3
      <4> QED
        BY <4>1, <4>2
    <3>14. Len(q) + 1 - k = ringSize \/ k = 0
      BY <1>0, <3>3, <3>4
    <3>15. k = 0 => w[Len(w)] = e /\ Len(w) \in 1 .. Len(w) /\
                    \A j \in 1 .. Len(q) : j \in 1 .. Len(w) /\ w[j] = q[j]
      BY <3>3, <3>4
    <3>16. ASSUME NEW d \in Edit, applied'[d] > 0
           PROVE  /\ req'[d].pc \notin {"idle", "seed", "seeding"} /\ global' > 0
                  /\ \/ \E i \in DOMAIN ring'[req'[d].svc] : ring'[req'[d].svc][i][1] = d
                     \/ Len(ring'[req'[d].svc]) = ringSize
                  /\ req'[d].pc = "refused" =>
                       ~ \E i \in DOMAIN ring'[req'[d].svc] : ring'[req'[d].svc][i][1] = d
      <4>0. global' > 0
        BY <1>0, <3>1
      <4>1. CASE d = c
        <5>1. ring'[req'[d].svc] = w
          BY <3>1, <3>2, <3>7, <4>1 DEF s
        <5>2. (\E i \in DOMAIN w : w[i][1] = c) \/ Len(w) = ringSize
          BY <3>3, <3>4, <3>12, <3>14, <3>15
        <5> QED
          BY <3>2, <4>0, <4>1, <5>1, <5>2
      <4>2. CASE d # c
        <5>1. applied[d] > 0 /\ req'[d] = req[d]
          BY <2>0, <3>8, <3>16, <4>2
        <5>2. /\ req[d].pc \notin {"idle", "seed", "seeding"}
              /\ Replayed(req[d].svc, d) \/ Len(ring[req[d].svc]) = ringSize
              /\ req[d].pc = "refused" => ~Replayed(req[d].svc, d)
          BY <1>1, <5>1 DEF RingHonest
        <5>3. CASE req[d].svc # s
          <6>1. ring'[req[d].svc] = ring[req[d].svc]
            BY <3>7, <5>2, <5>3 DEF Typed, RequestsTyped
          <6> QED
            BY <4>0, <5>1, <5>2, <6>1 DEF Replayed
        <5>4. CASE req[d].svc = s
          <6>1. ring'[req'[d].svc] = w
            BY <3>1, <3>7, <5>1, <5>4 DEF s
          <6>2. (\E i \in DOMAIN w : w[i][1] = d) \/ Len(w) = ringSize
            <7>1. k = 0 => Len(q) # ringSize
              BY <1>0, <3>3, <3>4
            <7>2. (\E i \in DOMAIN q : q[i][1] = d) \/ Len(q) = ringSize
              BY <3>12, <5>2, <5>4 DEF Replayed
            <7> QED
              BY <3>4, <3>12, <3>14, <3>15, <7>1, <7>2
          <6>3. req[d].pc = "refused" => ~ \E i \in DOMAIN w : w[i][1] = d
            <7>1. req[d].pc = "refused" => ~ \E i \in 1 .. Len(q) : q[i][1] = d
              BY <3>12, <5>2, <5>4 DEF Replayed
            <7> QED
              BY <3>3, <3>9, <3>12, <4>2, <7>1
          <6> QED
            BY <4>0, <5>1, <5>2, <6>1, <6>2, <6>3
        <5> QED
          BY <5>3, <5>4
      <4> QED
        BY <4>1, <4>2
    <3> QED
      BY <3>13, <3>16 DEF RingHonest, Replayed
  <2> QED
    BY <2>1, <2>2
<1>5. ASSUME NEW h \in Host, DashNext(h) PROVE RingHonest'
  <2>1. ring' = ring /\ applied' = applied /\ global' = global
    BY <1>5, DashFrame DEF redis
  <2>2. ASSUME NEW c \in Edit
        PROVE  /\ req[c].pc # "idle" => req'[c].pc # "idle" /\ req'[c].svc = req[c].svc
               /\ req'[c].pc \in {"seed", "seeding", "refused"} => req'[c].pc = req[c].pc
    BY <1>5, DashRequest
  <2>3. \A c \in Edit : applied[c] > 0 => req[c].pc \notin {"seed", "seeding"}
    BY <1>1 DEF RingHonest
  <2> QED
    BY <1>0, <1>3, <2>1, <2>2, <2>3
<1>6. CASE UNCHANGED <<redis, req>>
  <2>1. ring' = ring /\ applied' = applied /\ global' = global /\ req' = req
    BY <1>6 DEF redis
  <2>3. \A c \in Edit : applied[c] > 0 => req[c].pc \notin {"seed", "seeding"}
    BY <1>1 DEF RingHonest
  <2> QED
    BY <1>0, <1>3, <2>1, <2>3
<1> QED
  BY <1>1, <1>4, <1>5, <1>6, ProxyFrame DEF Next, vars

\* The ring remembers ringSize edits of a service: an edit that was written and is
\* not in it has ringSize others after it.
LEMMA ForgottenByOthers ==
  ASSUME Typed, RingTyped, RingHonest, wipes = 0,
         NEW c \in Edit, req[c].pc = "refused", applied[c] > 0
  PROVE  Cardinality(Neighbours(c)) >= ringSize
<1> DEFINE s == req[c].svc
           f == [i \in 1 .. ringSize |-> ring[s][i][1]]
<1>0. ringSize \in Nat /\ ring \in [Service -> Seq(Edit \X Nat)] /\ s \in Service
  BY LabelAssumption DEF LabelAssumption, Typed, RequestsTyped, RingTyped
<1>1. Len(ring[s]) = ringSize /\ ~Replayed(s, c)
  BY DEF RingHonest
<1>2. DOMAIN ring[s] = 1 .. ringSize /\ \A i \in 1 .. ringSize : ring[s][i][1] \in Edit
  BY <1>0, <1>1
<1>3. ASSUME NEW i \in 1 .. ringSize
      PROVE  /\ ring[s][i][1] \in Neighbours(c)
             /\ \A j \in 1 .. ringSize : ring[s][i][1] = ring[s][j][1] => i = j
  BY <1>0, <1>1, <1>2 DEF RingHonest, Neighbours, Replayed
<1>4. f \in Injection(1 .. ringSize, Neighbours(c))
  <2>1. f \in [1 .. ringSize -> Neighbours(c)]
    BY <1>3
  <2>2. IsInjective(f)
    BY <1>3 DEF IsInjective
  <2> QED
    BY <2>1, <2>2 DEF Injection
<1>5. IsFiniteSet(Neighbours(c))
  <2>1. Neighbours(c) \subseteq Edit
    BY DEF Neighbours
  <2> QED
    BY <2>1, LabelAssumption, FS_Subset DEF LabelAssumption
<1>6. Cardinality(1 .. ringSize) <= Cardinality(Neighbours(c))
  BY <1>4, <1>5, FS_Injection
<1>7. Cardinality(1 .. ringSize) = ringSize
  BY <1>0, FS_Interval
<1>8. Cardinality(Neighbours(c)) \in Nat
  BY <1>5, FS_CardinalityType
<1> QED
  BY <1>0, <1>6, <1>7, <1>8

RingInv == KeptInv /\ RingTyped /\ RingHonest

\* A refused edit has not landed, also when it was sent again after a lost answer,
\* until ringSize other edits of its service have made the script forget its
\* request_id (labelsWriteScript's ring), for any number of edits and any ring.
THEOREM RefusedHasNotLanded == Spec => []RefusedIsUnapplied
<1>1. Init => RingTyped /\ RingHonest
  BY LabelAssumption DEF LabelAssumption, Init, RingTyped, RingHonest
<1>2. ASSUME RingInv, [Next]_vars PROVE RingTyped' /\ RingHonest'
  BY <1>2, NextRingTyped, NextRingHonest DEF RingInv, KeptInv
<1>3. RingInv => RefusedIsUnapplied
  <2> SUFFICES ASSUME RingInv, NEW c \in Edit, req[c].pc = "refused", wipes = 0, ~(applied[c] = 0)
               PROVE  Cardinality(Neighbours(c)) >= ringSize
    BY DEF RefusedIsUnapplied, RingInv, KeptInv, Typed, BoundsKept
  <2>1. applied[c] > 0
    BY DEF RingInv, KeptInv, Typed, RedisTyped
  <2> QED
    BY <2>1, ForgottenByOthers DEF RingInv, KeptInv
<1> QED
  BY <1>1, <1>2, <1>3, KeptAlways, PTL DEF Spec, RingInv

-----------------------------------------------------------------------------
(* The reseed                                                              *)

LEMMA AdoptedGrows ==
  ASSUME Typed, [Next]_vars, ~Wipe
  PROVE  Adopted \subseteq Adopted' /\ global' >= global /\ global' \in Nat
<1>0. global \in Nat /\ rec \in [Service -> [ver : Nat, val : Labels]]
  BY DEF Typed, RedisTyped
<1>1. UNCHANGED <<rec, global>> \/ \E s \in Service : \E labels \in Labels : Store(s, labels)
  <2>1. ASSUME NEW c \in Edit, EditNext(c)
        PROVE  UNCHANGED <<rec, global>> \/ \E s \in Service : \E labels \in Labels : Store(s, labels)
    BY <2>1, EditWrites DEF redis
  <2> QED
    BY <2>1, DashFrame, ProxyFrame DEF Next, vars, redis
<1>2. ASSUME NEW s \in Service, NEW labels \in Labels, Store(s, labels)
      PROVE  Adopted \subseteq Adopted' /\ global' >= global /\ global' \in Nat
  <2>1. \A t \in Service : rec[t].ver > 0 => rec'[t].ver > 0
    BY <1>0, <1>2 DEF Store
  <2> QED
    BY <1>0, <1>2, <2>1 DEF Store, Adopted
<1>3. CASE UNCHANGED <<rec, global>>
  BY <1>0, <1>3 DEF Adopted
<1> QED
  BY <1>1, <1>2, <1>3

\* What a proxy takes over is what the index held.
LEMMA ProxyTakes ==
  ASSUME Typed, NEW h \in Host, ProxyNext(h)
  PROVE  /\ \A g \in Host : pcheck'[g].pc = "data" =>
              pcheck'[g] = pcheck[g] \/ pcheck'[g].members = Adopted
         /\ \/ known' = known
            \/ /\ pcheck[h].pc = "data" /\ known' = known \cup pcheck[h].members
               /\ DOMAIN ov'[h].svcs = pcheck[h].members /\ pcheck'[h].pc # "data"
<1>0. /\ pcheck \in [Host -> Checks] /\ ov \in [Host -> Overlays]
  BY DEF Typed, CopiesTyped
<1>1. CASE ProxyVersion(h)
  BY <1>0, <1>1 DEF ProxyVersion, Checks
<1>2. CASE ProxyLoadVersion(h)
  <2>1. /\ known' = known
        /\ \/ pcheck' = [pcheck EXCEPT ![h] = Unlocked]
           \/ pcheck' = [pcheck EXCEPT ![h] = [pcheck[h] EXCEPT !.pc = "index", !.ver = global]]
    BY <1>2 DEF ProxyLoadVersion
  <2>2. /\ [pcheck[h] EXCEPT !.pc = "index", !.ver = global].pc = "index"
        /\ Unlocked.pc = "free"
    BY <1>0 DEF Checks, Unlocked
  <2> QED
    BY <1>0, <2>1, <2>2
<1>3. CASE ProxyLoadIndex(h)
  BY <1>0, <1>3 DEF ProxyLoadIndex, Checks
<1>4. CASE ProxyLoad(h)
  <2>1. /\ pcheck[h].pc = "data" /\ known' = known \cup pcheck[h].members
        /\ pcheck' = [pcheck EXCEPT ![h] = Unlocked]
        /\ ov' = [ov EXCEPT ![h] = [src |-> "redis", ver |-> pcheck[h].ver,
                                    svcs |-> [s \in pcheck[h].members |-> rec[s].val]]]
    BY <1>4 DEF ProxyLoad
  <2>2. DOMAIN ov'[h].svcs = pcheck[h].members
    BY <1>0, <2>1
  <2> QED
    BY <1>0, <2>1, <2>2 DEF Unlocked
<1>5. CASE ProxyCheckFails(h) \/ ProxyRestarts(h)
  BY <1>0, <1>5 DEF ProxyCheckFails, ProxyRestarts, Unlocked
<1> QED
  BY <1>1, <1>2, <1>3, <1>4, <1>5 DEF ProxyNext

LEMMA NextLoaded ==
  ASSUME Typed, LoadedIsAdopted, [Next]_vars
  PROVE  LoadedIsAdopted'
<1>1. CASE Wipe
  BY <1>1 DEF Wipe, Quiet, proxy, LoadedIsAdopted, Typed, BoundsKept
<1>2. CASE ~Wipe
  <2>1. Adopted \subseteq Adopted' /\ wipes' = wipes
    BY <1>2, AdoptedGrows, EditFrame, DashFrame, ProxyFrame DEF Next, vars
  <2>2. CASE UNCHANGED <<proxy, known>>
    BY <2>1, <2>2 DEF proxy, LoadedIsAdopted
  <2>3. ASSUME NEW h \in Host, ProxyNext(h) PROVE LoadedIsAdopted'
    <3>1. Adopted' = Adopted
      BY <2>3, ProxyFrame DEF redis, Adopted
    <3> QED
      BY <2>1, <2>3, <3>1, ProxyTakes DEF LoadedIsAdopted
  <2> QED
    BY <1>2, <2>2, <2>3, EditFrame, DashFrame DEF Next, vars
<1> QED
  BY <1>1, <1>2

\* An overlay changes its services only by a load.
LEMMA OverlayMoves ==
  ASSUME Typed, DiskIsOverlay, NEW h \in Host, ProxyNext(h)
  PROVE  \/ ov'[h].svcs = ov[h].svcs
         \/ DOMAIN ov'[h].svcs = pcheck[h].members /\ pcheck[h].pc = "data"
<1>0. ov \in [Host -> Overlays] /\ ov[h] \in Overlays /\ ov[h].svcs = disk[h].svcs
  BY DEF Typed, CopiesTyped, DiskIsOverlay
<1>1. handleWiped(ov[h]).svcs = ov[h].svcs
  <2>1. [ov[h] EXCEPT !.src = "disk"].svcs = ov[h].svcs
    BY <1>0 DEF Overlays
  <2>2. [NoOverlay EXCEPT !.src = "redis"].svcs = NoMap
    BY DEF NoOverlay
  <2> QED
    BY <2>1, <2>2 DEF handleWiped
<1>2. CASE ProxyLoad(h)
  BY <1>0, <1>2 DEF ProxyLoad
<1>3. CASE ProxyRestarts(h)
  BY <1>0, <1>3 DEF ProxyRestarts
<1>4. CASE ov' = ov \/ ov' = [ov EXCEPT ![h] = handleWiped(ov[h])]
  BY <1>0, <1>1, <1>4
<1>5. ASSUME ProxyVersion(h) \/ ProxyLoadVersion(h) \/ ProxyLoadIndex(h) \/ ProxyCheckFails(h)
      PROVE  ov' = ov \/ ov' = [ov EXCEPT ![h] = handleWiped(ov[h])]
  BY <1>5 DEF ProxyVersion, ProxyLoadVersion, ProxyLoadIndex, ProxyCheckFails
<1> QED
  BY <1>2, <1>3, <1>4, <1>5 DEF ProxyNext

LEMMA NextOverlay ==
  ASSUME Typed, DiskIsOverlay, LoadedIsAdopted, OverlayHasAll, [Next]_vars
  PROVE  OverlayHasAll'
<1> SUFFICES ASSUME OneHost, NEW h \in Host
             PROVE  /\ wipes' = 0 /\ pcheck'[h].pc = "data" => known' \subseteq pcheck'[h].members
                    /\ wipes' = 0 \/ (wipes' = 1 /\ global' = 0) => known' \subseteq DOMAIN ov'[h].svcs
  BY DEF OverlayHasAll, OneHost
<1>0. /\ wipes \in Nat /\ global \in Nat
      /\ wipes = 0 /\ pcheck[h].pc = "data" => known \subseteq pcheck[h].members
      /\ wipes = 0 \/ (wipes = 1 /\ global = 0) => known \subseteq DOMAIN ov[h].svcs
  BY DEF OverlayHasAll, Typed, BoundsKept, RedisTyped
<1>1. CASE Wipe
  BY <1>0, <1>1 DEF Wipe, proxy
<1>2. CASE ~Wipe
  <2>1. wipes' = wipes /\ (global' = 0 => global = 0)
    BY <1>0, <1>2, AdoptedGrows, EditFrame, DashFrame, ProxyFrame DEF Next, vars
  <2>2. CASE UNCHANGED <<proxy, known>>
    BY <1>0, <2>1, <2>2 DEF proxy
  <2>3. ASSUME NEW g \in Host, ProxyNext(g)
        PROVE  /\ wipes' = 0 /\ pcheck'[h].pc = "data" => known' \subseteq pcheck'[h].members
               /\ wipes' = 0 \/ (wipes' = 1 /\ global' = 0) => known' \subseteq DOMAIN ov'[h].svcs
    <3>0. g = h
      BY DEF OneHost
    <3>1. wipes = 0 => known \subseteq Adopted
      BY DEF LoadedIsAdopted
    <3>2. ~(pcheck[h].pc = "data" /\ global = 0)
      BY DEF DiskIsOverlay
    <3>3. CASE known' = known
      <4>1. wipes = 0 /\ pcheck'[h].pc = "data" => known' \subseteq pcheck'[h].members
        BY <1>0, <2>3, <3>0, <3>1, <3>3, ProxyTakes
      <4>2. ov'[h].svcs = ov[h].svcs \/ (DOMAIN ov'[h].svcs = pcheck[h].members /\ pcheck[h].pc = "data")
        BY <2>3, <3>0, OverlayMoves
      <4> QED
        BY <1>0, <2>1, <3>2, <3>3, <4>1, <4>2
    <3>4. CASE /\ pcheck[h].pc = "data" /\ known' = known \cup pcheck[h].members
               /\ DOMAIN ov'[h].svcs = pcheck[h].members /\ pcheck'[h].pc # "data"
      BY <1>0, <2>1, <3>2, <3>4
    <3> QED
      BY <2>3, <3>0, <3>3, <3>4, ProxyTakes
  <2> QED
    BY <1>2, <2>2, <2>3, EditFrame, DashFrame DEF Next, vars
<1> QED
  BY <1>1, <1>2

\* What a step of an edit does to its part of a reseed, as long as nothing fails.
LEMMA EditReseed ==
  ASSUME Typed, NEW c \in Edit, EditNext(c), ~Fault
  PROVE  \/ /\ req[c].pc # "seeding" /\ req'[c].pc # "seeding"
            /\ req'[c].init => req[c].init
         \/ /\ req[c].pc = "seed" /\ req[c].host \in Host /\ UNCHANGED redis
            /\ \/ /\ req'[c].pc = "seeding"
                  /\ ov[req[c].host].svcs # NoMap => req'[c].todo = ov[req[c].host].svcs
               \/ ov[req[c].host].svcs = NoMap
         \/ /\ req[c].pc = "seeding"
            /\ \E s \in DOMAIN req[c].todo :
                 /\ s \in Adopted'
                 /\ DOMAIN req'[c].todo = DOMAIN req[c].todo \ {s}
                 /\ req'[c].pc = "seeding" \/ DOMAIN req'[c].todo = {}
<1>0. req \in [Edit -> Requests] /\ req[c] \in Requests
  BY DEF Typed, RequestsTyped
<1>1. ASSUME NEW h \in Host, NEW s \in Service, Look(c, h, s)
      PROVE  req[c].pc = "idle" /\ req'[c].pc = "ready" /\ req'[c].init = FALSE
  BY <1>0, <1>1 DEF Look, NoRequest
<1>2. CASE Begin(c)
  <2>1. req[c].pc = "ready" /\ req'[c].pc \in {"get", "seed"} /\ req'[c].init = FALSE
    BY <1>0, <1>2 DEF Begin, Requests
  <2> QED
    BY <2>1
<1>3. CASE Seed(c)
  <2>1. req[c].pc = "seed" /\ req[c].host \in Host /\ UNCHANGED redis
    BY <1>3 DEF Seed, Typed, RequestsTyped
  <2>2. ASSUME ov[req[c].host].svcs # NoMap
        PROVE  req' = [req EXCEPT ![c] = [req[c] EXCEPT !.pc = "seeding", !.todo = ov[req[c].host].svcs]]
    BY <1>3, <2>2 DEF Seed
  <2>3. ASSUME ov[req[c].host].svcs # NoMap
        PROVE  req'[c].pc = "seeding" /\ req'[c].todo = ov[req[c].host].svcs
    BY <1>0, <2>2, <2>3 DEF Requests
  <2> QED
    BY <2>1, <2>3
<1>4. ASSUME NEW s \in Service, SeedOne(c, s)
      PROVE  /\ req[c].pc = "seeding" /\ s \in DOMAIN req[c].todo /\ s \in Adopted'
             /\ DOMAIN req'[c].todo = DOMAIN req[c].todo \ {s}
             /\ req'[c].pc = "seeding" \/ DOMAIN req'[c].todo = {}
  <2> DEFINE rest == [t \in DOMAIN req[c].todo \ {s} |-> req[c].todo[t]]
  <2>1. /\ req[c].pc = "seeding" /\ s \in DOMAIN req[c].todo
        /\ rec[s].ver = 0 => Store(s, req[c].todo[s])
        /\ rec[s].ver # 0 => UNCHANGED redis
        /\ req' = [req EXCEPT ![c] =
             [req[c] EXCEPT !.todo = rest, !.init = TRUE,
                            !.pc = IF rest = NoMap THEN "reseeded" ELSE "seeding"]]
    BY <1>4 DEF SeedOne
  <2>2. DOMAIN rest = DOMAIN req[c].todo \ {s} /\ DOMAIN NoMap = {}
    BY DEF NoMap
  <2> HIDE DEF rest
  <2>3. req'[c].todo = rest /\ (req'[c].pc = "seeding" \/ rest = NoMap)
    BY <1>0, <2>1 DEF Requests
  <2>4. s \in Adopted'
    <3>0. rec \in [Service -> [ver : Nat, val : Labels]]
      BY DEF Typed, RedisTyped
    <3>1. CASE rec[s].ver = 0
      <4>1. rec'[s].ver = rec[s].ver + 1
        BY <2>1, <3>0, <3>1 DEF Store
      <4> QED
        BY <3>1, <4>1 DEF Adopted
    <3>2. CASE rec[s].ver # 0
      BY <2>1, <3>0, <3>2 DEF redis, Adopted
    <3> QED
      BY <3>1, <3>2
  <2> QED
    BY <2>1, <2>2, <2>3, <2>4
<1>5. CASE Get(c)
  <2>1. req[c].pc = "get" /\ req'[c].pc # "seeding"
    BY <1>5, EditRequest DEF Get
  <2>2. req'[c].init => req[c].init
    <3> DEFINE r == rec[req[c].svc]
    <3>1. \/ req' = [req EXCEPT ![c] = [req[c] EXCEPT !.pc = "replay", !.next = r.val, !.init = FALSE]]
          \/ req' = [req EXCEPT ![c] = [req[c] EXCEPT !.pc = "refused"]]
          \/ req' = [req EXCEPT ![c] = [req[c] EXCEPT !.pc = "done"]]
          \/ req' = [req EXCEPT ![c] = [req[c] EXCEPT !.pc = "write", !.next = r.val \cup {c}]]
      BY <1>5 DEF Get, Goto
    <3> HIDE DEF r
    <3>2. CASE req' = [req EXCEPT ![c] = [req[c] EXCEPT !.pc = "replay", !.next = r.val, !.init = FALSE]]
      BY <1>0, <3>2 DEF Requests
    <3>3. CASE req' = [req EXCEPT ![c] = [req[c] EXCEPT !.pc = "refused"]]
      BY <1>0, <3>3 DEF Requests
    <3>4. CASE req' = [req EXCEPT ![c] = [req[c] EXCEPT !.pc = "done"]]
      BY <1>0, <3>4 DEF Requests
    <3>5. CASE req' = [req EXCEPT ![c] = [req[c] EXCEPT !.pc = "write", !.next = r.val \cup {c}]]
      BY <1>0, <3>5 DEF Requests
    <3> QED
      BY <3>1, <3>2, <3>3, <3>4, <3>5
  <2> QED
    BY <2>1, <2>2
<1>6. CASE Write(c)
  <2>1. req[c].pc \in {"write", "replay"} /\ req'[c].pc # "seeding" /\ req'[c].init = FALSE
    BY <1>0, <1>6 DEF Write, Requests
  <2> QED
    BY <2>1
<1>7. CASE Retry(c)
  BY <1>0, <1>7 DEF Retry, Goto, Requests
<1>8. ~(SeedBlind(c) \/ SeedFails(c) \/ WriteUnanswered(c))
  BY DEF SeedBlind, SeedFails, WriteUnanswered
<1> QED
  BY <1>1, <1>2, <1>3, <1>4, <1>5, <1>6, <1>7, <1>8 DEF EditNext

LEMMA NextReseed ==
  ASSUME Typed, LoadedIsAdopted, OverlayHasAll, ReseedHasAll, [Next]_vars
  PROVE  ReseedHasAll'
<1> SUFFICES ASSUME OneHost, wipes' = 1, faults' = 0
             PROVE  /\ global' = 0 => \A c \in Edit :
                         /\ req'[c].pc = "seeding" => Missing' \subseteq DOMAIN req'[c].todo
                         /\ req'[c].init /\ req'[c].pc # "seeding" => Missing' = {}
                    /\ global' > 0 /\ Missing' # {} =>
                         \E c \in Edit : req'[c].pc = "seeding" /\ Missing' \subseteq DOMAIN req'[c].todo
  BY DEF ReseedHasAll, OneHost
<1>0. global \in Nat /\ faults \in Nat
  BY DEF Typed, BoundsKept, RedisTyped
<1>1. CASE Wipe
  BY <1>1 DEF Wipe, Quiet
<1>2. CASE ~Wipe
  <2>0. /\ wipes = 1 /\ ~Fault /\ faults = 0
        /\ global' >= global /\ global' \in Nat /\ Adopted \subseteq Adopted'
    <3>1. wipes' = wipes /\ (Fault \/ faults' = faults)
      BY <1>2, EditFrame, DashFrame, ProxyFrame DEF Next, vars
    <3> QED
      BY <1>0, <1>2, <3>1, AdoptedGrows DEF Fault
  <2>1. /\ global = 0 => \A c \in Edit :
             /\ req[c].pc = "seeding" => Missing \subseteq DOMAIN req[c].todo
             /\ req[c].init /\ req[c].pc # "seeding" => Missing = {}
        /\ global > 0 /\ Missing # {} =>
             \E c \in Edit : req[c].pc = "seeding" /\ Missing \subseteq DOMAIN req[c].todo
    BY <2>0 DEF ReseedHasAll
  <2>2. ASSUME UNCHANGED redis, Missing' = Missing,
               \A c \in Edit :
                 \/ req'[c] = req[c]
                 \/ /\ req'[c].init = req[c].init
                    /\ req[c].pc # "seeding" /\ req'[c].pc # "seeding"
        PROVE  /\ global' = 0 => \A c \in Edit :
                    /\ req'[c].pc = "seeding" => Missing' \subseteq DOMAIN req'[c].todo
                    /\ req'[c].init /\ req'[c].pc # "seeding" => Missing' = {}
               /\ global' > 0 /\ Missing' # {} =>
                    \E c \in Edit : req'[c].pc = "seeding" /\ Missing' \subseteq DOMAIN req'[c].todo
    <3>1. global' = global
      BY <2>2 DEF redis
    <3> QED
      BY <2>1, <2>2, <3>1
  <2>3. ASSUME NEW h \in Host, ProxyNext(h)
        PROVE  UNCHANGED <<redis, req>> /\ Missing' = Missing
    <3>1. UNCHANGED <<redis, req>> /\ Adopted' = Adopted
      BY <2>3, ProxyFrame DEF redis, Adopted
    <3> QED
      BY <2>3, <3>1, ProxyTakes DEF Missing, LoadedIsAdopted
  <2>4. ASSUME NEW h \in Host, DashNext(h)
        PROVE  /\ UNCHANGED redis /\ Missing' = Missing
               /\ \A c \in Edit :
                    \/ req'[c] = req[c]
                    \/ /\ req'[c].init = req[c].init
                       /\ req[c].pc # "seeding" /\ req'[c].pc # "seeding"
    <3>1. UNCHANGED redis /\ Missing' = Missing
      BY <2>4, DashFrame DEF redis, Missing, Adopted
    <3> QED
      BY <2>0, <2>4, <3>1, DashRequest
  <2>5. ASSUME NEW c \in Edit, EditNext(c)
        PROVE  /\ global' = 0 => \A d \in Edit :
                    /\ req'[d].pc = "seeding" => Missing' \subseteq DOMAIN req'[d].todo
                    /\ req'[d].init /\ req'[d].pc # "seeding" => Missing' = {}
               /\ global' > 0 /\ Missing' # {} =>
                    \E d \in Edit : req'[d].pc = "seeding" /\ Missing' \subseteq DOMAIN req'[d].todo
    <3>1. Missing' \subseteq Missing /\ \A d \in Edit \ {c} : req'[d] = req[d]
      BY <2>0, <2>5, EditFrame, EditRequest DEF Missing
    <3>2. ASSUME req[c].pc = "seeding", Missing \subseteq DOMAIN req[c].todo
          PROVE  /\ req'[c].pc = "seeding" => Missing' \subseteq DOMAIN req'[c].todo
                 /\ Missing' = {} \/ req'[c].pc = "seeding"
      <4>1. PICK s \in DOMAIN req[c].todo :
              /\ s \in Adopted'
              /\ DOMAIN req'[c].todo = DOMAIN req[c].todo \ {s}
              /\ req'[c].pc = "seeding" \/ DOMAIN req'[c].todo = {}
        BY <2>0, <2>5, <3>2, EditReseed
      <4>2. s \notin Missing'
        BY <4>1 DEF Missing
      <4> QED
        BY <3>1, <3>2, <4>1, <4>2
    <3>3. ASSUME global = 0
          PROVE  /\ req'[c].pc = "seeding" => Missing' \subseteq DOMAIN req'[c].todo
                 /\ req'[c].init /\ req'[c].pc # "seeding" => Missing' = {}
      <4>1. CASE req[c].pc = "seeding"
        BY <2>1, <3>2, <3>3, <4>1
      <4>2. CASE /\ req[c].pc = "seed" /\ req[c].host \in Host
                 /\ \/ /\ req'[c].pc = "seeding"
                       /\ ov[req[c].host].svcs # NoMap => req'[c].todo = ov[req[c].host].svcs
                    \/ ov[req[c].host].svcs = NoMap
        <5>1. known \subseteq DOMAIN ov[req[c].host].svcs
          BY <2>0, <3>3, <4>2 DEF OverlayHasAll
        <5>2. DOMAIN NoMap = {}
          BY DEF NoMap
        <5>3. Missing \subseteq known
          BY DEF Missing
        <5> QED
          BY <3>1, <4>2, <5>1, <5>2, <5>3
      <4>3. CASE /\ req[c].pc # "seeding" /\ req'[c].pc # "seeding"
                 /\ req'[c].init => req[c].init
        BY <2>1, <3>1, <3>3, <4>3
      <4> QED
        BY <2>0, <2>5, <4>1, <4>2, <4>3, EditReseed
    <3>4. ASSUME global' = 0, NEW d \in Edit
          PROVE  /\ req'[d].pc = "seeding" => Missing' \subseteq DOMAIN req'[d].todo
                 /\ req'[d].init /\ req'[d].pc # "seeding" => Missing' = {}
      <4>1. global = 0
        BY <1>0, <2>0, <3>4
      <4>2. CASE d = c
        BY <3>3, <4>1, <4>2
      <4>3. CASE d # c
        BY <2>1, <3>1, <4>1, <4>3
      <4> QED
        BY <4>2, <4>3
    <3>5. ASSUME global' > 0, Missing' # {}
          PROVE  \E d \in Edit : req'[d].pc = "seeding" /\ Missing' \subseteq DOMAIN req'[d].todo
      <4>1. CASE global > 0
        <5>1. PICK d \in Edit : req[d].pc = "seeding" /\ Missing \subseteq DOMAIN req[d].todo
          BY <2>1, <3>1, <3>5, <4>1
        <5>2. CASE d = c
          BY <3>2, <3>5, <5>1, <5>2
        <5>3. CASE d # c
          BY <3>1, <5>1, <5>3
        <5> QED
          BY <5>2, <5>3
      <4>2. CASE global = 0
        <5>1. ~UNCHANGED redis
          BY <3>5, <4>2 DEF redis
        <5>2. CASE req[c].pc = "seeding"
          BY <2>1, <3>2, <3>5, <4>2, <5>2
        <5>3. CASE req[c].pc \in {"write", "replay"} /\ Accepts(req[c].svc, req[c].ifv, req[c].init)
          <6>1. req[c].init
            BY <4>2, <5>3 DEF Accepts
          <6> QED
            BY <2>1, <3>1, <3>5, <4>2, <5>3, <6>1
        <5> QED
          BY <2>5, <5>1, <5>2, <5>3, EditWrites
      <4> QED
        BY <1>0, <4>1, <4>2
    <3> QED
      BY <3>4, <3>5
  <2>6. CASE UNCHANGED vars
    BY <2>2, <2>6 DEF vars, redis, Missing, Adopted
  <2> QED
    BY <1>2, <2>2, <2>3, <2>4, <2>5, <2>6 DEF Next
<1> QED
  BY <1>1, <1>2

ReseedInv == KeptInv /\ LoadedIsAdopted /\ OverlayHasAll /\ ReseedHasAll

\* After the first loss of Redis's data, on one host and as long as nothing fails,
\* every service the proxy has taken over is back before an edit is written
\* (ensureLabelsSeeded), for any services and edits.
THEOREM ReseedBringsBack == Spec => []ReseedRestores
<1>1. Init => LoadedIsAdopted /\ OverlayHasAll /\ ReseedHasAll
  BY DEF Init, LoadedIsAdopted, OverlayHasAll, ReseedHasAll, Unlocked
<1>2. ASSUME ReseedInv, [Next]_vars
      PROVE  LoadedIsAdopted' /\ OverlayHasAll' /\ ReseedHasAll'
  BY <1>2, NextLoaded, NextOverlay, NextReseed DEF ReseedInv, KeptInv
<1>3. ReseedInv => ReseedRestores
  <2> SUFFICES ASSUME ReseedInv, OneHost, wipes <= 1, faults = 0, global > 0,
                      \A c \in Edit : req[c].pc # "seeding"
               PROVE  known \subseteq Adopted
    BY DEF ReseedRestores, AdoptionKept
  <2>1. wipes = 0 \/ wipes = 1
    BY DEF ReseedInv, KeptInv, Typed, BoundsKept
  <2> QED
    BY <2>1 DEF ReseedInv, LoadedIsAdopted, ReseedHasAll, Missing
<1> QED
  BY <1>1, <1>2, <1>3, KeptAlways, PTL DEF Spec, ReseedInv

\* The invariant that the run over the labels checks, for every instance.
THEOREM CopiesAreTrue == Spec => []CopiesTrue
<1>1. Typed /\ RingTyped => TypeOK
  BY DEF Typed, RingTyped, RedisTyped, CopiesTyped, RequestsTyped, BoundsKept, TypeOK,
         Overlays, Snapshots, Checks, Requests
<1>2. Spec => []RingTyped
  <2>1. Init => RingTyped
    BY LabelAssumption DEF LabelAssumption, Init, RingTyped
  <2> QED
    BY <2>1, NextRingTyped, TypedKept, PTL DEF Spec
<1> QED
  BY <1>1, <1>2, TypedKept, CopiesAreFresh, RefusedHasNotLanded, ReseedBringsBack, PTL DEF CopiesTrue
=============================================================================
