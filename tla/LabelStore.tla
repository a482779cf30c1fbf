----------------------------- MODULE LabelStore -----------------------------
(***************************************************************************)
(* Centrally managed labels: the Redis records and the script that writes  *)
(* them, the one write path of a dashboard with its wipe guard and reseed  *)
(* (cmd/dashboard/labels_api.go, labelstore.go), the dashboard's snapshot, *)
(* and the overlay a proxy routes on with its disk cache                   *)
(* (cmd/proxy/labeloverlay.go).                                            *)
(*                                                                         *)
(* A label map is the set of edits in it: edit c sets a key of its own, so *)
(* a map that lost an edit, or has it back, is a different map.            *)
(***************************************************************************)
EXTENDS Naturals, Sequences, FiniteSets

CONSTANTS
  Host,       \* each runs a dashboard and a proxy
  Service,
  Edit,       \* label edits of operators, each with its own request_id
  ringSize,   \* labelsReqIDRing
  MaxWipes,   \* bound: how often Redis loses its data
  MaxFaults   \* bound: lost calls and answers, and restarts

ASSUME LabelAssumption ==
  /\ {ringSize, MaxWipes, MaxFaults} \subseteq Nat
  /\ IsFiniteSet(Edit) /\ "poll" \notin Edit

VARIABLES
  global,    \* pmgr:labels:version, 0 when the key is missing
  rec,       \* rec[s]: version and labels of service s, version 0: none
  ring,      \* ring[s]: the last request_ids written, with their versions
  ov,        \* ov[h]: overlayManager.cur of the proxy
  disk,      \* disk[h]: its cache file
  pcheck,    \* pcheck[h]: how far the proxy's check has got
  snap,      \* snap[h]: redisLabelStore.cur of the dashboard
  dcheck,    \* dcheck[h]: the check that holds redisLabelStore.mu
  req,       \* req[c]: what the request of edit c is doing
  applied,   \* history: how often the script wrote edit c
  known,     \* history: services some proxy has taken over
  wipes, faults

redis == <<global, rec, ring, applied>>
proxy == <<ov, disk, pcheck>>
dash == <<snap, dcheck>>
vars == <<redis, proxy, dash, req, known, wipes, faults>>

Labels == SUBSET Edit
Maps == UNION {[D -> Labels] : D \in SUBSET Service}
NoMap == [s \in {} |-> {}]

Adopted == {s \in Service : rec[s].ver > 0}
Contents == [s \in Adopted |-> rec[s].val]

NoOverlay == [src |-> "none", ver |-> 0, svcs |-> NoMap]
NoSnapshot == [there |-> FALSE, ver |-> 0, svcs |-> NoMap, wiped |-> FALSE]
Unlocked == [pc |-> "free", by |-> "poll", ver |-> 0, members |-> {}]
NoRequest(c) == [pc |-> "idle", host |-> "none", svc |-> "none", ifv |-> 0,
                 seen |-> {}, todo |-> NoMap, init |-> FALSE, next |-> {}]

Phases == {"idle", "ready", "seed", "seeding", "reseeded", "get", "write",
           "replay", "refresh", "unknown", "refused", "done"}

TypeOK ==
  /\ global \in Nat
  /\ \A s \in Service : rec[s].ver \in Nat /\ rec[s].val \in Labels
  /\ \A s \in Service : Len(ring[s]) <= ringSize
  /\ \A h \in Host :
       /\ ov[h].src \in {"none", "redis", "disk"} /\ ov[h].svcs \in Maps
       /\ disk[h].src \in {"none", "disk"} /\ disk[h].svcs \in Maps
       /\ pcheck[h].pc \in {"free", "load", "index", "data"}
       /\ snap[h].there \in BOOLEAN /\ snap[h].svcs \in Maps
       /\ dcheck[h].pc \in {"free", "index", "data"}
  /\ \A c \in Edit : req[c].pc \in Phases /\ req[c].todo \in Maps
  /\ known \subseteq Service
  /\ wipes <= MaxWipes /\ faults <= MaxFaults

Init ==
  /\ global = 0
  /\ rec = [s \in Service |-> [ver |-> 0, val |-> {}]]
  /\ ring = [s \in Service |-> <<>>]
  /\ ov = [h \in Host |-> NoOverlay]
  /\ disk = [h \in Host |-> NoOverlay]
  /\ pcheck = [h \in Host |-> Unlocked]
  /\ snap = [h \in Host |-> NoSnapshot]
  /\ dcheck = [h \in Host |-> Unlocked]
  /\ req = [c \in Edit |-> NoRequest(c)]
  /\ applied = [c \in Edit |-> 0]
  /\ known = {}
  /\ wipes = 0 /\ faults = 0

Fault == faults < MaxFaults /\ faults' = faults + 1

-----------------------------------------------------------------------------
(* labelsWriteScript, one atomic EVAL                                      *)

\* The request_id is still in the ring.
Replayed(s, c) == \E i \in DOMAIN ring[s] : ring[s][i][1] = c

\* Past the wipe check and the compare.
Accepts(s, ifv, init) == (global > 0 \/ init) /\ rec[s].ver = ifv

Newest(q) == IF Len(q) <= ringSize THEN q ELSE Tail(q)

\* The record and the global counter, which starts again at 1.
Store(s, labels) ==
  /\ rec' = [rec EXCEPT ![s] = [ver |-> rec[s].ver + 1, val |-> labels]]
  /\ global' = global + 1

\* The script for request c: its answer, and what it writes.
Script(c) ==
  LET s == req[c].svc IN
  IF Replayed(s, c) \/ ~Accepts(s, req[c].ifv, req[c].init)
  THEN UNCHANGED redis
  ELSE /\ Store(s, req[c].next)
       /\ ring' = [ring EXCEPT ![s] = Newest(Append(ring[s], <<c, rec[s].ver + 1>>))]
       /\ applied' = [applied EXCEPT ![c] = applied[c] + 1]

Answer(c) ==
  LET s == req[c].svc IN
  IF Replayed(s, c) THEN "replayed"
  ELSE IF Accepts(s, req[c].ifv, req[c].init) THEN "ok" ELSE "refused"

-----------------------------------------------------------------------------
(* An edit: read, then commitLabelsChange                                  *)

Goto(c, pc) == req' = [req EXCEPT ![c].pc = pc]

\* buildLabelsView: the operator sees the version and labels in Redis.
Look(c, h, s) ==
  /\ req[c].pc = "idle"
  /\ req' = [req EXCEPT ![c] = [NoRequest(c) EXCEPT !.pc = "ready", !.host = h,
                !.svc = s, !.ifv = rec[s].ver, !.seen = rec[s].val]]
  /\ UNCHANGED <<redis, proxy, dash, known, wipes, faults>>

\* commitLabelsChange starts, ensureLabelsSeeded asks for the counter.
Begin(c) ==
  /\ req[c].pc = "ready"
  /\ req' = [req EXCEPT ![c] = [@ EXCEPT !.pc = IF global > 0 THEN "get" ELSE "seed",
                                         !.init = FALSE]]
  /\ UNCHANGED <<redis, proxy, dash, known, wipes, faults>>

\* The counter is missing: reseed from the local proxy's overlay, else from
\* the snapshot, else this is a genuine first write.
Seed(c) ==
  LET h == req[c].host
      services == IF ov[h].svcs # NoMap THEN ov[h].svcs ELSE snap[h].svcs
  IN
  /\ req[c].pc = "seed"
  /\ IF services # NoMap
     THEN req' = [req EXCEPT ![c] = [@ EXCEPT !.pc = "seeding", !.todo = services]]
     ELSE req' = [req EXCEPT ![c] = [@ EXCEPT !.pc = "get", !.init = TRUE]]
  /\ UNCHANGED <<redis, proxy, dash, known, wipes, faults>>

\* The proxy cannot be asked: only the snapshot is left.
SeedBlind(c) ==
  LET kept == snap[req[c].host].svcs IN
  /\ req[c].pc = "seed"
  /\ Fault
  /\ req' = IF kept # NoMap
            THEN [req EXCEPT ![c] = [@ EXCEPT !.pc = "seeding", !.todo = kept]]
            ELSE [req EXCEPT ![c].pc = "refused"]
  /\ UNCHANGED <<redis, proxy, dash, known, wipes>>

\* One write of the reseed loop; a conflict means the service is back.
SeedOne(c, s) ==
  /\ req[c].pc = "seeding"
  /\ s \in DOMAIN req[c].todo
  /\ IF rec[s].ver = 0
     THEN Store(s, req[c].todo[s]) /\ UNCHANGED <<ring, applied>>
     ELSE UNCHANGED redis
  /\ LET rest == [t \in DOMAIN req[c].todo \ {s} |-> req[c].todo[t]]
     IN req' = [req EXCEPT ![c] =
          [@ EXCEPT !.todo = rest, !.init = TRUE,
                    !.pc = IF rest = NoMap THEN "reseeded" ELSE "seeding"]]
  /\ UNCHANGED <<proxy, dash, known, wipes, faults>>

\* A write of the loop fails, and with it the request.
SeedFails(c) ==
  /\ req[c].pc = "seeding"
  /\ Fault
  /\ Goto(c, "refused")
  /\ UNCHANGED <<redis, proxy, dash, known, wipes>>

\* The fresh record decides: a retry is replayed, a stale if_version refused,
\* an edit that changes nothing is done, and the rest is written.
Get(c) ==
  LET r == rec[req[c].svc] IN
  /\ req[c].pc = "get"
  /\ \/ /\ r.ver > 0 /\ req[c].ifv < r.ver
        /\ req' = [req EXCEPT ![c] =
             [@ EXCEPT !.pc = "replay", !.next = r.val, !.init = FALSE]]
     \/ /\ req[c].ifv > r.ver
        /\ Goto(c, "refused")
     \/ /\ r.ver > 0 /\ req[c].ifv = r.ver /\ c \in r.val
        /\ Goto(c, "done")
     \/ /\ req[c].ifv = r.ver /\ c \notin r.val
        /\ req' = [req EXCEPT ![c] = [@ EXCEPT !.pc = "write", !.next = r.val \cup {c}]]
  /\ UNCHANGED <<redis, proxy, dash, known, wipes, faults>>

\* The script answers: a written edit is refreshed, a replay is not.
Write(c) ==
  /\ req[c].pc \in {"write", "replay"}
  /\ Script(c)
  /\ req' = [req EXCEPT ![c] = [@ EXCEPT !.init = FALSE, !.pc =
       IF Answer(c) = "refused" THEN "refused"
       ELSE IF req[c].pc = "write" THEN "refresh" ELSE "done"]]
  /\ UNCHANGED <<proxy, dash, known, wipes, faults>>

\* No answer: Redis never got the call, or its answer is lost.
WriteUnanswered(c) ==
  /\ req[c].pc \in {"write", "replay"}
  /\ Fault
  /\ Script(c) \/ UNCHANGED redis
  /\ Goto(c, "unknown")
  /\ UNCHANGED <<proxy, dash, known, wipes>>

\* "outcome unknown; retry with the same request_id", and the same if_version
Retry(c) ==
  /\ req[c].pc = "unknown"
  /\ Goto(c, "ready")
  /\ UNCHANGED <<redis, proxy, dash, known, wipes, faults>>

-----------------------------------------------------------------------------
(* redisLabelStore.check, by the poll of a dashboard or for a request      *)

Poll == "poll"

\* The check a request waits for is over.
Checked(who) ==
  req' = [c \in Edit |-> IF c # who THEN req[c]
            ELSE [req[c] EXCEPT !.pc = IF req[c].pc = "refresh" THEN "done" ELSE "get"]]

MayCheck(h, who) ==
  who = Poll \/ (who \in Edit /\ req[who].host = h /\ req[who].pc \in {"refresh", "reseeded"})

\* No counter: a snapshot with services is kept, marked as from before.
KeepSnapshot(sn) ==
  IF sn.svcs # NoMap THEN [sn EXCEPT !.wiped = TRUE]
  ELSE IF sn.there THEN sn ELSE [NoSnapshot EXCEPT !.there = TRUE]

\* The version is compared; a snapshot of this version stays.
CheckVersion(h, who) ==
  /\ dcheck[h].pc = "free"
  /\ MayCheck(h, who)
  /\ \/ /\ global = 0
        /\ snap' = [snap EXCEPT ![h] = KeepSnapshot(snap[h])]
        /\ Checked(who)
        /\ UNCHANGED dcheck
     \/ /\ global > 0
        /\ snap[h].there /\ ~snap[h].wiped /\ snap[h].ver = global
        /\ Checked(who)
        /\ UNCHANGED <<snap, dcheck>>
     \/ /\ global > 0
        /\ ~(snap[h].there /\ ~snap[h].wiped /\ snap[h].ver = global)
        /\ dcheck' = [dcheck EXCEPT ![h] =
             [pc |-> "index", by |-> who, ver |-> global, members |-> {}]]
        /\ UNCHANGED <<snap, req>>
  /\ UNCHANGED <<redis, proxy, known, wipes, faults>>

\* load: the index, then every hash.
LoadIndex(h) ==
  /\ dcheck[h].pc = "index"
  /\ dcheck' = [dcheck EXCEPT ![h] = [@ EXCEPT !.pc = "data", !.members = Adopted]]
  /\ UNCHANGED <<redis, proxy, snap, req, known, wipes, faults>>

LoadSnapshot(h) ==
  /\ dcheck[h].pc = "data"
  /\ snap' = [snap EXCEPT ![h] = [there |-> TRUE, ver |-> dcheck[h].ver,
                svcs |-> [s \in dcheck[h].members |-> rec[s].val], wiped |-> FALSE]]
  /\ dcheck' = [dcheck EXCEPT ![h] = Unlocked]
  /\ Checked(dcheck[h].by)
  /\ UNCHANGED <<redis, proxy, known, wipes, faults>>

\* Redis fails the check: the snapshot stays.
CheckFails(h) ==
  /\ dcheck[h].pc # "free"
  /\ Fault
  /\ dcheck' = [dcheck EXCEPT ![h] = Unlocked]
  /\ Checked(dcheck[h].by)
  /\ UNCHANGED <<redis, proxy, snap, known, wipes>>

-----------------------------------------------------------------------------
(* overlayManager.check of a proxy                                         *)

\* Mutant: the overlay is dropped with the counter.
handleWipedDrops(o) == [NoOverlay EXCEPT !.src = "redis"]

\* handleWipedLocked: a non-empty overlay is kept, with source disk.
handleWiped(o) ==
  IF o.svcs # NoMap THEN [o EXCEPT !.src = "disk"] ELSE [NoOverlay EXCEPT !.src = "redis"]

\* Mutant: whatever came from Redis is current.
ProxyVersionOnce(h) ==
  /\ pcheck[h].pc = "free"
  /\ \/ /\ global = 0
        /\ ov' = [ov EXCEPT ![h] = handleWiped(ov[h])]
        /\ UNCHANGED pcheck
     \/ /\ global > 0
        /\ ov[h].src # "redis"
        /\ pcheck' = [pcheck EXCEPT ![h].pc = "load"]
        /\ UNCHANGED ov
  /\ UNCHANGED <<redis, disk, dash, req, known, wipes, faults>>

\* The version is compared: only a Redis overlay of this version is current.
ProxyVersion(h) ==
  /\ pcheck[h].pc = "free"
  /\ \/ /\ global = 0
        /\ ov' = [ov EXCEPT ![h] = handleWiped(ov[h])]
        /\ UNCHANGED pcheck
     \/ /\ global > 0
        /\ ~(ov[h].src = "redis" /\ ov[h].ver = global)
        /\ pcheck' = [pcheck EXCEPT ![h].pc = "load"]
        /\ UNCHANGED ov
  /\ UNCHANGED <<redis, disk, dash, req, known, wipes, faults>>

\* Load: the version again, before anything else is read.
ProxyLoadVersion(h) ==
  /\ pcheck[h].pc = "load"
  /\ IF global = 0
     THEN /\ ov' = [ov EXCEPT ![h] = handleWiped(ov[h])]
          /\ pcheck' = [pcheck EXCEPT ![h] = Unlocked]
     ELSE /\ pcheck' = [pcheck EXCEPT ![h] = [@ EXCEPT !.pc = "index", !.ver = global]]
          /\ UNCHANGED ov
  /\ UNCHANGED <<redis, disk, dash, req, known, wipes, faults>>

ProxyLoadIndex(h) ==
  /\ pcheck[h].pc = "index"
  /\ pcheck' = [pcheck EXCEPT ![h] = [@ EXCEPT !.pc = "data", !.members = Adopted]]
  /\ UNCHANGED <<redis, ov, disk, dash, req, known, wipes, faults>>

\* Mutant: the version stored with the data is the one after reading it.
ProxyLoadLateVersion(h) ==
  LET o == [src |-> "redis", ver |-> global,
            svcs |-> [s \in pcheck[h].members |-> rec[s].val]]
  IN /\ pcheck[h].pc = "data"
     /\ ov' = [ov EXCEPT ![h] = o]
     /\ disk' = [disk EXCEPT ![h] = [o EXCEPT !.src = "disk"]]
     /\ pcheck' = [pcheck EXCEPT ![h] = Unlocked]
     /\ known' = known \cup pcheck[h].members
     /\ UNCHANGED <<redis, dash, req, wipes, faults>>

\* The hashes; the overlay is published and saved.
ProxyLoad(h) ==
  LET o == [src |-> "redis", ver |-> pcheck[h].ver,
            svcs |-> [s \in pcheck[h].members |-> rec[s].val]]
  IN /\ pcheck[h].pc = "data"
     /\ ov' = [ov EXCEPT ![h] = o]
     /\ disk' = [disk EXCEPT ![h] = [o EXCEPT !.src = "disk"]]
     /\ pcheck' = [pcheck EXCEPT ![h] = Unlocked]
     /\ known' = known \cup pcheck[h].members
     /\ UNCHANGED <<redis, dash, req, wipes, faults>>

\* Redis fails the check: the overlay stays.
ProxyCheckFails(h) ==
  /\ pcheck[h].pc # "free"
  /\ Fault
  /\ pcheck' = [pcheck EXCEPT ![h] = Unlocked]
  /\ UNCHANGED <<redis, ov, disk, dash, req, known, wipes>>

-----------------------------------------------------------------------------
(* Restarts and wipes                                                      *)

\* overlayManager.Init starts from the cache file, and then checks.
ProxyRestarts(h) ==
  /\ Fault
  /\ ov' = [ov EXCEPT ![h] = disk[h]]
  /\ pcheck' = [pcheck EXCEPT ![h] = Unlocked]
  /\ UNCHANGED <<redis, disk, dash, req, known, wipes>>

\* A dashboard restarts: its requests get no answer.
DashboardRestarts(h) ==
  /\ Fault
  /\ snap' = [snap EXCEPT ![h] = NoSnapshot]
  /\ dcheck' = [dcheck EXCEPT ![h] = Unlocked]
  /\ req' = [c \in Edit |->
       IF req[c].host = h /\ req[c].pc \notin {"idle", "ready", "unknown", "refused", "done"}
       THEN [req[c] EXCEPT !.pc = "unknown", !.todo = NoMap] ELSE req[c]]
  /\ UNCHANGED <<redis, proxy, known, wipes>>

\* No copy is loading, and no request may create the counter.
Quiet ==
  /\ \A h \in Host : pcheck[h].pc = "free" /\ dcheck[h].pc = "free"
  /\ \A c \in Edit : req[c].pc \notin {"seed", "seeding"} /\ ~req[c].init

\* Redis comes back without its data, or without the counter alone, at a
\* moment when neither a load nor a reseed is between two of its calls: their
\* calls are not one transaction, and a loss in the middle of them is a limit
\* of the code that the README describes.
Wipe ==
  /\ wipes < MaxWipes
  /\ wipes' = wipes + 1
  /\ global > 0
  /\ Quiet
  /\ global' = 0
  /\ \/ /\ rec' = [s \in Service |-> [ver |-> 0, val |-> {}]]
        /\ ring' = [s \in Service |-> <<>>]
     \/ UNCHANGED <<rec, ring>>
  /\ UNCHANGED <<applied, proxy, dash, req, known, faults>>

EditNext(c) ==
  \/ \E h \in Host, s \in Service : Look(c, h, s)
  \/ Begin(c) \/ Seed(c) \/ SeedBlind(c) \/ SeedFails(c)
  \/ \E s \in Service : SeedOne(c, s)
  \/ Get(c) \/ Write(c) \/ WriteUnanswered(c) \/ Retry(c)

DashNext(h) ==
  \/ \E who \in Edit \cup {Poll} : CheckVersion(h, who)
  \/ LoadIndex(h) \/ LoadSnapshot(h) \/ CheckFails(h) \/ DashboardRestarts(h)

ProxyNext(h) ==
  \/ ProxyVersion(h) \/ ProxyLoadVersion(h) \/ ProxyLoadIndex(h) \/ ProxyLoad(h)
  \/ ProxyCheckFails(h) \/ ProxyRestarts(h)

Next ==
  \/ \E c \in Edit : EditNext(c)
  \/ \E h \in Host : DashNext(h) \/ ProxyNext(h)
  \/ Wipe

Spec == Init /\ [][Next]_vars

\* Both Run loops poll for ever.
Fairness ==
  /\ \A h \in Host :
       /\ WF_vars(CheckVersion(h, Poll)) /\ WF_vars(LoadIndex(h)) /\ WF_vars(LoadSnapshot(h))
       /\ WF_vars(ProxyVersion(h)) /\ WF_vars(ProxyLoadVersion(h))
       /\ WF_vars(ProxyLoadIndex(h)) /\ WF_vars(ProxyLoad(h))

LiveSpec == Spec /\ Fairness

-----------------------------------------------------------------------------
(* Properties                                                              *)

\* load and Load read the version before the data ("a write landing mid-load
\* leaves newer data under an older version, and the next poll reloads"): a
\* copy whose version is the one in Redis holds what Redis holds, so it is
\* right not to reload it, as long as the counter was never lost.
CopiesFresh ==
  wipes = 0 /\ global > 0 => \A h \in Host :
    /\ ov[h].src = "redis" /\ ov[h].ver = global => ov[h].svcs = Contents
    /\ snap[h].there /\ ~snap[h].wiped /\ snap[h].ver = global => snap[h].svcs = Contents

\* The compare-and-swap on if_version ("labels changed since if_version"): an
\* edit is written only over the very labels its author looked at.  The version
\* of a service starts again when Redis loses its data, and until then only.
WritesWhatWasSeenStep ==
  wipes = 0 => \A c \in Edit : applied'[c] > applied[c] => rec[req[c].svc].val = req[c].seen

Neighbours(c) == {d \in Edit \ {c} : req[d].svc = req[c].svc /\ applied[d] > 0}

\* request_id makes retries safe: an edit that is refused has not landed, also
\* when it was sent again after its first answer was lost.  Only ringSize other
\* edits of the service, or a wipe, make the script forget it.
RefusedIsUnapplied ==
  \A c \in Edit : req[c].pc = "refused" =>
    applied[c] = 0 \/ Cardinality(Neighbours(c)) >= ringSize \/ wipes > 0

\* ensureLabelsSeeded guards against a write that would "revert every other
\* adopted service in every proxy": whenever the counter exists and no reseed
\* is under way, Redis holds every service that some proxy has taken over.
AdoptionKept ==
  global > 0 /\ (\A c \in Edit : req[c].pc # "seeding") => known \subseteq Adopted

OneHost == \A g, h \in Host : g = h

\* The same on one host, at the first loss, as long as no call fails and nothing
\* restarts: the reseed brings every service back before an edit is written.  A
\* dashboard of another host reseeds from its own copies, and a proxy that loads
\* in the middle of a reseed has a part of the services until its next poll.
ReseedRestores ==
  OneHost /\ wipes <= 1 /\ faults = 0 => AdoptionKept

\* handleWipedLocked keeps the overlay "rather than silently reverting every
\* adopted service to its compose labels": while the counter is missing, no
\* overlay loses a service, also across restarts.
KeptThroughWipeStep ==
  global = 0 => \A h \in Host : DOMAIN ov[h].svcs \subseteq DOMAIN ov'[h].svcs

\* The proxies pick a write up: unless Redis loses its data, every overlay and
\* snapshot comes to hold what Redis holds and stays there.
InStep ==
  wipes = 0 => \A h \in Host : ov[h].svcs = Contents /\ snap[h].svcs = Contents
CopiesConverge == <>[]InStep

\* A copy whose version is the one in Redis holds what Redis holds, an edit that
\* is refused has not landed, and the reseed after a loss of Redis's data brings
\* back every service some proxy has taken over (load, applyWrite's request_id
\* ring, ensureLabelsSeeded).
CopiesTrue == TypeOK /\ CopiesFresh /\ RefusedIsUnapplied /\ ReseedRestores

\* An edit is written only over the labels its author looked at, and while the
\* counter is missing no overlay loses a service (if_version, handleWipedLocked).
LabelsKept == [][WritesWhatWasSeenStep /\ KeptThroughWipeStep]_vars
=============================================================================
