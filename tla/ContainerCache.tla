--------------------------- MODULE ContainerCache ---------------------------
(***************************************************************************)
(* The dashboard's container cache (cmd/dashboard/containercache.go): one   *)
(* copy of Docker's container list that the read-only handlers answer from. *)
(* Three things may end its validity: the daemon's event stream, a write    *)
(* through the dashboard, and a maximal age in case both miss.  Concurrent  *)
(* misses share one fetch.                                                  *)
(*                                                                         *)
(* The list is reduced to a version number: docker is the version the       *)
(* daemon would list now, and until[v] the moment version v was replaced.   *)
(***************************************************************************)
EXTENDS Naturals, FiniteSets

CONSTANTS Client,      \* browsers: each polls, and writes through the dashboard
          MaxVersion,  \* bound: number of changes to the container list
          MaxAge,      \* maxAge of the cache, in clock units
          FetchMax,    \* the time limit of one fetch, in clock units
          MaxTime      \* bound: the clock stops here

CacheAssumption == {MaxVersion, MaxAge, FetchMax, MaxTime} \subseteq Nat

VARIABLES
    docker,   \* the version of the list the daemon holds
    until,    \* version -> time it was replaced
    clock,    \* the time
    stream,   \* the watcher: "down", "opened", "up", or "broken" and not noticed
    pipe,     \* events sent by the daemon and not yet read by the watcher
    cache,    \* items, fetchedAt, valid
    inflight, \* the fetch under way, or NoFetch; clean while gen is what it was
    client    \* what each browser's request is doing

vars == <<docker, until, clock, stream, pipe, cache, inflight, client>>

Versions == 0..MaxVersion

NoFetch == [started |-> FALSE, clean |-> FALSE, at |-> 0, read |-> FALSE, items |-> 0]

newContainerCache == [items |-> 0, fetchedAt |-> 0, valid |-> FALSE]

Init ==
    /\ docker = 0
    /\ until = [v \in Versions |-> MaxTime + 1]
    /\ clock = 0
    /\ stream = "down"
    /\ pipe = 0
    /\ cache = newContainerCache
    /\ inflight = NoFetch
    /\ client = [c \in Client |-> "idle"]

-----------------------------------------------------------------------------
(* Docker. *)

(* The list changes, and the daemon tells the stream if one is open. *)
Changed ==
    /\ docker < MaxVersion
    /\ docker' = docker + 1
    /\ until' = [until EXCEPT ![docker] = clock]
    /\ pipe' = pipe + (IF stream \in {"opened", "up"} THEN 1 ELSE 0)

ChangeOutside ==
    /\ Changed
    /\ UNCHANGED <<clock, stream, cache, inflight, client>>

(* Time passes; the fetch's own time limit ends it first. *)
Tick ==
    /\ clock < MaxTime
    /\ inflight.started => clock < inflight.at + FetchMax
    /\ clock' = clock + 1
    /\ UNCHANGED <<docker, until, stream, pipe, cache, inflight, client>>

-----------------------------------------------------------------------------
(* list: a hit, a wait for the fetch another request has begun, or a fetch. *)

\* Mutant: an invalidation does not count itself in gen.
invalidateUncounted ==
    /\ cache' = [cache EXCEPT !.valid = FALSE]
    /\ UNCHANGED inflight

invalidate ==
    /\ cache' = [cache EXCEPT !.valid = FALSE]
    /\ inflight' = [inflight EXCEPT !.clean = FALSE]

Fresh == cache.valid /\ clock < cache.fetchedAt + MaxAge

ListJoin(c) ==
    /\ client[c] = "idle"
    /\ ~Fresh
    /\ inflight.started
    /\ client' = [client EXCEPT ![c] = "waiting"]
    /\ UNCHANGED <<docker, until, clock, stream, pipe, cache, inflight>>

ListFetch(c) ==
    /\ client[c] = "idle"
    /\ ~Fresh
    /\ ~inflight.started
    /\ client' = [client EXCEPT ![c] = "waiting"]
    /\ inflight' = [NoFetch EXCEPT !.started = TRUE, !.clean = TRUE, !.at = clock]
    /\ UNCHANGED <<docker, until, clock, stream, pipe, cache>>

(* The daemon puts the answer to the fetch together. *)
FetchRead ==
    /\ inflight.started
    /\ ~inflight.read
    /\ inflight' = [inflight EXCEPT !.read = TRUE, !.items = docker]
    /\ UNCHANGED <<docker, until, clock, stream, pipe, cache, client>>

Waiting == {c \in Client : client[c] = "waiting"}

(* The answer arrives: it is stored, but is valid only if nothing was       *)
(* invalidated since the fetch began; everyone waiting gets it.             *)
FetchDone ==
    /\ inflight.read
    /\ cache' = [cache EXCEPT !.items = inflight.items, !.fetchedAt = clock,
                              !.valid = inflight.clean]
    /\ client' = [c \in Client |-> IF c \in Waiting THEN "idle" ELSE client[c]]
    /\ inflight' = NoFetch
    /\ UNCHANGED <<docker, until, clock, stream, pipe>>

(* The fetch fails or runs out of time: an error is never cached. *)
FetchFailed ==
    /\ inflight.started
    /\ cache' = [cache EXCEPT !.valid = FALSE]
    /\ client' = [c \in Client |-> IF c \in Waiting THEN "idle" ELSE client[c]]
    /\ inflight' = NoFetch
    /\ UNCHANGED <<docker, until, clock, stream, pipe>>

(* A browser goes away; the fetch does not depend on the one that began it. *)
ClientGone(c) ==
    /\ client[c] = "waiting"
    /\ client' = [client EXCEPT ![c] = "idle"]
    /\ UNCHANGED <<docker, until, clock, stream, pipe, cache, inflight>>

-----------------------------------------------------------------------------
(* watchEvents: follow the stream, and invalidate around every gap in it.   *)

StreamOpened ==
    /\ stream = "down"
    /\ stream' = "opened"
    /\ pipe' = 0
    /\ UNCHANGED <<docker, until, clock, cache, inflight, client>>

StreamRefused ==
    /\ stream = "down"
    /\ invalidate
    /\ UNCHANGED <<docker, until, clock, stream, pipe, client>>

StreamUp ==
    /\ stream = "opened"
    /\ stream' = "up"
    /\ invalidate
    /\ UNCHANGED <<docker, until, clock, pipe, client>>

handleEvent ==
    /\ stream \in {"up", "broken"}
    /\ pipe > 0
    /\ pipe' = pipe - 1
    /\ invalidate
    /\ UNCHANGED <<docker, until, clock, stream, client>>

(* The connection to the daemon breaks; the watcher learns of it later. *)
StreamBreaks ==
    /\ stream = "up"
    /\ stream' = "broken"
    /\ UNCHANGED <<docker, until, clock, pipe, cache, inflight, client>>

StreamError ==
    /\ stream = "broken"
    /\ stream' = "down"
    /\ pipe' = 0
    /\ invalidate
    /\ UNCHANGED <<docker, until, clock, client>>

-----------------------------------------------------------------------------
(* invalidateAfterWrite: the handler changes Docker, then drops the cache,  *)
(* then the browser has its answer.                                         *)

Write(c) ==
    /\ client[c] = "idle"
    /\ Changed
    /\ client' = [client EXCEPT ![c] = "writing"]
    /\ UNCHANGED <<clock, stream, cache, inflight>>

WriteDone(c) ==
    /\ client[c] = "writing"
    /\ invalidate
    /\ client' = [client EXCEPT ![c] = "idle"]
    /\ UNCHANGED <<docker, until, clock, stream, pipe>>

Next ==
    \/ ChangeOutside \/ Tick
    \/ \E c \in Client :
         ListJoin(c) \/ ListFetch(c) \/ ClientGone(c) \/ Write(c) \/ WriteDone(c)
    \/ FetchRead \/ FetchDone \/ FetchFailed
    \/ StreamOpened \/ StreamRefused \/ StreamUp \/ handleEvent
    \/ StreamBreaks \/ StreamError

Spec == Init /\ [][Next]_vars

-----------------------------------------------------------------------------
(* While the watcher is connected, a valid list lacks only changes whose    *)
(* event is still on its way: no order of fetch, change, event, reconnect   *)
(* and write stores an old list as valid (containercache.go: gen is bumped  *)
(* "so a fetch that was already in flight when an event arrived does not    *)
(* get stored as fresh").                                                   *)
ValidIsCurrent ==
    (cache.valid /\ stream = "up") => docker <= cache.items + pipe

(* Even with the event stream gone, no browser is answered with a list that *)
(* was replaced longer ago than the cache's maximal age and the time limit  *)
(* of the fetch that filled it, together.                                   *)
StaleBounded ==
    /\ Fresh => clock < until[cache.items] + MaxAge + FetchMax
    /\ inflight.read => clock <= until[inflight.items] + FetchMax

(* What containerCache.List promises: with the stream, a list that lacks no *)
(* change but those whose event is on its way; without, one of recent age.  *)
ListSound == ValidIsCurrent /\ StaleBounded
=============================================================================
