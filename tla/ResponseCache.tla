---------------------------- MODULE ResponseCache ----------------------------
(***************************************************************************)
(* The per-route micro-cache of cmd/proxy/cache.go and the coalescing of   *)
(* Router.serveWithCache: identical GETs park on one fill, the owner of    *)
(* the fill stores its response and then releases them.                    *)
(*                                                                         *)
(* get, put, beginFill, endFill and setTTL each hold responseCache.mu, and *)
(* nothing else is atomic: between any two of them other requests run, the *)
(* clock advances and a refresh may change the TTL.                        *)
(***************************************************************************)
EXTENDS Integers, Sequences, FiniteSets, FiniteSetsExt

CONSTANTS
  Key,         \* cache keys
  Request,     \* requests in flight at once
  TTL,         \* values of the route's proxy.cache label, in ticks
  BodySize,    \* body sizes up to cacheMaxBody
  MaxEntries,  \* cacheMaxEntries
  MaxBytes,    \* cacheMaxBytes
  MaxClock,    \* bound: ticks
  MaxSets      \* bound: TTL changes

CacheAssumption ==
  /\ TTL \subseteq Nat \ {0} /\ TTL # {}
  /\ BodySize \subseteq Nat
  /\ MaxEntries \in Nat \ {0}
  /\ MaxBytes \in Nat
  /\ MaxClock \in Nat
  /\ MaxSets \in Nat

VARIABLES
  clock,     \* responseCache.now
  sets,      \* TTL changes so far, for MaxSets
  ttl,       \* responseCache.ttl
  entries,   \* responseCache.entries, as the set of its key/value pairs
  bytes,     \* responseCache.bytes
  inflight,  \* responseCache.inflight: the pairs of a key and its fill's owner
  req,       \* what each request is doing in serveWithCache
  gone       \* history: keys stored once and dropped since

vars == <<clock, sets, ttl, entries, bytes, inflight, req, gone>>

\* What a backend's answer is to the recorder: a complete storable 200; one with
\* Set-Cookie, a private directive or a foreign Vary; not a 200; longer than
\* cacheMaxBody; shorter than its Content-Length; or a copy that broke off, which
\* ReverseProxy turns into a panic.
Kind == {"whole", "personal", "error", "over", "short", "aborted"}

Entry == [key : Key, at : 0 .. MaxClock, size : BodySize, kind : Kind, ttl : TTL]

\* A request in serveWithCache: where it is, its key, the fill it owns or waits
\* for (a fill is named by its owner), the answer its backend gave, and, as
\* history, whether the fill it waited for ended with an answer to store.
St(pc, key, fill, kind, size, hope) ==
  [pc |-> pc, key |-> key, fill |-> fill, kind |-> kind, size |-> size, hope |-> hope]

Idle == St("idle", {}, {}, "error", 0, FALSE)

PC == {"idle", "missed", "wait", "woken", "fetch", "put", "end"}

ReqState ==
  [pc : PC, key : SUBSET Key, fill : SUBSET Request, kind : Kind,
   size : BodySize \cup {0}, hope : BOOLEAN]

TypeOK ==
  /\ clock \in 0 .. MaxClock
  /\ sets \in 0 .. MaxSets
  /\ ttl \in TTL
  /\ entries \subseteq Entry
  /\ bytes \in Nat
  /\ inflight \subseteq Key \X Request
  /\ req \in [Request -> ReqState]
  /\ gone \subseteq Key

Init ==
  /\ clock = 0
  /\ sets = 0
  /\ ttl \in TTL
  /\ entries = {}
  /\ bytes = 0
  /\ inflight = {}
  /\ req = [q \in Request |-> Idle]
  /\ gone = {}

-----------------------------------------------------------------------------
(* The store                                                               *)

KeysOf(S) == {e.key : e \in S}
SizeOf(S) == MapThenSumSet(LAMBDA e : e.size, S)

At(k) == {e \in entries : e.key = k}
Dead(e) == ~(clock < e.at + ttl)

\* History: the keys whose entry is gone once the store holds S.
Lost(S) == (gone \cup KeysOf(entries)) \ KeysOf(S)

\* responseCache.get: an entry that outlived the TTL is dropped, not served.
get(k, hit) ==
  /\ hit = (\E e \in At(k) : ~Dead(e))
  /\ entries' = entries \ {e \in At(k) : Dead(e)}
  /\ bytes' = bytes - SizeOf({e \in At(k) : Dead(e)})
  /\ gone' = Lost(entries')

Fits(S, b) == Cardinality(S) <= MaxEntries /\ b <= MaxBytes

\* responseCache.evictLocked: what may be left of the entries S counted as b
\* bytes.  Expired entries go first, then the oldest until both bounds hold; of
\* two stored at one instant either may go first (map iteration).
evictLocked(S, b) ==
  LET live == {e \in S : ~Dead(e)}
      left(kept) == b - SizeOf(S \ kept)
  IN  {kept \in SUBSET live :
         /\ Fits(kept, left(kept))
         /\ \A e \in live \ kept : \A f \in kept : e.at <= f.at
         /\ kept # live =>
              \E last \in live \ kept :
                /\ \A e \in live \ kept : e.at <= last.at
                /\ ~Fits(kept \cup {last}, left(kept) + last.size)}

\* responseCache.put
put(k, new) ==
  LET all == (entries \ At(k)) \cup {new}
      b == bytes - SizeOf(At(k)) + new.size
  IN  /\ IF Fits(all, b)
         THEN entries' = all /\ bytes' = b
         ELSE \E kept \in evictLocked(all, b) :
                entries' = kept /\ bytes' = b - SizeOf(all \ kept)
      /\ gone' = (Lost(entries') \cup {k}) \ KeysOf(entries')

\* Mutant: the store survives a change of the TTL.
setTTLKeeps(d) ==
  /\ sets < MaxSets
  /\ d # ttl
  /\ sets' = sets + 1
  /\ ttl' = d
  /\ UNCHANGED <<entries, bytes, gone, clock, inflight, req>>

\* responseCache.setTTL, called by Router.Set: a new TTL empties the store and
\* leaves the fills alone.
setTTL(d) ==
  /\ sets < MaxSets
  /\ d # ttl
  /\ sets' = sets + 1
  /\ ttl' = d
  /\ entries' = {}
  /\ bytes' = 0
  /\ gone' = Lost({})
  /\ UNCHANGED <<clock, inflight, req>>

Tick ==
  /\ clock < MaxClock
  /\ clock' = clock + 1
  /\ UNCHANGED <<sets, ttl, entries, bytes, inflight, req, gone>>

-----------------------------------------------------------------------------
(* Router.serveWithCache                                                   *)

\* Look the key up: a hit is served, a HEAD miss goes to the backend without
\* recording, a GET miss goes on to claim the key.
serveWithCache(q, k, method) ==
  \E hit \in BOOLEAN :
    /\ req[q].pc = "idle"
    /\ get(k, hit)
    /\ req' = [req EXCEPT ![q] =
         IF hit \/ method = "HEAD" THEN Idle
         ELSE St("missed", {k}, {}, "error", 0, FALSE)]
    /\ UNCHANGED <<clock, sets, ttl, inflight>>

\* responseCache.beginFill: own the fill of the key, or park on the one there is.
beginFill(q) ==
  /\ req[q].pc = "missed"
  /\ \E k \in req[q].key :
       LET owner == {o \in Request : <<k, o>> \in inflight} IN
       IF owner = {}
       THEN /\ inflight' = inflight \cup {<<k, q>>}
            /\ req' = [req EXCEPT ![q] = St("fetch", {k}, {q}, "error", 0, FALSE)]
       ELSE /\ req' = [req EXCEPT ![q] = St("wait", {k}, owner, "error", 0, FALSE)]
            /\ UNCHANGED inflight
  /\ UNCHANGED <<clock, sets, ttl, entries, bytes, gone>>

\* A parked request whose client goes away returns.
ClientGone(q) ==
  /\ req[q].pc = "wait"
  /\ req' = [req EXCEPT ![q] = Idle]
  /\ UNCHANGED <<clock, sets, ttl, entries, bytes, inflight, gone>>

\* A released request looks again; on a miss it fetches as an unregistered
\* filler, and never waits a second time.
Wake(q) ==
  /\ req[q].pc = "woken"
  /\ \E k \in req[q].key : \E hit \in BOOLEAN :
       /\ get(k, hit)
       /\ req' = [req EXCEPT ![q] =
            IF hit THEN Idle ELSE St("fetch", {k}, {}, "error", 0, FALSE)]
  /\ UNCHANGED <<clock, sets, ttl, inflight>>

\* Mutant: the waiters are released before the store.
deferNextEndFirst(pc, owner) ==
  CASE pc = "fetch" -> IF owner THEN "end" ELSE "put"
    [] pc = "end" -> "put"
    [] OTHER -> "idle"

\* Mutant: an answer is stored and the waiters are left parked.
deferNextNoRelease(pc, owner) == IF pc = "fetch" THEN "put" ELSE "idle"

\* The deferred calls run last registered first: the store, then endFill.
deferNext(pc, owner) ==
  CASE pc = "fetch" -> "put"
    [] pc = "put" -> IF owner THEN "end" ELSE "idle"
    [] OTHER -> "idle"

IsOwner(q) == req[q].fill = {q}

Step(q, kind, size) ==
  LET pc == deferNext(req[q].pc, IsOwner(q)) IN
  req' = [req EXCEPT ![q] =
    IF pc = "idle" THEN Idle ELSE St(pc, req[q].key, req[q].fill, kind, size, FALSE)]

\* dispatch returns, or panics, with the backend's answer.
Respond(q, kind, size) ==
  /\ req[q].pc = "fetch"
  /\ Step(q, kind, size)
  /\ UNCHANGED <<clock, sets, ttl, entries, bytes, inflight, gone>>

\* cacheRecorder.entry: a storable 200 within the cap, of the declared length.
entry(kind) == kind \notin {"personal", "error", "over", "short"}

\* The deferred store, which "completed" gates on a normal return.
Stores(kind) == kind # "aborted" /\ entry(kind)

StoreDeferred(q) ==
  /\ req[q].pc = "put"
  /\ IF Stores(req[q].kind)
     THEN \E k \in req[q].key :
            put(k, [key |-> k, at |-> clock, size |-> req[q].size,
                    kind |-> req[q].kind, ttl |-> ttl])
     ELSE UNCHANGED <<entries, bytes, gone>>
  /\ Step(q, req[q].kind, req[q].size)
  /\ UNCHANGED <<clock, sets, ttl, inflight>>

\* responseCache.endFill: free the key if it is still this fill's, wake everyone
\* parked on the fill.
endFill(q) ==
  /\ req[q].pc = "end"
  /\ inflight' = inflight \ (req[q].key \X {q})
  /\ LET woken == {w \in Request : req[w].pc = "wait" /\ req[w].fill = {q}}
         next == deferNext("end", TRUE)
     IN  req' = [w \in Request |->
           IF w \in woken
           THEN St("woken", req[w].key, {}, "error", 0, Stores(req[q].kind))
           ELSE IF w # q THEN req[w]
           ELSE IF next = "idle" THEN Idle
           ELSE St(next, req[q].key, {}, req[q].kind, req[q].size, FALSE)]
  /\ UNCHANGED <<clock, sets, ttl, entries, bytes, gone>>

-----------------------------------------------------------------------------
RequestNext(q) ==
  \/ \E k \in Key : \E method \in {"GET", "HEAD"} : serveWithCache(q, k, method)
  \/ beginFill(q)
  \/ ClientGone(q)
  \/ Wake(q)
  \/ \E kind \in Kind : \E size \in BodySize : Respond(q, kind, size)
  \/ StoreDeferred(q)
  \/ endFill(q)

Next ==
  \/ Tick
  \/ \E d \in TTL : setTTL(d)
  \/ \E q \in Request : RequestNext(q)

Spec == Init /\ [][Next]_vars

\* A request that runs goes on, and its backend answers or breaks off sooner or
\* later.  Nothing is assumed of clients, clock and refreshes.
Fairness ==
  \A q \in Request :
    /\ WF_vars(Wake(q))
    /\ WF_vars(\E kind \in Kind : \E size \in BodySize : Respond(q, kind, size))
    /\ WF_vars(StoreDeferred(q))
    /\ WF_vars(endFill(q))

LiveSpec == Spec /\ Fairness

-----------------------------------------------------------------------------
(* Properties                                                              *)

\* The byte counter is the sum of the stored bodies, the store is a map, and
\* both bounds hold between any two operations: put evicts, get and setTTL keep
\* count.
WithinBounds ==
  /\ TypeOK
  /\ bytes = SizeOf(entries)
  /\ Cardinality(KeysOf(entries)) = Cardinality(entries)
  /\ Cardinality(entries) <= MaxEntries
  /\ bytes <= MaxBytes

\* Only complete, impersonal answers are ever in the store: a truncated or
\* aborted transfer, an error and a personal page never are.  Each was stored
\* under the TTL now in force, also by a fill that was in flight at setTTL.
OnlyValidAnswers == \A e \in entries : e.kind = "whole" /\ e.ttl = ttl

\* A released waiter goes to the backend only if the fill it waited for had
\* nothing to store, or what was stored has been dropped since: the store lands
\* before the waiters are released (serveWithCache's defer order).
NoStampedeStep ==
  \A q \in Request :
    (req[q].pc = "woken" /\ req[q].hope /\ req'[q].pc = "fetch") =>
      req[q].key \subseteq gone'

\* No step breaks NoStampedeStep.
NoStampede == [][NoStampedeStep]_vars

\* A parked request is released, also when its owner's transfer broke off.
Waits(q) == req[q].pc = "wait"
WaitersReleased == \A q \in Request : []<>~Waits(q)
=============================================================================
