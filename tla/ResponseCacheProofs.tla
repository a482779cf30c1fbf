------------------------ MODULE ResponseCacheProofs -------------------------
(***************************************************************************)
(* Proofs about the response cache for any keys, requests, TTLs, body      *)
(* sizes and bounds: what the store may hold and how much of it, and that  *)
(* the waiters of a fill do not stampede.                                  *)
(*                                                                         *)
(* The byte counter plays no part in them: whatever evictLocked drops, a   *)
(* key that was stored is in the store or among the keys dropped since.    *)
(***************************************************************************)
EXTENDS ResponseCache, FiniteSetTheorems, TLAPS

\* TypeOK without the counters.
TypeInv ==
  /\ ttl \in TTL
  /\ clock \in Nat
  /\ entries \subseteq [key : Key, at : Nat, size : BodySize \cup {0}, kind : Kind, ttl : TTL]
  /\ inflight \subseteq Key \X Request
  /\ req \in [Request -> ReqState]

\* The states in which a request owns the fill it names.
Filling(q) == req[q].pc \in {"fetch", "put", "end"}

\* A request beyond its lookup is about one key; only an owner has a fill to end.
OneKey ==
  \A q \in Request :
    /\ req[q].pc # "idle" => \E k \in Key : req[q].key = {k}
    /\ req[q].pc = "end" => req[q].fill = {q}

\* inflight names, for a key, the one request that fills it.
OneOwner ==
  /\ \A k \in Key, o \in Request :
       <<k, o>> \in inflight => Filling(o) /\ req[o].key = {k} /\ req[o].fill = {o}
  /\ \A k \in Key, o, p \in Request :
       <<k, o>> \in inflight /\ <<k, p>> \in inflight => o = p

\* A parked request waits for one that fills its own key.
WaitsForOwner ==
  \A q \in Request : req[q].pc = "wait" =>
    \E o \in Request : /\ req[q].fill = {o}
                       /\ Filling(o) /\ req[o].key = req[q].key /\ req[o].fill = {o}

\* A key that has been in the store, whether it still is or not.
WasStored(k) == k \in gone \cup KeysOf(entries)

\* A fill that is about to release its waiters, and a waiter that was released
\* by one, know that what there was to store has been stored.
StoredFirst ==
  \A q \in Request :
    \/ req[q].pc = "end" /\ Stores(req[q].kind)
    \/ req[q].pc = "woken" /\ req[q].hope
    => \A k \in req[q].key : WasStored(k)

FillInv == TypeInv /\ OneKey /\ OneOwner /\ WaitsForOwner

IndInv == FillInv /\ OnlyValidAnswers /\ StoredFirst

-----------------------------------------------------------------------------
(* The store                                                               *)

\* get drops nothing without a trace, and a miss leaves no entry of the key.
LEMMA GetKeeps ==
  ASSUME NEW k, NEW hit, get(k, hit)
  PROVE  /\ entries' \subseteq entries
         /\ \A j : WasStored(j) => WasStored(j)'
         /\ ~hit => k \notin KeysOf(entries')
<1>1. entries' \subseteq entries
  BY DEF get
<1>2. \A j : WasStored(j) => WasStored(j)'
  BY DEF get, Lost, WasStored
<1>3. ~hit => k \notin KeysOf(entries')
  BY DEF get, At, KeysOf
<1> QED
  BY <1>1, <1>2, <1>3

\* put, with or without an eviction, adds nothing but the new entry and leaves a
\* trace of its key as well.
LEMMA PutKeeps ==
  ASSUME NEW k, NEW new, put(k, new)
  PROVE  /\ entries' \subseteq entries \cup {new}
         /\ \A j : WasStored(j) => WasStored(j)'
         /\ WasStored(k)'
<1>1. entries' \subseteq entries \cup {new}
  BY DEF put, evictLocked
<1>2. gone' = (Lost(entries') \cup {k}) \ KeysOf(entries')
  BY DEF put
<1>3. \A j : j \in Lost(entries') \cup KeysOf(entries') <=> j \in gone \cup KeysOf(entries) \cup KeysOf(entries')
  BY DEF Lost
<1> QED
  BY <1>1, <1>2, <1>3 DEF WasStored

-----------------------------------------------------------------------------
(* The fills                                                               *)

LEMMA InitFill == ASSUME CacheAssumption PROVE Init => FillInv
BY DEF CacheAssumption, Init, FillInv, TypeInv, OneKey, OneOwner, WaitsForOwner,
       Idle, St, ReqState, PC, Kind, Filling

\* A request moves on, without parking, and keeps the fill it owns.
LEMMA MoveFill ==
  ASSUME FillInv, NEW q \in Request, NEW s \in ReqState,
         req' = [req EXCEPT ![q] = s], inflight' = inflight,
         s.pc # "idle" => \E k \in Key : s.key = {k},
         s.pc = "end" => s.fill = {q},
         s.pc # "wait",
         Filling(q) /\ req[q].fill = {q} =>
           s.pc \in {"fetch", "put", "end"} /\ s.key = req[q].key /\ s.fill = {q}
  PROVE  req' \in [Request -> ReqState] /\ OneKey' /\ OneOwner' /\ WaitsForOwner'
<1> USE DEF FillInv, TypeInv
<1>1. req' \in [Request -> ReqState]
  OBVIOUS
<1>2. \A w \in Request : req'[w] = IF w = q THEN s ELSE req[w]
  OBVIOUS
<1>3. OneKey'
  BY <1>2 DEF OneKey
<1>4. OneOwner'
  BY <1>2 DEF OneOwner, Filling
<1>5. ASSUME NEW w \in Request, req'[w].pc = "wait"
      PROVE  \E o \in Request : /\ req'[w].fill = {o}
                                /\ Filling(o)' /\ req'[o].key = req'[w].key /\ req'[o].fill = {o}
  <2>1. w # q /\ req'[w] = req[w]
    BY <1>2, <1>5
  <2>2. PICK o \in Request : /\ req[w].fill = {o}
                             /\ Filling(o) /\ req[o].key = req[w].key /\ req[o].fill = {o}
    BY <2>1, <1>5 DEF WaitsForOwner
  <2>3. Filling(o)' /\ req'[o].key = req[w].key /\ req'[o].fill = {o}
    BY <1>2, <2>2 DEF Filling
  <2> QED
    BY <2>1, <2>2, <2>3
<1>6. WaitsForOwner'
  BY <1>5 DEF WaitsForOwner
<1> QED
  BY <1>1, <1>3, <1>4, <1>6

\* Who fills what depends on the requests and the fills in flight alone.
LEMMA FillKept ==
  ASSUME UNCHANGED <<inflight, req>>
  PROVE  OneKey /\ OneOwner /\ WaitsForOwner => OneKey' /\ OneOwner' /\ WaitsForOwner'
<1>1. OneKey => OneKey'
  BY DEF OneKey
<1>2. OneOwner => OneOwner'
  BY DEF OneOwner, Filling
<1>3. WaitsForOwner => WaitsForOwner'
  BY DEF WaitsForOwner, Filling
<1> QED
  BY <1>1, <1>2, <1>3

LEMMA NextFill == ASSUME CacheAssumption PROVE FillInv /\ [Next]_vars => FillInv'
<1> SUFFICES ASSUME FillInv, [Next]_vars PROVE FillInv'
  OBVIOUS
<1> USE CacheAssumption DEF CacheAssumption, FillInv
<1>1. CASE Tick
  <2>1. clock' \in Nat /\ UNCHANGED <<ttl, entries, inflight, req>>
    BY <1>1 DEF Tick, TypeInv
  <2>2. TypeInv'
    BY <2>1 DEF TypeInv
  <2> QED
    BY <2>1, <2>2, FillKept
<1>2. ASSUME NEW d \in TTL, setTTL(d) PROVE FillInv'
  <2>1. ttl' \in TTL /\ entries' = {} /\ UNCHANGED <<clock, inflight, req>>
    BY <1>2 DEF setTTL
  <2>2. TypeInv'
    BY <2>1 DEF TypeInv
  <2> QED
    BY <2>1, <2>2, FillKept
<1>3. ASSUME NEW q \in Request, NEW k \in Key, NEW method, serveWithCache(q, k, method)
      PROVE FillInv'
  <2>1. PICK hit \in BOOLEAN : serveWithCache(q, k, method)!(hit)
    BY <1>3 DEF serveWithCache
  <2>2. entries' \subseteq entries
    BY <2>1, GetKeeps
  <2> DEFINE s == IF hit \/ method = "HEAD" THEN Idle ELSE St("missed", {k}, {}, "error", 0, FALSE)
  <2>3. s \in ReqState /\ s.pc \in {"idle", "missed"} /\ (s.pc = "missed" => s.key = {k})
    BY DEF Idle, St, ReqState, PC, Kind
  <2>4. req[q].pc = "idle" /\ req' = [req EXCEPT ![q] = s] /\ UNCHANGED <<clock, ttl, inflight>>
    BY <2>1
  <2> HIDE DEF s
  <2>5. req' \in [Request -> ReqState] /\ OneKey' /\ OneOwner' /\ WaitsForOwner'
    BY <2>3, <2>4, MoveFill DEF Filling
  <2> QED
    BY <2>2, <2>4, <2>5 DEF TypeInv
<1>5. ASSUME NEW q \in Request, ClientGone(q) PROVE FillInv'
  <2>1. Idle \in ReqState /\ Idle.pc = "idle"
    BY DEF Idle, St, ReqState, PC, Kind
  <2> QED
    BY <1>5, <2>1, MoveFill DEF ClientGone, TypeInv, Filling
<1>6. ASSUME NEW q \in Request, Wake(q) PROVE FillInv'
  <2>1. PICK k \in req[q].key, hit \in BOOLEAN :
          /\ get(k, hit)
          /\ req' = [req EXCEPT ![q] =
               IF hit THEN Idle ELSE St("fetch", {k}, {}, "error", 0, FALSE)]
    BY <1>6 DEF Wake
  <2>2. entries' \subseteq entries
    BY <2>1, GetKeeps
  <2>3. req[q].pc = "woken" /\ UNCHANGED <<clock, ttl, inflight>> /\ k \in Key
    BY <1>6 DEF Wake, TypeInv, ReqState
  <2> DEFINE s == IF hit THEN Idle ELSE St("fetch", {k}, {}, "error", 0, FALSE)
  <2>4. s \in ReqState /\ s.pc \in {"idle", "fetch"} /\ (s.pc = "fetch" => s.key = {k})
    BY <2>3 DEF Idle, St, ReqState, PC, Kind
  <2>5. req' = [req EXCEPT ![q] = s]
    BY <2>1
  <2> HIDE DEF s
  <2>6. req' \in [Request -> ReqState] /\ OneKey' /\ OneOwner' /\ WaitsForOwner'
    BY <2>3, <2>4, <2>5, MoveFill DEF Filling
  <2> QED
    BY <2>2, <2>3, <2>6 DEF TypeInv
<1>7. ASSUME NEW q \in Request, NEW kind \in Kind, NEW size \in BodySize,
             Respond(q, kind, size)
      PROVE FillInv'
  <2> DEFINE s == St("put", req[q].key, req[q].fill, kind, size, FALSE)
  <2>1. req' = [req EXCEPT ![q] = s]
    BY <1>7 DEF Respond, Step, deferNext
  <2>2. req[q] \in ReqState /\ req[q].pc = "fetch" /\ UNCHANGED <<clock, ttl, entries, inflight>>
    BY <1>7 DEF Respond, TypeInv
  <2>3. req[q].key \in SUBSET Key /\ req[q].fill \in SUBSET Request
    BY <2>2 DEF ReqState
  <2>4. s \in ReqState /\ s.pc = "put" /\ s.key = req[q].key /\ s.fill = req[q].fill
    BY <2>3 DEF St, ReqState, PC
  <2>5. \E k \in Key : req[q].key = {k}
    BY <2>2 DEF OneKey
  <2> HIDE DEF s
  <2>6. req' \in [Request -> ReqState] /\ OneKey' /\ OneOwner' /\ WaitsForOwner'
    BY <2>1, <2>2, <2>4, <2>5, MoveFill DEF Filling
  <2> QED
    BY <2>2, <2>6 DEF TypeInv
<1>8. ASSUME NEW q \in Request, StoreDeferred(q) PROVE FillInv'
  <2>1. req[q] \in ReqState /\ req[q].pc = "put" /\ UNCHANGED <<clock, ttl, inflight>>
    BY <1>8 DEF StoreDeferred, TypeInv
  <2>2. PICK k \in Key : req[q].key = {k}
    BY <2>1 DEF OneKey
  <2>3. entries' \subseteq [key : Key, at : Nat, size : BodySize \cup {0}, kind : Kind, ttl : TTL]
    BY <1>8, <2>1, <2>2, PutKeeps DEF StoreDeferred, TypeInv, ReqState
  <2> DEFINE s == IF req[q].fill = {q}
                  THEN St("end", req[q].key, req[q].fill, req[q].kind, req[q].size, FALSE)
                  ELSE Idle
  <2>4. req' = [req EXCEPT ![q] = s]
    BY <1>8, <2>1 DEF StoreDeferred, Step, deferNext, IsOwner
  <2>5. /\ s \in ReqState
        /\ IF req[q].fill = {q} THEN s.pc = "end" /\ s.key = req[q].key /\ s.fill = {q}
           ELSE s.pc = "idle"
    BY <2>1 DEF Idle, St, ReqState, PC, Kind
  <2> HIDE DEF s
  <2>6. req' \in [Request -> ReqState] /\ OneKey' /\ OneOwner' /\ WaitsForOwner'
    BY <2>1, <2>2, <2>4, <2>5, MoveFill DEF Filling
  <2> QED
    BY <2>1, <2>3, <2>6 DEF TypeInv
<1>9. ASSUME NEW q \in Request, endFill(q) PROVE FillInv'
  <2>1. req[q].pc = "end" /\ req[q].fill = {q} /\ UNCHANGED <<clock, ttl, entries>>
    BY <1>9 DEF endFill, OneKey
  <2> DEFINE hope == Stores(req[q].kind)
  <2>2. /\ hope \in BOOLEAN
        /\ \A w \in Request : req'[w] =
             IF req[w].pc = "wait" /\ req[w].fill = {q}
             THEN St("woken", req[w].key, {}, "error", 0, hope)
             ELSE IF w # q THEN req[w] ELSE Idle
    BY <1>9 DEF endFill, deferNext, Stores, entry
  <2> HIDE DEF hope
  <2>3. req' \in [Request -> ReqState]
    <3>1. ASSUME NEW w \in Request PROVE req'[w] \in ReqState
      <4>1. req[w] \in ReqState /\ Idle \in ReqState
        BY DEF TypeInv, Idle, St, ReqState, PC, Kind
      <4>2. St("woken", req[w].key, {}, "error", 0, hope) \in ReqState
        BY <2>2, <4>1 DEF St, ReqState, PC, Kind
      <4> QED
        BY <2>2, <4>1, <4>2
    <3>2. DOMAIN req' = Request /\ req' = [w \in Request |-> req'[w]]
      BY <1>9 DEF endFill
    <3> QED
      BY <3>1, <3>2
  <2>4. \A w \in Request :
          \/ req'[w] = req[w] /\ w # q /\ ~(req[w].pc = "wait" /\ req[w].fill = {q})
          \/ req'[w].pc = "idle"
          \/ req'[w].pc = "woken" /\ req'[w].key = req[w].key /\ req[w].pc = "wait"
    <3>1. Idle.pc = "idle"
      BY DEF Idle, St
    <3>2. \A key : LET s == St("woken", key, {}, "error", 0, hope) IN s.pc = "woken" /\ s.key = key
      BY DEF St
    <3> QED
      BY <2>2, <3>1, <3>2
  <2>5. OneKey'
    BY <2>4 DEF OneKey
  <2>6. inflight' = inflight \ (req[q].key \X {q})
    BY <1>9 DEF endFill
  <2>7. ASSUME NEW k \in Key, NEW o \in Request, <<k, o>> \in inflight'
        PROVE  <<k, o>> \in inflight /\ req'[o] = req[o]
    <3>1. <<k, o>> \in inflight /\ Filling(o) /\ req[o].key = {k} /\ ~(o = q /\ k \in req[q].key)
      BY <2>6, <2>7 DEF OneOwner
    <3> QED
      BY <2>2, <3>1 DEF Filling
  <2>8. OneOwner'
    BY <2>7 DEF OneOwner, Filling
  <2>9. ASSUME NEW w \in Request, req'[w].pc = "wait"
        PROVE  \E o \in Request : /\ req'[w].fill = {o}
                                  /\ Filling(o)' /\ req'[o].key = req'[w].key /\ req'[o].fill = {o}
    <3>1. req'[w] = req[w] /\ req[w].fill # {q}
      BY <2>4, <2>9
    <3>2. PICK o \in Request : /\ req[w].fill = {o}
                               /\ Filling(o) /\ req[o].key = req[w].key /\ req[o].fill = {o}
      BY <2>9, <3>1 DEF WaitsForOwner
    <3>3. req'[o] = req[o]
      BY <2>2, <3>1, <3>2 DEF Filling
    <3> QED
      BY <3>1, <3>2, <3>3 DEF Filling
  <2>10. WaitsForOwner'
    BY <2>9 DEF WaitsForOwner
  <2> QED
    BY <2>1, <2>3, <2>5, <2>6, <2>8, <2>10 DEF TypeInv
<1>4. ASSUME NEW q \in Request, beginFill(q) PROVE FillInv'
  <2>1. req[q].pc = "missed" /\ UNCHANGED <<clock, ttl, entries>>
    BY <1>4 DEF beginFill
  <2>2. PICK k \in Key : req[q].key = {k}
    BY <2>1 DEF OneKey
  <2> DEFINE owner == {o \in Request : <<k, o>> \in inflight}
  <2>3. CASE owner = {}
    <3> DEFINE s == St("fetch", {k}, {q}, "error", 0, FALSE)
    <3>1. inflight' = inflight \cup {<<k, q>>} /\ req' = [req EXCEPT ![q] = s]
      BY <1>4, <2>2, <2>3 DEF beginFill
    <3>2. s \in ReqState /\ s.pc = "fetch" /\ s.key = {k} /\ s.fill = {q}
      BY DEF St, ReqState, PC, Kind
    <3> HIDE DEF s
    <3>3. \A w \in Request : req'[w] = IF w = q THEN s ELSE req[w]
      BY <3>1 DEF TypeInv
    <3>4. TypeInv'
      BY <2>1, <3>1, <3>2 DEF TypeInv
    <3>5. OneKey'
      BY <3>2, <3>3 DEF OneKey
    <3>6. \A j \in Key, o \in Request : <<j, o>> \in inflight => o # q /\ j # k
      BY <2>1, <2>3 DEF OneOwner, Filling
    <3>7. OneOwner'
      BY <3>1, <3>2, <3>3, <3>6 DEF OneOwner, Filling
    <3>8. WaitsForOwner'
      BY <2>1, <3>2, <3>3 DEF WaitsForOwner, Filling
    <3> QED
      BY <3>4, <3>5, <3>7, <3>8
  <2>4. CASE owner # {}
    <3> DEFINE s == St("wait", {k}, owner, "error", 0, FALSE)
    <3>1. inflight' = inflight /\ req' = [req EXCEPT ![q] = s]
      BY <1>4, <2>2, <2>4 DEF beginFill
    <3>2. s \in ReqState /\ s.pc = "wait" /\ s.key = {k} /\ s.fill = owner
      BY DEF St, ReqState, PC, Kind
    <3>3. PICK o \in Request : owner = {o}
      <4>1. \A o, p \in owner : o = p
        BY DEF OneOwner
      <4> QED
        BY <2>4, <4>1
    <3>4. o # q /\ Filling(o) /\ req[o].key = {k} /\ req[o].fill = {o}
      BY <2>1, <3>3 DEF OneOwner, Filling
    <3> HIDE DEF s, owner
    <3>5. \A w \in Request : req'[w] = IF w = q THEN s ELSE req[w]
      BY <3>1 DEF TypeInv
    <3>6. TypeInv'
      BY <2>1, <3>1, <3>2 DEF TypeInv
    <3>7. OneKey'
      BY <3>2, <3>5 DEF OneKey
    <3>8. OneOwner'
      BY <2>1, <3>1, <3>5 DEF OneOwner, Filling, TypeInv
    <3>9. ASSUME NEW w \in Request, req'[w].pc = "wait"
          PROVE  \E p \in Request : /\ req'[w].fill = {p}
                                    /\ Filling(p)' /\ req'[p].key = req'[w].key /\ req'[p].fill = {p}
      <4>1. CASE w = q
        BY <4>1, <3>2, <3>3, <3>4, <3>5 DEF Filling
      <4>2. CASE w # q
        BY <4>2, <2>1, <3>5, <3>9 DEF WaitsForOwner, Filling
      <4> QED
        BY <4>1, <4>2
    <3>10. WaitsForOwner'
      BY <3>9 DEF WaitsForOwner
    <3> QED
      BY <3>6, <3>7, <3>8, <3>10
  <2> QED
    BY <2>3, <2>4
<1>10. CASE UNCHANGED vars
  <2>1. UNCHANGED <<clock, ttl, entries, inflight, req>>
    BY <1>10 DEF vars
  <2>2. TypeInv'
    BY <2>1 DEF TypeInv
  <2> QED
    BY <2>1, <2>2, FillKept
<1> QED
  BY <1>1, <1>2, <1>3, <1>4, <1>5, <1>6, <1>7, <1>8, <1>9, <1>10 DEF Next, RequestNext

-----------------------------------------------------------------------------
(* What is stored, and when                                                *)

LEMMA InitInd == ASSUME CacheAssumption PROVE Init => IndInv
BY InitFill DEF Init, IndInv, OnlyValidAnswers, StoredFirst, Idle, St

LEMMA NextStored ==
  ASSUME CacheAssumption
  PROVE  IndInv /\ [Next]_vars => (OnlyValidAnswers /\ StoredFirst)'
<1> SUFFICES ASSUME IndInv, [Next]_vars PROVE OnlyValidAnswers' /\ StoredFirst'
  OBVIOUS
<1> USE CacheAssumption DEF IndInv
<1>0. req \in [Request -> ReqState]
  BY DEF FillInv, TypeInv
<1>1. CASE Tick \/ UNCHANGED vars
  BY <1>1 DEF Tick, vars, OnlyValidAnswers, StoredFirst, WasStored
<1>2. ASSUME NEW d \in TTL, setTTL(d) PROVE OnlyValidAnswers' /\ StoredFirst'
  <2>1. req' = req /\ entries' = {} /\ \A j : WasStored(j) => WasStored(j)'
    BY <1>2 DEF setTTL, Lost, WasStored, KeysOf
  <2> QED
    BY <2>1 DEF OnlyValidAnswers, StoredFirst
<1>3. ASSUME NEW q \in Request, NEW k \in Key, NEW method, serveWithCache(q, k, method)
      PROVE OnlyValidAnswers' /\ StoredFirst'
  <2>1. PICK hit \in BOOLEAN : serveWithCache(q, k, method)!(hit)
    BY <1>3 DEF serveWithCache
  <2>2. /\ entries' \subseteq entries /\ ttl' = ttl
        /\ \A j : WasStored(j) => WasStored(j)'
    BY <2>1, GetKeeps
  <2>3. \A w \in Request : req'[w] = req[w] \/ req'[w].pc \in {"idle", "missed"}
    BY <1>0, <2>1 DEF Idle, St
  <2> QED
    BY <2>2, <2>3 DEF OnlyValidAnswers, StoredFirst
<1>4. ASSUME NEW q \in Request, beginFill(q) PROVE OnlyValidAnswers' /\ StoredFirst'
  <2>1. UNCHANGED <<ttl, entries, gone>>
    BY <1>4 DEF beginFill
  <2>2. \A w \in Request : req'[w] = req[w] \/ req'[w].pc \in {"fetch", "wait"}
    BY <1>0, <1>4 DEF beginFill, St
  <2> QED
    BY <2>1, <2>2 DEF OnlyValidAnswers, StoredFirst, WasStored
<1>5. ASSUME NEW q \in Request, ClientGone(q) PROVE OnlyValidAnswers' /\ StoredFirst'
  <2>1. \A w \in Request : req'[w] = req[w] \/ req'[w].pc = "idle"
    BY <1>0, <1>5 DEF ClientGone, Idle, St
  <2> QED
    BY <1>5, <2>1 DEF ClientGone, OnlyValidAnswers, StoredFirst, WasStored
<1>6. ASSUME NEW q \in Request, Wake(q) PROVE OnlyValidAnswers' /\ StoredFirst'
  <2>1. PICK k \in req[q].key, hit \in BOOLEAN :
          /\ get(k, hit)
          /\ req' = [req EXCEPT ![q] =
               IF hit THEN Idle ELSE St("fetch", {k}, {}, "error", 0, FALSE)]
    BY <1>6 DEF Wake
  <2>2. /\ entries' \subseteq entries /\ ttl' = ttl
        /\ \A j : WasStored(j) => WasStored(j)'
    BY <1>6, <2>1, GetKeeps DEF Wake
  <2>3. \A w \in Request : req'[w] = req[w] \/ req'[w].pc \in {"idle", "fetch"}
    BY <1>0, <2>1 DEF Idle, St
  <2> QED
    BY <2>2, <2>3 DEF OnlyValidAnswers, StoredFirst
<1>7. ASSUME NEW q \in Request, NEW kind \in Kind, NEW size \in BodySize,
             Respond(q, kind, size)
      PROVE OnlyValidAnswers' /\ StoredFirst'
  <2>1. req' = [req EXCEPT ![q] = St("put", req[q].key, req[q].fill, kind, size, FALSE)]
    BY <1>7 DEF Respond, Step, deferNext
  <2>2. \A w \in Request : req'[w] = req[w] \/ req'[w].pc = "put"
    BY <1>0, <2>1 DEF St
  <2> QED
    BY <1>7, <2>2 DEF Respond, OnlyValidAnswers, StoredFirst, WasStored
<1>8. ASSUME NEW q \in Request, StoreDeferred(q) PROVE OnlyValidAnswers' /\ StoredFirst'
  <2>1. req[q] \in ReqState /\ req[q].pc = "put" /\ ttl' = ttl
    BY <1>0, <1>8 DEF StoreDeferred
  <2>2. PICK k \in Key : req[q].key = {k}
    BY <2>1 DEF FillInv, OneKey
  <2> DEFINE new == [key |-> k, at |-> clock, size |-> req[q].size,
                     kind |-> req[q].kind, ttl |-> ttl]
  <2>3. \/ Stores(req[q].kind) /\ put(k, new)
        \/ ~Stores(req[q].kind) /\ UNCHANGED <<entries, gone>>
    BY <1>8, <2>2 DEF StoreDeferred
  <2>4. Stores(req[q].kind) => new.kind = "whole" /\ new.ttl = ttl
    BY <2>1 DEF Stores, entry, ReqState, Kind
  <2> HIDE DEF new
  <2>5. OnlyValidAnswers'
    BY <2>1, <2>3, <2>4, PutKeeps DEF OnlyValidAnswers
  <2>6. /\ \A j : WasStored(j) => WasStored(j)'
        /\ Stores(req[q].kind) => WasStored(k)'
    BY <2>3, PutKeeps DEF WasStored
  <2>7. \A w \in Request :
          \/ req'[w] = req[w] /\ w # q
          \/ req'[w].pc = "idle"
          \/ w = q /\ req'[w].pc = "end" /\ req'[w].key = {k} /\ req'[w].kind = req[q].kind
    BY <1>0, <1>8, <2>1, <2>2 DEF StoreDeferred, Step, deferNext, IsOwner, Idle, St
  <2>8. StoredFirst'
    BY <2>6, <2>7 DEF StoredFirst
  <2> QED
    BY <2>5, <2>8
<1>9. ASSUME NEW q \in Request, endFill(q) PROVE OnlyValidAnswers' /\ StoredFirst'
  <2>1. req[q].pc = "end" /\ UNCHANGED <<ttl, entries, gone>>
    BY <1>9 DEF endFill
  <2> DEFINE hope == Stores(req[q].kind)
  <2>2. hope \in BOOLEAN /\ (hope => \A k \in req[q].key : WasStored(k))
    BY <2>1 DEF StoredFirst, Stores, entry
  <2>3. \A w \in Request : req'[w] =
          IF req[w].pc = "wait" /\ req[w].fill = {q}
          THEN St("woken", req[w].key, {}, "error", 0, hope)
          ELSE IF w # q THEN req[w] ELSE Idle
    BY <1>9 DEF endFill, deferNext
  <2>4. \A w \in Request : req[w].pc = "wait" /\ req[w].fill = {q} => req[w].key = req[q].key
    BY DEF FillInv, WaitsForOwner
  <2> HIDE DEF hope
  <2>5. /\ Idle.pc = "idle"
        /\ \A key : LET s == St("woken", key, {}, "error", 0, hope) IN
                    s.pc = "woken" /\ s.key = key /\ s.hope = hope
    BY DEF Idle, St
  <2>6. ASSUME NEW w \in Request,
               \/ req'[w].pc = "end" /\ Stores(req'[w].kind)
               \/ req'[w].pc = "woken" /\ req'[w].hope
        PROVE  \A k \in req'[w].key : WasStored(k)'
    <3>1. CASE req[w].pc = "wait" /\ req[w].fill = {q}
      BY <2>1, <2>2, <2>3, <2>4, <2>5, <2>6, <3>1 DEF WasStored
    <3>2. CASE ~(req[w].pc = "wait" /\ req[w].fill = {q})
      BY <2>1, <2>3, <2>5, <2>6, <3>2 DEF StoredFirst, WasStored
    <3> QED
      BY <3>1, <3>2
  <2> QED
    BY <2>1, <2>6 DEF OnlyValidAnswers, StoredFirst
<1> QED
  BY <1>1, <1>2, <1>3, <1>4, <1>5, <1>6, <1>7, <1>8, <1>9 DEF Next, RequestNext

LEMMA CacheInductive == ASSUME CacheAssumption PROVE Spec => []IndInv
BY InitInd, NextFill, NextStored, PTL DEF Spec, IndInv

\* The store holds only complete, impersonal answers under the TTL in force, also
\* when a fill that began before setTTL stores after it (cacheRecorder.entry,
\* setTTL).
THEOREM StoreIsValid == ASSUME CacheAssumption PROVE Spec => []OnlyValidAnswers
BY CacheInductive, PTL DEF IndInv

\* serveWithCache stores before it releases: a waiter that was released by a fill
\* with something to store goes to the backend only for a key that was dropped
\* again.
THEOREM StoreBeforeRelease == ASSUME CacheAssumption PROVE Spec => NoStampede
<1>1. IndInv /\ [Next]_vars => [NoStampedeStep]_vars
  <2> SUFFICES ASSUME IndInv, Next,
                      NEW q \in Request, req[q].pc = "woken", req[q].hope, req'[q].pc = "fetch"
               PROVE  req[q].key \subseteq gone'
    BY DEF NoStampedeStep
  <2>1. req \in [Request -> ReqState]
    BY DEF IndInv, FillInv, TypeInv
  <2>2. PICK k \in Key : req[q].key = {k}
    BY DEF IndInv, FillInv, OneKey
  <2>3. WasStored(k)
    BY <2>2 DEF IndInv, StoredFirst
  <2>4. Wake(q)
    BY <2>1 DEF Next, RequestNext, Tick, setTTL, serveWithCache, beginFill, ClientGone, Wake,
                Respond, StoreDeferred, Step, deferNext, endFill, Idle, St
  <2>5. PICK hit \in BOOLEAN :
          /\ get(k, hit)
          /\ req' = [req EXCEPT ![q] =
               IF hit THEN Idle ELSE St("fetch", {k}, {}, "error", 0, FALSE)]
    BY <2>2, <2>4 DEF Wake
  <2>6. ~hit
    BY <2>1, <2>5 DEF Idle, St
  <2>7. k \notin KeysOf(entries') /\ gone' = Lost(entries')
    BY <2>5, <2>6, GetKeeps DEF get
  <2> QED
    BY <2>2, <2>3, <2>7 DEF WasStored, Lost
<1> QED
  BY <1>1, CacheInductive, PTL DEF Spec, NoStampede

-----------------------------------------------------------------------------
(* The size of the store                                                   *)

\* The store is a map, and evictLocked keeps it within cacheMaxEntries.
BoundedMap ==
  /\ \A e, f \in entries : e.key = f.key => e = f
  /\ IsFiniteSet(entries) /\ Cardinality(entries) <= MaxEntries

\* Whatever is taken out, the store stays a map within its bound.
LEMMA ShrinkBounded ==
  ASSUME CacheAssumption, BoundedMap, entries' \subseteq entries
  PROVE  BoundedMap'
<1>1. IsFiniteSet(entries') /\ Cardinality(entries') <= Cardinality(entries)
  BY FS_Subset DEF BoundedMap
<1>2. Cardinality(entries) \in Nat /\ Cardinality(entries') \in Nat
  BY <1>1, FS_CardinalityType DEF BoundedMap
<1> QED
  BY <1>1, <1>2 DEF BoundedMap, CacheAssumption

\* put replaces the entry of its key, and evicts down to the bound.
LEMMA PutBounded ==
  ASSUME BoundedMap, NEW k, NEW new, new.key = k, put(k, new)
  PROVE  BoundedMap'
<1> DEFINE all == (entries \ At(k)) \cup {new}
           b == bytes - SizeOf(At(k)) + new.size
<1>1. \A e, f \in all : e.key = f.key => e = f
  BY DEF BoundedMap, At
<1>2. IsFiniteSet(all)
  <2>1. IsFiniteSet(entries \ At(k))
    BY FS_Subset DEF BoundedMap
  <2> QED
    BY <2>1, FS_AddElement
<1>3. \/ Fits(all, b) /\ entries' = all
      \/ \E kept \in evictLocked(all, b) : entries' = kept
  BY DEF put
<1> HIDE DEF all, b
<1>4. entries' \subseteq all /\ Cardinality(entries') <= MaxEntries
  BY <1>3 DEF evictLocked, Fits
<1>5. IsFiniteSet(entries')
  BY <1>2, <1>4, FS_Subset
<1> QED
  BY <1>1, <1>4, <1>5 DEF BoundedMap

\* The store never holds two entries of one key nor more than cacheMaxEntries,
\* whichever requests fill, expire and replace entries at the same time
\* (responseCache.put, evictLocked, get, setTTL).
THEOREM StoreBounded == ASSUME CacheAssumption PROVE Spec => []BoundedMap
<1>1. Init => BoundedMap
  BY FS_EmptySet DEF Init, BoundedMap, CacheAssumption
<1>2. BoundedMap /\ [Next]_vars => BoundedMap'
  <2> SUFFICES ASSUME BoundedMap, [Next]_vars PROVE BoundedMap'
    OBVIOUS
  <2>1. ASSUME NEW q \in Request, StoreDeferred(q), Stores(req[q].kind) PROVE BoundedMap'
    <3>1. PICK k \in req[q].key :
            put(k, [key |-> k, at |-> clock, size |-> req[q].size,
                    kind |-> req[q].kind, ttl |-> ttl])
      BY <2>1 DEF StoreDeferred
    <3> QED
      BY <3>1, PutBounded
  <2>2. ASSUME NEW q \in Request, StoreDeferred(q), ~Stores(req[q].kind)
        PROVE  entries' \subseteq entries
    BY <2>2 DEF StoreDeferred
  <2>3. ASSUME Tick \/ UNCHANGED vars \/ \E d \in TTL : setTTL(d) PROVE entries' \subseteq entries
    BY <2>3 DEF Tick, vars, setTTL
  <2>4. ASSUME NEW q \in Request, NEW k \in Key, NEW method, serveWithCache(q, k, method)
        PROVE  entries' \subseteq entries
    BY <2>4, GetKeeps DEF serveWithCache
  <2>5. ASSUME NEW q \in Request, Wake(q) PROVE entries' \subseteq entries
    BY <2>5, GetKeeps DEF Wake
  <2>6. ASSUME NEW q \in Request, beginFill(q) \/ ClientGone(q) \/ endFill(q)
        PROVE  entries' \subseteq entries
    BY <2>6 DEF beginFill, ClientGone, endFill
  <2>7. ASSUME NEW q \in Request, NEW kind \in Kind, NEW size \in BodySize, Respond(q, kind, size)
        PROVE  entries' \subseteq entries
    BY <2>7 DEF Respond
  <2>8. BoundedMap' \/ entries' \subseteq entries
    BY <2>1, <2>2, <2>3, <2>4, <2>5, <2>6, <2>7 DEF Next, RequestNext
  <2> QED
    BY <2>8, ShrinkBounded
<1> QED
  BY <1>1, <1>2, PTL DEF Spec
=============================================================================
