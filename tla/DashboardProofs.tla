-------------------------- MODULE DashboardProofs ---------------------------
(***************************************************************************)
(* The dashboard's container list is never wrongly valid and never too old *)
(* (ContainerCache.tla), for any number of browsers and changes and any    *)
(* maximal age and time limit of a fetch; its Images panel takes off disk  *)
(* nothing that stays protected (Images.tla), for any names, images and    *)
(* number of requests at once; and spread calls do not stack replicas on a *)
(* host (Spread.tla), for any counts and any number of calls at once.      *)
(***************************************************************************)
EXTENDS ContainerCache, Sequences, FiniteSets, FiniteSetTheorems, WellFoundedInduction, TLAPS

-----------------------------------------------------------------------------
(* The inductive invariant                                                 *)

Typed ==
  /\ docker \in 0..MaxVersion
  /\ until \in [Versions -> Nat]
  /\ clock \in 0..MaxTime
  /\ pipe \in Nat
  /\ cache \in [items: Versions, fetchedAt: Nat, valid: BOOLEAN]
  /\ inflight \in [started: BOOLEAN, clean: BOOLEAN, at: Nat, read: BOOLEAN, items: Versions]

\* The list as it is now, and any later one, has not been replaced.
CurrentLasts == \A v \in Versions : docker <= v => until[v] > MaxTime

\* A fetch that nothing has invalidated lacks only changes whose event is on
\* its way: what gen promises of the list it will store.
CleanIsCurrent ==
  (inflight.read /\ inflight.clean /\ stream = "up") => docker <= inflight.items + pipe

\* The list a fetch brings was current when it began or later, and the fetch
\* lasts no longer than its time limit.
FetchRecent ==
  /\ inflight.started => inflight.at <= clock /\ clock <= inflight.at + FetchMax
  /\ inflight.read => inflight.started /\ inflight.at <= until[inflight.items]

\* What is stored was replaced at most one fetch before it was stored.
StoredRecent ==
  cache.fetchedAt <= clock /\ cache.fetchedAt <= until[cache.items] + FetchMax

Inv == Typed /\ CurrentLasts /\ ValidIsCurrent /\ CleanIsCurrent /\ FetchRecent /\ StoredRecent

LEMMA InitInv ==
  ASSUME CacheAssumption, Init
  PROVE  Inv
<1>. USE DEF CacheAssumption, Init, newContainerCache, NoFetch, Versions
<1>1. 0 \in Versions /\ MaxTime + 1 \in Nat
  OBVIOUS
<1>2. Typed
  BY <1>1 DEF Typed
<1>3. \A v \in Versions : until[v] = MaxTime + 1
  BY <1>1
<1>. QED
  BY <1>1, <1>2, <1>3
  DEF Inv, CurrentLasts, ValidIsCurrent, CleanIsCurrent, FetchRecent, StoredRecent

-----------------------------------------------------------------------------
(* The steps                                                               *)

\* A change of the list, which the event stream, if it is up, tells of.
LEMMA ChangedKeeps ==
  ASSUME CacheAssumption, Inv, Changed, UNCHANGED <<clock, stream, cache, inflight>>
  PROVE  Inv'
<1>. USE DEF CacheAssumption
<1>0. /\ docker < MaxVersion /\ docker' = docker + 1
      /\ until' = [until EXCEPT ![docker] = clock]
      /\ pipe' = pipe + (IF stream \in {"opened", "up"} THEN 1 ELSE 0)
  BY DEF Changed
<1>1. /\ docker \in Versions /\ docker + 1 \in Versions /\ docker # docker + 1
      /\ pipe' \in Nat /\ clock \in Nat
  BY <1>0 DEF Inv, Typed, Versions
<1>2. Typed'
  BY <1>0, <1>1 DEF Inv, Typed, Versions
<1>3. CurrentLasts'
  BY <1>0, <1>1 DEF Inv, Typed, CurrentLasts, Versions
<1>4. ValidIsCurrent' /\ CleanIsCurrent'
  <2>1. /\ docker \in Nat /\ pipe \in Nat
        /\ cache.items \in Nat /\ inflight.items \in Nat
    BY DEF Inv, Typed, Versions
  <2>2. stream = "up" => pipe' = pipe + 1
    BY <1>0
  <2>. QED  BY <1>0, <2>1, <2>2 DEF Inv, ValidIsCurrent, CleanIsCurrent
<1>5. \A v \in Versions : until'[v] = until[v] \/ until'[v] = clock
  BY <1>0, <1>1 DEF Inv, Typed
<1>6. FetchRecent'
  BY <1>5 DEF Inv, Typed, FetchRecent
<1>7. StoredRecent'
  <2>1. cache.items \in Versions /\ cache.fetchedAt \in Nat
    BY DEF Inv, Typed
  <2>2. until'[cache.items] = until[cache.items] \/ until'[cache.items] = clock
    BY <1>5, <2>1
  <2>. QED  BY <1>1, <2>1, <2>2 DEF Inv, Typed, StoredRecent
<1>. QED  BY <1>2, <1>3, <1>4, <1>6, <1>7 DEF Inv

\* A step that drops the cache and spoils the fetch under way keeps all that
\* does not depend on the stream.
LEMMA InvalidateKeeps ==
  ASSUME CacheAssumption, Inv, invalidate, UNCHANGED <<docker, until, clock>>, pipe' \in Nat
  PROVE  Inv'
<1>0. cache' = [cache EXCEPT !.valid = FALSE] /\ inflight' = [inflight EXCEPT !.clean = FALSE]
  BY DEF invalidate
<1>1. /\ cache'.items = cache.items /\ cache'.fetchedAt = cache.fetchedAt /\ ~cache'.valid
      /\ inflight'.started = inflight.started /\ inflight'.at = inflight.at /\ ~inflight'.clean
      /\ inflight'.read = inflight.read /\ inflight'.items = inflight.items
  BY <1>0 DEF Inv, Typed
<1>2. Typed'
  BY <1>0 DEF Inv, Typed
<1>. QED
  BY <1>1, <1>2
  DEF Inv, CurrentLasts, ValidIsCurrent, CleanIsCurrent, FetchRecent, StoredRecent

\* A step that leaves the lists alone.
LEMMA IdleKeeps ==
  ASSUME Inv, UNCHANGED <<docker, until, clock, cache, inflight>>, pipe' \in Nat,
         stream' = "up" => stream = "up" /\ pipe' = pipe
  PROVE  Inv'
<1>1. Typed'
  BY DEF Inv, Typed
<1>. QED
  BY <1>1 DEF Inv, CurrentLasts, ValidIsCurrent, CleanIsCurrent, FetchRecent, StoredRecent

LEMMA FetchKeeps ==
  ASSUME CacheAssumption, Inv, UNCHANGED <<docker, until, clock, stream, pipe>>,
         \/ inflight' = [NoFetch EXCEPT !.started = TRUE, !.clean = TRUE, !.at = clock] /\ cache' = cache
         \/ inflight.started /\ inflight' = [inflight EXCEPT !.read = TRUE, !.items = docker] /\ cache' = cache
         \/ FetchDone
         \/ FetchFailed
  PROVE  Inv'
<1>. USE DEF CacheAssumption
<1>0. docker \in Versions /\ 0 \in Versions /\ clock \in Nat
  BY DEF Inv, Typed, Versions
<1>1. CASE inflight' = [NoFetch EXCEPT !.started = TRUE, !.clean = TRUE, !.at = clock] /\ cache' = cache
  <2>1. /\ inflight'.started /\ inflight'.at = clock /\ ~inflight'.read
        /\ inflight' \in [started: BOOLEAN, clean: BOOLEAN, at: Nat, read: BOOLEAN, items: Versions]
    BY <1>0, <1>1 DEF NoFetch
  <2>2. Typed' /\ CurrentLasts' /\ ValidIsCurrent' /\ StoredRecent'
    BY <1>1, <2>1 DEF Inv, Typed, CurrentLasts, ValidIsCurrent, StoredRecent
  <2>. QED  BY <1>0, <2>1, <2>2 DEF Inv, CleanIsCurrent, FetchRecent
<1>2. CASE inflight.started /\ inflight' = [inflight EXCEPT !.read = TRUE, !.items = docker] /\ cache' = cache
  <2>1. /\ inflight'.started = inflight.started /\ inflight'.at = inflight.at
        /\ inflight'.read /\ inflight'.items = docker
        /\ inflight' \in [started: BOOLEAN, clean: BOOLEAN, at: Nat, read: BOOLEAN, items: Versions]
    BY <1>0, <1>2 DEF Inv, Typed
  <2>2. Typed' /\ CurrentLasts' /\ ValidIsCurrent' /\ StoredRecent'
    BY <1>2, <2>1 DEF Inv, Typed, CurrentLasts, ValidIsCurrent, StoredRecent
  <2>3. CleanIsCurrent'
    BY <2>1 DEF Inv, Typed, CleanIsCurrent
  <2>4. inflight.at <= clock /\ clock <= MaxTime /\ until[docker] > MaxTime /\ until[docker] \in Nat
    BY <1>0, <1>2 DEF Inv, Typed, FetchRecent, CurrentLasts
  <2>5. FetchRecent'
    BY <1>2, <2>1, <2>4 DEF Inv, Typed, FetchRecent
  <2>. QED  BY <2>2, <2>3, <2>5 DEF Inv
<1>3. ASSUME inflight' = NoFetch
      PROVE  /\ ~inflight'.started /\ ~inflight'.read
             /\ inflight' \in [started: BOOLEAN, clean: BOOLEAN, at: Nat, read: BOOLEAN, items: Versions]
  BY <1>0, <1>3 DEF NoFetch
<1>4. CASE FetchDone
  <2>1. /\ inflight.read /\ inflight' = NoFetch
        /\ cache' = [cache EXCEPT !.items = inflight.items, !.fetchedAt = clock, !.valid = inflight.clean]
    BY <1>4 DEF FetchDone
  <2>2. /\ cache'.items = inflight.items /\ cache'.fetchedAt = clock
        /\ cache'.valid = inflight.clean
        /\ cache' \in [items: Versions, fetchedAt: Nat, valid: BOOLEAN]
    BY <1>0, <2>1 DEF Inv, Typed
  <2>3. Typed' /\ CurrentLasts' /\ CleanIsCurrent' /\ FetchRecent'
    BY <1>3, <2>1, <2>2 DEF Inv, Typed, CurrentLasts, CleanIsCurrent, FetchRecent
  <2>4. ValidIsCurrent'
    BY <2>1, <2>2 DEF Inv, CleanIsCurrent, ValidIsCurrent
  <2>5. StoredRecent'
    BY <1>0, <2>1, <2>2 DEF Inv, Typed, FetchRecent, StoredRecent
  <2>. QED  BY <2>3, <2>4, <2>5 DEF Inv
<1>5. CASE FetchFailed
  <2>1. inflight' = NoFetch /\ cache' = [cache EXCEPT !.valid = FALSE]
    BY <1>5 DEF FetchFailed
  <2>2. /\ cache'.items = cache.items /\ cache'.fetchedAt = cache.fetchedAt /\ ~cache'.valid
        /\ cache' \in [items: Versions, fetchedAt: Nat, valid: BOOLEAN]
    BY <2>1 DEF Inv, Typed
  <2>. QED
    BY <1>3, <2>1, <2>2
    DEF Inv, Typed, CurrentLasts, ValidIsCurrent, CleanIsCurrent, FetchRecent, StoredRecent
<1>. QED  BY <1>1, <1>2, <1>4, <1>5

LEMMA TickKeeps ==
  ASSUME CacheAssumption, Inv, Tick
  PROVE  Inv'
<1>1. /\ clock < MaxTime /\ clock' = clock + 1
      /\ inflight.started => clock < inflight.at + FetchMax
      /\ UNCHANGED <<docker, until, stream, pipe, cache, inflight>>
  BY DEF Tick
<1>2. Typed'
  BY <1>1 DEF Inv, Typed, CacheAssumption
<1>3. FetchRecent'
  BY <1>1 DEF Inv, Typed, FetchRecent, CacheAssumption
<1>4. StoredRecent'
  BY <1>1 DEF Inv, Typed, StoredRecent
<1>. QED
  BY <1>1, <1>2, <1>3, <1>4 DEF Inv, CurrentLasts, ValidIsCurrent, CleanIsCurrent

LEMMA NextInv ==
  ASSUME CacheAssumption, Inv, [Next]_vars
  PROVE  Inv'
<1>0. pipe \in Nat /\ 0 \in Nat
  BY DEF Inv, Typed
<1>1. CASE ChangeOutside
  BY <1>1, ChangedKeeps DEF ChangeOutside
<1>2. CASE Tick
  BY <1>2, TickKeeps
<1>3. ASSUME NEW c \in Client,
             ListJoin(c) \/ ListFetch(c) \/ ClientGone(c) \/ Write(c) \/ WriteDone(c)
      PROVE  Inv'
  <2>1. CASE ListJoin(c)
    BY <1>0, <2>1, IdleKeeps DEF ListJoin
  <2>2. CASE ListFetch(c)
    BY <2>2, FetchKeeps DEF ListFetch
  <2>3. CASE ClientGone(c)
    BY <1>0, <2>3, IdleKeeps DEF ClientGone
  <2>4. CASE Write(c)
    BY <2>4, ChangedKeeps DEF Write
  <2>5. CASE WriteDone(c)
    BY <1>0, <2>5, InvalidateKeeps DEF WriteDone
  <2>. QED  BY <1>3, <2>1, <2>2, <2>3, <2>4, <2>5
<1>4. CASE FetchRead
  BY <1>4, FetchKeeps DEF FetchRead
<1>5. CASE FetchDone
  BY <1>5, FetchKeeps DEF FetchDone
<1>6. CASE FetchFailed
  BY <1>6, FetchKeeps DEF FetchFailed
<1>7. CASE StreamOpened
  BY <1>0, <1>7, IdleKeeps DEF StreamOpened
<1>8. CASE StreamRefused
  BY <1>0, <1>8, InvalidateKeeps DEF StreamRefused
<1>9. CASE StreamUp
  BY <1>0, <1>9, InvalidateKeeps DEF StreamUp
<1>10. CASE handleEvent
  <2>1. pipe' \in Nat
    BY <1>0, <1>10 DEF handleEvent
  <2>. QED  BY <1>10, <2>1, InvalidateKeeps DEF handleEvent
<1>11. CASE StreamBreaks
  BY <1>0, <1>11, IdleKeeps DEF StreamBreaks
<1>12. CASE StreamError
  BY <1>0, <1>12, InvalidateKeeps DEF StreamError
<1>13. CASE UNCHANGED vars
  BY <1>0, <1>13, IdleKeeps DEF vars
<1>. QED
  BY <1>1, <1>2, <1>3, <1>4, <1>5, <1>6, <1>7, <1>8, <1>9, <1>10, <1>11, <1>12, <1>13
  DEF Next

LEMMA CacheInductive ==
  ASSUME CacheAssumption
  PROVE  Spec => []Inv
<1>1. Init => Inv
  BY InitInv
<1>2. Inv /\ [Next]_vars => Inv'
  BY NextInv
<1>. QED  BY <1>1, <1>2, PTL DEF Spec

-----------------------------------------------------------------------------
(* The theorems                                                            *)

\* No order of fetch, change, event, reconnect and write stores an old list as
\* valid: gen makes the answer of a fetch that an invalidation overtook invalid
\* (containerCache.list, invalidate, watchEvents).
THEOREM ListIsCurrent ==
  ASSUME CacheAssumption
  PROVE  Spec => []ValidIsCurrent
<1>1. Inv => ValidIsCurrent
  BY DEF Inv
<1>. QED  BY <1>1, CacheInductive, PTL

\* With or without events, no browser gets a list replaced longer ago than
\* maxAge and the time limit of a fetch together (containerCache.list).
THEOREM ListIsRecent ==
  ASSUME CacheAssumption
  PROVE  Spec => []StaleBounded
<1>1. Inv => StaleBounded
  <2>. SUFFICES ASSUME Inv PROVE StaleBounded
    OBVIOUS
  <2>1. /\ cache.fetchedAt \in Nat /\ until[cache.items] \in Nat /\ until[inflight.items] \in Nat
        /\ clock \in Nat /\ inflight.at \in Nat /\ FetchMax \in Nat /\ MaxAge \in Nat
    BY DEF Inv, Typed, CacheAssumption
  <2>. QED  BY <2>1 DEF Inv, FetchRecent, StoredRecent, StaleBounded, Fresh
<1>. QED  BY <1>1, CacheInductive, PTL

\* Both together: what containerCache.List promises the pages.
THEOREM ListIsSound ==
  ASSUME CacheAssumption
  PROVE  Spec => []ListSound
BY ListIsCurrent, ListIsRecent, PTL DEF ListSound

-----------------------------------------------------------------------------
(* The Images panel                                                        *)

CONSTANTS Ref, Id, Created, None, Call, KeepN, MaxOps, MaxNow
VARIABLES tags, disk, containers, image, marks, hist, now, ops, call, held

Panel == INSTANCE Images

\* What a call may be told to delete; a prune is told nothing.
Tokens == Ref \cup Id \cup {None}

Requests == [pc: {"idle", "listing", "removing"}, kind: {"prune", "delete", "peer delete"},
             token: Tokens, keepN: KeepN \cup {0},
             refs: SUBSET Ref, ids: SUBSET Id, todo: SUBSET Tokens]

PanelTyped ==
  /\ tags \in [Ref -> Id \cup {None}]
  /\ disk \subseteq Id
  /\ containers \subseteq [ref: Ref, id: Id]
  /\ image \in Ref /\ marks \subseteq Ref
  /\ call \in [Call -> Requests]
  /\ held = [c \in Call |-> held[c]]
  /\ \A c \in Call : call[c].pc = "idle" => call[c] = Panel!Idle

\* The one call that looks up no mark: a local delete by id.
ById(c) == call[c].kind = "delete" /\ call[c].token \in Id

\* What has been protected since a call began was so when the call looked: it
\* is on the call's lists, the name is still on that image, and the call is
\* about to remove neither.
HeldSpared ==
  \A c \in Call, r \in Ref, i \in Id : call[c].pc # "idle" /\ <<r, i>> \in held[c] =>
    /\ tags[r] = i
    /\ r \in call[c].refs \/ i \in call[c].ids
    /\ ~ById(c) => r \notin call[c].todo /\ i \notin call[c].todo

PanelInv == PanelTyped /\ HeldSpared

\* What is protected is a name and the image it is on.
LEMMA ProtectedFacts ==
  ASSUME Panel!ImagesAssumption, PanelTyped, NEW r \in Ref, NEW i \in Id
  PROVE  <<r, i>> \in Panel!Protected <=>
           /\ tags[r] = i
           /\ r \in Panel!protectedRefs \/ i \in Panel!protectedIDs
<1>1. i # None
  BY DEF Panel!ImagesAssumption
<1>2. \A q : <<q, tags[q]>> = <<r, i>> <=> q = r /\ tags[q] = i
  OBVIOUS
<1>. QED  BY <1>1, <1>2 DEF Panel!Protected, Panel!Named

LEMMA ProtectedTyped ==
  ASSUME PanelTyped
  PROVE  Panel!protectedRefs \in SUBSET Ref /\ Panel!protectedIDs \in SUBSET Id
BY DEF PanelTyped, Panel!protectedRefs, Panel!protectedIDs

\* What is remembered of a call can only shrink while the call is under way,
\* and all of it is protected now.
HeldMoves ==
  held' = [c \in Call |-> IF call[c] = Panel!Idle THEN Panel!Protected' ELSE held[c] \cap Panel!Protected']

\* The conjunct of HeldSpared for one call.
SparedFor(c) ==
  \A r \in Ref, i \in Id : call[c].pc # "idle" /\ <<r, i>> \in held[c] =>
    /\ tags[r] = i
    /\ r \in call[c].refs \/ i \in call[c].ids
    /\ ~ById(c) => r \notin call[c].todo /\ i \notin call[c].todo

\* A call that does not move, or has one removal fewer to make, spares what it
\* spared, whatever others did to names, containers and marks.
LEMMA SamePanelCall ==
  ASSUME Panel!ImagesAssumption, PanelInv, PanelTyped', HeldMoves, NEW c \in Call,
         call'[c].pc # "idle" => /\ call[c].pc # "idle"
                                 /\ call'[c].refs = call[c].refs /\ call'[c].ids = call[c].ids
                                 /\ call'[c].kind = call[c].kind /\ call'[c].token = call[c].token
                                 /\ call'[c].todo \subseteq call[c].todo
  PROVE  SparedFor(c)'
<1>. SUFFICES ASSUME NEW r \in Ref, NEW i \in Id, call'[c].pc # "idle", <<r, i>> \in held'[c]
              PROVE  /\ tags'[r] = i
                     /\ r \in call'[c].refs \/ i \in call'[c].ids
                     /\ ~ById(c)' => r \notin call'[c].todo /\ i \notin call'[c].todo
  BY DEF SparedFor
<1>1. call[c] # Panel!Idle
  BY DEF Panel!Idle
<1>2. <<r, i>> \in held[c] /\ <<r, i>> \in Panel!Protected'
  BY <1>1 DEF HeldMoves
<1>3. tags'[r] = i
  <2>1. i # None
    BY DEF Panel!ImagesAssumption
  <2>2. \A q : <<q, tags'[q]>> = <<r, i>> => q = r /\ tags'[q] = i
    OBVIOUS
  <2>. QED  BY <1>2, <2>1, <2>2 DEF Panel!Protected, Panel!Named
<1>4. /\ r \in call[c].refs \/ i \in call[c].ids
      /\ ~ById(c) => r \notin call[c].todo /\ i \notin call[c].todo
  BY <1>2 DEF PanelInv, HeldSpared
<1>5. ById(c)' <=> ById(c)
  BY DEF ById
<1>. QED  BY <1>3, <1>4, <1>5

\* A call begins with everything protected on its lists and nothing to remove.
LEMMA BeginSpares ==
  ASSUME Panel!ImagesAssumption, PanelInv, HeldMoves, NEW c \in Call,
         NEW kind \in {"prune", "delete", "peer delete"}, NEW token \in Tokens,
         NEW keepN \in KeepN \cup {0}, Panel!protectedSets(c, kind, token, keepN)
  PROVE  PanelTyped' /\ SparedFor(c)'
<1>1. /\ call[c] = Panel!Idle
      /\ UNCHANGED <<tags, disk, containers, image, marks>>
      /\ call' = [call EXCEPT ![c] = [Panel!Idle EXCEPT !.pc = "listing", !.kind = kind,
                                        !.token = token, !.keepN = keepN,
                                        !.refs = Panel!protectedRefs, !.ids = Panel!protectedIDs]]
  BY DEF Panel!protectedSets
<1>2. PanelTyped
  BY DEF PanelInv
<1>. DEFINE refs == Panel!protectedRefs
            ids == Panel!protectedIDs
            begun == [Panel!Idle EXCEPT !.pc = "listing", !.kind = kind, !.token = token,
                                        !.keepN = keepN, !.refs = refs, !.ids = ids]
<1>a. refs \in SUBSET Ref /\ ids \in SUBSET Id
  BY <1>2, ProtectedTyped
<1>3. call' = [call EXCEPT ![c] = begun]
  BY <1>1
<1>b. /\ begun \in Requests
      /\ begun.pc = "listing" /\ begun.refs = refs /\ begun.ids = ids /\ begun.todo = {}
  <2>. HIDE DEF refs, ids
  <2>1. Panel!Idle = [pc |-> "idle", kind |-> "prune", token |-> None, keepN |-> 0,
                      refs |-> {}, ids |-> {}, todo |-> {}]
    BY DEF Panel!Idle
  <2>2. begun \in [pc: {"listing"}, kind: {kind}, token: {token}, keepN: {keepN},
                    refs: {refs}, ids: {ids}, todo: {{}}]
    BY <2>1
  <2>3. {} \in SUBSET Tokens
    OBVIOUS
  <2>4. begun \in Requests
    BY <1>a, <2>2, <2>3 DEF Requests
  <2>. QED  BY <2>2, <2>4
<1>. HIDE DEF begun
<1>4. call'[c] = begun
  BY <1>2, <1>3 DEF PanelTyped
<1>5. call'[c] \in Requests
  BY <1>4, <1>b
<1>6. PanelTyped'
  BY <1>1, <1>2, <1>3, <1>4, <1>5, <1>b DEF PanelTyped, HeldMoves
<1>7. held'[c] = Panel!Protected
  BY <1>1 DEF HeldMoves, Panel!Protected, Panel!protectedRefs, Panel!protectedIDs, Panel!Named
<1>8. \A r \in Ref, i \in Id : <<r, i>> \in Panel!Protected =>
        tags'[r] = i /\ (r \in Panel!protectedRefs \/ i \in Panel!protectedIDs)
  BY <1>1, <1>2, ProtectedFacts
<1>. QED  BY <1>4, <1>6, <1>7, <1>8, <1>b DEF SparedFor

\* The call goes on to a list of removals that touches nothing protected.
LEMMA GoesSpares ==
  ASSUME Panel!ImagesAssumption, PanelInv, HeldMoves, NEW c \in Call, NEW todo \in SUBSET Tokens,
         call[c].pc = "listing", Panel!Goes(c, todo),
         \A r \in Ref, i \in Id :
           ~ById(c) /\ tags[r] = i /\ (r \in call[c].refs \/ i \in call[c].ids)
             => r \notin todo /\ i \notin todo
  PROVE  PanelTyped' /\ SparedFor(c)'
<1>1. /\ UNCHANGED <<tags, disk, containers, image, marks>>
      /\ call' = [call EXCEPT ![c] = IF todo = {} THEN Panel!Idle
                                     ELSE [@ EXCEPT !.pc = "removing", !.todo = todo]]
  BY DEF Panel!Goes
<1>2. PanelTyped /\ call[c] \in Requests
  BY DEF PanelInv, PanelTyped
<1>3. CASE todo = {}
  <2>1. call' = [call EXCEPT ![c] = Panel!Idle] /\ call'[c] = Panel!Idle
    BY <1>1, <1>2, <1>3 DEF PanelTyped
  <2>2. Panel!Idle \in Requests /\ Panel!Idle.pc = "idle"
    BY DEF Panel!Idle, Requests, Tokens
  <2>3. PanelTyped'
    BY <1>1, <1>2, <2>1, <2>2 DEF PanelTyped, HeldMoves
  <2>. QED  BY <2>1, <2>2, <2>3 DEF SparedFor
<1>4. CASE todo # {}
  <2>1. call' = [call EXCEPT ![c] = [call[c] EXCEPT !.pc = "removing", !.todo = todo]]
    BY <1>1, <1>4
  <2>2. call'[c] = [call[c] EXCEPT !.pc = "removing", !.todo = todo]
    BY <1>2, <2>1 DEF PanelTyped
  <2>3. /\ call'[c] \in Requests
        /\ call'[c].pc = "removing" /\ call'[c].todo = todo
        /\ call'[c].refs = call[c].refs /\ call'[c].ids = call[c].ids
        /\ call'[c].kind = call[c].kind /\ call'[c].token = call[c].token
    BY <1>2, <2>2 DEF Requests
  <2>4. PanelTyped'
    BY <1>1, <1>2, <2>1, <2>3 DEF PanelTyped, HeldMoves
  <2>5. call[c] # Panel!Idle
    BY DEF Panel!Idle
  <2>6. held'[c] \subseteq held[c]
    BY <2>5 DEF HeldMoves
  <2>7. \A r \in Ref, i \in Id : <<r, i>> \in held[c] =>
          tags[r] = i /\ (r \in call[c].refs \/ i \in call[c].ids)
    BY DEF PanelInv, HeldSpared
  <2>8. ById(c)' <=> ById(c)
    BY <2>3 DEF ById
  <2>. QED  BY <1>1, <2>3, <2>4, <2>6, <2>7, <2>8 DEF SparedFor
<1>. QED  BY <1>3, <1>4

\* A prune: an entry that is protected, or whose image is, is spared, and an
\* image with a name is no entry of its own (imagesToPrune).
LEMMA PruneSpares ==
  ASSUME Panel!ImagesAssumption, PanelInv, HeldMoves, NEW c \in Call, Panel!ListForPrune(c)
  PROVE  PanelTyped' /\ SparedFor(c)'
<1>1. PICK kept \in Panel!Newest(call[c].keepN) :
        Panel!Goes(c, (Panel!entries \ kept) \ Panel!Spared(c)) /\ call[c].pc = "listing"
  BY DEF Panel!ListForPrune, Panel!imagesToPrune
<1>. DEFINE todo == (Panel!entries \ kept) \ Panel!Spared(c)
<1>2. PanelTyped
  BY DEF PanelInv
<1>3. Panel!entries \subseteq Tokens
  BY <1>2 DEF PanelTyped, Panel!entries, Panel!Named, Panel!Dangling, Tokens
<1>4. ASSUME NEW r \in Ref, NEW i \in Id, tags[r] = i, r \in call[c].refs \/ i \in call[c].ids
      PROVE  r \notin todo /\ i \notin todo
  <2>1. r \in Panel!entries
    BY <1>4 DEF Panel!entries, Panel!Named, Panel!ImagesAssumption
  <2>2. Panel!fullID(r) = i
    BY <1>4 DEF Panel!fullID
  <2>3. r \in Panel!Spared(c)
    BY <1>4, <2>1, <2>2 DEF Panel!Spared, Panel!EntryProtected
  <2>4. i \notin Panel!entries
    BY <1>4 DEF Panel!entries, Panel!Named, Panel!Dangling, Panel!ImagesAssumption
  <2>. QED  BY <2>3, <2>4
<1>5. todo \in SUBSET Tokens
  BY <1>3
<1>. QED  BY <1>1, <1>4, <1>5, GoesSpares

\* A delete by name is refused when the name or its image is protected, here and
\* on a peer; on a peer an image with a name is not found by its id.
LEMMA DeleteSpares ==
  ASSUME Panel!ImagesAssumption, PanelInv, HeldMoves, NEW c \in Call,
         Panel!ListForDelete(c) \/ Panel!ListForPeer(c)
  PROVE  PanelTyped' /\ SparedFor(c)'
<1>. DEFINE t == call[c].token
<1>1. PanelTyped /\ call[c] \in Requests
  BY DEF PanelInv, PanelTyped
<1>2. t \in Tokens
  BY <1>1 DEF Requests
<1>3. CASE Panel!ListForDelete(c)
  <2>. DEFINE refused == \/ t \in call[c].refs \cup call[c].ids
                         \/ t \in Panel!Named /\ tags[t] \in call[c].ids
              todo == IF refused THEN {} ELSE {t}
  <2>1. call[c].pc = "listing" /\ call[c].kind = "delete" /\ Panel!Goes(c, todo)
    BY <1>3 DEF Panel!ListForDelete
  <2>2. todo \in SUBSET Tokens
    BY <1>2
  <2>3. ASSUME NEW r \in Ref, NEW i \in Id, ~ById(c), tags[r] = i,
               r \in call[c].refs \/ i \in call[c].ids
        PROVE  r \notin todo /\ i \notin todo
    <3>1. t \notin Id
      BY <2>1, <2>3 DEF ById
    <3>2. t = r => refused
      BY <2>3 DEF Panel!Named, Panel!ImagesAssumption
    <3>. QED  BY <3>1, <3>2
  <2>. HIDE DEF todo
  <2>. QED  BY <2>1, <2>2, <2>3, GoesSpares
<1>4. CASE Panel!ListForPeer(c)
  <2>. DEFINE todo == IF t \notin Panel!entries \/ Panel!EntryProtected(c, t) THEN {} ELSE {t}
  <2>1. call[c].pc = "listing" /\ Panel!Goes(c, todo)
    BY <1>4 DEF Panel!ListForPeer
  <2>2. todo \in SUBSET Tokens
    BY <1>2
  <2>3. ASSUME NEW r \in Ref, NEW i \in Id, tags[r] = i, r \in call[c].refs \/ i \in call[c].ids
        PROVE  r \notin todo /\ i \notin todo
    <3>1. Panel!EntryProtected(c, r)
      BY <2>3 DEF Panel!EntryProtected, Panel!fullID
    <3>2. i \notin Panel!entries
      BY <2>3 DEF Panel!entries, Panel!Named, Panel!Dangling, Panel!ImagesAssumption
    <3>. QED  BY <3>1, <3>2
  <2>. HIDE DEF todo
  <2>. QED  BY <2>1, <2>2, <2>3, GoesSpares
<1>. QED  BY <1>3, <1>4

\* A removal leaves every name on its image or takes it off disk, and the call
\* with one removal fewer to make.
LEMMA RemoveSpares ==
  ASSUME Panel!ImagesAssumption, PanelInv, HeldMoves, NEW c \in Call, Panel!Remove(c)
  PROVE  PanelTyped' /\ SparedFor(c)'
<1>1. PICK t \in call[c].todo :
        /\ Panel!removeImage(t)
        /\ call' = [call EXCEPT ![c] = IF call[c].todo \ {t} = {} THEN Panel!Idle
                                       ELSE [@ EXCEPT !.todo = call[c].todo \ {t}]]
  BY DEF Panel!Remove
<1>2. call[c].pc = "removing" /\ UNCHANGED <<containers, image, marks>>
  BY DEF Panel!Remove
<1>3. PanelTyped /\ call[c] \in Requests
  BY DEF PanelInv, PanelTyped
<1>4. tags' \in [Ref -> Id \cup {None}] /\ disk' \subseteq Id
  <2>1. CASE Panel!Removable(t)
    BY <1>1, <1>3, <2>1 DEF PanelTyped, Panel!removeImage
  <2>2. CASE ~Panel!Removable(t)
    BY <1>1, <1>3, <2>2 DEF PanelTyped, Panel!removeImage
  <2>. QED  BY <2>1, <2>2
<1>5. CASE call[c].todo \ {t} = {}
  <2>1. call' = [call EXCEPT ![c] = Panel!Idle] /\ call'[c] = Panel!Idle
    BY <1>1, <1>3, <1>5 DEF PanelTyped
  <2>2. Panel!Idle \in Requests /\ Panel!Idle.pc = "idle"
    BY DEF Panel!Idle, Requests, Tokens
  <2>3. PanelTyped'
    BY <1>2, <1>3, <1>4, <2>1, <2>2 DEF PanelTyped, HeldMoves
  <2>. QED  BY <2>1, <2>2, <2>3 DEF SparedFor
<1>6. CASE call[c].todo \ {t} # {}
  <2>1. /\ call' = [call EXCEPT ![c] = [call[c] EXCEPT !.todo = call[c].todo \ {t}]]
        /\ call'[c] = [call[c] EXCEPT !.todo = call[c].todo \ {t}]
    BY <1>1, <1>3, <1>6 DEF PanelTyped
  <2>a. PICK less \in SUBSET Tokens : less = call[c].todo \ {t}
    BY <1>3 DEF Requests
  <2>b. call'[c] = [call[c] EXCEPT !.todo = less] /\ less \subseteq call[c].todo
    BY <2>1, <2>a
  <2>2. /\ call'[c] \in Requests
        /\ call'[c].pc = "removing" /\ call'[c].todo \subseteq call[c].todo
        /\ call'[c].refs = call[c].refs /\ call'[c].ids = call[c].ids
        /\ call'[c].kind = call[c].kind /\ call'[c].token = call[c].token
    BY <1>2, <1>3, <2>b DEF Requests
  <2>3. PanelTyped'
    BY <1>2, <1>3, <1>4, <2>1, <2>2 DEF PanelTyped, HeldMoves
  <2>. QED  BY <1>2, <2>2, <2>3, SamePanelCall
<1>. QED  BY <1>5, <1>6

\* The deployments, pulls and marks around the calls move none of them.
LEMMA OthersTyped ==
  ASSUME PanelTyped, HeldMoves,
         \/ Panel!Pull \/ Panel!Deploy \/ Panel!Retire \/ Panel!Mark \/ Panel!Unmark \/ Panel!Record
  PROVE  PanelTyped' /\ call' = call
<1>1. CASE Panel!Pull
  BY <1>1 DEF PanelTyped, HeldMoves, Panel!Pull
<1>2. CASE Panel!Deploy
  <2>1. PICK r \in Ref : /\ tags[r] # None /\ image' = r
                         /\ containers' = containers \cup {[ref |-> r, id |-> tags[r]]}
    BY <1>2 DEF Panel!Deploy, Panel!Named
  <2>2. [ref |-> r, id |-> tags[r]] \in [ref: Ref, id: Id]
    BY <2>1 DEF PanelTyped
  <2>3. containers' \subseteq [ref: Ref, id: Id]
    BY <2>1, <2>2 DEF PanelTyped
  <2>. QED  BY <1>2, <2>1, <2>3 DEF PanelTyped, HeldMoves, Panel!Deploy
<1>3. CASE Panel!Retire
  BY <1>3 DEF PanelTyped, HeldMoves, Panel!Retire
<1>4. CASE Panel!Mark
  BY <1>4 DEF PanelTyped, HeldMoves, Panel!Mark
<1>5. CASE Panel!Unmark
  BY <1>5 DEF PanelTyped, HeldMoves, Panel!Unmark
<1>6. CASE Panel!Record
  BY <1>6 DEF PanelTyped, HeldMoves, Panel!Record
<1>. QED  BY <1>1, <1>2, <1>3, <1>4, <1>5, <1>6

LEMMA PanelStep ==
  ASSUME Panel!ImagesAssumption, PanelInv, [Panel!Next]_(Panel!vars)
  PROVE  PanelInv'
<1>1. CASE UNCHANGED Panel!vars
  BY <1>1 DEF PanelInv, PanelTyped, HeldSpared, ById, Panel!vars
<1>2. CASE Panel!Next
  <2>1. HeldMoves /\ PanelTyped
    BY <1>2 DEF Panel!Next, HeldMoves, PanelInv
  <2>2. (PanelTyped /\ \A c \in Call : SparedFor(c))' => PanelInv'
    BY DEF PanelInv, HeldSpared, SparedFor
  <2>3. ASSUME \/ Panel!Pull \/ Panel!Deploy \/ Panel!Retire
               \/ Panel!Mark \/ Panel!Unmark \/ Panel!Record
        PROVE  PanelInv'
    <3>1. PanelTyped' /\ call' = call
      BY <2>1, <2>3, OthersTyped
    <3>2. \A c \in Call : SparedFor(c)'
      BY <2>1, <3>1, SamePanelCall
    <3>. QED  BY <2>2, <3>1, <3>2
  <2>4. ASSUME NEW c \in Call,
               \/ Panel!Begin(c) \/ Panel!ListForPrune(c) \/ Panel!ListForDelete(c)
               \/ Panel!ListForPeer(c) \/ Panel!Remove(c)
        PROVE  PanelInv'
    <3>1. PanelTyped' /\ SparedFor(c)'
      <4>1. CASE Panel!Begin(c)
        BY <2>1, <4>1, BeginSpares DEF Panel!Begin, Tokens
      <4>. QED  BY <2>1, <2>4, <4>1, PruneSpares, DeleteSpares, RemoveSpares
    <3>2. \A d \in Call \ {c} : call'[d] = call[d]
      BY <2>1, <2>4
      DEF PanelTyped, Panel!Begin, Panel!protectedSets, Panel!ListForPrune, Panel!ListForDelete,
          Panel!ListForPeer, Panel!Goes, Panel!Remove
    <3>3. \A d \in Call \ {c} : SparedFor(d)'
      BY <2>1, <3>1, <3>2, SamePanelCall
    <3>. QED  BY <2>2, <3>1, <3>3
  <2>. QED  BY <1>2, <2>3, <2>4 DEF Panel!Next, Panel!Step
<1>. QED  BY <1>1, <1>2

LEMMA PanelInit ==
  ASSUME Panel!Init
  PROVE  PanelInv
<1>1. /\ call = [c \in Call |-> Panel!Idle]
      /\ held = [c \in Call |-> Panel!Protected]
  BY DEF Panel!Init
<1>2. Panel!Idle \in Requests /\ Panel!Idle.pc = "idle"
  BY DEF Panel!Idle, Requests, Tokens
<1>3. PanelTyped
  BY <1>1, <1>2 DEF Panel!Init, PanelTyped
<1>. QED  BY <1>1, <1>2, <1>3 DEF PanelInv, HeldSpared

\* Only a removal of the call's own takes a name off disk, and it takes none
\* that HeldSpared keeps.
LEMMA PanelTakes ==
  ASSUME Panel!ImagesAssumption, PanelInv, Panel!Next
  PROVE  Panel!ProtectedKeptStep
<1>. SUFFICES ASSUME NEW c \in Call, NEW r \in Ref, Panel!Takes(c, r), <<r, tags[r]>> \in held[c],
                     ~ById(c)
              PROVE  FALSE
  BY DEF Panel!ProtectedKeptStep, ById
<1>1. PanelTyped /\ HeldMoves
  BY DEF PanelInv, Panel!Next, HeldMoves
<1>2. call'[c] # call[c] /\ tags[r] \in Id /\ tags'[r] = None
  BY <1>1 DEF Panel!Takes, PanelTyped
<1>3. Panel!Remove(c)
  <2>1. PICK d \in Call : \/ Panel!Begin(d) \/ Panel!ListForPrune(d) \/ Panel!ListForDelete(d)
                          \/ Panel!ListForPeer(d) \/ Panel!Remove(d)
    BY <1>1, <1>2, OthersTyped DEF Panel!Next, Panel!Step
  <2>2. tags' # tags
    BY <1>2 DEF Panel!ImagesAssumption
  <2>3. Panel!Remove(d)
    BY <2>1, <2>2
    DEF Panel!Begin, Panel!protectedSets, Panel!ListForPrune, Panel!ListForDelete,
        Panel!ListForPeer, Panel!Goes
  <2>4. d = c
    BY <1>1, <1>2, <2>3 DEF Panel!Remove, PanelTyped
  <2>. QED  BY <2>3, <2>4
<1>4. PICK t \in call[c].todo : Panel!removeImage(t) /\ call[c].pc = "removing"
  BY <1>3 DEF Panel!Remove
<1>5. r = t \/ tags[r] = t
  BY <1>1, <1>2, <1>4 DEF Panel!removeImage, Panel!ImagesAssumption, PanelTyped
<1>6. r \notin call[c].todo /\ tags[r] \notin call[c].todo
  BY <1>2, <1>4 DEF PanelInv, HeldSpared
<1>. QED  BY <1>4, <1>5, <1>6

\* No call of the Images panel takes a name off an image that a container, the
\* service's record or a stable mark has protected under that name ever since
\* the call began, however many calls, pulls, deployments and marks run between
\* its reading, its listing and its removals (protectedSets, imagesToPrune,
\* handleImageDelete, handlePeerImageDelete).
THEOREM ProtectedStays ==
  ASSUME Panel!ImagesAssumption
  PROVE  Panel!Spec => Panel!ProtectedKept
<1>1. Panel!Init => PanelInv
  BY PanelInit
<1>2. PanelInv /\ [Panel!Next]_(Panel!vars) => PanelInv'
  BY PanelStep
<1>3. PanelInv /\ [Panel!Next]_(Panel!vars) => [Panel!ProtectedKeptStep]_(Panel!vars)
  BY PanelTakes
<1>. QED  BY <1>1, <1>2, <1>3, PTL DEF Panel!Spec, Panel!ProtectedKept

-----------------------------------------------------------------------------
(* Members of a service on a peer host                                     *)

CONSTANTS MaxReplicas, MaxCalls, MaxFaults
VARIABLES here, routes, trip, calls, faults, most, shrunk

Far == INSTANCE Spread WITH call <- trip

LEMMA SameSize == ASSUME NEW S PROVE Far!Cardinality(S) = Cardinality(S)
BY DEF Far!Cardinality, Cardinality

Boxes == [name: Nat, spread: BOOLEAN, up: BOOLEAN]

Trips == [pc: {"idle", "sent", "ok", "route", "write", "seed", "seedstart", "scale", "create",
               "start", "remove", "dupcreate", "dupstart"},
          op: {"none", "spread", "duplicate"}, n: Nat, label: BOOLEAN,
          todo: Seq(Nat \ {0}), read: Nat, told: {"none", "done", "unknown", "rejected"}]

\* The calls that hold names they drew, and the duplicate that got its name.
Creating(r) == r.pc \in {"seed", "seedstart", "create", "start"}
Won(r) == r.op = "duplicate" /\ r.pc \in {"dupstart", "ok", "route", "write"}

TripFits(r, m) ==
  /\ r.pc \in {"dupcreate", "dupstart", "route", "write"} => r.op = "duplicate"
  /\ Creating(r) \/ r.pc \in {"scale", "remove"} => r.op = "spread"
  /\ Creating(r) \/ r.pc = "remove" => r.todo # <<>>
  /\ r.pc # "idle" /\ r.op = "spread" => r.n \in 1 .. m

HereTyped ==
  /\ here \in SUBSET Boxes /\ IsFiniteSet(here)
  /\ \E b \in Nat : \A k \in here : k.name <= b

FarTyped ==
  /\ HereTyped
  /\ routes \in {0, 1} /\ most \in Nat /\ shrunk \in BOOLEAN
  /\ trip \in [Call -> Trips]
  /\ \A c \in Call : TripFits(trip[c], most)

\* At most one duplicate ever gets the name, and it alone writes a route.
OneDuplicate ==
  /\ \A c, d \in Call : Won(trip[c]) /\ Won(trip[d]) => c = d
  /\ \A c \in Call : Won(trip[c]) => 0 \in Far!Names /\ routes = 0
  /\ routes = 1 => 0 \in Far!Names
  /\ \A c \in Call : trip[c].pc = "write" => trip[c].read = 0

\* The names a call has drawn go on from the highest one in use, without a gap:
\* those that have been overtaken are taken, and there is room for the others
\* under the largest count asked for.
Drawn(r, top) ==
  /\ r.todo[1] <= top + 1
  /\ r.pc \in {"seedstart", "start"} => r.todo[1] \in Far!Names
  /\ \A i \in DOMAIN r.todo :
       /\ r.todo[i] = r.todo[1] + i - 1
       /\ r.todo[i] <= top => r.todo[i] \in Far!Names
       /\ Cardinality(Far!Ours) + r.todo[i] - top <= most

Highest(top) ==
  /\ \A k \in here : k.name <= top
  /\ top # 0 => top \in Far!Names

Stacked(top) ==
  /\ Highest(top)
  /\ Cardinality(Far!Ours) <= most
  /\ \A c \in Call : Creating(trip[c]) => Drawn(trip[c], top)

NamesHeld == ~ shrunk => \E top \in Nat : Stacked(top)

FarInv == FarTyped /\ OneDuplicate /\ NamesHeld

\* Finitely many names have a highest.
LEMMA HighestOf ==
  ASSUME NEW S \in SUBSET Boxes, NEW b \in Nat, \A k \in S : k.name <= b
  PROVE  \E top \in Nat : /\ \A k \in S : k.name <= top
                          /\ top # 0 => top \in {k.name : k \in S}
<1>. DEFINE above == {u \in Nat : \A k \in S : k.name <= u}
            less == OpToRel(<, Nat)
<1>1. above # {} /\ above \subseteq Nat
  OBVIOUS
<1>2. PICK m \in above : \A y \in above : ~ (<<y, m>> \in less)
  BY <1>1, WFMin, NatLessThanWellFounded
<1>3. \A y \in above : ~ (y < m)
  BY <1>2 DEF OpToRel
<1>4. \A k \in S : k.name \in Nat /\ k.name <= m
  BY <1>2 DEF Boxes
<1>5. m # 0 => m \in {k.name : k \in S}
  <2>. SUFFICES ASSUME m # 0, m \notin {k.name : k \in S} PROVE FALSE
    OBVIOUS
  <2>0. m \in Nat
    BY <1>2
  <2>1. m - 1 \in Nat /\ m - 1 < m
    BY <2>0
  <2>2. \A k \in S : k.name <= m - 1
    BY <1>4, <2>0, <2>1
  <2>. QED  BY <1>3, <2>1, <2>2
<1>. QED  BY <1>2, <1>4, <1>5

LEMMA HighestExists ==
  ASSUME HereTyped
  PROVE  \E top \in Nat : Highest(top)
BY HighestOf DEF HereTyped, Highest, Far!Names

\* nextReplicaIndex is the highest name and one.
LEMMA NextIndexIs ==
  ASSUME HereTyped, NEW top \in Nat, Highest(top)
  PROVE  Far!NextIndex = top + 1
<1>1. \A n \in Far!Names : n \in Nat /\ n <= top
  BY DEF HereTyped, Boxes, Highest, Far!Names
<1>2. CASE Far!Names \subseteq {0}
  BY <1>1, <1>2 DEF Highest, Far!NextIndex
<1>3. CASE ~ (Far!Names \subseteq {0})
  <2>1. top # 0 /\ top \in Far!Names
    BY <1>1, <1>3 DEF Highest
  <2>2. \A x \in Far!Names : (\A y \in Far!Names : x >= y) <=> x = top
    BY <1>1, <2>1
  <2>3. Far!Max(Far!Names) = top
    BY <2>1, <2>2 DEF Far!Max
  <2>. QED  BY <1>3, <2>3 DEF Far!NextIndex
<1>. QED  BY <1>2, <1>3

LEMMA TailLeft ==
  ASSUME NEW s \in Seq(Nat \ {0}), s # <<>>, Len(s) # 1
  PROVE  Tail(s) # <<>>
<1>1. Len(s) \in Nat /\ Len(s) >= 1 /\ Len(Tail(s)) = Len(s) - 1
  OBVIOUS
<1>2. Len(Tail(s)) # 0
  BY <1>1
<1>3. Len(<<>>) = 0
  OBVIOUS
<1>. QED  BY <1>2, <1>3

LEMMA OursFinite ==
  ASSUME HereTyped
  PROVE  IsFiniteSet(Far!Ours) /\ Cardinality(Far!Ours) \in Nat
         /\ Cardinality(here) \in Nat /\ Cardinality(Far!Ours) <= Cardinality(here)
<1>1. Far!Ours \in SUBSET here
  BY DEF Far!Ours
<1>. QED  BY <1>1, FS_Subset, FS_CardinalityType DEF HereTyped

\* What a call may become while names and counts are left alone.
Moves(r, new) ==
  /\ TripFits(new, most')
  /\ Won(new) => Won(r)
  /\ new.pc = "write" => new.read = 0
  /\ ~ shrunk /\ Creating(new) => \A top \in Nat : Stacked(top) => Drawn(new, top)

\* A step that gives no container a new name and adds none.
LEMMA SameNamesKeep ==
  ASSUME FarInv, HereTyped', trip' \in [Call -> Trips], Far!Names' = Far!Names,
         Cardinality(Far!Ours') <= Cardinality(Far!Ours),
         UNCHANGED <<routes, shrunk>>, most' \in Nat, most <= most',
         \A c \in Call : trip'[c] = trip[c] \/ Moves(trip[c], trip'[c])
  PROVE  FarInv'
<1>1. most \in Nat /\ HereTyped /\ trip \in [Call -> Trips]
  BY DEF FarInv, FarTyped
<1>2. \A c \in Call : TripFits(trip'[c], most')
  <2>1. \A r : TripFits(r, most) => TripFits(r, most')
    BY <1>1 DEF TripFits
  <2>. QED  BY <2>1 DEF FarInv, FarTyped, Moves
<1>3. FarTyped'
  BY <1>1, <1>2 DEF FarInv, FarTyped
<1>4. OneDuplicate'
  <2>1. \A c \in Call : Won(trip'[c]) => Won(trip[c])
    BY DEF Moves
  <2>2. \A c \in Call : trip'[c].pc = "write" => trip'[c].read = 0
    BY DEF Moves, FarInv, OneDuplicate
  <2>. QED  BY <2>1, <2>2 DEF FarInv, OneDuplicate
<1>5. NamesHeld'
  <2>. SUFFICES ASSUME ~ shrunk PROVE \E top \in Nat : Stacked(top)'
    BY DEF NamesHeld
  <2>1. PICK top \in Nat : Stacked(top)
    BY DEF FarInv, NamesHeld
  <2>2. Highest(top)'
    <3>1. \A k \in here' : k.name \in Far!Names'
      BY DEF Far!Names
    <3>2. \A n \in Far!Names : n <= top
      BY <2>1 DEF Stacked, Highest, Far!Names
    <3>. QED  BY <2>1, <3>1, <3>2 DEF Stacked, Highest
  <2>3. /\ Cardinality(Far!Ours) \in Nat /\ Cardinality(Far!Ours') \in Nat
        /\ Cardinality(Far!Ours) <= most
    <3>1. Far!Ours' \in SUBSET here' /\ IsFiniteSet(here')
      BY DEF HereTyped, Far!Ours
    <3>2. IsFiniteSet(Far!Ours')
      BY <3>1, FS_Subset
    <3>3. Cardinality(Far!Ours') \in Nat
      BY <3>2, FS_CardinalityType
    <3>. QED  BY <1>1, <2>1, <3>3, OursFinite DEF Stacked
  <2>4. ASSUME NEW c \in Call, Creating(trip'[c]) PROVE Drawn(trip[c], top)'
    <3>1. Drawn(trip'[c], top)
      BY <2>1, <2>4 DEF Moves, Stacked
    <3>2. trip'[c].todo \in Seq(Nat \ {0})
      BY DEF Trips
    <3>3. \A i \in DOMAIN trip'[c].todo : trip'[c].todo[i] \in Nat
      BY <3>2
    <3>. QED  BY <1>1, <2>3, <3>1, <3>3 DEF Drawn
  <2>. QED  BY <1>1, <2>2, <2>3, <2>4 DEF Stacked
<1>. QED  BY <1>3, <1>4, <1>5 DEF FarInv

\* A call ends.
LEMMA EndKeeps ==
  ASSUME FarInv, NEW c \in Call, NEW told \in {"none", "done", "unknown", "rejected"},
         Far!End(c, told), UNCHANGED <<here, routes, most, shrunk>>
  PROVE  FarInv'
<1>1. FarTyped /\ HereTyped
  BY DEF FarInv, FarTyped
<1>2. trip' = [trip EXCEPT ![c] = [Far!Idle EXCEPT !.told = told]]
  BY DEF Far!End
<1>3. /\ [Far!Idle EXCEPT !.told = told] \in Trips
      /\ [Far!Idle EXCEPT !.told = told].pc = "idle"
  <2>1. <<>> \in Seq(Nat \ {0})
    OBVIOUS
  <2>2. Far!Idle \in Trips /\ Far!Idle.pc = "idle"
    BY <2>1 DEF Far!Idle, Trips
  <2>. QED  BY <2>2 DEF Trips
<1>4. Moves(trip[c], trip'[c])
  BY <1>1, <1>2, <1>3 DEF FarTyped, Moves, TripFits, Creating, Won
<1>5. /\ trip' \in [Call -> Trips]
      /\ \A d \in Call : trip'[d] = trip[d] \/ Moves(trip[d], trip'[d])
  BY <1>1, <1>2, <1>3, <1>4 DEF FarTyped
<1>6. HereTyped' /\ Far!Names' = Far!Names /\ Far!Ours' = Far!Ours
  BY <1>1 DEF HereTyped, Far!Names, Far!Ours
<1>. QED  BY <1>1, <1>5, <1>6, OursFinite, SameNamesKeep DEF FarTyped

\* A call goes on, with nothing done to a container.
LEMMA MoveKeeps ==
  ASSUME FarInv, NEW c \in Call, NEW new \in Trips, trip' = [trip EXCEPT ![c] = new],
         UNCHANGED <<here, routes, shrunk>>, most' \in Nat, most <= most', Moves(trip[c], new)
  PROVE  FarInv'
<1>1. FarTyped /\ HereTyped
  BY DEF FarInv, FarTyped
<1>2. /\ trip' \in [Call -> Trips]
      /\ \A d \in Call : trip'[d] = trip[d] \/ Moves(trip[d], trip'[d])
  BY <1>1 DEF FarTyped
<1>3. HereTyped' /\ Far!Names' = Far!Names /\ Far!Ours' = Far!Ours
  BY <1>1 DEF HereTyped, Far!Names, Far!Ours
<1>. QED  BY <1>1, <1>2, <1>3, OursFinite, SameNamesKeep

\* A start changes no name, and neither does an exit.
LEMMA StartKeeps ==
  ASSUME FarInv, NEW c \in Call, NEW name, NEW rest \in Trips, Far!Start(c, name, rest),
         Moves(trip[c], rest), UNCHANGED <<routes, most, shrunk>>
  PROVE  FarInv'
<1>1. FarTyped /\ HereTyped
  BY DEF FarInv, FarTyped
<1>2. CASE Far!End(c, "unknown") /\ UNCHANGED here
  BY <1>2, EndKeeps
<1>3. CASE /\ here' = {IF k.name = name THEN [k EXCEPT !.up = TRUE] ELSE k : k \in here}
           /\ trip' = [trip EXCEPT ![c] = rest]
  <2>. DEFINE on(k) == IF k.name = name THEN [k EXCEPT !.up = TRUE] ELSE k
              f == [k \in here |-> on(k)]
              g == [k \in Far!Ours |-> on(k)]
  <2>1. \A k \in here : on(k) \in Boxes /\ on(k).name = k.name
    BY <1>1 DEF HereTyped, Boxes
  <2>2. here' = {on(k) : k \in here}
    BY <1>3
  <2>. HIDE DEF on
  <2>3. f \in Surjection(here, here')
    BY <2>2 DEF Surjection
  <2>4. Far!Ours' = {on(k) : k \in Far!Ours}
    BY <2>1, <2>2 DEF Far!Ours
  <2>5. g \in Surjection(Far!Ours, Far!Ours')
    BY <2>4 DEF Surjection
  <2>6. IsFiniteSet(here') /\ Cardinality(Far!Ours') <= Cardinality(Far!Ours)
    BY <1>1, <2>3, <2>5, FS_Surjection, OursFinite DEF HereTyped
  <2>7. Far!Names' = Far!Names
    BY <2>1, <2>2 DEF Far!Names
  <2>8. HereTyped'
    BY <1>1, <2>1, <2>2, <2>6 DEF HereTyped
  <2>9. /\ trip' \in [Call -> Trips]
        /\ \A d \in Call : trip'[d] = trip[d] \/ Moves(trip[d], trip'[d])
    BY <1>1, <1>3 DEF FarTyped
  <2>. QED  BY <1>1, <2>6, <2>7, <2>8, <2>9, SameNamesKeep DEF FarTyped
<1>. QED  BY <1>2, <1>3 DEF Far!Start

LEMMA ExitKeeps ==
  ASSUME FarInv, NEW k \in here, Far!Exit(k)
  PROVE  FarInv'
<1>1. FarTyped /\ HereTyped /\ k \in Boxes
  BY DEF FarInv, FarTyped, HereTyped
<1>. DEFINE off == [k EXCEPT !.up = FALSE]
<1>2. off \in Boxes /\ off.name = k.name
  BY <1>1 DEF Boxes
<1>3. here' = (here \ {k}) \cup {off} /\ UNCHANGED <<routes, trip, most, shrunk>>
  BY DEF Far!Exit
<1>. HIDE DEF off
<1>4. Far!Names' = Far!Names
  BY <1>2, <1>3 DEF Far!Names
<1>5. IsFiniteSet(here')
  BY <1>1, <1>3, FS_RemoveElement, FS_AddElement DEF HereTyped
<1>6. HereTyped'
  BY <1>1, <1>2, <1>3, <1>5 DEF HereTyped
<1>7. Cardinality(Far!Ours') <= Cardinality(Far!Ours)
  <2>1. CASE k.name > 0
    <3>1. Far!Ours' = (Far!Ours \ {k}) \cup {off} /\ k \in Far!Ours
      BY <1>2, <1>3, <2>1 DEF Far!Ours
    <3>2. IsFiniteSet(Far!Ours) /\ Cardinality(Far!Ours) \in Nat
      BY <1>1, OursFinite
    <3>3. /\ IsFiniteSet(Far!Ours \ {k})
          /\ Cardinality(Far!Ours \ {k}) = Cardinality(Far!Ours) - 1
      BY <3>1, <3>2, FS_RemoveElement
    <3>4. \/ Cardinality(Far!Ours') = Cardinality(Far!Ours \ {k}) + 1
          \/ Cardinality(Far!Ours') = Cardinality(Far!Ours \ {k})
      BY <3>1, <3>3, FS_AddElement
    <3>. QED  BY <3>2, <3>3, <3>4
  <2>2. CASE ~ (k.name > 0)
    <3>1. Far!Ours' = Far!Ours
      BY <1>2, <1>3, <2>2 DEF Far!Ours
    <3>. QED  BY <1>1, <3>1, OursFinite
  <2>. QED  BY <2>1, <2>2
<1>. QED  BY <1>1, <1>3, <1>4, <1>6, <1>7, SameNamesKeep DEF FarTyped

\* The next name a call drew is free only if nobody went past it: it is the one
\* after the highest, and with it the others' names still go on from there.
LEMMA CreateKeeps ==
  ASSUME FarInv, NEW c \in Call, NEW label \in BOOLEAN, NEW next \in {"seedstart", "start"},
         trip[c].pc \in {"seed", "create"}, Far!Create(c, Head(trip[c].todo), label, next),
         UNCHANGED <<routes, most, shrunk>>
  PROVE  FarInv'
<1>1. FarTyped /\ HereTyped /\ trip[c] \in Trips /\ most \in Nat
  BY DEF FarInv, FarTyped
<1>2. /\ trip[c].todo \in Seq(Nat \ {0}) /\ trip[c].todo # <<>> /\ trip[c].op = "spread"
      /\ TripFits(trip[c], most)
  BY <1>1 DEF Trips, FarTyped, TripFits, Creating
<1>3. PICK name \in Nat \ {0} : /\ name = Head(trip[c].todo) /\ name = trip[c].todo[1]
                                /\ 1 \in DOMAIN trip[c].todo
  BY <1>2
<1>. DEFINE box == Far!Container(name, label)
            new == [trip[c] EXCEPT !.pc = next]
<1>4. CASE name \in Far!Names
  BY <1>3, <1>4, EndKeeps DEF Far!Create
<1>5. CASE name \notin Far!Names
  <2>1. /\ trip' = [trip EXCEPT ![c].pc = next]
        /\ here' = here \cup {box}
    BY <1>3, <1>5 DEF Far!Create, Far!Step
  <2>2. box \in Boxes /\ box.name = name
    BY <1>3 DEF Far!Container, Boxes
  <2>. HIDE DEF box
  <2>3. Far!Names' = Far!Names \cup {name}
    BY <2>1, <2>2 DEF Far!Names
  <2>4. Far!Ours' = Far!Ours \cup {box} /\ box \notin Far!Ours
    <3>1. box \notin here
      BY <1>5, <2>2 DEF Far!Names
    <3>. QED  BY <1>3, <2>1, <2>2, <3>1 DEF Far!Ours
  <2>5. Cardinality(Far!Ours') = Cardinality(Far!Ours) + 1 /\ Cardinality(Far!Ours) \in Nat
    BY <1>1, <2>4, OursFinite, FS_AddElement
  <2>6. HereTyped'
    <3>1. IsFiniteSet(here') /\ here' \in SUBSET Boxes
      BY <1>1, <2>1, <2>2, FS_AddElement DEF HereTyped
    <3>2. PICK b \in Nat : \A k \in here : k.name <= b
      BY <1>1 DEF HereTyped
    <3>3. \A k \in here' : k.name <= b + name
      BY <1>1, <1>3, <2>1, <2>2, <3>2 DEF HereTyped, Boxes
    <3>. QED  BY <1>3, <3>1, <3>2, <3>3 DEF HereTyped
  <2>7. /\ new \in Trips /\ new.pc = next
        /\ new.op = "spread" /\ new.todo = trip[c].todo /\ new.n = trip[c].n
    BY <1>1, <1>2 DEF Trips
  <2>8. trip' = [trip EXCEPT ![c] = new] /\ trip'[c] = new
    BY <1>1, <2>1 DEF FarTyped
  <2>. HIDE DEF new
  <2>9. FarTyped'
    <3>1. TripFits(new, most)
      BY <1>2, <2>7 DEF TripFits, Creating
    <3>. QED  BY <1>1, <2>6, <2>7, <2>8, <3>1 DEF FarTyped
  <2>10. OneDuplicate'
    <3>1. ~ Won(trip[c]) /\ ~ Won(trip'[c]) /\ trip'[c].pc # "write"
      BY <1>2, <2>7, <2>8 DEF Won
    <3>2. \A d \in Call \ {c} : trip'[d] = trip[d]
      BY <1>1, <2>8 DEF FarTyped
    <3>. QED  BY <2>3, <3>1, <3>2 DEF FarInv, OneDuplicate
  <2>11. ASSUME ~ shrunk PROVE \E top \in Nat : Stacked(top)'
    <3>1. PICK top \in Nat : Stacked(top)
      BY <2>11 DEF FarInv, NamesHeld
    <3>2. Drawn(trip[c], top)
      BY <3>1 DEF Stacked, Creating
    <3>3. name = top + 1 /\ Cardinality(Far!Ours) + name - top <= most
      BY <1>3, <1>5, <3>2 DEF Drawn
    <3>4. Highest(name)'
      BY <1>1, <1>3, <2>1, <2>2, <2>3, <3>1, <3>3 DEF Stacked, Highest, HereTyped, Boxes
    <3>5. Cardinality(Far!Ours') <= most
      BY <1>1, <2>5, <3>3
    <3>6. ASSUME NEW r \in Trips, Drawn(r, top), r.todo # <<>>
          PROVE  /\ r.todo[1] <= name + 1
                 /\ \A i \in DOMAIN r.todo :
                      /\ r.todo[i] = r.todo[1] + i - 1
                      /\ r.todo[i] <= name => r.todo[i] \in Far!Names'
                      /\ Cardinality(Far!Ours') + r.todo[i] - name <= most
      <4>1. r.todo \in Seq(Nat \ {0})
        BY DEF Trips
      <4>2. \A i \in DOMAIN r.todo : r.todo[i] \in Nat
        BY <4>1
      <4>3. r.todo[1] \in Nat
        BY <3>6, <4>1
      <4>4. r.todo[1] <= top + 1 /\ top + 1 <= name + 1
        BY <3>3, <3>6 DEF Drawn
      <4>5. ASSUME NEW i \in DOMAIN r.todo
            PROVE  /\ r.todo[i] = r.todo[1] + i - 1
                   /\ r.todo[i] <= name => r.todo[i] \in Far!Names'
                   /\ Cardinality(Far!Ours') + r.todo[i] - name <= most
        <5>1. /\ r.todo[i] = r.todo[1] + i - 1 /\ r.todo[i] \in Nat
              /\ r.todo[i] <= top => r.todo[i] \in Far!Names
              /\ Cardinality(Far!Ours) + r.todo[i] - top <= most
          BY <3>6, <4>2, <4>5 DEF Drawn
        <5>2. r.todo[i] <= name => r.todo[i] <= top \/ r.todo[i] = name
          BY <3>3, <5>1
        <5>3. Cardinality(Far!Ours') + r.todo[i] - name <= most
          BY <1>1, <2>5, <3>3, <5>1
        <5>. QED  BY <2>3, <5>1, <5>2, <5>3
      <4>. QED  BY <3>3, <4>3, <4>4, <4>5
    <3>7. ASSUME NEW d \in Call, Creating(trip'[d]) PROVE Drawn(trip[d], name)'
      <4>1. CASE d = c
        <5>1. trip'[d].todo = trip[c].todo
          BY <2>7, <2>8, <4>1
        <5>. QED  BY <1>1, <1>2, <1>3, <2>3, <3>2, <3>6, <5>1 DEF Drawn
      <4>2. CASE d # c
        <5>1. trip'[d] = trip[d] /\ trip[d] \in Trips /\ Creating(trip[d])
          BY <1>1, <2>8, <3>7, <4>2 DEF FarTyped
        <5>2. trip[d].todo # <<>>
          BY <1>1, <5>1 DEF FarTyped, TripFits
        <5>3. Drawn(trip[d], top)
          BY <3>1, <5>1 DEF Stacked
        <5>4. trip[d].pc \in {"seedstart", "start"} => trip[d].todo[1] \in Far!Names'
          BY <2>3, <5>3 DEF Drawn
        <5>. QED  BY <3>6, <5>1, <5>2, <5>3, <5>4 DEF Drawn
      <4>. QED  BY <4>1, <4>2
    <3>. QED  BY <1>3, <3>4, <3>5, <3>7 DEF Stacked
  <2>. QED  BY <2>9, <2>10, <2>11 DEF FarInv, NamesHeld
<1>. QED  BY <1>4, <1>5

\* The duplicate that gets the name is the first to get it.
LEMMA DuplicateKeeps ==
  ASSUME FarInv, NEW c \in Call, Far!DuplicateCreate(c)
  PROVE  FarInv'
<1>1. FarTyped /\ HereTyped /\ trip[c] \in Trips /\ most \in Nat /\ TripFits(trip[c], most)
  BY DEF FarInv, FarTyped
<1>2. /\ trip[c].pc = "dupcreate" /\ trip[c].op = "duplicate"
      /\ Far!Create(c, 0, FALSE, "dupstart") /\ UNCHANGED <<routes, most, shrunk>>
  BY <1>1 DEF Far!DuplicateCreate, TripFits
<1>3. CASE 0 \in Far!Names
  BY <1>2, <1>3, EndKeeps DEF Far!Create
<1>4. CASE 0 \notin Far!Names
  <2>. DEFINE box == Far!Container(0, FALSE)
              new == [trip[c] EXCEPT !.pc = "dupstart"]
  <2>1. trip' = [trip EXCEPT ![c].pc = "dupstart"] /\ here' = here \cup {box}
    BY <1>2, <1>4 DEF Far!Create, Far!Step
  <2>2. box \in Boxes /\ box.name = 0
    BY DEF Far!Container, Boxes
  <2>3. new \in Trips /\ new.pc = "dupstart" /\ new.op = "duplicate"
    BY <1>1, <1>2 DEF Trips
  <2>4. trip' = [trip EXCEPT ![c] = new] /\ trip'[c] = new
    BY <1>1, <2>1 DEF FarTyped
  <2>. HIDE DEF box, new
  <2>5. Far!Names' = Far!Names \cup {0} /\ Far!Ours' = Far!Ours
    BY <2>1, <2>2 DEF Far!Names, Far!Ours
  <2>6. HereTyped'
    <3>1. IsFiniteSet(here') /\ here' \in SUBSET Boxes
      BY <1>1, <2>1, <2>2, FS_AddElement DEF HereTyped
    <3>. QED  BY <1>1, <2>1, <2>2, <3>1 DEF HereTyped
  <2>7. TripFits(new, most)
    BY <2>3 DEF TripFits, Creating
  <2>8. FarTyped'
    BY <1>1, <1>2, <2>3, <2>4, <2>6, <2>7 DEF FarTyped
  <2>9. \A d \in Call \ {c} : trip'[d] = trip[d]
    BY <1>1, <2>4 DEF FarTyped
  <2>10. routes = 0 /\ \A d \in Call : ~ Won(trip[d])
    BY <1>1, <1>4 DEF FarInv, OneDuplicate, FarTyped
  <2>11. OneDuplicate'
    BY <1>2, <2>3, <2>4, <2>5, <2>9, <2>10 DEF FarInv, OneDuplicate
  <2>12. ASSUME NEW top \in Nat, Stacked(top) PROVE Stacked(top)'
    <3>1. Highest(top)'
      BY <2>1, <2>2, <2>5, <2>12 DEF Stacked, Highest
    <3>2. ~ Creating(trip'[c])
      BY <2>3, <2>4 DEF Creating
    <3>3. ASSUME NEW d \in Call, Creating(trip'[d]) PROVE Drawn(trip[d], top)'
      BY <1>2, <2>5, <2>9, <2>12, <3>2, <3>3 DEF Stacked, Drawn
    <3>. QED  BY <1>2, <2>5, <2>12, <3>1, <3>3 DEF Stacked
  <2>. QED  BY <1>2, <2>8, <2>11, <2>12 DEF FarInv, NamesHeld
<1>. QED  BY <1>3, <1>4

\* A removal takes no duplicate, and while others are about it is on record.
LEMMA RemoveKeeps ==
  ASSUME FarInv, NEW c \in Call, Far!ScaleRemove(c)
  PROVE  FarInv'
<1>1. FarTyped /\ HereTyped /\ trip[c] \in Trips /\ most \in Nat /\ TripFits(trip[c], most)
  BY DEF FarInv, FarTyped
<1>2. /\ trip[c].pc = "remove" /\ UNCHANGED <<routes, most>>
      /\ shrunk' = (shrunk \/ \E d \in Call \ {c} : Far!Busy(d))
      /\ trip' = [trip EXCEPT ![c] = Far!Rest(c, "remove")]
      /\ here' = {k \in here : k.name # Head(trip[c].todo)}
  BY DEF Far!ScaleRemove
<1>3. trip[c].todo \in Seq(Nat \ {0}) /\ trip[c].todo # <<>> /\ trip[c].op = "spread"
  BY <1>1, <1>2 DEF Trips, TripFits
<1>4. Head(trip[c].todo) # 0 /\ Tail(trip[c].todo) \in Seq(Nat \ {0})
  BY <1>3
<1>5. /\ Far!Rest(c, "remove") \in Trips /\ Far!Rest(c, "remove").pc \in {"ok", "remove"}
      /\ Far!Rest(c, "remove").op = "spread"
      /\ Far!Rest(c, "remove").n = trip[c].n
      /\ Far!Rest(c, "remove").pc = "remove" => Far!Rest(c, "remove").todo # <<>>
  <2>1. Len(trip[c].todo) # 1 => Tail(trip[c].todo) # <<>>
    BY <1>3, TailLeft
  <2>. QED  BY <1>1, <1>3, <1>4, <2>1 DEF Trips, Far!Rest
<1>6. TripFits(Far!Rest(c, "remove"), most)
  BY <1>1, <1>2, <1>3, <1>5 DEF TripFits, Creating
<1>7. HereTyped'
  <2>1. here' \in SUBSET here
    BY <1>2
  <2>. QED  BY <1>1, <2>1, FS_Subset DEF HereTyped
<1>8. shrunk' \in BOOLEAN
  BY <1>2
<1>9. FarTyped'
  BY <1>1, <1>2, <1>5, <1>6, <1>7, <1>8 DEF FarTyped
<1>10. /\ \A d \in Call \ {c} : trip'[d] = trip[d]
       /\ trip'[c] = Far!Rest(c, "remove")
  BY <1>1, <1>2 DEF FarTyped
<1>11. OneDuplicate'
  <2>1. 0 \in Far!Names => 0 \in Far!Names'
    BY <1>2, <1>4 DEF Far!Names
  <2>2. ~ Won(trip'[c]) /\ trip'[c].pc # "write"
    BY <1>5, <1>10 DEF Won
  <2>. QED  BY <1>2, <1>10, <2>1, <2>2 DEF FarInv, OneDuplicate
<1>12. ASSUME ~ shrunk' PROVE \E top \in Nat : Stacked(top)'
  <2>1. ~ shrunk /\ \A d \in Call \ {c} : trip[d].pc = "idle"
    BY <1>2, <1>12 DEF Far!Busy
  <2>2. \A d \in Call : ~ Creating(trip'[d])
    BY <1>5, <1>10, <2>1 DEF Creating
  <2>3. PICK top \in Nat : Highest(top)'
    <3>1. PICK b \in Nat : here' \in SUBSET Boxes /\ \A k \in here' : k.name <= b
      BY <1>7 DEF HereTyped
    <3>. QED  BY <3>1, HighestOf DEF Highest, Far!Names
  <2>4. Cardinality(Far!Ours') <= most
    <3>1. Far!Ours' \in SUBSET Far!Ours
      BY <1>2 DEF Far!Ours
    <3>2. /\ Cardinality(Far!Ours') <= Cardinality(Far!Ours) /\ Cardinality(Far!Ours) \in Nat
          /\ IsFiniteSet(Far!Ours')
      BY <1>1, <3>1, OursFinite, FS_Subset
    <3>3. Cardinality(Far!Ours') \in Nat
      BY <3>2, FS_CardinalityType
    <3>4. Cardinality(Far!Ours) <= most
      BY <2>1 DEF FarInv, NamesHeld, Stacked
    <3>. QED  BY <1>1, <3>2, <3>3, <3>4
  <2>. QED  BY <1>2, <2>2, <2>3, <2>4 DEF Stacked
<1>. QED  BY <1>9, <1>11, <1>12 DEF FarInv, NamesHeld

LEMMA WriteKeeps ==
  ASSUME FarInv, NEW c \in Call, Far!WriteRoutes(c)
  PROVE  FarInv'
<1>1. FarTyped /\ trip[c] \in Trips /\ TripFits(trip[c], most)
  BY DEF FarInv, FarTyped
<1>2. /\ trip[c].pc = "write" /\ routes' = trip[c].read + 1
      /\ Far!End(c, "done") /\ UNCHANGED <<here, most, shrunk>>
  BY DEF Far!WriteRoutes
<1>3. Won(trip[c]) /\ trip[c].read = 0
  BY <1>1, <1>2 DEF Won, TripFits, FarInv, OneDuplicate
<1>4. routes' = 1 /\ 0 \in Far!Names
  BY <1>2, <1>3 DEF FarInv, OneDuplicate
<1>. DEFINE new == [Far!Idle EXCEPT !.told = "done"]
<1>5. new \in Trips /\ new.pc = "idle"
  <2>1. <<>> \in Seq(Nat \ {0})
    OBVIOUS
  <2>2. Far!Idle \in Trips /\ Far!Idle.pc = "idle"
    BY <2>1 DEF Far!Idle, Trips
  <2>. QED  BY <2>2 DEF Trips
<1>6. trip' = [trip EXCEPT ![c] = new] /\ trip'[c] = new /\ \A d \in Call \ {c} : trip'[d] = trip[d]
  BY <1>1, <1>2 DEF Far!End, FarTyped
<1>. HIDE DEF new
<1>7. TripFits(new, most)
  BY <1>5 DEF TripFits, Creating
<1>8. HereTyped' /\ Far!Names' = Far!Names /\ Far!Ours' = Far!Ours
  BY <1>1, <1>2 DEF FarTyped, HereTyped, Far!Names, Far!Ours
<1>9. FarTyped'
  BY <1>1, <1>2, <1>4, <1>5, <1>6, <1>7, <1>8 DEF FarTyped
<1>10. \A d \in Call : ~ Won(trip'[d])
  BY <1>3, <1>5, <1>6 DEF Won, FarInv, OneDuplicate
<1>11. OneDuplicate'
  BY <1>4, <1>5, <1>6, <1>8, <1>10 DEF FarInv, OneDuplicate
<1>12. ASSUME NEW top \in Nat, Stacked(top) PROVE Stacked(top)'
  <2>1. ~ Creating(trip'[c])
    BY <1>5, <1>6 DEF Creating
  <2>2. ASSUME NEW d \in Call, Creating(trip'[d]) PROVE Drawn(trip[d], top)'
    BY <1>2, <1>6, <1>8, <1>12, <2>1, <2>2 DEF Stacked, Drawn
  <2>3. Highest(top)'
    BY <1>2, <1>8, <1>12 DEF Stacked, Highest
  <2>. QED  BY <1>2, <1>8, <1>12, <2>2, <2>3 DEF Stacked
<1>. QED  BY <1>2, <1>9, <1>11, <1>12 DEF FarInv, NamesHeld

\* The names drawn for a scale-up, and those chosen for a scale-down.
LEMMA ScaleUpKeeps ==
  ASSUME FarInv, NEW c \in Call, NEW t \in here, trip[c].pc = "scale",
         Cardinality(here) < trip[c].n, Far!ScaleUp(c, t),
         UNCHANGED <<here, routes, most, shrunk>>
  PROVE  FarInv'
<1>1. /\ FarTyped /\ HereTyped /\ trip[c] \in Trips /\ most \in Nat /\ TripFits(trip[c], most)
      /\ t.spread \in BOOLEAN
  BY DEF FarInv, FarTyped, HereTyped, Boxes
<1>2. trip[c].op = "spread" /\ trip[c].n \in 1 .. most /\ trip[c].n \in Nat
  BY <1>1 DEF TripFits, Trips
<1>3. /\ Cardinality(here) \in Nat /\ Cardinality(Far!Ours) \in Nat
      /\ Cardinality(Far!Ours) <= Cardinality(here)
  BY <1>1, OursFinite
<1>4. PICK len \in Nat \ {0} : len = trip[c].n - Cardinality(here)
  BY <1>2, <1>3
<1>5. PICK high \in Nat : Highest(high)
  BY <1>1, HighestExists
<1>6. PICK todo \in Seq(Nat \ {0}) :
        /\ todo = [i \in 1 .. len |-> Far!NextIndex + i - 1] /\ DOMAIN todo = 1 .. len
        /\ todo # <<>>
  <2>1. Far!NextIndex = high + 1
    BY <1>1, <1>5, NextIndexIs
  <2>2. [i \in 1 .. len |-> high + 1 + i - 1] \in Seq(Nat \ {0})
    BY <1>4, <1>5
  <2>. QED  BY <1>4, <2>1, <2>2
<1>0. PICK new : new = [trip[c] EXCEPT !.pc = "create", !.label = t.spread, !.todo = todo]
  OBVIOUS
<1>7. trip' = [trip EXCEPT ![c] = new]
  BY <1>0, <1>1, <1>4, <1>6, SameSize DEF Far!ScaleUp, FarTyped
<1>8. /\ new \in Trips /\ new.pc = "create" /\ new.op = "spread" /\ new.n = trip[c].n
      /\ new.todo = todo
  BY <1>0, <1>1, <1>2, <1>6 DEF Trips
<1>9. TripFits(new, most)
  BY <1>2, <1>6, <1>8 DEF TripFits, Creating
<1>10. ASSUME NEW top \in Nat, Stacked(top) PROVE Drawn(new, top)
  <2>1. Far!NextIndex = top + 1
    BY <1>1, <1>10, NextIndexIs DEF Stacked
  <2>2. \A i \in 1 .. len : todo[i] = top + i
    BY <1>6, <2>1
  <2>3. todo[1] = top + 1
    BY <1>4, <2>2
  <2>4. \A i \in 1 .. len : /\ todo[i] = todo[1] + i - 1 /\ ~ (todo[i] <= top)
                            /\ Cardinality(Far!Ours) + todo[i] - top <= most
    <3>. SUFFICES ASSUME NEW i \in 1 .. len
                  PROVE  /\ todo[i] = todo[1] + i - 1 /\ ~ (todo[i] <= top)
                         /\ Cardinality(Far!Ours) + todo[i] - top <= most
      OBVIOUS
    <3>1. i \in Nat /\ 1 <= i /\ i <= len /\ todo[i] = top + i
      BY <1>4, <2>2
    <3>2. Cardinality(Far!Ours) + i <= most
      <4>1. i <= trip[c].n - Cardinality(here)
        BY <1>4, <3>1
      <4>2. trip[c].n <= most
        BY <1>1, <1>2
      <4>. QED  BY <1>1, <1>2, <1>3, <3>1, <4>1, <4>2
    <3>3. Cardinality(Far!Ours) + (top + i) - top <= most
      BY <1>1, <1>3, <3>1, <3>2
    <3>4. top + i = top + 1 + i - 1 /\ ~ (top + i <= top)
      BY <3>1
    <3>. QED  BY <2>3, <3>1, <3>3, <3>4
  <2>. QED  BY <1>6, <1>8, <2>3, <2>4 DEF Drawn
<1>11. Moves(trip[c], new)
  BY <1>8, <1>9, <1>10 DEF Moves, Won
<1>12. most' \in Nat /\ most <= most' /\ UNCHANGED <<here, routes, shrunk>>
  BY <1>1
<1>. QED  BY <1>7, <1>8, <1>11, <1>12, MoveKeeps

LEMMA ScaleDownKeeps ==
  ASSUME FarInv, NEW c \in Call, trip[c].pc = "scale",
         Cardinality(here) > trip[c].n, Far!ScaleDown(c),
         UNCHANGED <<here, routes, most, shrunk>>
  PROVE  FarInv'
<1>1. FarTyped /\ HereTyped /\ trip[c] \in Trips /\ most \in Nat /\ TripFits(trip[c], most)
  BY DEF FarInv, FarTyped
<1>2. trip[c].op = "spread" /\ trip[c].n \in 1 .. most /\ trip[c].n \in Nat
  BY <1>1 DEF TripFits, Trips
<1>3. Cardinality(here) \in Nat /\ Cardinality(Far!Ours) \in Nat
  BY <1>1, OursFinite
<1>4. PICK extra \in Nat \ {0} : extra = Cardinality(here) - trip[c].n
  BY <1>2, <1>3
<1>5. CASE Far!End(c, "unknown")
  BY <1>5, EndKeeps
<1>6. ASSUME extra <= Cardinality(Far!Ours),
             NEW order \in [1 .. Cardinality(Far!Ours) -> Far!Ours],
             trip' = [trip EXCEPT ![c].pc = "remove", ![c].todo = [i \in 1 .. extra |-> order[i].name]]
      PROVE  FarInv'
  <2>1. \A i \in 1 .. extra : order[i].name \in Nat \ {0}
    BY <1>1, <1>3, <1>4, <1>6 DEF Far!Ours, HereTyped, Boxes
  <2>2. PICK todo \in Seq(Nat \ {0}) : todo = [i \in 1 .. extra |-> order[i].name] /\ todo # <<>>
    <3>. DEFINE f == [i \in 1 .. extra |-> order[i].name]
    <3>1. f \in [1 .. extra -> Nat \ {0}]
      BY <2>1
    <3>2. f \in Seq(Nat \ {0}) /\ Len(f) = extra
      BY <1>4, <3>1
    <3>3. Len(<<>>) = 0
      OBVIOUS
    <3>. QED  BY <1>4, <3>2, <3>3
  <2>0. PICK new : new = [trip[c] EXCEPT !.pc = "remove", !.todo = todo]
    OBVIOUS
  <2>3. trip' = [trip EXCEPT ![c] = new]
    BY <1>1, <1>6, <2>0, <2>2 DEF FarTyped
  <2>4. /\ new \in Trips /\ new.pc = "remove" /\ new.op = "spread" /\ new.n = trip[c].n
        /\ new.todo # <<>>
    BY <1>1, <1>2, <2>0, <2>2 DEF Trips
  <2>5. TripFits(new, most)
    BY <1>2, <2>4 DEF TripFits, Creating
  <2>6. Moves(trip[c], new)
    BY <2>4, <2>5 DEF Moves, Won, Creating
  <2>7. most' \in Nat /\ most <= most' /\ UNCHANGED <<here, routes, shrunk>>
    BY <1>1
  <2>. QED  BY <2>3, <2>4, <2>6, <2>7, MoveKeeps
<1>7. Far!End(c, "unknown") \/
      \E order \in [1 .. Cardinality(Far!Ours) -> Far!Ours] :
        /\ extra <= Cardinality(Far!Ours)
        /\ trip' = [trip EXCEPT ![c].pc = "remove", ![c].todo = [i \in 1 .. extra |-> order[i].name]]
  BY <1>3, <1>4, SameSize DEF Far!ScaleDown
<1>. QED  BY <1>5, <1>6, <1>7

\* A call goes to a later place in its handler.
LEMMA StepKeeps ==
  ASSUME FarInv, NEW c \in Call, NEW pc \in {"ok", "route", "scale", "dupcreate"}, Far!Step(c, pc),
         pc = "ok" => trip[c].op = "spread", pc = "scale" => trip[c].op = "spread",
         pc = "route" => Won(trip[c]), pc = "dupcreate" => trip[c].op = "duplicate",
         trip[c].pc # "idle",
         UNCHANGED <<here, routes, most, shrunk>>
  PROVE  FarInv'
<1>1. FarTyped /\ trip[c] \in Trips /\ most \in Nat /\ TripFits(trip[c], most)
  BY DEF FarInv, FarTyped
<1>0. PICK new : new = [trip[c] EXCEPT !.pc = pc]
  OBVIOUS
<1>2. trip' = [trip EXCEPT ![c] = new]
  BY <1>0, <1>1 DEF Far!Step, FarTyped
<1>3. new \in Trips /\ new.pc = pc /\ new.op = trip[c].op /\ new.n = trip[c].n
  BY <1>0, <1>1 DEF Trips
<1>4. TripFits(new, most) /\ (Won(new) => Won(trip[c])) /\ ~ Creating(new) /\ new.pc # "write"
  BY <1>1, <1>3 DEF TripFits, Creating, Won
<1>5. Moves(trip[c], new)
  BY <1>3, <1>4 DEF Moves
<1>6. most' \in Nat /\ most <= most' /\ UNCHANGED <<here, routes, shrunk>>
  BY <1>1
<1>. QED  BY <1>2, <1>3, <1>5, <1>6, MoveKeeps

\* The first replica's name, drawn from an empty list.
LEMMA SeedDrawn ==
  ASSUME FarInv, NEW c \in Call, trip[c].pc = "sent", trip[c].op = "spread", here = {},
         trip' = [trip EXCEPT ![c].pc = "seed", ![c].todo = <<Far!NextIndex>>],
         UNCHANGED <<here, routes, most, shrunk>>
  PROVE  FarInv'
<1>1. FarTyped /\ HereTyped /\ trip[c] \in Trips /\ most \in Nat /\ TripFits(trip[c], most)
  BY DEF FarInv, FarTyped
<1>2. trip[c].n \in 1 .. most
  BY <1>1 DEF TripFits
<1>3. Far!Names = {} /\ Far!Ours = {} /\ Far!NextIndex = 1 /\ Cardinality(Far!Ours) = 0
  BY FS_EmptySet DEF Far!Names, Far!Ours, Far!NextIndex
<1>4. PICK new : new = [trip[c] EXCEPT !.pc = "seed", !.todo = <<1>>]
  OBVIOUS
<1>5. trip' = [trip EXCEPT ![c] = new]
  BY <1>1, <1>3, <1>4 DEF FarTyped
<1>6. <<1>> \in Seq(Nat \ {0}) /\ <<1>> # <<>> /\ DOMAIN <<1>> = {1} /\ <<1>>[1] = 1
  OBVIOUS
<1>7. /\ new \in Trips /\ new.pc = "seed" /\ new.op = "spread" /\ new.n = trip[c].n
      /\ new.todo = <<1>>
  BY <1>1, <1>4, <1>6 DEF Trips
<1>8. TripFits(new, most)
  BY <1>2, <1>6, <1>7 DEF TripFits, Creating
<1>9. ASSUME NEW top \in Nat, Stacked(top) PROVE Drawn(new, top)
  <2>1. top = 0
    BY <1>3, <1>9 DEF Stacked, Highest
  <2>. QED  BY <1>1, <1>2, <1>3, <1>6, <1>7, <2>1 DEF Drawn
<1>10. Moves(trip[c], new)
  BY <1>7, <1>8, <1>9 DEF Moves, Won
<1>11. most' \in Nat /\ most <= most' /\ UNCHANGED <<here, routes, shrunk>>
  BY <1>1
<1>. QED  BY <1>5, <1>7, <1>10, <1>11, MoveKeeps

\* A call has begun.
LEMMA SendKeeps ==
  ASSUME FarInv, NEW c \in Call, NEW op \in {"spread", "duplicate"}, NEW n \in Nat, Far!Send(c, op, n),
         most' \in Nat, most <= most', op = "spread" => n \in 1 .. most'
  PROVE  FarInv'
<1>1. FarTyped /\ most \in Nat
  BY DEF FarInv, FarTyped
<1>2. PICK new : new = [Far!Idle EXCEPT !.pc = "sent", !.op = op, !.n = n]
  OBVIOUS
<1>3. trip' = [trip EXCEPT ![c] = new] /\ UNCHANGED <<here, routes, shrunk>>
  BY <1>2 DEF Far!Send
<1>4. new \in Trips /\ new.pc = "sent" /\ new.op = op /\ new.n = n
  <2>1. <<>> \in Seq(Nat \ {0})
    OBVIOUS
  <2>2. Far!Idle \in Trips
    BY <2>1 DEF Far!Idle, Trips
  <2>. QED  BY <1>2, <2>2 DEF Trips
<1>5. Moves(trip[c], new)
  BY <1>4 DEF Moves, TripFits, Won, Creating
<1>. QED  BY <1>3, <1>4, <1>5, MoveKeeps

\* A start has returned: the seed's, a replica's, the duplicate's.
LEMMA StartedKeeps ==
  ASSUME FarInv, NEW c \in Call, Far!SeedStart(c) \/ Far!ScaleStart(c) \/ Far!DuplicateStart(c)
  PROVE  FarInv'
<1>1. FarTyped /\ HereTyped /\ trip[c] \in Trips /\ most \in Nat /\ TripFits(trip[c], most)
  BY DEF FarInv, FarTyped
<1>2. CASE Far!SeedStart(c)
  <2>1. PICK rest : rest = [trip[c] EXCEPT !.pc = IF trip[c].n = 1 THEN "ok" ELSE "scale", !.todo = <<>>]
    OBVIOUS
  <2>2. /\ trip[c].pc = "seedstart" /\ Far!Start(c, Head(trip[c].todo), rest)
        /\ UNCHANGED <<routes, most, shrunk>>
    BY <1>2, <2>1 DEF Far!SeedStart
  <2>3. <<>> \in Seq(Nat \ {0})
    OBVIOUS
  <2>4. rest \in Trips /\ rest.pc \in {"ok", "scale"} /\ rest.op = trip[c].op /\ rest.n = trip[c].n
    BY <1>1, <2>1, <2>3 DEF Trips
  <2>5. trip[c].op = "spread"
    BY <1>1, <2>2 DEF TripFits, Creating
  <2>6. Moves(trip[c], rest)
    BY <1>1, <2>2, <2>4, <2>5 DEF Moves, TripFits, Won, Creating
  <2>. QED  BY <2>2, <2>4, <2>6, StartKeeps
<1>3. CASE Far!DuplicateStart(c)
  <2>1. PICK rest : rest = [trip[c] EXCEPT !.pc = "ok"]
    OBVIOUS
  <2>2. trip[c].pc = "dupstart" /\ Far!Start(c, 0, rest) /\ UNCHANGED <<routes, most, shrunk>>
    BY <1>3, <2>1 DEF Far!DuplicateStart
  <2>3. rest \in Trips /\ rest.pc = "ok" /\ rest.op = trip[c].op
    BY <1>1, <2>1 DEF Trips
  <2>4. trip[c].op = "duplicate"
    BY <1>1, <2>2 DEF TripFits
  <2>5. Moves(trip[c], rest)
    BY <1>1, <2>2, <2>3, <2>4 DEF Moves, TripFits, Won, Creating
  <2>. QED  BY <2>2, <2>3, <2>5, StartKeeps
<1>4. CASE Far!ScaleStart(c)
  <2>1. PICK rest : rest = Far!Rest(c, "create")
    OBVIOUS
  <2>2. /\ trip[c].pc = "start" /\ Far!Start(c, Head(trip[c].todo), rest)
        /\ UNCHANGED <<routes, most, shrunk>>
    BY <1>4, <2>1 DEF Far!ScaleStart
  <2>3. trip[c].todo \in Seq(Nat \ {0}) /\ trip[c].todo # <<>> /\ trip[c].op = "spread"
    BY <1>1, <2>2 DEF Trips, TripFits, Creating
  <2>4. /\ Tail(trip[c].todo) \in Seq(Nat \ {0})
        /\ Len(trip[c].todo) # 1 => Tail(trip[c].todo) # <<>>
    BY <2>3, TailLeft
  <2>5. /\ rest \in Trips /\ rest.pc \in {"ok", "create"} /\ rest.op = "spread"
        /\ rest.n = trip[c].n /\ rest.todo = Tail(trip[c].todo)
        /\ rest.pc = "create" => rest.todo # <<>>
    BY <1>1, <2>1, <2>3, <2>4 DEF Trips, Far!Rest
  <2>6. TripFits(rest, most)
    BY <1>1, <2>2, <2>3, <2>5 DEF TripFits, Creating
  <2>7. ASSUME NEW top \in Nat, Stacked(top), rest.pc = "create" PROVE Drawn(rest, top)
    <3>. DEFINE s == trip[c].todo
    <3>1. Drawn(trip[c], top) /\ s[1] \in Far!Names /\ Highest(top)
      BY <2>2, <2>7 DEF Stacked, Drawn, Creating
    <3>2. s[1] <= top /\ s[1] \in Nat
      BY <2>3, <3>1 DEF Highest, Far!Names
    <3>. DEFINE q == Tail(s)
    <3>a. Len(s) \in Nat /\ Len(s) >= 1 /\ DOMAIN s = 1 .. Len(s)
      BY <2>3
    <3>b. DOMAIN q = 1 .. Len(s) - 1 /\ \A i \in 1 .. Len(s) - 1 : q[i] = s[i + 1]
      BY <2>3
    <3>c. Len(s) # 1
      BY <2>1, <2>7, <1>1 DEF Far!Rest, Trips
    <3>3. /\ DOMAIN rest.todo = 1 .. Len(s) - 1 /\ 1 \in 1 .. Len(s) - 1
          /\ \A i \in 1 .. Len(s) - 1 : rest.todo[i] = s[i + 1] /\ i + 1 \in 1 .. Len(s) /\ i \in Nat
      <4>1. rest.todo = q
        BY <2>5
      <4>2. PICK len \in Nat : len = Len(s) /\ len >= 1 /\ len # 1
        BY <3>a, <3>c
      <4>3. 1 \in 1 .. len - 1 /\ \A i \in 1 .. len - 1 : i + 1 \in 1 .. len /\ i \in Nat
        <5>0. len \in Nat /\ len >= 1 /\ len # 1
          BY <4>2
        <5>1. 1 <= len - 1 /\ len - 1 \in Nat
          BY <5>0
        <5>2. \A i \in 1 .. len - 1 : i + 1 \in 1 .. len /\ i \in Nat
          BY <5>1
        <5>. QED  BY <5>1, <5>2
      <4>. QED  BY <3>b, <4>1, <4>2, <4>3
    <3>d. \A i \in 1 .. Len(s) :
            /\ s[i] = s[1] + i - 1
            /\ s[i] <= top => s[i] \in Far!Names
            /\ Cardinality(Far!Ours) + s[i] - top <= most
      BY <3>1, <3>a DEF Drawn
    <3>e. \A i \in 1 .. Len(s) - 1 : rest.todo[i] = s[1] + i
      <4>. SUFFICES ASSUME NEW i \in 1 .. Len(s) - 1 PROVE rest.todo[i] = s[1] + i
        OBVIOUS
      <4>1. rest.todo[i] = s[1] + (i + 1) - 1 /\ i \in Nat
        BY <3>3, <3>d
      <4>. QED  BY <3>2, <4>1
    <3>4. rest.todo[1] = s[1] + 1
      BY <3>3, <3>e
    <3>5. ASSUME NEW i \in DOMAIN rest.todo
          PROVE  /\ rest.todo[i] = rest.todo[1] + i - 1
                 /\ rest.todo[i] <= top => rest.todo[i] \in Far!Names
                 /\ Cardinality(Far!Ours) + rest.todo[i] - top <= most
      <4>1. i \in Nat /\ rest.todo[i] = s[1] + i
        BY <3>3, <3>e, <3>5
      <4>2. rest.todo[i] = s[i + 1] /\ i + 1 \in 1 .. Len(s)
        BY <3>3, <3>5
      <4>3. s[1] + i = s[1] + 1 + i - 1
        BY <3>2, <4>1
      <4>. QED  BY <3>4, <3>d, <4>1, <4>2, <4>3
    <3>. QED  BY <2>7, <3>2, <3>4, <3>5 DEF Drawn
  <2>8. Moves(trip[c], rest)
    BY <2>2, <2>5, <2>6, <2>7 DEF Moves, Won, Creating
  <2>. QED  BY <2>2, <2>5, <2>8, StartKeeps
<1>. QED  BY <1>2, <1>3, <1>4

LEMMA FarInit ==
  ASSUME Far!Init
  PROVE  FarInv
<1>1. here = {} /\ routes = 0 /\ most = 0 /\ shrunk = FALSE /\ trip = [c \in Call |-> Far!Idle]
  BY DEF Far!Init
<1>2. Far!Idle \in Trips /\ Far!Idle.pc = "idle"
  <2>1. <<>> \in Seq(Nat \ {0})
    OBVIOUS
  <2>. QED  BY <2>1 DEF Far!Idle, Trips
<1>3. Far!Names = {} /\ Far!Ours = {} /\ IsFiniteSet(here) /\ Cardinality(Far!Ours) = 0
  BY <1>1, FS_EmptySet DEF Far!Names, Far!Ours
<1>4. FarTyped
  BY <1>1, <1>2, <1>3 DEF FarTyped, HereTyped, TripFits, Creating
<1>5. OneDuplicate
  BY <1>1, <1>2 DEF OneDuplicate, Won
<1>6. Stacked(0)
  BY <1>1, <1>2, <1>3 DEF Stacked, Highest, Creating
<1>. QED  BY <1>4, <1>5, <1>6 DEF FarInv, NamesHeld

LEMMA FarStep ==
  ASSUME Far!SpreadAssumption, FarInv, [Far!Next]_(Far!vars)
  PROVE  FarInv'
<1>0. FarTyped /\ HereTyped /\ most \in Nat
  BY DEF FarInv, FarTyped
<1>1. CASE UNCHANGED Far!vars
  BY <1>1
  DEF FarInv, FarTyped, HereTyped, OneDuplicate, NamesHeld, Stacked, Highest, Drawn, Far!vars,
      Far!Names, Far!Ours
<1>2. ASSUME NEW k \in here, Far!Exit(k) PROVE FarInv'
  BY <1>2, ExitKeeps
<1>3. ASSUME NEW c \in Call, NEW n \in 1 .. MaxReplicas, Far!BeginSpread(c, n) PROVE FarInv'
  <2>1. n \in Nat /\ n >= 1
    BY DEF Far!SpreadAssumption
  <2>2. Far!Send(c, "spread", n) /\ most' = IF n > most THEN n ELSE most
    BY <1>3 DEF Far!BeginSpread
  <2>3. most' \in Nat /\ most <= most' /\ n \in 1 .. most'
    BY <1>0, <2>1, <2>2
  <2>. QED  BY <2>1, <2>2, <2>3, SendKeeps
<1>4. ASSUME NEW c \in Call, Far!BeginDuplicate(c) PROVE FarInv'
  <2>1. Far!Send(c, "duplicate", 1) /\ most' \in Nat /\ most <= most'
    BY <1>0, <1>4 DEF Far!BeginDuplicate
  <2>. QED  BY <2>1, SendKeeps
<1>5. ASSUME NEW c \in Call, NEW d \in BOOLEAN, Far!Reply(c, d) PROVE FarInv'
  <2>1. trip[c].pc = "ok" /\ UNCHANGED <<here, routes, most, shrunk>>
    BY <1>5 DEF Far!Reply
  <2>2. CASE d /\ trip[c].op = "duplicate"
    <3>1. Far!Step(c, "route") /\ Won(trip[c])
      BY <1>5, <2>1, <2>2 DEF Far!Reply, Won
    <3>. QED  BY <2>1, <3>1, StepKeeps
  <2>3. CASE ~ (d /\ trip[c].op = "duplicate")
    <3>1. Far!End(c, "done") \/ Far!End(c, "unknown")
      BY <1>5, <2>3 DEF Far!Reply
    <3>. QED  BY <2>1, <3>1, EndKeeps
  <2>. QED  BY <2>2, <2>3
<1>6. ASSUME NEW c \in Call, Far!Cancel(c) PROVE FarInv'
  BY <1>6, EndKeeps DEF Far!Cancel
<1>7. ASSUME NEW c \in Call, Far!ReadRoutes(c) PROVE FarInv'
  <2>1. /\ trip[c].pc = "route" /\ UNCHANGED <<here, routes, most, shrunk>>
        /\ trip' = [trip EXCEPT ![c].pc = "write", ![c].read = routes]
        /\ trip[c] \in Trips /\ TripFits(trip[c], most)
    BY <1>0, <1>7 DEF Far!ReadRoutes, FarTyped
  <2>2. Won(trip[c]) /\ trip[c].op = "duplicate"
    BY <2>1 DEF TripFits, Won
  <2>3. routes = 0
    BY <2>2 DEF FarInv, OneDuplicate
  <2>4. PICK new : new = [trip[c] EXCEPT !.pc = "write", !.read = 0]
    OBVIOUS
  <2>5. trip' = [trip EXCEPT ![c] = new]
    BY <1>0, <2>1, <2>3, <2>4 DEF FarTyped
  <2>6. new \in Trips /\ new.pc = "write" /\ new.read = 0 /\ new.op = "duplicate"
    BY <2>1, <2>2, <2>4 DEF Trips
  <2>7. Moves(trip[c], new)
    BY <2>2, <2>6 DEF Moves, TripFits, Creating
  <2>8. most' \in Nat /\ most <= most' /\ UNCHANGED <<here, routes, shrunk>>
    BY <1>0, <2>1
  <2>. QED  BY <2>5, <2>6, <2>7, <2>8, MoveKeeps
<1>8. ASSUME NEW c \in Call, Far!SpreadList(c) PROVE FarInv'
  <2>1. trip[c].pc = "sent" /\ trip[c].op = "spread" /\ UNCHANGED <<here, routes, most, shrunk>>
    BY <1>8 DEF Far!SpreadList
  <2>2. CASE here = {}
    BY <1>8, <2>1, <2>2, SeedDrawn DEF Far!SpreadList
  <2>3. CASE Far!End(c, "rejected")
    BY <2>1, <2>3, EndKeeps
  <2>4. CASE Far!Step(c, "ok") \/ Far!Step(c, "scale")
    BY <2>1, <2>4, StepKeeps
  <2>. QED  BY <1>8, <2>2, <2>3, <2>4 DEF Far!SpreadList
<1>9. ASSUME NEW c \in Call, Far!Seed(c) PROVE FarInv'
  <2>1. trip[c].pc = "seed" /\ UNCHANGED <<routes, most, shrunk>>
    BY <1>9 DEF Far!Seed
  <2>2. CASE Far!End(c, "rejected") /\ UNCHANGED here
    BY <2>1, <2>2, EndKeeps
  <2>3. CASE Far!Create(c, Head(trip[c].todo), TRUE, "seedstart")
    BY <2>1, <2>3, CreateKeeps
  <2>. QED  BY <1>9, <2>2, <2>3 DEF Far!Seed
<1>10. ASSUME NEW c \in Call, Far!SeedStart(c) \/ Far!ScaleStart(c) \/ Far!DuplicateStart(c)
       PROVE  FarInv'
  BY <1>10, StartedKeeps
<1>11. ASSUME NEW c \in Call, Far!ScaleList(c) PROVE FarInv'
  <2>1. /\ trip[c].pc = "scale" /\ UNCHANGED <<here, routes, most, shrunk>>
        /\ trip[c].op = "spread"
    BY <1>0, <1>11 DEF Far!ScaleList, FarTyped, TripFits
  <2>2. CASE Far!End(c, "unknown")
    BY <2>1, <2>2, EndKeeps
  <2>3. CASE Far!Step(c, "ok")
    BY <2>1, <2>3, StepKeeps
  <2>4. ASSUME NEW t \in Far!Templates, Cardinality(here) < trip[c].n, Far!ScaleUp(c, t)
        PROVE  FarInv'
    <3>1. t \in here
      BY DEF Far!Templates
    <3>. QED  BY <2>1, <2>4, <3>1, ScaleUpKeeps
  <2>5. CASE Cardinality(here) > trip[c].n /\ Far!ScaleDown(c)
    BY <2>1, <2>5, ScaleDownKeeps
  <2>. QED  BY <1>11, <2>2, <2>3, <2>4, <2>5, SameSize DEF Far!ScaleList
<1>12. ASSUME NEW c \in Call, Far!ScaleCreate(c) PROVE FarInv'
  <2>1. trip[c].label \in BOOLEAN
    BY <1>0 DEF FarTyped, Trips
  <2>. QED  BY <1>12, <2>1, CreateKeeps DEF Far!ScaleCreate
<1>13. ASSUME NEW c \in Call, Far!DuplicateCheck(c) PROVE FarInv'
  <2>1. trip[c].pc = "sent" /\ trip[c].op = "duplicate" /\ UNCHANGED <<here, routes, most, shrunk>>
    BY <1>13 DEF Far!DuplicateCheck
  <2>2. CASE Far!End(c, "rejected")
    BY <2>1, <2>2, EndKeeps
  <2>3. CASE Far!Step(c, "dupcreate")
    BY <2>1, <2>3, StepKeeps
  <2>. QED  BY <1>13, <2>2, <2>3 DEF Far!DuplicateCheck
<1>. QED
  BY <1>1, <1>2, <1>3, <1>4, <1>5, <1>6, <1>7, <1>8, <1>9, <1>10, <1>11, <1>12, <1>13,
     WriteKeeps, RemoveKeeps, DuplicateKeeps
  DEF Far!Next

LEMMA FarInductive ==
  ASSUME Far!SpreadAssumption
  PROVE  Far!Spec => []FarInv
<1>1. Far!Init => FarInv
  BY FarInit
<1>2. FarInv /\ [Far!Next]_(Far!vars) => FarInv'
  BY FarStep
<1>. QED  BY <1>1, <1>2, PTL DEF Far!Spec

\* However many calls overlap, fail half-way or are repeated, the peer holds no
\* more replicas of the service than the most any call asked for, unless one
\* call removed a replica under another (peerSpreadHandler,
\* scaleServiceWithHealthcheck: nextReplicaIndex and Docker's refusal of a name
\* that is taken are all that keeps overlapping calls apart).
THEOREM SpreadNeverStacks ==
  ASSUME Far!SpreadAssumption
  PROVE  Far!Spec => []Far!NeverStacks
<1>1. FarInv => Far!NeverStacks
  BY SameSize DEF FarInv, NamesHeld, Stacked, Far!NeverStacks, Far!Ours
<1>. QED  BY <1>1, FarInductive, PTL

\* Of all the duplicates ever asked for, by calls that overlap or whose answers
\* are lost, one at most gets the name; it alone writes a backend into
\* routes.json, and no spread takes its container away (peerDuplicateHandler,
\* upsertDuplicateRoute).
THEOREM DuplicateRoutedOnce ==
  ASSUME Far!SpreadAssumption
  PROVE  Far!Spec => []Far!RouteHasDuplicate
<1>1. FarInv => Far!RouteHasDuplicate
  BY DEF FarInv, FarTyped, OneDuplicate, Far!RouteHasDuplicate
<1>. QED  BY <1>1, FarInductive, PTL
=============================================================================
