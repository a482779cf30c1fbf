------------------------------- MODULE Images -------------------------------
(***************************************************************************)
(* The dashboard's Images panel (cmd/dashboard/imagehistory.go, releases.go *)
(* and the handlers of /api/images and /peer/images): it deletes one local  *)
(* image, or all but the newest, and must spare whatever a container, a     *)
(* service's record or a stable mark still names.  What is protected is     *)
(* read from Docker when a call begins, the images a moment later, and the  *)
(* removals follow one by one, while images are pulled, containers come and *)
(* go and marks are set.                                                    *)
(*                                                                         *)
(* One service and one image repository.  A name on disk (repo:tag) or the  *)
(* id of an image without a name is at once an entry of the panel and the   *)
(* token that deletes it.                                                   *)
(***************************************************************************)
EXTENDS Naturals, FiniteSets, FiniteSetsExt

CONSTANTS Ref,      \* the repository's tags, as repo:tag
          Id,       \* image ids
          Created,  \* id -> when the image was built, in the clock of LastSeen
          None,
          Call,     \* requests to delete or to prune
          KeepN,    \* the keep_n of a prune
          MaxOps,   \* bound: pulls, deployments, retirements and marks
          MaxNow    \* bound: history ticks

(* Names and ids are told apart by their form. *)
ImagesAssumption == Ref \cap Id = {} /\ None \notin Ref \cup Id

VARIABLES
    tags,        \* name -> the id it is on, or None when it is not on disk
    disk,        \* the ids on disk
    containers,  \* every container of the daemon, running or not
    image,       \* Image of the service's record
    marks,       \* the names marked stable
    hist,        \* name -> LastSeen and ImageID of its history record, 0 for none
    now, ops,
    call,        \* what each request is doing
    held         \* history: what was protected, under one name, since a call began

vars == <<tags, disk, containers, image, marks, hist, now, ops, call, held>>

Idle == [pc |-> "idle", kind |-> "prune", token |-> None, keepN |-> 0,
         refs |-> {}, ids |-> {}, todo |-> {}]

Named == {r \in Ref : tags[r] # None}
Users(i) == {k \in containers : k.id = i}

Changed ==
    /\ ops < MaxOps
    /\ ops' = ops + 1

-----------------------------------------------------------------------------
(* What must never be deleted. *)

(* Docker lists a container under its name only while that name is on the *)
(* container's image.                                                     *)
protectedRefs ==
    {k.ref : k \in {k \in containers : tags[k.ref] = k.id}} \cup {image} \cup marks

protectedIDs == {k.id : k \in containers}

Protected == {<<r, tags[r]>> : r \in {r \in Named : \/ r \in protectedRefs
                                                    \/ tags[r] \in protectedIDs}}

-----------------------------------------------------------------------------
(* What others do: Docker, deployments, marks, the history tick. *)

(* A pull puts the name on another image; the one it was on keeps its id. *)
Pull ==
    /\ Changed
    /\ \E r \in Ref, i \in Id :
         /\ tags[r] # i
         /\ tags' = [tags EXCEPT ![r] = i]
         /\ disk' = disk \cup {i}
    /\ UNCHANGED <<containers, image, marks, hist, now, call>>

Deploy ==
    /\ Changed
    /\ \E r \in Named :
         /\ containers' = containers \cup {[ref |-> r, id |-> tags[r]]}
         /\ image' = r
    /\ UNCHANGED <<tags, disk, marks, hist, now, call>>

Retire ==
    /\ Changed
    /\ \E k \in containers : containers' = containers \ {k}
    /\ UNCHANGED <<tags, disk, image, marks, hist, now, call>>

Mark ==
    /\ Changed
    /\ \E r \in Ref \ marks : marks' = marks \cup {r}
    /\ UNCHANGED <<tags, disk, containers, image, hist, now, call>>

Unmark ==
    /\ Changed
    /\ \E r \in marks : marks' = marks \ {r}
    /\ UNCHANGED <<tags, disk, containers, image, hist, now, call>>

(* The id is known only while a container runs the record's image. *)
Record ==
    /\ now < MaxNow
    /\ now' = now + 1
    /\ LET ids == {k.id : k \in {k \in containers : k.ref = image}}
       IN \E i \in IF ids = {} THEN {hist[image].id} ELSE ids :
            hist' = [hist EXCEPT ![image] = [seen |-> now', id |-> i]]
    /\ UNCHANGED <<tags, disk, containers, image, marks, ops, call>>

-----------------------------------------------------------------------------
(* The panel's entries. *)

Dangling == disk \ {tags[r] : r \in Ref}
entries == Named \cup Dangling
fullID(e) == IF e \in Ref THEN tags[e] ELSE e

(* A history record describes its name's entry or, with the name gone from *)
(* disk, the unnamed image of its id.                                      *)
LastSeen(e) ==
    Max({0} \cup {hist[r].seen : r \in {r \in Ref : \/ r = e
                                                    \/ r \notin Named /\ hist[r].id = e}})

seenAt(e) == IF LastSeen(e) > 0 THEN LastSeen(e) ELSE Created[fullID(e)]

EntryProtected(c, e) == e \in call[c].refs \/ fullID(e) \in call[c].ids

(* A protected entry protects the other names of its image too. *)
Spared(c) == {e \in entries :
                \E f \in entries : EntryProtected(c, f) /\ (f = e \/ fullID(f) = fullID(e))}

(* The keepN newest entries.  Those seen at the same second are ordered by  *)
(* build time and name: either may come first.                              *)
Newest(n) ==
    {k \in SUBSET entries : /\ Cardinality(k) = Min({n, Cardinality(entries)})
                            /\ \A e \in k, f \in entries \ k : seenAt(e) >= seenAt(f)}

\* Mutant: protection is checked by name only.
imagesToPruneByName(c) ==
    {(entries \ kept) \ call[c].refs : kept \in Newest(call[c].keepN)}

imagesToPrune(c) ==
    {(entries \ kept) \ Spared(c) : kept \in Newest(call[c].keepN)}

-----------------------------------------------------------------------------
(* The requests. *)

(* All of them begin by reading what is protected. *)
protectedSets(c, kind, token, keepN) ==
    /\ call[c] = Idle
    /\ call' = [call EXCEPT ![c] = [Idle EXCEPT !.pc = "listing", !.kind = kind,
                                      !.token = token, !.keepN = keepN,
                                      !.refs = protectedRefs, !.ids = protectedIDs]]
    /\ UNCHANGED <<tags, disk, containers, image, marks, hist, now, ops>>

Begin(c) ==
    \/ \E n \in KeepN : protectedSets(c, "prune", None, n)
    \/ \E t \in Ref \cup Id : protectedSets(c, "delete", t, 0)
    \/ \E t \in Ref \cup Id : protectedSets(c, "peer delete", t, 0)

Goes(c, todo) ==
    /\ call' = [call EXCEPT ![c] = IF todo = {} THEN Idle
                                   ELSE [@ EXCEPT !.pc = "removing", !.todo = todo]]
    /\ UNCHANGED <<tags, disk, containers, image, marks, hist, now, ops>>

ListForPrune(c) ==
    /\ call[c].pc = "listing" /\ call[c].kind = "prune"
    /\ \E todo \in imagesToPrune(c) : Goes(c, todo)

(* The token may be anything the page showed at some time. *)
ListForDelete(c) ==
    /\ call[c].pc = "listing" /\ call[c].kind = "delete"
    /\ LET t == call[c].token
           refused == \/ t \in call[c].refs \cup call[c].ids
                      \/ t \in Named /\ tags[t] \in call[c].ids
       IN Goes(c, IF refused THEN {} ELSE {t})

(* A peer is told a name and finds the token among its own entries. *)
ListForPeer(c) ==
    /\ call[c].pc = "listing" /\ call[c].kind = "peer delete"
    /\ LET t == call[c].token
       IN Goes(c, IF t \notin entries \/ EntryProtected(c, t) THEN {} ELSE {t})

(* Docker: without force, the last name of an image in use stays. *)
Removable(t) ==
    \/ t \in Named /\ (Users(tags[t]) = {} \/ \E r \in Named \ {t} : tags[r] = tags[t])
    \/ t \in disk /\ Users(t) = {}

removeImage(t) ==
    IF Removable(t)
    THEN LET gone == {r \in Named : r = t \/ tags[r] = t}
             left == [r \in Ref |-> IF r \in gone THEN None ELSE tags[r]]
         IN /\ tags' = left
            /\ disk' = disk \ ({fullID(t)} \ {left[r] : r \in Ref})
    ELSE UNCHANGED <<tags, disk>>

(* The removals of a call, one at a time; a failed one is reported and skipped. *)
Remove(c) ==
    /\ call[c].pc = "removing"
    /\ \E t \in call[c].todo :
         /\ removeImage(t)
         /\ LET todo == call[c].todo \ {t}
            IN call' = [call EXCEPT ![c] = IF todo = {} THEN Idle ELSE [@ EXCEPT !.todo = todo]]
    /\ UNCHANGED <<containers, image, marks, hist, now, ops>>

-----------------------------------------------------------------------------
Step ==
    \/ Pull \/ Deploy \/ Retire \/ Mark \/ Unmark \/ Record
    \/ \E c \in Call : Begin(c) \/ ListForPrune(c) \/ ListForDelete(c) \/ ListForPeer(c) \/ Remove(c)

Next ==
    /\ Step
    /\ held' = [c \in Call |-> IF call[c] = Idle THEN Protected' ELSE held[c] \cap Protected']

Init ==
    \E r \in Ref, i \in Id :
      /\ tags = [q \in Ref |-> IF q = r THEN i ELSE None]
      /\ disk = {i}
      /\ containers = {[ref |-> r, id |-> i]}
      /\ image = r
      /\ marks = {}
      /\ hist = [q \in Ref |-> [seen |-> 0, id |-> None]]
      /\ now = 0 /\ ops = 0
      /\ call = [c \in Call |-> Idle]
      /\ held = [c \in Call |-> Protected]

Spec == Init /\ [][Next]_vars

-----------------------------------------------------------------------------
(* Properties. *)

(* A step of one request's that takes name r off disk. *)
Takes(c, r) == call'[c] # call[c] /\ tags[r] # None /\ tags'[r] = None

(* protectedSets names "everything that must never be deleted": no call takes *)
(* a name off an image that a container, the record or a stable mark has      *)
(* protected under that name ever since the call began, whatever is pulled,   *)
(* deployed, marked or deleted meanwhile.  A delete by image id is excepted:  *)
(* the local handler looks up no mark by id.                                  *)
ProtectedKeptStep ==
    \A c \in Call, r \in Ref :
      Takes(c, r) =>
        \/ <<r, tags[r]>> \notin held[c]
        \/ call[c].kind = "delete" /\ call[c].token \in Id

ProtectedKept == [][ProtectedKeptStep]_vars
=============================================================================
