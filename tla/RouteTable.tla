----------------------------- MODULE RouteTable -----------------------------
(***************************************************************************)
(* Which route of one host answers a request (cmd/proxy/router.go): the    *)
(* table Router.Set publishes, sorted longest prefix first, the tombstones *)
(* it keeps of routes that disappeared, and ServeHTTP, which reads both    *)
(* under one lock and compares them with its own clock later.              *)
(*                                                                         *)
(* A path, and a route's PathPrefix, is a sequence; strings.HasPrefix is   *)
(* IsPrefix.  The empty prefix is a host-wide route.                       *)
(***************************************************************************)
EXTENDS Naturals, SequencesExt

CONSTANTS
  Prefix,      \* the path prefixes routes may have
  URLPath,     \* the paths requests may ask for
  Request,     \* requests in flight at once
  TTL,         \* routeTombstoneTTL
  MaxClock     \* bound: the clock

RouteTableAssumption ==
  /\ <<>> \in Prefix
  /\ TTL \in Nat /\ MaxClock \in Nat

VARIABLES
  clock,     \* Router.clock()
  groups,    \* Router.groups: the prefixes of the published routes
  tombs,     \* Router.tombstones
  req,       \* what each request read (goneAt for the properties), and its answer
  goneAt     \* history: when each route that is not published disappeared

vars == <<clock, groups, tombs, req, goneAt>>

\* A time the clock does not reach.
Never == MaxClock + 1
Tombstone == [path : Prefix, until : 0 .. MaxClock + TTL]
IdleReq == [pc |-> "idle", path |-> <<>>, groups |-> <<>>, tombs |-> {},
            gone |-> [k \in Prefix |-> Never], status |-> 0, route |-> <<>>]

TypeOK ==
  /\ clock \in 0 .. MaxClock
  /\ groups \in Seq(Prefix) /\ IsInjective(groups)
  /\ tombs \subseteq Tombstone
  /\ \A q \in Request :
       /\ req[q].pc \in {"idle", "read", "done"}
       /\ req[q].groups \in Seq(Prefix)
       /\ req[q].tombs \subseteq Tombstone
       /\ req[q].status \in {0, 200, 404, 503}
  /\ goneAt \in [Prefix -> 0 .. Never]

Init ==
  /\ clock = 0
  /\ groups = <<>>
  /\ tombs = {}
  /\ req = [q \in Request |-> IdleReq]
  /\ goneAt = [k \in Prefix |-> Never]

-----------------------------------------------------------------------------
(* Router.Set                                                              *)

Longer(s, t) == Len(s) > Len(t)

\* Mutant: the table is published in the order it was assembled.
SortedAsIs(s) == s

\* sort.SliceStable, longest prefix first.  Routes of one length cover
\* different paths, so their order does not matter.
Sorted(s) == SortSeq(s, Longer)

\* A tombstone of each route in gone, from now on.
Tombstones(gone) == {[path |-> k, until |-> clock + TTL] : k \in gone}
Paths(ts) == {t.path : t \in ts}

\* Router.reconcileTombstonesLocked: keep the tombstones that neither expired
\* nor came back, add one for each route that prev had and new has not.
reconcileTombstonesLocked(prev, new) ==
  LET kept == {t \in tombs : clock <= t.until /\ t.path \notin ToSet(new)}
  IN kept \cup Tombstones(ToSet(prev) \ (ToSet(new) \cup Paths(kept)))

\* Router.Set publishes the assembled routes with their tombstones.
Set(new) ==
  /\ tombs' = reconcileTombstonesLocked(groups, new)
  /\ groups' = Sorted(new)
  /\ goneAt' = [k \in Prefix |->
       IF k \in ToSet(new) THEN Never
       ELSE IF k \in ToSet(groups) THEN clock ELSE goneAt[k]]
  /\ UNCHANGED <<clock, req>>

-----------------------------------------------------------------------------
(* Router.ServeHTTP                                                        *)

\* groups and tombstones are read together, under the read lock.
Read(q, path) ==
  /\ req[q].pc # "read"
  /\ req' = [req EXCEPT ![q] =
       [IdleReq EXCEPT !.pc = "read", !.path = path, !.groups = groups, !.tombs = tombs,
                !.gone = goneAt]]
  /\ UNCHANGED <<clock, groups, tombs, goneAt>>

\* The first route of the table that covers the path, as a set.
Match(table, path) ==
  LET i == SelectInSeq(table, LAMBDA k : IsPrefix(k, path))
  IN IF i = 0 THEN {} ELSE {table[i]}

\* Router.tombstoned: an unexpired tombstone covers the path and is more
\* specific than the live match, if there is one.
tombstoned(ts, path, group) ==
  \E t \in ts :
    /\ IsPrefix(t.path, path)
    /\ clock <= t.until
    /\ \A g \in group : Len(t.path) > Len(g)

\* The routing decision: 503 for a tombstone, 404 without a route, else the
\* route's backends, limiter and gates (status 200 stands for all of them).
Answer(q) ==
  LET r     == req[q]
      group == Match(r.groups, r.path)
      tomb  == tombstoned(r.tombs, r.path, group)
      Reply(status, route) ==
        req' = [req EXCEPT ![q] =
          [IdleReq EXCEPT !.pc = "done", !.status = status, !.route = route]]
  IN
  /\ r.pc = "read"
  /\ \/ tomb /\ Reply(503, <<>>)
     \/ ~tomb /\ group = {} /\ Reply(404, <<>>)
     \/ ~tomb /\ \E g \in group : Reply(200, g)
  /\ UNCHANGED <<clock, groups, tombs, goneAt>>

Tick ==
  /\ clock < MaxClock
  /\ clock' = clock + 1
  /\ UNCHANGED <<groups, tombs, req, goneAt>>

\* Every order in which assembleGroups may list a set of routes.
Assembled == UNION {SetToSeqs(S) : S \in SUBSET Prefix}

Next ==
  \/ \E new \in Assembled : Set(new)
  \/ \E q \in Request :
       (\E path \in URLPath : Read(q, path)) \/ Answer(q)
  \/ Tick

Spec == Init /\ [][Next]_vars

-----------------------------------------------------------------------------
(* Properties                                                              *)

Covering(path) == {k \in Prefix : IsPrefix(k, path)}
Live(q) == Covering(req[q].path) \cap ToSet(req[q].groups)

\* The covering routes that had disappeared, at most TTL ago, when the request
\* read the table.
JustGone(q) == {k \in Covering(req[q].path) :
                  req[q].gone[k] # Never /\ clock - req[q].gone[k] <= TTL}

Answers(q, status) == req[q].pc = "read" /\ req'[q].pc = "done" /\ req'[q].status = status

\* README "Routes are matched longest prefix first", and a gap answers 503 "for
\* up to 5 minutes before falling back to 404", "unless a live route matches
\* more specifically": whatever the order in which routes came and went, a
\* request is answered on behalf of the most specific covering route that is
\* live, or gone for at most TTL and not back.
MostSpecificWinsStep ==
  \A q \in Request :
    /\ Answers(q, 200) =>
         /\ req'[q].route \in Live(q)
         /\ \A k \in Live(q) \cup JustGone(q) : Len(k) <= Len(req'[q].route)
    /\ Answers(q, 503) =>
         \E k \in JustGone(q) : \A g \in Live(q) : Len(k) > Len(g)

\* No step breaks MostSpecificWinsStep.
MostSpecificWins == [][MostSpecificWinsStep]_vars
=============================================================================
