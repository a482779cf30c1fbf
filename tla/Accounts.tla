------------------------------ MODULE Accounts ------------------------------
(***************************************************************************)
(* The accounts several dashboards share through one Redis key             *)
(* (cmd/dashboard/auth.go, authredis.go, passkey.go): every change is a    *)
(* read and a conditional write of the whole list, every read is served    *)
(* from the copy a dashboard keeps in memory and on disk, and a loop       *)
(* brings that copy up to date or puts a lost key back.                    *)
(*                                                                         *)
(* An account is its name and its credentials; API tokens and passkeys     *)
(* change the list in the same way and are both credentials here.          *)
(***************************************************************************)
EXTENDS Naturals, Sequences, SequencesExt

CONSTANTS
  Host,        \* each runs a dashboard
  Account,     \* accounts an operator may confirm, each once
  Name,
  NameOf,      \* NameOf[a]: the user name of account a, several may share one
  Cred,        \* API tokens and passkeys, each made once
  Owner,       \* Owner[c]: the name of the user who makes credential c
  First,       \* the list of users at the start
  Request,     \* requests that change the list
  maxMutateRetries,
  MaxFaults    \* bound: calls that fail, crashes, and wipes of Redis

AccountsAssumption ==
  /\ NameOf \in [Account -> Name]
  /\ Owner \in [Cred -> Name]
  /\ maxMutateRetries \in Nat \ {0}
  /\ MaxFaults \in Nat

VARIABLES
  redis,    \* pmgr:auth:users, Absent or a list
  local,    \* local[h]: AuthStore.data.Users
  file,     \* file[h]: auth.json
  pending,  \* pending[h]: accounts that wait for their first code
  loop,     \* loop[h]: refreshLoop, and the startup sync before it
  lastRaw,  \* lastRaw[h]: what the loop adopted last
  req,      \* req[r]: what request r is doing
  spent,    \* accounts and credentials already made
  wipes, faults

copies == <<local, file>>
vars == <<redis, local, file, pending, loop, lastRaw, req, spent, wipes, faults>>

\* No key: a list no dashboard can have.
Absent == <<[acct |-> "none", creds |-> {}]>>

Down == [pc |-> "down", boot |-> FALSE, val |-> Absent, clean |-> FALSE]
Idle == [Down EXCEPT !.pc = "idle"]
NoRequest == [pc |-> "idle", host |-> "none", op |-> "none", arg |-> "none",
              name |-> "none", val |-> <<>>, clean |-> FALSE, tries |-> 0]

\* The request has its answer.
Ended(q, pc) == [q EXCEPT !.pc = pc, !.val = <<>>, !.clean = FALSE, !.tries = 0,
                          !.host = "none"]

Serving(h) == loop[h].pc # "down" /\ ~loop[h].boot

Creds(users) == UNION {users[i].creds : i \in DOMAIN users}

\* userIndex, findUser: the first entry with that name, 0 when none.
userIndex(users, name) ==
  LET at == {i \in DOMAIN users : NameOf[users[i].acct] = name}
  IN IF at = {} THEN 0 ELSE CHOOSE i \in at : \A j \in at : i <= j

\* The dashboards have started and adopted the shared list; one that joined
\* with an empty file still has it, since the startup sync writes no file.
Init ==
  /\ redis = First
  /\ local = [h \in Host |-> First]
  /\ file \in [Host -> {<<>>, First}]
  /\ pending = [h \in Host |-> {}]
  /\ loop = [h \in Host |-> Idle]
  /\ lastRaw = [h \in Host |-> Absent]
  /\ req = [r \in Request |-> NoRequest]
  /\ spent = {First[i].acct : i \in DOMAIN First} \cup Creds(First)
  /\ wipes = 0 /\ faults = 0

MayFail == faults + wipes < MaxFaults
Fault == MayFail /\ faults' = faults + 1

-----------------------------------------------------------------------------
(* The functions mutateUsers is called with: whether they refuse the list, *)
(* and the list they make of it                                            *)

\* ConfirmPending appends whatever is there; the others need their entry.
Refuses(q, users) ==
  LET i == userIndex(users, q.name) IN
  CASE q.op = "add" -> FALSE
    [] q.op = "mint" -> i = 0
    [] q.op = "remove" -> i = 0 \/ Len(users) <= 1
    [] OTHER -> i = 0 \/ q.arg \notin users[i].creds

Changed(q, users) ==
  LET i == userIndex(users, q.name) IN
  CASE q.op = "add" -> Append(users, [acct |-> q.arg, creds |-> {}])
    [] q.op = "mint" -> [users EXCEPT ![i].creds = @ \cup {q.arg}]
    [] q.op = "revoke" -> [users EXCEPT ![i].creds = @ \ {q.arg}]
    [] q.op = "remove" -> RemoveAt(users, i)

-----------------------------------------------------------------------------
(* Requests                                                                *)

\* BeginSetup on an empty store, BeginCreateUser by a principal of it: the
\* account waits, in place of another of that name. One that is cancelled or
\* expires (pendingTTL) is one that is never confirmed.
BeginUser(h, a) ==
  /\ Serving(h)
  /\ a \notin spent
  /\ userIndex(local[h], NameOf[a]) = 0
  /\ pending' = [pending EXCEPT ![h] =
                   {b \in @ : NameOf[b] # NameOf[a]} \cup {a}]
  /\ spent' = spent \cup {a}
  /\ UNCHANGED <<redis, copies, loop, lastRaw, req, wipes, faults>>

Asked(r, h, op, arg, name) ==
  req' = [req EXCEPT ![r] = [NoRequest EXCEPT !.pc = "read", !.host = h,
                                !.op = op, !.arg = arg, !.name = name]]

\* ConfirmPending with a good code: the account leaves pending at once.
ConfirmPending(r, h, a) ==
  /\ req[r].pc = "idle" /\ Serving(h)
  /\ a \in pending[h]
  /\ pending' = [pending EXCEPT ![h] = @ \ {a}]
  /\ Asked(r, h, "add", a, NameOf[a])
  /\ UNCHANGED <<redis, copies, loop, lastRaw, spent, wipes, faults>>

\* CreateToken and AddCredential, in a session of a user this host knows.
CreateCred(r, h, c) ==
  /\ req[r].pc = "idle" /\ Serving(h)
  /\ userIndex(local[h], Owner[c]) # 0
  /\ c \notin spent
  /\ spent' = spent \cup {c}
  /\ Asked(r, h, "mint", c, Owner[c])
  /\ UNCHANGED <<redis, copies, pending, loop, lastRaw, wipes, faults>>

\* DeleteToken and DeleteCredential of one the user is shown.
DeleteCred(r, h, c) ==
  /\ req[r].pc = "idle" /\ Serving(h)
  /\ userIndex(local[h], Owner[c]) # 0
  /\ c \in local[h][userIndex(local[h], Owner[c])].creds
  /\ Asked(r, h, "revoke", c, Owner[c])
  /\ UNCHANGED <<redis, copies, pending, loop, lastRaw, spent, wipes, faults>>

\* DeleteUser, by a principal that is not the user.
DeleteUser(r, h, n) ==
  /\ req[r].pc = "idle" /\ Serving(h)
  /\ \E i \in DOMAIN local[h] : NameOf[local[h][i].acct] # n
  /\ Asked(r, h, "remove", "none", n)
  /\ UNCHANGED <<redis, copies, pending, loop, lastRaw, spent, wipes, faults>>

-----------------------------------------------------------------------------
(* mutateUsers                                                             *)

\* localUsersCopy when the key is gone.
StartFrom(h) == IF redis = Absent THEN local[h] ELSE redis

\* WATCH, GET, and the function on what was read.
TxRead(r) ==
  /\ req[r].pc = "read"
  /\ LET users == StartFrom(req[r].host) IN
     req' = [req EXCEPT ![r] =
       IF Refuses(@, users) THEN Ended(@, "failed")
       ELSE [@ EXCEPT !.pc = "exec", !.val = Changed(req[r], users), !.clean = TRUE]]
  /\ UNCHANGED <<redis, copies, pending, loop, lastRaw, spent, wipes, faults>>

\* A write to the key fails every other transaction that watches it.
Spoiled(q) == [q EXCEPT !.clean = FALSE]
OthersSpoiled(r) == [s \in Request |-> IF s = r THEN req[s] ELSE Spoiled(req[s])]
LoopsSpoiled == [h \in Host |-> Spoiled(loop[h])]

\* Mutant: the write does not look whether the key has changed.
UnwatchedExec(r) ==
  /\ req[r].pc = "exec"
  /\ redis' = req[r].val
  /\ req' = [OthersSpoiled(r) EXCEPT ![r].pc = "apply"]
  /\ loop' = LoopsSpoiled
  /\ UNCHANGED <<copies, pending, lastRaw, spent, wipes, faults>>

\* EXEC: it lands when the key is as it was read, else another attempt.
TxExec(r) ==
  /\ req[r].pc = "exec"
  /\ IF req[r].clean
     THEN /\ redis' = req[r].val
          /\ req' = [OthersSpoiled(r) EXCEPT ![r].pc = "apply"]
          /\ loop' = LoopsSpoiled
     ELSE /\ req' = [req EXCEPT ![r] =
               IF @.tries + 1 < maxMutateRetries
               THEN [@ EXCEPT !.pc = "read", !.tries = @ + 1]
               ELSE Ended(@, "failed")]
          /\ UNCHANGED <<redis, loop>>
  /\ UNCHANGED <<copies, pending, lastRaw, spent, wipes, faults>>

\* A call to Redis fails; the EXEC may have landed and lost its answer.
TxFail(r) ==
  /\ req[r].pc \in {"read", "exec"}
  /\ Fault
  /\ \/ /\ req' = [req EXCEPT ![r] = Ended(@, "failed")]
        /\ UNCHANGED <<redis, loop>>
     \/ /\ req[r].pc = "exec" /\ req[r].clean
        /\ redis' = req[r].val
        /\ req' = [OthersSpoiled(r) EXCEPT ![r] = Ended(@, "failed")]
        /\ loop' = LoopsSpoiled
  /\ UNCHANGED <<copies, pending, lastRaw, spent, wipes>>

\* The write has landed: the copy in memory and on disk follow.
Apply(r) ==
  /\ req[r].pc = "apply"
  /\ local' = [local EXCEPT ![req[r].host] = req[r].val]
  /\ file' = [file EXCEPT ![req[r].host] = req[r].val]
  /\ req' = [req EXCEPT ![r] = Ended(@, "done")]
  /\ UNCHANGED <<redis, pending, loop, lastRaw, spent, wipes, faults>>

-----------------------------------------------------------------------------
(* refreshLoop and syncFromRedisOrImport                                   *)

\* A tick reads the key; one that finds the list it adopted last does
\* nothing, nor does one that finds no key and has no users to put there.
RefreshGet(h) ==
  /\ loop[h].pc = "idle"
  /\ IF redis = Absent THEN local[h] # <<>> ELSE redis # lastRaw[h]
  /\ loop' = [loop EXCEPT ![h] = [@ EXCEPT !.pc = "got", !.val = redis]]
  /\ UNCHANGED <<redis, copies, pending, lastRaw, req, spent, wipes, faults>>

\* A missing key is put back by a dashboard that has users; a list other
\* than the one adopted last replaces the copy and the file.
RefreshUse(h) ==
  /\ loop[h].pc = "got"
  /\ IF loop[h].val = Absent
     THEN /\ loop' = [loop EXCEPT ![h] =
                        IF local[h] = <<>> THEN Idle ELSE [Idle EXCEPT !.pc = "sync"]]
          /\ UNCHANGED <<copies, lastRaw>>
     ELSE /\ loop' = [loop EXCEPT ![h] = Idle]
          /\ local' = [local EXCEPT ![h] = loop[h].val]
          /\ file' = [file EXCEPT ![h] = loop[h].val]
          /\ lastRaw' = [lastRaw EXCEPT ![h] = loop[h].val]
  /\ UNCHANGED <<redis, pending, req, spent, wipes, faults>>

\* syncFromRedisOrImport: adopt what is there, in memory only, or prepare
\* to import the local list.
SyncRead(h) ==
  /\ loop[h].pc = "sync"
  /\ IF redis # Absent
     THEN /\ local' = [local EXCEPT ![h] = redis]
          /\ loop' = [loop EXCEPT ![h] = Idle]
     ELSE /\ loop' = [loop EXCEPT ![h] = [@ EXCEPT !.pc = "seed", !.val = local[h],
                                                   !.clean = TRUE]]
          /\ UNCHANGED local
  /\ UNCHANGED <<redis, file, pending, lastRaw, req, spent, wipes, faults>>

\* The import, unless someone was first: then read again.
SyncSeed(h) ==
  /\ loop[h].pc = "seed"
  /\ IF loop[h].clean
     THEN /\ redis' = loop[h].val
          /\ loop' = [LoopsSpoiled EXCEPT ![h] = Idle]
          /\ req' = [r \in Request |-> Spoiled(req[r])]
     ELSE /\ loop' = [loop EXCEPT ![h].pc = "sync"]
          /\ UNCHANGED <<redis, req>>
  /\ UNCHANGED <<copies, pending, lastRaw, spent, wipes, faults>>

\* Redis does not answer: the dashboard goes on with its own list.
SyncFail(h) ==
  /\ loop[h].pc \in {"sync", "seed"}
  /\ Fault
  /\ loop' = [loop EXCEPT ![h] = Idle]
  /\ UNCHANGED <<redis, copies, pending, lastRaw, req, spent, wipes>>

\* loadAuthStore, then the startup sync, before any request is served.
Start(h) ==
  /\ loop[h].pc = "down"
  /\ local' = [local EXCEPT ![h] = file[h]]
  /\ loop' = [loop EXCEPT ![h] = [Down EXCEPT !.pc = "sync", !.boot = TRUE]]
  /\ UNCHANGED <<redis, file, pending, lastRaw, req, spent, wipes, faults>>

Crash(h) ==
  /\ loop[h].pc # "down"
  /\ Fault
  /\ loop' = [loop EXCEPT ![h] = Down]
  /\ local' = [local EXCEPT ![h] = file[h]]
  /\ pending' = [pending EXCEPT ![h] = {}]
  /\ lastRaw' = [lastRaw EXCEPT ![h] = Absent]
  /\ req' = [r \in Request |->
               IF req[r].host = h /\ req[r].pc \in {"read", "exec", "apply"}
               THEN Ended(req[r], "failed") ELSE req[r]]
  /\ UNCHANGED <<redis, file, spent, wipes>>

\* Redis restarts empty.
Wipe ==
  /\ MayFail
  /\ redis # Absent
  /\ redis' = Absent
  /\ wipes' = wipes + 1
  /\ loop' = LoopsSpoiled
  /\ req' = [r \in Request |-> Spoiled(req[r])]
  /\ UNCHANGED <<copies, pending, lastRaw, spent, faults>>

-----------------------------------------------------------------------------
LoopStep(h) == \/ RefreshGet(h) \/ RefreshUse(h)
               \/ SyncRead(h) \/ SyncSeed(h) \/ Start(h)

Mutation(r) == TxRead(r) \/ TxExec(r) \/ Apply(r)

Next ==
  \/ \E h \in Host : LoopStep(h) \/ SyncFail(h) \/ Crash(h)
  \/ \E h \in Host, a \in Account : BeginUser(h, a)
  \/ \E r \in Request : Mutation(r) \/ TxFail(r)
  \/ \E r \in Request, h \in Host :
       \/ \E a \in Account : ConfirmPending(r, h, a)
       \/ \E n \in Name : DeleteUser(r, h, n)
       \/ \E c \in Cred : CreateCred(r, h, c) \/ DeleteCred(r, h, c)
  \/ Wipe

\* A started request is carried out, a dashboard is restarted and its loop
\* ticks.
Fairness ==
  /\ \A h \in Host : WF_vars(LoopStep(h))
  /\ \A r \in Request : WF_vars(Mutation(r))

Spec == Init /\ [][Next]_vars /\ Fairness

-----------------------------------------------------------------------------
(* Properties                                                              *)

InFlight(q) == q.pc \in {"read", "exec", "apply"}

\* Some request may take credentials out.
Unwanted ==
  \E r \in Request : InFlight(req[r]) /\ req[r].op \in {"revoke", "remove"}

\* Every list anybody may still write somewhere has credential c.
InEveryCopy(c) ==
  /\ redis # Absent => c \in Creds(redis)
  /\ \A h \in Host :
       /\ c \in Creds(local[h]) /\ c \in Creds(file[h])
       /\ loop[h].pc \in {"got", "seed"} /\ loop[h].val # Absent
            => c \in Creds(loop[h].val)
  /\ \A r \in Request : req[r].pc \in {"exec", "apply"} => c \in Creds(req[r].val)

\* What every dashboard knows is not lost: no wiped Redis, crash, failed
\* call or overlapping change takes a credential away that no one asked to
\* delete. mutateUsers starts from the local list when the key is gone, and
\* the loop puts that list back (auth.go mutateUsers, authredis.go
\* refreshLoop).
KeptEverywhereStep ==
  ~Unwanted => \A c \in Cred : InEveryCopy(c) => InEveryCopy(c)'

\* No step breaks KeptEverywhereStep.
KeptEverywhere == [][KeptEverywhereStep]_vars

\* While Redis keeps its key, an acknowledged change holds there whatever
\* other dashboards change at the same time: a deleted credential is gone, a
\* created one is there until someone deletes it (mutateUsers' conditional
\* write).
AcknowledgedHolds ==
  wipes = 0 =>
    \A r \in Request : req[r].pc = "done" =>
      /\ req[r].op = "revoke" => req[r].arg \notin Creds(redis)
      /\ (/\ req[r].op = "mint"
          /\ \A s \in Request : req[s].op \notin {"revoke", "remove"})
           => req[r].arg \in Creds(redis)

\* The last user cannot be deleted, not even by two dashboards that each
\* delete a different one: a list with users never becomes an empty list
\* (DeleteUser's guard, inside the conditional write).
NeverEmptiedStep ==
  redis # Absent /\ redis # <<>> => redis' # <<>>

\* No step breaks NeverEmptiedStep.
NeverEmptied == [][NeverEmptiedStep]_vars

=============================================================================
