------------------------------- MODULE SignIn -------------------------------
(***************************************************************************)
(* The logins of the portal (cmd/auth): by password, by passkey and by API *)
(* token. The portal keeps passkeys and no accounts: each login asks the   *)
(* dashboard, over a call that takes time and may fail, and ends in a      *)
(* signed cookie that nobody can take back.                                *)
(*                                                                         *)
(* One dashboard and one cookie domain. Time is in units of callTime, the  *)
(* HTTP timeout of a call.                                                 *)
(***************************************************************************)
EXTENDS Integers, FiniteSets

CONSTANTS
  User, Token,
  TokenOwner,   \* TokenOwner[x]: a user, or Service for a service token
  Service,
  Enrolled,     \* users with a TOTP secret
  Call,         \* concurrent calls to the dashboard
  lifetime, ceremonyTTL, callTime,
  MaxTime       \* bound: the clock

SignInAssumption ==
  /\ {lifetime, ceremonyTTL, callTime, MaxTime} \subseteq Nat
  /\ Service \notin User /\ TokenOwner \in [Token -> User \cup {Service}]

VARIABLES
  now,
  users, tokens,   \* the dashboard's: accounts and API tokens
  passkeys,        \* users with a passkey in the portal's own store
  ceremony,        \* ceremony[kind]: a pending WebAuthn ceremony, by what it is for
  cookie,          \* cookie[u]: expiry of the latest cookie signed for u
  call,            \* call[q]: a call and what the dashboard answered
  gone             \* history: gone[u]: when the account was deleted

vars == <<now, users, tokens, passkeys, ceremony, cookie, call, gone>>

Never == -1
Idle == [pc |-> "idle", for |-> "none", arg |-> Service, code |-> FALSE, at |-> 0, ok |-> FALSE]
NoCeremony == [user |-> Service, expires |-> Never]

Init ==
  /\ now = 0
  /\ users = User /\ tokens = Token
  /\ passkeys = {}
  /\ ceremony = [k \in {"register", "login"} |-> NoCeremony]
  /\ cookie = [u \in User |-> Never]
  /\ call = [q \in Call |-> Idle]
  /\ gone = [u \in User |-> Never]

-----------------------------------------------------------------------------
(* The dashboard                                                           *)

\* AuthStore.DeleteUser: an account takes its tokens with it, but not the
\* passkeys of the portal.
DeleteUser(u) ==
  /\ u \in users
  /\ users' = users \ {u}
  /\ tokens' = {x \in tokens : TokenOwner[x] # u}
  /\ gone' = [gone EXCEPT ![u] = now]
  /\ UNCHANGED <<now, passkeys, ceremony, cookie, call>>

\* /api/auth/login with the right password: enrolled users need their code too.
VerifyPassword(c) == c.arg \in users /\ (c.arg \in Enrolled => c.code)

\* Mutant: a passkey is its own proof that there is an account.
ExistsSkipped(c) == TRUE

\* /api/auth/user-exists.
Exists(c) == c.arg \in users

\* /api/auth/verify-token: a token of a person is elevated, a service token is not.
verifyTokenKind(c) == c.arg \in tokens /\ TokenOwner[c.arg] # Service

\* The dashboard's answer, or none within the timeout: unreachable, 429, or
\* a body the caller cannot read. Every caller takes that for a refusal.
Answer(q, up) ==
  /\ call[q].pc = "asked"
  /\ call' = [call EXCEPT
       ![q].pc = "answered",
       ![q].ok = up /\ CASE call[q].for = "password" -> VerifyPassword(call[q])
                         [] call[q].for = "passkey"  -> Exists(call[q])
                         [] call[q].for = "token"    -> verifyTokenKind(call[q])]
  /\ UNCHANGED <<now, users, tokens, passkeys, ceremony, cookie, gone>>

-----------------------------------------------------------------------------
(* The portal                                                              *)

Ask(q, for, arg, code) ==
  /\ call[q].pc = "idle"
  /\ call' = [call EXCEPT ![q] =
       [pc |-> "asked", for |-> for, arg |-> arg, code |-> code, at |-> now, ok |-> FALSE]]

\* doLogin up to its POST, for a form of the login page itself.
PasswordLogin(q, u, code) ==
  /\ Ask(q, "password", u, code)
  /\ UNCHANGED <<now, users, tokens, passkeys, ceremony, cookie, gone>>

\* handleTokenLogin up to its POST.
TokenLogin(q, x) ==
  /\ Ask(q, "token", x, FALSE)
  /\ UNCHANGED <<now, users, tokens, passkeys, ceremony, cookie, gone>>

\* ssoUser: the browser holds a cookie that verifies, which does not ask
\* whether there still is an account.
SignedIn(u) == cookie[u] # Never

\* /passkey/register/begin and /passkey/login/begin: PutCeremony. A login names
\* no user.
PutCeremony(kind, u) ==
  /\ kind = "register" => SignedIn(u)
  /\ ceremony' = [ceremony EXCEPT ![kind] = [user |-> u, expires |-> now + ceremonyTTL]]
  /\ UNCHANGED <<now, users, tokens, passkeys, cookie, call, gone>>

\* PopCeremony: whatever comes of it, a ceremony is used once.
PopCeremony(kind) ==
  /\ ceremony[kind] # NoCeremony
  /\ ceremony' = [ceremony EXCEPT ![kind] = NoCeremony]

\* /passkey/register/finish, by the user who began it and is signed in still.
RegisterFinish ==
  LET u == ceremony["register"].user IN
  /\ PopCeremony("register")
  /\ SignedIn(u)
  /\ passkeys' = passkeys \cup {u}
  /\ UNCHANGED <<now, users, tokens, cookie, call, gone>>

\* /passkey/login/finish up to userExists, with a passkey of u; with none in
\* the store the ceremony is gone all the same.
PasskeyFinish(q, u) ==
  /\ PopCeremony("login")
  /\ IF u \in passkeys THEN Ask(q, "passkey", u, FALSE) ELSE UNCHANGED call
  /\ UNCHANGED <<now, users, tokens, passkeys, cookie, gone>>

\* /passkeys/item: the store's Delete.
PasskeyDelete(u) ==
  /\ SignedIn(u) /\ u \in passkeys
  /\ passkeys' = passkeys \ {u}
  /\ UNCHANGED <<now, users, tokens, ceremony, cookie, call, gone>>

\* The end of the three logins: sign a cookie for lifetime from now, or refuse.
Mint(q) ==
  LET c == call[q]
      u == IF c.for = "token" THEN TokenOwner[c.arg] ELSE c.arg IN
  /\ c.pc = "answered"
  /\ cookie' = IF c.ok THEN [cookie EXCEPT ![u] = now + lifetime] ELSE cookie
  /\ call' = [call EXCEPT ![q] = Idle]
  /\ UNCHANGED <<now, users, tokens, passkeys, ceremony, gone>>

\* A call ends within callTime of its start. A cookie or a ceremony that has
\* expired is as good as none.
Tick ==
  /\ now < MaxTime
  /\ \A q \in Call : call[q].pc # "idle" => now < call[q].at + callTime
  /\ now' = now + 1
  /\ cookie' = [u \in User |-> IF now + 1 <= cookie[u] THEN cookie[u] ELSE Never]
  /\ ceremony' = [k \in DOMAIN ceremony |->
                    IF now + 1 <= ceremony[k].expires THEN ceremony[k] ELSE NoCeremony]
  /\ UNCHANGED <<users, tokens, passkeys, call, gone>>

Next ==
  \/ \E u \in User : DeleteUser(u) \/ PasskeyDelete(u) \/ PutCeremony("register", u)
  \/ \E q \in Call : \/ \E up \in BOOLEAN : Answer(q, up)
                     \/ \E u \in User, code \in BOOLEAN : PasswordLogin(q, u, code)
                     \/ \E x \in Token : TokenLogin(q, x)
                     \/ \E u \in User : PasskeyFinish(q, u)
                     \/ Mint(q)
  \/ PutCeremony("login", Service)
  \/ RegisterFinish
  \/ Tick

Spec == Init /\ [][Next]_vars

-----------------------------------------------------------------------------
(* Properties                                                              *)

\* No login signs in an account that is gone: its last cookie comes from a
\* call that was answered before the account was deleted, also when its
\* passkey is still in the portal's store ("a passkey must not outlive its
\* account", cmd/dashboard/api.go).
SessionNeedsAccount ==
  \A u \in User \ users : cookie[u] <= gone[u] + callTime + lifetime
=============================================================================
