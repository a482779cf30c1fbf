-------------------------------- MODULE OAuth --------------------------------
(***************************************************************************)
(* The OAuth server of the portal and the bearer gate of the proxy         *)
(* (cmd/auth/oauth.go, internal/sso/token.go, cmd/proxy/oauth.go). Codes,  *)
(* access tokens and refresh tokens are signed blobs nobody stores: what   *)
(* the portal remembers is only which codes and refresh tokens were used,  *)
(* in a bounded map that a restart empties.                                *)
(*                                                                         *)
(* A blob is its claims. The clock counts the seconds blobs expire in.     *)
(***************************************************************************)
EXTENDS Integers, FiniteSets

CONSTANTS
  User, Client,
  Group,        \* route groups in oauth mode
  Mounted,      \* those of them under a path prefix, sharing their host
  AuthUsers,    \* AuthUsers[g]: proxy.auth.users, empty for everyone
  Request,      \* concurrent requests to /oauth/token
  authCodeTTL, accessTTL, refreshTTL,
  maxUsedJTI,
  MaxTime,      \* bound: the last second
  MaxIds,       \* bound: codes and refresh tokens issued
  MaxConsents,  \* bound: different approvals
  MaxRestarts   \* bound: restarts of the portal

OAuthAssumption ==
  /\ authCodeTTL \in Nat /\ accessTTL \in Nat /\ refreshTTL \in Nat
  /\ maxUsedJTI \in Nat \ {0}
  /\ MaxTime \in Nat /\ MaxIds \in Nat

VARIABLES
  now,
  blobs,     \* the blobs clients hold, while they verify
  ids,       \* how many JTIs were drawn
  usedJTI,   \* the portal's map, JTI to its expiry
  req,       \* req[r]: a token request between its two looks at the clock
  redeemed,  \* history: redeemed[j]: pairs issued for it before its last second
  forgot,    \* history: JTIs that were dropped from the map
  consent,   \* history: what users approved, <<user, client, audience>>
  restarts

vars == <<now, blobs, ids, usedJTI, req, redeemed, forgot, consent, restarts>>

JTI == 1..MaxIds

\* What validateResource answers: the host with its cleaned path, or "*" when
\* the client names no resource.
Audience == Group \cup {"*"}

NoRequest == [pc |-> "idle", blob |-> 0, own |-> FALSE]

TypeOK ==
  /\ now \in 0..MaxTime
  /\ \A b \in blobs : /\ b.kind \in {"code", "access", "refresh"}
                      /\ b.user \in User /\ b.client \in Client
                      /\ b.aud \in Audience
  /\ DOMAIN usedJTI \subseteq JTI /\ forgot \subseteq JTI
  /\ Cardinality(DOMAIN usedJTI) <= maxUsedJTI

Init ==
  /\ now = 0
  /\ blobs = {}
  /\ ids = 0
  /\ usedJTI = [j \in {} |-> 0]
  /\ req = [r \in Request |-> NoRequest]
  /\ redeemed = [j \in JTI |-> 0]
  /\ forgot = {}
  /\ consent = {}
  /\ restarts = 0

-----------------------------------------------------------------------------
(* Signed blobs                                                            *)

\* expired: the second exp itself still verifies.
Verifies(b) == now <= b.exp

Blob(kind, u, c, aud, j, ttl) ==
  [kind |-> kind, user |-> u, client |-> c, aud |-> aud, jti |-> j, exp |-> now + ttl]

-----------------------------------------------------------------------------
(* The portal                                                              *)

\* authorizePOST: a user with a session of the portal (SignIn) approves, for
\* one resource or, when the client names none, for all of them.
Approve(u, c, aud) ==
  /\ ids < MaxIds
  /\ ids' = ids + 1
  /\ blobs' = blobs \cup {Blob("code", u, c, aud, ids + 1, authCodeTTL)}
  /\ consent' = consent \cup {<<u, c, aud>>}
  /\ Cardinality(consent') <= MaxConsents
  /\ UNCHANGED <<now, usedJTI, req, redeemed, forgot, restarts>>

\* handleToken: the blob verifies, and a refresh token comes with its own
\* client_id. own: so do client_id, redirect URI and verifier of a code.
Present(r, own, b) ==
  /\ req[r].pc = "idle"
  /\ b.kind \in {"code", "refresh"} /\ Verifies(b)
  /\ b.kind = "refresh" => own
  /\ req' = [req EXCEPT ![r] = [pc |-> "verified", blob |-> b, own |-> own]]
  /\ UNCHANGED <<now, blobs, ids, usedJTI, redeemed, forgot, consent, restarts>>

\* What the sweep at the limit leaves: until is the start of the second exp.
Swept == {j \in DOMAIN usedJTI : now < usedJTI[j]}

\* What stays in the map when one entry is added: all, or at the limit what
\* has not expired, or nothing when that is still too much.
KeptByLimit ==
  IF Cardinality(DOMAIN usedJTI) < maxUsedJTI THEN DOMAIN usedJTI
  ELSE IF Cardinality(Swept) < maxUsedJTI THEN Swept ELSE {}

\* Forgetting is history only when the whole map goes.
Lost == IF KeptByLimit = {} THEN Swept ELSE {}

\* markJTIUsed, when it answers true.
MarkJTIUsed(j, exp) ==
  /\ usedJTI' = [k \in KeptByLimit \cup {j} |-> IF k = j THEN exp ELSE usedJTI[k]]
  /\ forgot' = forgot \cup Lost

\* Mutant: an entry stops counting a second early.
UsedShort(j) == j \in DOMAIN usedJTI /\ now + 1 < usedJTI[j]

\* The refusal of markJTIUsed: the entry counts until the second exp begins.
Used(j) == j \in DOMAIN usedJTI /\ now < usedJTI[j]

\* issueTokens, from the claims of what was redeemed.
IssueTokens(b) ==
  /\ ids' = ids + 1
  /\ blobs' = blobs \cup {Blob("access", b.user, b.client, b.aud, 0, accessTTL),
                          Blob("refresh", b.user, b.client, b.aud, ids + 1, refreshTTL)}

\* The rest of tokenAuthCode and tokenRefresh: the JTI is burned first, then
\* the code's client, redirect and verifier are checked.
Redeem(r) ==
  LET b == req[r].blob IN
  /\ req[r].pc = "verified"
  /\ req' = [req EXCEPT ![r] = NoRequest]
  /\ IF Used(b.jti)
     THEN UNCHANGED <<blobs, ids, usedJTI, redeemed, forgot>>
     ELSE /\ MarkJTIUsed(b.jti, b.exp)
          /\ IF req[r].own
             THEN /\ ids < MaxIds
                  /\ IssueTokens(b)
                  /\ redeemed' = [redeemed EXCEPT ![b.jti] = IF now < b.exp THEN @ + 1 ELSE @]
             ELSE UNCHANGED <<blobs, ids, redeemed>>
  /\ UNCHANGED <<now, consent, restarts>>

\* The map is in memory only.
Restart ==
  /\ restarts < MaxRestarts
  /\ restarts' = restarts + 1
  /\ forgot' = forgot \cup DOMAIN usedJTI
  /\ usedJTI' = [j \in {} |-> 0]
  /\ req' = [r \in Request |-> NoRequest]
  /\ UNCHANGED <<now, blobs, ids, redeemed, consent>>

\* A request lasts less than a second, so it sees at most one tick. Blobs that
\* no longer verify are dropped.
Tick ==
  /\ now < MaxTime
  /\ \A r \in Request : req[r].pc = "verified" => Verifies(req[r].blob)
  /\ now' = now + 1
  /\ blobs' = {b \in blobs : now + 1 <= b.exp}
  /\ UNCHANGED <<ids, usedJTI, req, redeemed, forgot, consent, restarts>>

Next ==
  \/ \E u \in User, c \in Client, aud \in Audience : Approve(u, c, aud)
  \/ \E r \in Request, own \in BOOLEAN : \E b \in blobs : Present(r, own, b)
  \/ \E r \in Request : Redeem(r)
  \/ Restart
  \/ Tick

Spec == Init /\ [][Next]_vars

-----------------------------------------------------------------------------
(* The gate of the proxy                                                   *)

UserAllowed(g, u) == AuthUsers[g] = {} \/ u \in AuthUsers[g]

\* verifyOAuthBearer: a path-mounted route takes only its own audience.
AudienceOK(g, aud) == aud = g \/ (g \notin Mounted /\ aud = "*")

\* authorizeOAuth lets a request with access token b through.
Admits(g, b) ==
  /\ b.kind = "access" /\ Verifies(b)
  /\ AudienceOK(g, b.aud)
  /\ UserAllowed(g, b.user)

-----------------------------------------------------------------------------
(* Properties                                                              *)

\* Whatever chain of exchanges and refreshes led to it, a token opens a route
\* only if its user approved its client for that very route, or for all hosts
\* and the route is not path-mounted (verifyOAuthBearer's comment).
ConsentedOnly ==
  \A b \in blobs, g \in Group : Admits(g, b) =>
    \/ <<b.user, b.client, g>> \in consent
    \/ g \notin Mounted /\ <<b.user, b.client, "*">> \in consent

\* A code or refresh token yields one pair of tokens before its last second,
\* however many requests present it at once, as long as the portal has not
\* dropped its map (markJTIUsed).
SingleUse ==
  \A j \in JTI \ forgot : redeemed[j] <= 1

\* What a grant is good for: the two, with a map of used JTIs within its limit.
GrantsSound == TypeOK /\ ConsentedOnly /\ SingleUse
=============================================================================
