---------------------------- MODULE PortalProofs ----------------------------
(***************************************************************************)
(* What the tokens (OAuth.tla) and the cookies (SignIn.tla) of the portal  *)
(* are good for, and what the proxy's gate makes of a deleted API token    *)
(* (BearerGate.tla), for all users, clients and routes, any number of      *)
(* requests at once, and maps of used JTIs and of tokens of any size.      *)
(***************************************************************************)
EXTENDS OAuth, FiniteSetTheorems, TLAPS

\* The logins, with the parameters and the state they do not share with OAuth.
CONSTANTS Token, TokenOwner, Service, Enrolled, Call, lifetime, ceremonyTTL, callTime
VARIABLES users, tokens, passkeys, ceremony, cookie, call, gone

Login == INSTANCE SignIn

\* The gate, whose requests wait for the dashboard, and when a token was deleted.
CONSTANTS Allowed, bearerPositiveTTL, bearerNegativeTTL, maxBearerCache
VARIABLES bearers, ask, deleted

Gate == INSTANCE BearerGate WITH req <- ask, gone <- deleted

-----------------------------------------------------------------------------
(* The inductive invariant                                                 *)

Blobs == [kind: {"code", "access", "refresh"}, user: User, client: Client,
          aud: Audience, jti: 0..MaxIds, exp: Nat]

Verified == [pc: {"verified"}, blob: Blobs, own: BOOLEAN]

\* The blobs clients hold, and the ones requests have presented.
Held == blobs \cup {req[r].blob : r \in {q \in Request : req[q].pc = "verified"}}

\* Only codes and refresh tokens are redeemed.
Redeemable(b) == b.kind # "access"

Typed ==
  /\ now \in 0..MaxTime /\ ids \in 0..MaxIds
  /\ blobs \subseteq Blobs
  /\ req \in [Request -> {NoRequest} \cup Verified]
  /\ redeemed \in [JTI -> Nat]
  /\ forgot \subseteq JTI
  /\ DOMAIN usedJTI \subseteq JTI
  /\ \A j \in DOMAIN usedJTI : usedJTI[j] \in Nat

\* Every blob, of whatever generation, goes back to an approval.
Consented == \A b \in Held : <<b.user, b.client, b.aud>> \in consent

\* JTIs are drawn in order, none redeemed before it is drawn, and a request
\* that was verified presented a code or a refresh token.
Drawn ==
  /\ \A b \in Held : Redeemable(b) => b.jti \in 1..ids
  /\ \A j \in JTI : redeemed[j] > 0 => j <= ids
  /\ \A r \in Request : req[r].pc = "verified" => Redeemable(req[r].blob)

\* A JTI has one expiry, in whichever blobs it stands.
OneExpiry ==
  \A b, d \in Held : Redeemable(b) /\ Redeemable(d) /\ b.jti = d.jti => b.exp = d.exp

\* What was redeemed and is not in its last second is in the map, until its
\* expiry, or was dropped with the whole map.
Remembered ==
  \A b \in Held :
    (Redeemable(b) /\ b.jti \notin forgot /\ redeemed[b.jti] > 0 /\ now < b.exp)
      => (b.jti \in DOMAIN usedJTI /\ usedJTI[b.jti] = b.exp)

\* The map is a finite one within its limit.
Limited == IsFiniteSet(DOMAIN usedJTI) /\ Cardinality(DOMAIN usedJTI) <= maxUsedJTI

Inv == Typed /\ Consented /\ Drawn /\ OneExpiry /\ Remembered /\ SingleUse /\ Limited

\* What Typed says of the blobs of requests.
LEMMA HeldTyped ==
  ASSUME Typed
  PROVE  /\ Held \subseteq Blobs
         /\ \A r \in Request : req[r].pc = "verified" =>
              req[r].blob \in Held /\ req[r].own \in BOOLEAN
BY DEF Typed, Held, Verified, NoRequest

LEMMA InitInv ==
  ASSUME OAuthAssumption, Init
  PROVE  Inv
<1>1. Held = {} /\ DOMAIN usedJTI = {}
  BY DEF Init, Held, NoRequest
<1>2. Typed
  BY DEF Init, Typed, OAuthAssumption
<1>3. Limited
  BY <1>1, FS_EmptySet DEF Limited, OAuthAssumption
<1>4. \A j \in JTI : redeemed[j] = 0
  BY DEF Init
<1>5. \A r \in Request : req[r].pc # "verified"
  BY DEF Init, NoRequest
<1>. QED
  BY <1>1, <1>2, <1>3, <1>4, <1>5
  DEF Inv, Consented, Drawn, OneExpiry, Remembered, SingleUse

-----------------------------------------------------------------------------
(* The map of used JTIs                                                    *)

\* Adding an entry never takes the map beyond its limit.
LEMMA KeptBounded ==
  ASSUME OAuthAssumption, Limited, NEW j
  PROVE  /\ KeptByLimit \subseteq DOMAIN usedJTI
         /\ IsFiniteSet(KeptByLimit \cup {j})
         /\ Cardinality(KeptByLimit \cup {j}) <= maxUsedJTI
<1>1. KeptByLimit \subseteq DOMAIN usedJTI
  BY DEF KeptByLimit, Swept
<1>2. IsFiniteSet(KeptByLimit)
  BY <1>1, FS_Subset DEF Limited
<1>3. Cardinality(KeptByLimit) < maxUsedJTI
  <2>1. Cardinality({}) = 0
    BY FS_EmptySet
  <2>. QED  BY <2>1 DEF KeptByLimit, OAuthAssumption
<1>4. /\ IsFiniteSet(KeptByLimit \cup {j})
      /\ \/ Cardinality(KeptByLimit \cup {j}) = Cardinality(KeptByLimit)
         \/ Cardinality(KeptByLimit \cup {j}) = Cardinality(KeptByLimit) + 1
  BY <1>2, FS_AddElement
<1>5. Cardinality(KeptByLimit) \in Nat
  BY <1>2, FS_CardinalityType
<1>. QED
  BY <1>1, <1>3, <1>4, <1>5 DEF OAuthAssumption

\* An entry the map loses was no longer counting, or goes into the history.
LEMMA ForgottenOrExpired ==
  ASSUME NEW k \in DOMAIN usedJTI, k \notin KeptByLimit, k \notin Lost
  PROVE  ~(now < usedJTI[k])
BY DEF KeptByLimit, Lost, Swept

-----------------------------------------------------------------------------
(* The steps                                                               *)

LEMMA ApproveKeeps ==
  ASSUME OAuthAssumption, Inv,
         NEW u \in User, NEW c \in Client, NEW aud \in Audience, Approve(u, c, aud)
  PROVE  Inv'
<1>. DEFINE code == Blob("code", u, c, aud, ids + 1, authCodeTTL)
<1>1. /\ ids < MaxIds /\ ids' = ids + 1
      /\ blobs' = blobs \cup {code}
      /\ consent' = consent \cup {<<u, c, aud>>}
      /\ UNCHANGED <<now, usedJTI, req, redeemed, forgot, restarts>>
  BY DEF Approve
<1>2. /\ code \in Blobs /\ Redeemable(code) /\ code.jti = ids + 1
      /\ code.user = u /\ code.client = c /\ code.aud = aud
  BY <1>1 DEF Blob, Blobs, Redeemable, Inv, Typed, OAuthAssumption
<1>. HIDE DEF code
<1>3. Held' = Held \cup {code}
  BY <1>1 DEF Held
<1>4. ids \in Nat
  BY DEF Inv, Typed
<1>5. Typed'
  BY <1>1, <1>2, <1>4 DEF Inv, Typed, OAuthAssumption, JTI
<1>6. Consented'
  BY <1>1, <1>2, <1>3 DEF Inv, Consented
<1>7. Drawn'
  BY <1>1, <1>2, <1>3, <1>4 DEF Inv, Typed, Drawn, Redeemable, JTI
<1>8. \A b \in Held : Redeemable(b) => b.jti # code.jti
  BY <1>2, <1>4 DEF Inv, Drawn
<1>9. OneExpiry'
  BY <1>2, <1>3, <1>8 DEF Inv, OneExpiry, Redeemable
<1>10. Remembered'
  <2>1. redeemed[ids + 1] = 0
    <3>1. ids + 1 \in JTI /\ ~(ids + 1 <= ids)
      BY <1>1, <1>4 DEF JTI, OAuthAssumption
    <3>2. ~(redeemed[ids + 1] > 0) /\ redeemed[ids + 1] \in Nat
      BY <3>1 DEF Inv, Drawn, Typed
    <3>. QED  BY <3>2
  <2>. QED  BY <1>1, <1>2, <1>3, <2>1 DEF Inv, Remembered, Redeemable
<1>. QED
  BY <1>1, <1>5, <1>6, <1>7, <1>9, <1>10 DEF Inv, SingleUse, Limited, JTI

\* A step that presents no blob but one already held, draws no JTI and leaves
\* the map alone.
LEMMA HeldShrinks ==
  ASSUME Inv, Typed', Held' \subseteq Held, ids' = ids, redeemed' = redeemed,
         consent' = consent, forgot \subseteq forgot', now <= now',
         \A k \in DOMAIN usedJTI : k \in forgot' \/ (k \in DOMAIN usedJTI' /\ usedJTI'[k] = usedJTI[k]),
         \A r \in Request : req'[r].pc = "verified" => Redeemable(req'[r].blob),
         Limited'
  PROVE  Inv'
<1>1. Consented'
  BY DEF Inv, Consented
<1>2. Drawn'
  BY DEF Inv, Drawn, Redeemable
<1>3. OneExpiry'
  BY DEF Inv, OneExpiry, Redeemable
<1>4. Remembered'
  <2>. SUFFICES ASSUME NEW b \in Held', Redeemable(b), b.jti \notin forgot',
                       redeemed'[b.jti] > 0, now' < b.exp
                PROVE  b.jti \in DOMAIN usedJTI' /\ usedJTI'[b.jti] = b.exp
    BY DEF Remembered, Redeemable
  <2>1. now < b.exp
    <3>1. b \in Blobs
      BY HeldTyped DEF Inv
    <3>. QED  BY <3>1 DEF Inv, Typed, Blobs
  <2>. QED  BY <2>1 DEF Inv, Remembered
<1>5. SingleUse'
  BY DEF Inv, SingleUse, JTI
<1>. QED  BY <1>1, <1>2, <1>3, <1>4, <1>5 DEF Inv

LEMMA PresentKeeps ==
  ASSUME Inv, NEW r \in Request, NEW own \in BOOLEAN, NEW b \in blobs, Present(r, own, b)
  PROVE  Inv'
<1>. DEFINE s == [pc |-> "verified", blob |-> b, own |-> own]
<1>1. /\ req' = [req EXCEPT ![r] = s] /\ Redeemable(b)
      /\ UNCHANGED <<now, blobs, ids, usedJTI, redeemed, forgot, consent, restarts>>
  BY DEF Present, Redeemable
<1>2. s \in Verified /\ s.pc = "verified" /\ s.blob = b
  BY DEF Verified, Inv, Typed
<1>. HIDE DEF s
<1>3. Typed'
  BY <1>1, <1>2 DEF Inv, Typed
<1>4. Held' \subseteq Held
  BY <1>1, <1>2 DEF Held, Inv, Typed
<1>5. \A q \in Request : req'[q].pc = "verified" => Redeemable(req'[q].blob)
  BY <1>1, <1>2 DEF Inv, Drawn, Typed
<1>6. Limited' /\ now <= now'
  BY <1>1 DEF Inv, Limited, Typed
<1>. QED  BY <1>1, <1>3, <1>4, <1>5, <1>6, HeldShrinks

LEMMA RestartKeeps ==
  ASSUME OAuthAssumption, Inv, Restart
  PROVE  Inv'
<1>1. /\ forgot' = forgot \cup DOMAIN usedJTI
      /\ usedJTI' = [j \in {} |-> 0]
      /\ req' = [r \in Request |-> NoRequest]
      /\ UNCHANGED <<now, blobs, ids, redeemed, consent>>
  BY DEF Restart
<1>2. Typed'
  BY <1>1 DEF Inv, Typed, JTI
<1>3. Held' \subseteq Held /\ \A q \in Request : req'[q].pc # "verified"
  BY <1>1 DEF Held, NoRequest
<1>4. Limited'
  <2>1. DOMAIN usedJTI' = {}
    BY <1>1
  <2>. QED  BY <2>1, FS_EmptySet DEF Limited, OAuthAssumption
<1>5. now <= now'
  BY <1>1 DEF Inv, Typed
<1>. QED  BY <1>1, <1>2, <1>3, <1>4, <1>5, HeldShrinks

LEMMA TickKeeps ==
  ASSUME OAuthAssumption, Inv, Tick
  PROVE  Inv'
<1>1. /\ now < MaxTime /\ now' = now + 1
      /\ blobs' = {b \in blobs : now + 1 <= b.exp}
      /\ UNCHANGED <<ids, usedJTI, req, redeemed, forgot, consent, restarts>>
  BY DEF Tick
<1>2. Typed' /\ now <= now'
  BY <1>1 DEF Inv, Typed, OAuthAssumption
<1>3. Held' \subseteq Held
  BY <1>1 DEF Held
<1>4. Limited'
  BY <1>1 DEF Inv, Limited
<1>5. \A q \in Request : req'[q].pc = "verified" => Redeemable(req'[q].blob)
  BY <1>1 DEF Inv, Drawn
<1>. QED  BY <1>1, <1>2, <1>3, <1>4, <1>5, HeldShrinks

\* The heart of SingleUse: of the requests that present one blob, the first to
\* take the lock burns its JTI, and the entry outlives every later one.
LEMMA RedeemKeeps ==
  ASSUME OAuthAssumption, Inv, NEW r \in Request, Redeem(r)
  PROVE  Inv'
<1>. DEFINE b == req[r].blob
            j == b.jti
<1>0. /\ Typed /\ Consented /\ Drawn /\ OneExpiry /\ Remembered /\ SingleUse /\ Limited
      /\ now \in Nat /\ ids \in Nat
  BY DEF Inv, Typed
<1>1. /\ req[r].pc = "verified" /\ req' = [req EXCEPT ![r] = NoRequest]
      /\ UNCHANGED <<now, consent, restarts>>
  BY DEF Redeem
<1>2. b \in Held /\ b \in Blobs /\ Redeemable(b) /\ req[r].own \in BOOLEAN
  BY <1>0, <1>1, HeldTyped DEF Drawn
<1>3. j \in 1..ids /\ j \in JTI /\ b.exp \in Nat
  BY <1>0, <1>2 DEF Drawn, Typed, Blobs, JTI
<1>4. /\ NoRequest.pc # "verified" /\ \A q \in Request \ {r} : req'[q] = req[q]
      /\ req'[r] = NoRequest /\ req' \in [Request -> {NoRequest} \cup Verified]
  BY <1>0, <1>1 DEF Typed, NoRequest
<1>5. \A q \in Request : req'[q].pc = "verified" => Redeemable(req'[q].blob)
  BY <1>0, <1>4 DEF Drawn
<1>6. ASSUME blobs' = blobs PROVE Held' \subseteq Held
  BY <1>4, <1>6 DEF Held
<1>7. CASE Used(j)
  <2>1. UNCHANGED <<blobs, ids, usedJTI, redeemed, forgot>>
    BY <1>7 DEF Redeem
  <2>2. Typed' /\ Limited' /\ now <= now'
    BY <1>0, <1>1, <1>4, <2>1 DEF Typed, Limited
  <2>. QED  BY <1>1, <1>5, <1>6, <2>1, <2>2, HeldShrinks
<1>8. CASE ~Used(j)
  <2>1. /\ usedJTI' = [k \in KeptByLimit \cup {j} |-> IF k = j THEN b.exp ELSE usedJTI[k]]
        /\ forgot' = forgot \cup Lost
    BY <1>8 DEF Redeem, MarkJTIUsed
  <2>2. KeptByLimit \subseteq DOMAIN usedJTI /\ Lost \subseteq DOMAIN usedJTI
    BY DEF KeptByLimit, Lost, Swept
  <2>3. /\ DOMAIN usedJTI' \subseteq JTI /\ forgot' \subseteq JTI
        /\ \A k \in DOMAIN usedJTI' : usedJTI'[k] \in Nat
    BY <1>0, <1>3, <2>1, <2>2 DEF Typed
  <2>4. Limited'
    BY <1>0, <2>1, KeptBounded DEF Limited
  <2>5. \A k \in DOMAIN usedJTI : k # j =>
          k \in forgot' \/ ~(now < usedJTI[k]) \/ (k \in DOMAIN usedJTI' /\ usedJTI'[k] = usedJTI[k])
    BY <2>1, ForgottenOrExpired
  <2>6. ASSUME NEW d \in Held, Redeemable(d), d.jti \notin forgot', now < d.exp,
               d.jti = j \/ redeemed[d.jti] > 0
        PROVE  d.jti \in DOMAIN usedJTI' /\ usedJTI'[d.jti] = d.exp
    <3>1. CASE d.jti = j
      BY <1>0, <1>2, <2>1, <2>6, <3>1 DEF OneExpiry
    <3>2. CASE d.jti # j
      <4>1. d.jti \in DOMAIN usedJTI /\ usedJTI[d.jti] = d.exp
        BY <1>0, <2>1, <2>6, <3>2 DEF Remembered
      <4>. QED  BY <2>5, <2>6, <3>2, <4>1
    <3>. QED  BY <3>1, <3>2
  <2>7. ASSUME j \notin forgot, now < b.exp PROVE redeemed[j] = 0
    <3>1. ~(redeemed[j] > 0)
      BY <1>0, <1>2, <1>8, <2>7 DEF Remembered, Used
    <3>. QED  BY <1>0, <1>3, <3>1 DEF Typed
  <2>8. CASE ~req[r].own
    <3>1. UNCHANGED <<blobs, ids, redeemed>>
      BY <1>8, <2>8 DEF Redeem
    <3>2. Typed'
      BY <1>0, <1>1, <1>4, <2>3, <3>1 DEF Typed, JTI
    <3>3. Held' \subseteq Held
      BY <1>6, <3>1
    <3>4. Consented' /\ OneExpiry'
      BY <1>0, <1>1, <3>3 DEF Consented, OneExpiry, Redeemable
    <3>5. Drawn'
      BY <1>0, <1>5, <3>1, <3>3 DEF Drawn, JTI, Redeemable
    <3>6. Remembered'
      BY <1>1, <2>6, <3>1, <3>3 DEF Remembered, Redeemable
    <3>7. SingleUse'
      BY <1>0, <2>1, <3>1 DEF SingleUse, JTI
    <3>. QED  BY <2>4, <3>2, <3>4, <3>5, <3>6, <3>7 DEF Inv
  <2>9. CASE req[r].own
    <3>. DEFINE access == Blob("access", b.user, b.client, b.aud, 0, accessTTL)
                refresh == Blob("refresh", b.user, b.client, b.aud, ids + 1, refreshTTL)
                more == IF now < b.exp THEN redeemed[j] + 1 ELSE redeemed[j]
    <3>1. /\ ids < MaxIds /\ ids' = ids + 1
          /\ blobs' = blobs \cup {access, refresh}
          /\ redeemed' = [redeemed EXCEPT ![j] = more]
      BY <1>8, <2>9 DEF Redeem, IssueTokens
    <3>2. /\ access \in Blobs /\ ~Redeemable(access)
          /\ access.user = b.user /\ access.client = b.client /\ access.aud = b.aud
      BY <1>0, <1>2 DEF Blob, Blobs, Redeemable, OAuthAssumption
    <3>3. /\ refresh \in Blobs /\ Redeemable(refresh) /\ refresh.jti = ids + 1
          /\ refresh.user = b.user /\ refresh.client = b.client /\ refresh.aud = b.aud
      BY <1>0, <1>2, <3>1 DEF Blob, Blobs, Redeemable, OAuthAssumption
    <3>. HIDE DEF access, refresh
    <3>4. Held' \subseteq Held \cup {access, refresh}
      BY <1>4, <3>1 DEF Held
    <3>5. ids + 1 \in JTI /\ ids + 1 # j /\ redeemed[ids + 1] = 0
      <4>1. ids + 1 \in JTI /\ ~(ids + 1 <= ids) /\ ids + 1 # j
        BY <1>0, <1>3, <3>1 DEF JTI, OAuthAssumption
      <4>2. ~(redeemed[ids + 1] > 0) /\ redeemed[ids + 1] \in Nat
        BY <1>0, <4>1 DEF Drawn, Typed
      <4>. QED  BY <4>1, <4>2
    <3>6. more \in Nat /\ redeemed[j] \in Nat /\ (more = redeemed[j] \/ (now < b.exp /\ more = redeemed[j] + 1))
      BY <1>0, <1>3 DEF Typed
    <3>. HIDE DEF more
    <3>7. /\ redeemed' \in [JTI -> Nat]
          /\ redeemed'[j] = more /\ \A k \in JTI : k # j => redeemed'[k] = redeemed[k]
      BY <1>0, <1>3, <3>1, <3>6 DEF Typed
    <3>8. Typed'
      BY <1>0, <1>1, <1>4, <2>3, <3>1, <3>2, <3>3, <3>5, <3>7 DEF Typed, JTI
    <3>9. Consented'
      BY <1>0, <1>1, <1>2, <3>2, <3>3, <3>4 DEF Consented
    <3>10. Drawn'
      <4>1. \A d \in Held' : Redeemable(d) => d.jti \in 1..ids'
        BY <1>0, <3>1, <3>2, <3>3, <3>4 DEF Drawn
      <4>2. \A k \in JTI : redeemed'[k] > 0 => k <= ids'
        BY <1>0, <1>3, <3>1, <3>7 DEF Drawn, JTI
      <4>. QED  BY <1>5, <4>1, <4>2 DEF Drawn, JTI, Redeemable
    <3>11. \A d \in Held : Redeemable(d) => d.jti # refresh.jti
      BY <1>0, <3>3 DEF Drawn
    <3>12. OneExpiry'
      BY <1>0, <3>2, <3>3, <3>4, <3>11 DEF OneExpiry, Redeemable
    <3>13. Remembered'
      <4>. SUFFICES ASSUME NEW d \in Held', Redeemable(d), d.jti \notin forgot',
                           redeemed'[d.jti] > 0, now' < d.exp
                    PROVE  d.jti \in DOMAIN usedJTI' /\ usedJTI'[d.jti] = d.exp
        BY DEF Remembered, Redeemable
      <4>1. d # access
        BY <3>2
      <4>2. d # refresh
        BY <3>3, <3>5, <3>7
      <4>3. d \in Held
        BY <3>4, <4>1, <4>2
      <4>4. d.jti \in JTI
        <5>1. d.jti \in 1..ids
          BY <1>0, <4>3 DEF Drawn
        <5>. QED  BY <1>0, <5>1 DEF Typed, JTI, OAuthAssumption
      <4>5. d.jti = j \/ redeemed[d.jti] > 0
        BY <3>7, <4>4
      <4>. QED  BY <1>1, <2>6, <4>3, <4>5
    <3>14. SingleUse'
      <4>. SUFFICES ASSUME NEW k \in JTI, k \notin forgot' PROVE redeemed'[k] <= 1
        BY DEF SingleUse, JTI
      <4>1. CASE k # j
        BY <1>0, <2>1, <3>7, <4>1 DEF SingleUse
      <4>2. CASE k = j
        <5>1. j \notin forgot /\ redeemed[j] <= 1
          BY <1>0, <2>1, <4>2 DEF SingleUse
        <5>. QED  BY <2>7, <3>6, <3>7, <4>2, <5>1
      <4>. QED  BY <4>1, <4>2
    <3>. QED  BY <2>4, <3>8, <3>9, <3>10, <3>12, <3>13, <3>14 DEF Inv
  <2>. QED  BY <1>2, <2>8, <2>9
<1>. QED  BY <1>7, <1>8

LEMMA OAuthInductive ==
  ASSUME OAuthAssumption
  PROVE  Spec => []Inv
<1>1. Init => Inv
  BY InitInv
<1>2. Inv /\ [Next]_vars => Inv'
  <2>. SUFFICES ASSUME Inv, [Next]_vars PROVE Inv'
    OBVIOUS
  <2>1. CASE UNCHANGED vars
    <3>1. Held' = Held
      BY <2>1 DEF vars, Held
    <3>. QED
      BY <2>1, <3>1 DEF vars, Inv, Typed, Consented, Drawn, OneExpiry, Remembered,
                        SingleUse, Limited, JTI, Redeemable
  <2>. QED
    BY <2>1, ApproveKeeps, PresentKeeps, RedeemKeeps, RestartKeeps, TickKeeps DEF Next
<1>. QED  BY <1>1, <1>2, PTL DEF Spec

-----------------------------------------------------------------------------
(* The theorems                                                            *)

\* However a token came about, through any chain of exchanges and refreshes by
\* any number of requests, it opens a route only if its user approved its
\* client for that route, or for all hosts when it is not path-mounted
\* (tokenAuthCode, tokenRefresh, verifyOAuthBearer).
THEOREM TokensNeedConsent ==
  ASSUME OAuthAssumption
  PROVE  Spec => []ConsentedOnly
<1>1. Inv => ConsentedOnly
  BY DEF Inv, Consented, Held, ConsentedOnly, Admits, AudienceOK
<1>. QED  BY <1>1, OAuthInductive, PTL

\* A code or refresh token yields one pair of tokens before its last second,
\* however many requests race for it and however small the map is, unless a
\* restart or the limit dropped the whole map (markJTIUsed).
THEOREM RedeemedOnce ==
  ASSUME OAuthAssumption
  PROVE  Spec => []SingleUse
<1>1. Inv => SingleUse
  BY DEF Inv
<1>. QED  BY <1>1, OAuthInductive, PTL

\* The map of used JTIs stays within its limit (markJTIUsed).
THEOREM MapWithinLimit ==
  ASSUME OAuthAssumption
  PROVE  Spec => []TypeOK
<1>1. Inv => TypeOK
  BY DEF Inv, Typed, Limited, TypeOK, Blobs
<1>. QED  BY <1>1, OAuthInductive, PTL

\* What a grant is good for: the three together, for every number of users,
\* clients, routes and requests and any size of the map (tokenAuthCode,
\* tokenRefresh, markJTIUsed, authorizeOAuth).
THEOREM GrantsAreSound ==
  ASSUME OAuthAssumption
  PROVE  Spec => []GrantsSound
<1>. QED  BY TokensNeedConsent, RedeemedOnce, MapWithinLimit, PTL DEF GrantsSound

-----------------------------------------------------------------------------
(* The logins: the inductive invariant                                     *)

Calls == [pc: {"idle", "asked", "answered"}, for: {"none", "password", "passkey", "token"},
          arg: User \cup Token \cup {Service}, code: BOOLEAN, at: Nat, ok: BOOLEAN]

\* Whom a call signs in.
Subject(c) == IF c.for = "token" THEN TokenOwner[c.arg] ELSE c.arg

LoginTyped ==
  /\ now \in Nat
  /\ users \subseteq User /\ tokens \subseteq Token
  /\ cookie \in [User -> Int] /\ gone \in [User -> Int]
  /\ call \in [Call -> Calls]

\* A cookie is good for lifetime from some moment in the past.
CookieBounded == \A u \in User : cookie[u] <= now + lifetime

\* An account goes at some moment in the past, with its tokens.
GoneInPast ==
  /\ \A u \in User \ users : gone[u] >= 0
  /\ \A x \in tokens : TokenOwner[x] = Service \/ TokenOwner[x] \in users

\* A call is made for a purpose, and lasts callTime at most.
Timely(c) ==
  c.pc # "idle" => /\ c.for # "token" => c.arg \in User
                   /\ c.for # "none"
                   /\ c.at <= now /\ now <= c.at + callTime

\* A call the dashboard said yes to began before the account went.
BeforeGone(c) ==
  (c.pc = "answered" /\ c.ok) =>
    /\ Subject(c) \in User
    /\ Subject(c) \notin users => c.at <= gone[Subject(c)]

CallsSound == \A q \in Call : Timely(call[q]) /\ BeforeGone(call[q])

LoginInv == LoginTyped /\ CookieBounded /\ GoneInPast /\ CallsSound /\ Login!SessionNeedsAccount

LEMMA InitLogin ==
  ASSUME Login!SignInAssumption, Login!Init
  PROVE  LoginInv
<1>1. Login!Idle \in Calls /\ Login!Idle.pc = "idle"
  BY DEF Login!Idle, Calls
<1>2. LoginTyped
  BY <1>1 DEF Login!Init, LoginTyped, Login!Never
<1>3. \A q \in Call : call[q] = Login!Idle
  BY DEF Login!Init
<1>4. CallsSound
  BY <1>1, <1>3 DEF CallsSound, Timely, BeforeGone
<1>5. CookieBounded
  BY DEF Login!Init, CookieBounded, Login!Never, Login!SignInAssumption
<1>. QED
  BY <1>2, <1>4, <1>5 DEF Login!Init, LoginInv, GoneInPast, Login!SignInAssumption,
         Login!SessionNeedsAccount

-----------------------------------------------------------------------------
(* The logins: the steps                                                   *)

\* A step that changes one call and nothing the others depend on.
LEMMA CallMoves ==
  ASSUME LoginInv, UNCHANGED <<now, users, tokens, cookie, gone>>,
         NEW q \in Call, NEW c \in Calls, call' = [call EXCEPT ![q] = c],
         Timely(c), BeforeGone(c)
  PROVE  LoginInv'
<1>1. LoginTyped'
  BY DEF LoginInv, LoginTyped
<1>2. \A o \in Call : call'[o] = IF o = q THEN c ELSE call[o]
  BY DEF LoginInv, LoginTyped
<1>3. CallsSound'
  BY <1>2 DEF LoginInv, CallsSound, Timely, BeforeGone, Subject
<1>. QED
  BY <1>1, <1>3 DEF LoginInv, CookieBounded, GoneInPast, Login!SessionNeedsAccount

LEMMA AskKeeps ==
  ASSUME Login!SignInAssumption, LoginInv, UNCHANGED <<now, users, tokens, cookie, gone>>,
         NEW q \in Call, NEW for \in {"password", "passkey", "token"},
         NEW arg \in User \cup Token, NEW code \in BOOLEAN,
         for # "token" => arg \in User, Login!Ask(q, for, arg, code)
  PROVE  LoginInv'
<1>. DEFINE c == [pc |-> "asked", for |-> for, arg |-> arg, code |-> code, at |-> now, ok |-> FALSE]
<1>1. call' = [call EXCEPT ![q] = c]
  BY DEF Login!Ask
<1>2. c \in Calls /\ c.pc = "asked" /\ c.for = for /\ c.arg = arg /\ c.at = now
  BY DEF Calls, LoginInv, LoginTyped
<1>. HIDE DEF c
<1>3. Timely(c) /\ BeforeGone(c)
  BY <1>2 DEF Timely, BeforeGone, LoginInv, LoginTyped, Login!SignInAssumption
<1>. QED  BY <1>1, <1>2, <1>3, CallMoves

\* The dashboard says yes only for an account it has at that moment.
LEMMA AnswerKeeps ==
  ASSUME Login!SignInAssumption, LoginInv, NEW q \in Call, NEW up \in BOOLEAN, Login!Answer(q, up)
  PROVE  LoginInv'
<1>. DEFINE c == call[q]
            yes == up /\ CASE c.for = "password" -> Login!VerifyPassword(c)
                           [] c.for = "passkey"  -> Login!Exists(c)
                           [] c.for = "token"    -> Login!verifyTokenKind(c)
            d == [c EXCEPT !.pc = "answered", !.ok = yes]
<1>1. /\ c.pc = "asked" /\ call' = [call EXCEPT ![q] = d]
      /\ UNCHANGED <<now, users, tokens, cookie, gone>>
  BY DEF Login!Answer
<1>2. c \in Calls /\ Timely(c)
  BY DEF LoginInv, LoginTyped, CallsSound
<1>3. c.for \in {"password", "passkey", "token"} /\ (c.for # "token" => c.arg \in User)
  BY <1>1, <1>2 DEF Timely, Calls
<1>4. yes \in BOOLEAN
  BY <1>3 DEF Login!VerifyPassword, Login!Exists, Login!verifyTokenKind
<1>5. yes => Subject(c) \in users
  <2>. SUFFICES ASSUME yes PROVE Subject(c) \in users
    OBVIOUS
  <2>1. CASE c.for = "password"
    BY <2>1 DEF Login!VerifyPassword, Subject
  <2>2. CASE c.for = "passkey"
    BY <2>2 DEF Login!Exists, Subject
  <2>3. CASE c.for = "token"
    BY <2>3 DEF Login!verifyTokenKind, Subject, LoginInv, GoneInPast
  <2>. QED  BY <1>3, <2>1, <2>2, <2>3
<1>. HIDE DEF yes
<1>6. /\ d \in Calls /\ d.pc = "answered" /\ d.ok = yes
      /\ d.for = c.for /\ d.arg = c.arg /\ d.at = c.at
  BY <1>2, <1>4 DEF Calls
<1>. HIDE DEF d
<1>7. Timely(d)
  BY <1>1, <1>2, <1>6 DEF Timely
<1>8. Subject(d) = Subject(c)
  BY <1>6 DEF Subject
<1>9. BeforeGone(d)
  BY <1>5, <1>6, <1>8 DEF BeforeGone, LoginInv, LoginTyped
<1>. QED  BY <1>1, <1>6, <1>7, <1>9, CallMoves

LEMMA DeleteUserKeeps ==
  ASSUME Login!SignInAssumption, LoginInv, NEW u \in User, Login!DeleteUser(u)
  PROVE  LoginInv'
<1>1. /\ u \in users /\ users' = users \ {u}
      /\ tokens' = {x \in tokens : TokenOwner[x] # u}
      /\ gone' = [gone EXCEPT ![u] = now]
      /\ UNCHANGED <<now, cookie, call>>
  BY DEF Login!DeleteUser
<1>2. LoginTyped'
  BY <1>1 DEF LoginInv, LoginTyped
<1>3. /\ gone'[u] = now /\ \A v \in User \ {u} : gone'[v] = gone[v]
      /\ now \in Nat /\ lifetime \in Nat /\ callTime \in Nat
  BY <1>1 DEF LoginInv, LoginTyped, Login!SignInAssumption
<1>4. CookieBounded' /\ GoneInPast'
  BY <1>1, <1>3 DEF LoginInv, CookieBounded, GoneInPast
<1>5. CallsSound'
  <2>. SUFFICES ASSUME NEW q \in Call PROVE Timely(call[q])' /\ BeforeGone(call[q])'
    BY DEF CallsSound
  <2>1. Timely(call[q]) /\ BeforeGone(call[q])
    BY DEF LoginInv, CallsSound
  <2>2. Timely(call[q])'
    BY <1>1, <2>1 DEF Timely
  <2>3. BeforeGone(call[q])'
    BY <1>1, <1>3, <2>1 DEF BeforeGone, Timely, Subject
  <2>. QED  BY <2>2, <2>3
<1>6. Login!SessionNeedsAccount'
  <2>1. cookie[u] <= now + callTime + lifetime
    BY <1>3 DEF LoginInv, LoginTyped, CookieBounded
  <2>. QED  BY <1>1, <1>3, <2>1 DEF LoginInv, Login!SessionNeedsAccount
<1>. QED  BY <1>2, <1>4, <1>5, <1>6 DEF LoginInv

\* A cookie signed for an account that is gone comes from a call made before.
LEMMA MintKeeps ==
  ASSUME Login!SignInAssumption, LoginInv, NEW q \in Call, Login!Mint(q)
  PROVE  LoginInv'
<1>. DEFINE c == call[q]
            u == Subject(c)
<1>0. /\ c \in Calls /\ Timely(c) /\ BeforeGone(c) /\ Login!Idle \in Calls /\ Login!Idle.pc = "idle"
      /\ now \in Nat /\ lifetime \in Nat /\ callTime \in Nat /\ c.at \in Nat
      /\ c.ok \in BOOLEAN
  BY DEF LoginInv, LoginTyped, CallsSound, Login!Idle, Calls, Login!SignInAssumption
<1>1. /\ c.pc = "answered" /\ call' = [call EXCEPT ![q] = Login!Idle]
      /\ cookie' = IF c.ok THEN [cookie EXCEPT ![u] = now + lifetime] ELSE cookie
      /\ UNCHANGED <<now, users, tokens, gone>>
  BY DEF Login!Mint, Subject
<1>. HIDE DEF u, c
<1>2. CASE ~c.ok
  <2>1. cookie' = cookie
    BY <1>1, <1>2
  <2>2. Timely(Login!Idle) /\ BeforeGone(Login!Idle)
    BY <1>0 DEF Timely, BeforeGone
  <2>. QED  BY <1>0, <1>1, <2>1, <2>2, CallMoves
<1>3. CASE c.ok
  <2>1. cookie' = [cookie EXCEPT ![u] = now + lifetime]
    BY <1>1, <1>3
  <2>2. u \in User /\ (u \notin users => c.at <= gone[u])
    BY <1>0, <1>1, <1>3 DEF BeforeGone, u
  <2>3. c.at <= now /\ now <= c.at + callTime
    BY <1>0, <1>1 DEF Timely
  <2>4. /\ cookie'[u] = now + lifetime /\ \A v \in User \ {u} : cookie'[v] = cookie[v]
        /\ \A v \in User : cookie[v] \in Int /\ gone[v] \in Int
    BY <2>1, <2>2 DEF LoginInv, LoginTyped
  <2>5. LoginTyped'
    BY <1>0, <1>1, <2>1, <2>2 DEF LoginInv, LoginTyped
  <2>6. CookieBounded'
    BY <1>0, <1>1, <2>4 DEF LoginInv, CookieBounded
  <2>7. GoneInPast'
    BY <1>1 DEF LoginInv, GoneInPast
  <2>8. \A o \in Call : call'[o] = IF o = q THEN Login!Idle ELSE call[o]
    BY <1>1 DEF LoginInv, LoginTyped
  <2>9. CallsSound'
    BY <1>0, <1>1, <2>8 DEF LoginInv, CallsSound, Timely, BeforeGone, Subject
  <2>10. Login!SessionNeedsAccount'
    BY <1>0, <1>1, <2>2, <2>3, <2>4 DEF LoginInv, Login!SessionNeedsAccount
  <2>. QED  BY <2>5, <2>6, <2>7, <2>9, <2>10 DEF LoginInv
<1>. QED  BY <1>0, <1>2, <1>3

LEMMA LoginTickKeeps ==
  ASSUME Login!SignInAssumption, LoginInv, Login!Tick
  PROVE  LoginInv'
<1>1. /\ now' = now + 1
      /\ \A q \in Call : call[q].pc # "idle" => now < call[q].at + callTime
      /\ cookie' = [u \in User |-> IF now + 1 <= cookie[u] THEN cookie[u] ELSE Login!Never]
      /\ UNCHANGED <<users, tokens, call, gone>>
  BY DEF Login!Tick
<1>2. /\ now \in Nat /\ lifetime \in Nat /\ callTime \in Nat /\ Login!Never = -1
      /\ \A u \in User : cookie[u] \in Int /\ gone[u] \in Int
  BY DEF LoginInv, LoginTyped, Login!SignInAssumption, Login!Never
<1>3. \A u \in User : cookie'[u] = cookie[u] \/ cookie'[u] = -1
  BY <1>1, <1>2
<1>4. LoginTyped'
  BY <1>1, <1>2 DEF LoginInv, LoginTyped
<1>5. CookieBounded'
  BY <1>1, <1>2, <1>3 DEF LoginInv, CookieBounded
<1>6. Login!SessionNeedsAccount'
  BY <1>1, <1>2, <1>3 DEF LoginInv, Login!SessionNeedsAccount, GoneInPast
<1>7. CallsSound'
  <2>. SUFFICES ASSUME NEW q \in Call PROVE Timely(call[q])' /\ BeforeGone(call[q])'
    BY DEF CallsSound
  <2>1. Timely(call[q]) /\ BeforeGone(call[q]) /\ call[q].at \in Nat
    BY DEF LoginInv, CallsSound, LoginTyped, Calls
  <2>2. Timely(call[q])'
    BY <1>1, <1>2, <2>1 DEF Timely
  <2>3. BeforeGone(call[q])'
    BY <1>1, <2>1 DEF BeforeGone, Subject
  <2>. QED  BY <2>2, <2>3
<1>. QED  BY <1>1, <1>4, <1>5, <1>6, <1>7 DEF LoginInv, GoneInPast

\* Passkeys and ceremonies are no part of the argument: a passkey proves who
\* asks, and the dashboard that the account is there.
LEMMA OthersKeep ==
  ASSUME LoginInv, UNCHANGED <<now, users, tokens, cookie, call, gone>>
  PROVE  LoginInv'
BY DEF LoginInv, LoginTyped, CookieBounded, GoneInPast, CallsSound, Timely, BeforeGone,
       Subject, Login!SessionNeedsAccount

LEMMA NextLogin ==
  ASSUME Login!SignInAssumption, LoginInv, [Login!Next]_(Login!vars)
  PROVE  LoginInv'
<1>1. ASSUME NEW u \in User, Login!DeleteUser(u) \/ Login!PasskeyDelete(u) \/ Login!PutCeremony("register", u)
      PROVE  LoginInv'
  BY <1>1, DeleteUserKeeps, OthersKeep DEF Login!PasskeyDelete, Login!PutCeremony
<1>2. ASSUME NEW q \in Call, NEW up \in BOOLEAN, Login!Answer(q, up) PROVE LoginInv'
  BY <1>2, AnswerKeeps
<1>3. ASSUME NEW q \in Call, NEW u \in User, NEW code \in BOOLEAN, Login!PasswordLogin(q, u, code)
      PROVE  LoginInv'
  BY <1>3, AskKeeps DEF Login!PasswordLogin
<1>4. ASSUME NEW q \in Call, NEW x \in Token, Login!TokenLogin(q, x) PROVE LoginInv'
  BY <1>4, AskKeeps DEF Login!TokenLogin
<1>5. ASSUME NEW q \in Call, NEW u \in User, Login!PasskeyFinish(q, u) PROVE LoginInv'
  <2>1. CASE u \in passkeys
    BY <1>5, <2>1, AskKeeps DEF Login!PasskeyFinish
  <2>2. CASE u \notin passkeys
    BY <1>5, <2>2, OthersKeep DEF Login!PasskeyFinish
  <2>. QED  BY <2>1, <2>2
<1>6. ASSUME NEW q \in Call, Login!Mint(q) PROVE LoginInv'
  BY <1>6, MintKeeps
<1>7. CASE Login!PutCeremony("login", Service) \/ Login!RegisterFinish
  BY <1>7, OthersKeep DEF Login!PutCeremony, Login!RegisterFinish
<1>8. CASE Login!Tick
  BY <1>8, LoginTickKeeps
<1>9. CASE UNCHANGED Login!vars
  BY <1>9, OthersKeep DEF Login!vars
<1>. QED
  BY <1>1, <1>2, <1>3, <1>4, <1>5, <1>6, <1>7, <1>8, <1>9 DEF Login!Next

\* No login, by password, passkey or token, signs in an account that is gone:
\* its last cookie comes from a call answered before, so it ends within the
\* lifetime of a cookie and one call of the deletion (doLogin, handleTokenLogin,
\* the passkey finish handler, AuthStore.DeleteUser).
THEOREM SessionsEndWithAccount ==
  ASSUME Login!SignInAssumption
  PROVE  Login!Spec => []Login!SessionNeedsAccount
<1>1. Login!Init => LoginInv
  BY InitLogin
<1>2. LoginInv /\ [Login!Next]_(Login!vars) => LoginInv'
  BY NextLogin
<1>3. LoginInv => Login!SessionNeedsAccount
  BY DEF LoginInv
<1>. QED  BY <1>1, <1>2, <1>3, PTL DEF Login!Spec

-----------------------------------------------------------------------------
(* The gate: an answer of the dashboard is followed from the moment the    *)
(* request read the clock, over its arrival, into the cache.               *)

Asks == [pc : {"idle", "asked", "answered"}, arg : Token \cup {Gate!Never},
         at : Nat, ok : BOOLEAN]
GateEntry == [good : BOOLEAN, expires : Nat]

GateTyped ==
  /\ now \in Nat
  /\ tokens \subseteq Token
  /\ DOMAIN bearers \subseteq Token
  /\ bearers \in [DOMAIN bearers -> GateEntry]
  /\ ask \in [Request -> Asks]
  /\ deleted \in [Token -> Nat \cup {Gate!Never}]
  /\ \A r \in Request : ask[r].pc # "idle" => ask[r].arg \in Token
  /\ \A x \in Token \ tokens : deleted[x] \in 0 .. now

\* Until when a positive answer about x can have been given: a token is vouched
\* for only while it exists.
Vouched(x, t) == IF x \in tokens THEN t <= now ELSE t <= deleted[x]

\* The clock of a request was read before the dashboard answered.
AskedInTime ==
  \A r \in Request :
    /\ ask[r].at <= now
    /\ ask[r].pc = "answered" /\ ask[r].ok => Vouched(ask[r].arg, ask[r].at)

\* A positive entry expires bearerPositiveTTL after a time at which its token
\* may still have existed.
KeptInTime ==
  \A x \in DOMAIN bearers :
    bearers[x].good => Vouched(x, bearers[x].expires - bearerPositiveTTL)

GateInv == GateTyped /\ AskedInTime /\ KeptInTime

LEMMA InitGate == ASSUME Gate!GateAssumption PROVE Gate!Init => GateInv
BY DEF Gate!GateAssumption, Gate!Init, GateInv, GateTyped, AskedInTime, KeptInTime, Gate!Idle,
       Gate!Never, Asks, GateEntry, Vouched

LEMMA NextGate == ASSUME Gate!GateAssumption PROVE GateInv /\ [Gate!Next]_(Gate!vars) => GateInv'
<1> SUFFICES ASSUME GateInv, [Gate!Next]_(Gate!vars) PROVE GateInv'
  OBVIOUS
<1> USE Gate!GateAssumption DEF Gate!GateAssumption, GateInv
<1>1. ASSUME NEW x \in Token, Gate!DeleteToken(x) PROVE GateInv'
  BY <1>1 DEF Gate!DeleteToken, GateTyped, AskedInTime, KeptInTime, Vouched, Asks, GateEntry,
         Gate!Never
<1>2. ASSUME NEW r \in Request, NEW x \in Token, Gate!Authorize(r, x) PROVE GateInv'
  BY <1>2 DEF Gate!Authorize, GateTyped, AskedInTime, KeptInTime, Vouched, Asks, GateEntry,
         Gate!Never
<1>3. ASSUME NEW r \in Request, NEW up \in BOOLEAN, Gate!Answer(r, up) PROVE GateInv'
  BY <1>3 DEF Gate!Answer, GateTyped, AskedInTime, KeptInTime, Vouched, Asks, GateEntry, Gate!Never
<1>4. ASSUME NEW r \in Request, Gate!BearerDone(r) PROVE GateInv'
  BY <1>4 DEF Gate!BearerDone, Gate!BearerEntry, Gate!KeptBearers, Gate!Idle, GateTyped,
              AskedInTime, KeptInTime, Vouched, Asks, GateEntry, Gate!Never
<1>5. CASE Gate!Tick
  BY <1>5 DEF Gate!Tick, GateTyped, AskedInTime, KeptInTime, Vouched, Asks, GateEntry, Gate!Never
<1>6. CASE UNCHANGED Gate!vars
  BY <1>6 DEF Gate!vars, GateTyped, AskedInTime, KeptInTime, Vouched
<1>. QED
  BY <1>1, <1>2, <1>3, <1>4, <1>5, <1>6 DEF Gate!Next

\* However requests, answers and deletions interleave, the cache of verifyBearer
\* never admits a token bearerPositiveTTL or more after it was deleted.
THEOREM DeletedTokenExpires ==
  ASSUME Gate!GateAssumption PROVE Gate!Spec => []Gate!RevocationBounded
<1>1. GateInv => Gate!RevocationBounded
  BY DEF GateInv, GateTyped, KeptInTime, Vouched, Gate!RevocationBounded, Gate!Admits,
         Gate!Cached, GateEntry, Gate!GateAssumption
<1>. QED
  BY InitGate, NextGate, <1>1, PTL DEF Gate!Spec
=============================================================================
