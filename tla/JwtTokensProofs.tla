--------------------------- MODULE JwtTokensProofs ---------------------------
(***************************************************************************)
(* Theorems about JwtTokens for any users, ids and number of requests.     *)
(***************************************************************************)
EXTENDS JwtTokens, TLAPS

Generates(q) == q.pc \in {"setRefresh", "setAccess", "delRefresh", "delAccess", "reply"}
Revokes(q) == q.pc \in {"delScannedAccess", "scanRefresh", "delScannedRefresh"}

\* An id no JWT carries is nowhere.
UnusedIsNowhere ==
    \A i \in TokenId : subject[i] = NoUser =>
        /\ i \notin refresh /\ i \notin access
        /\ i \notin returned /\ i \notin issued
        /\ parent[i] = NoId

\* The pair a request generates is its own: no client and no other request has it.
OwnPair ==
    /\ \A p \in Proc : Generates(req[p]) =>
        /\ req[p].new \in TokenId
        /\ req[p].user \in User
        /\ subject[req[p].new] = req[p].user
        /\ req[p].new \notin returned
        /\ parent[req[p].new] = req[p].old
    /\ \A p, q \in Proc : p # q /\ Generates(req[p]) /\ Generates(req[q])
                             => req[p].new # req[q].new

\* The pair a request exchanges is one a client holds.
HeldPair ==
    \A p \in Proc : Generates(req[p]) =>
        /\ req[p].pc \in {"delRefresh", "delAccess"} => req[p].old # NoId
        /\ req[p].old # NoId => /\ req[p].old \in returned
                                /\ subject[req[p].old] = req[p].user
        /\ req[p].old # NoId /\ req[p].pc \in {"delAccess", "reply"} => req[p].old \notin refresh
        /\ req[p].old # NoId /\ req[p].pc = "reply" => req[p].old \notin access

\* How far the writes of generate() have come.
Written ==
    /\ returned \subseteq issued
    /\ \A p \in Proc :
        /\ req[p].pc \in {"delRefresh", "delAccess", "reply"} => req[p].new \in issued

\* What an exchange leaves behind.
Exchanged ==
    \A n \in returned : parent[n] # NoId =>
        parent[n] \in returned /\ parent[n] \notin refresh /\ parent[n] \notin access

\* A revocation in progress: the ids due still in the store were found, and what
\* was found is its user's.
Revocation ==
    /\ deadRefresh \subseteq returned /\ deadAccess \subseteq returned
    /\ \A p \in Proc : Revokes(req[p]) =>
        /\ req[p].user \in User
        /\ req[p].due \subseteq returned
        /\ \A i \in req[p].due \union req[p].found : subject[i] = req[p].user
        /\ req[p].pc = "delScannedAccess" => req[p].due \intersect access \subseteq req[p].found
        /\ req[p].pc = "delScannedRefresh" => req[p].due \intersect refresh \subseteq req[p].found

IInv ==
    /\ TypeOK /\ UnusedIsNowhere /\ OwnPair /\ HeldPair /\ Written
    /\ Exchanged /\ Revocation /\ RevokedStayGone

-----------------------------------------------------------------------------

LEMMA AdvanceFacts ==
    ASSUME TypeOK, NEW p \in Proc, NEW stage \in Stage, Advance(p, stage)
    PROVE  /\ req' \in [Proc -> Request]
           /\ req'[p].pc = stage /\ req'[p].user = req[p].user
           /\ req'[p].old = req[p].old /\ req'[p].new = req[p].new
           /\ req'[p].kind = req[p].kind
           /\ req'[p].found = req[p].found /\ req'[p].due = req[p].due
           /\ \A q \in Proc : q # p => req'[q] = req[q]
<1>1. req[p] \in Request
  BY DEF TypeOK
<1>2. [req[p] EXCEPT !.pc = stage] \in Request
  BY <1>1 DEF Request
<1>3. req' = [req EXCEPT ![p] = [req[p] EXCEPT !.pc = stage]]
  BY DEF Advance
<1>4. req'[p] = [req[p] EXCEPT !.pc = stage]
  BY <1>3 DEF TypeOK
<1>5. req' \in [Proc -> Request]
  BY <1>2, <1>3 DEF TypeOK
<1> QED BY <1>1, <1>3, <1>4, <1>5 DEF TypeOK, Request

LEMMA EndFacts ==
    ASSUME TypeOK, NEW p \in Proc, End(p)
    PROVE  /\ req' \in [Proc -> Request]
           /\ req'[p] = Idle
           /\ \A q \in Proc : q # p => req'[q] = req[q]
BY DEF TypeOK, End, Request, Idle, Stage, RevokeType


-----------------------------------------------------------------------------
\* One lemma per action: it preserves the inductive invariant.

LEMMA InitIInv == Init => IInv
BY NoUserAssumption, NoIdAssumption
DEF Init, IInv, TypeOK, UnusedIsNowhere, OwnPair, HeldPair, Written, Exchanged, Revocation,
    RevokedStayGone, Generates, Revokes, Request, Idle, Stage, RevokeType, Verifies

LEMMA SignInPreserves ==
    ASSUME IInv, NEW p \in Proc, NEW u \in User, SignIn(p, u)
    PROVE  IInv'
<1> USE NoUserAssumption, NoIdAssumption
<1> PICK n \in UnusedIds : /\ subject' = [subject EXCEPT ![n] = u]
                           /\ req' = [req EXCEPT ![p] = Generating(u, NoId, n)]
  BY DEF SignIn
<1>1. /\ n \in TokenId /\ subject[n] = NoUser
      /\ UNCHANGED <<refresh, access, returned, issued, parent, deadRefresh, deadAccess>>
      /\ TypeOK
  BY DEF UnusedIds, SignIn, IInv, keys, history
<1>2. /\ n \notin refresh /\ n \notin access /\ n \notin returned /\ n \notin issued /\ parent[n] = NoId
  BY <1>1 DEF IInv, UnusedIsNowhere
<1>3. TypeOK'
  BY <1>1 DEF TypeOK, Request, Generating, Stage, RevokeType
<1>4. /\ req'[p] = Generating(u, NoId, n) /\ Generates(req'[p]) /\ ~Revokes(req'[p])
      /\ \A q \in Proc : q # p => req'[q] = req[q]
      /\ subject'[n] = u /\ \A i \in TokenId : i # n => subject'[i] = subject[i]
  BY <1>1 DEF TypeOK, Generating, Generates, Revokes
<1>5. UnusedIsNowhere'
  BY <1>1, <1>4 DEF IInv, UnusedIsNowhere
<1>6. OwnPair'
  BY <1>1, <1>2, <1>4 DEF IInv, TypeOK, OwnPair, Generating, Generates
<1>7. HeldPair'
  BY <1>1, <1>2, <1>4 DEF IInv, TypeOK, OwnPair, HeldPair, Generating, Generates
<1>8. Written'
  BY <1>1, <1>2, <1>4 DEF IInv, TypeOK, OwnPair, Written, Generating, Generates
<1>9. Exchanged'
  BY <1>1, <1>2, <1>4 DEF IInv, Exchanged
<1>10. Revocation'
  BY <1>1, <1>2, <1>4 DEF IInv, TypeOK, Revocation
<1>11. RevokedStayGone'
  BY <1>1, <1>2, <1>4 DEF IInv, TypeOK, RevokedStayGone, Verifies
<1> QED BY <1>3, <1>5, <1>6, <1>7, <1>8, <1>9, <1>10, <1>11 DEF IInv

LEMMA RefreshPreserves ==
    ASSUME IInv, NEW p \in Proc, NEW u \in User, NEW a \in TokenId,
           NEW r \in returned, Refresh(p, u, a, r)
    PROVE  IInv'
<1> USE NoUserAssumption, NoIdAssumption
<1> PICK n \in UnusedIds : /\ subject' = [subject EXCEPT ![n] = subject[a]]
                           /\ parent' = [parent EXCEPT ![n] = a]
                           /\ req' = [req EXCEPT ![p] = Generating(subject[a], a, n)]
  BY DEF Refresh, RefreshAccepted
<1>0. a \in returned
  BY DEF Refresh, RefreshAccepted
<1>1. /\ n \in TokenId /\ subject[n] = NoUser /\ a \in TokenId /\ a # NoId
      /\ UNCHANGED <<refresh, access, returned, issued, deadRefresh, deadAccess>>
      /\ TypeOK
  BY DEF UnusedIds, Refresh, IInv, keys, TypeOK
<1>2. /\ n \notin refresh /\ n \notin access /\ n \notin returned /\ n \notin issued /\ n # a
      /\ subject[a] \in User
  BY <1>0, <1>1 DEF IInv, UnusedIsNowhere, TypeOK
<1>3. TypeOK'
  BY <1>1, <1>2 DEF TypeOK, Request, Generating, Stage, RevokeType
<1>4. /\ req'[p] = Generating(subject[a], a, n) /\ Generates(req'[p]) /\ ~Revokes(req'[p])
      /\ \A q \in Proc : q # p => req'[q] = req[q]
      /\ subject'[n] = subject[a] /\ \A i \in TokenId : i # n => subject'[i] = subject[i]
      /\ parent'[n] = a /\ \A i \in TokenId : i # n => parent'[i] = parent[i]
  BY <1>1 DEF TypeOK, Generating, Generates, Revokes
<1>5. UnusedIsNowhere'
  BY <1>1, <1>2, <1>4 DEF IInv, UnusedIsNowhere
<1>6. OwnPair'
  BY <1>1, <1>2, <1>4 DEF IInv, TypeOK, OwnPair, Generating, Generates
<1>7. HeldPair'
  BY <1>0, <1>1, <1>2, <1>4 DEF IInv, TypeOK, OwnPair, HeldPair, Generating, Generates
<1>8. Written'
  BY <1>1, <1>2, <1>4 DEF IInv, TypeOK, OwnPair, Written, Generating, Generates
<1>9. Exchanged'
  BY <1>1, <1>2, <1>4 DEF IInv, TypeOK, Exchanged
<1>10. Revocation'
  BY <1>1, <1>2, <1>4 DEF IInv, TypeOK, Revocation
<1>11. RevokedStayGone'
  BY <1>1, <1>2, <1>4 DEF IInv, TypeOK, RevokedStayGone, Verifies
<1> QED BY <1>3, <1>5, <1>6, <1>7, <1>8, <1>9, <1>10, <1>11 DEF IInv

LEMMA SetRefreshKeyPreserves ==
    ASSUME IInv, NEW p \in Proc, SetRefreshKey(p)
    PROVE  IInv'
<1> USE NoUserAssumption, NoIdAssumption
<1> DEFINE n == req[p].new
<1>1. /\ TypeOK /\ "setAccess" \in Stage /\ Advance(p, "setAccess") /\ req[p].pc = "setRefresh"
      /\ refresh' = refresh \union {n}
      /\ UNCHANGED <<access, subject, returned, issued, parent, deadRefresh, deadAccess>>
  BY DEF IInv, SetRefreshKey, Stage, history
<1>2. /\ req' \in [Proc -> Request]
      /\ req'[p].pc = "setAccess" /\ req'[p].user = req[p].user
      /\ req'[p].old = req[p].old /\ req'[p].new = n
      /\ \A q \in Proc : q # p => req'[q] = req[q]
  BY <1>1, AdvanceFacts
<1>3. /\ n \in TokenId /\ n \notin returned /\ subject[n] # NoUser
      /\ Generates(req[p]) /\ Generates(req'[p]) /\ ~Revokes(req'[p])
  BY <1>1, <1>2 DEF IInv, OwnPair, Generates, Revokes
<1>4. TypeOK'
  BY <1>1, <1>2, <1>3 DEF TypeOK
<1>5. UnusedIsNowhere' /\ OwnPair'
  BY <1>1, <1>2, <1>3 DEF IInv, UnusedIsNowhere, OwnPair, Generates
<1>6. HeldPair'
  BY <1>1, <1>2, <1>3 DEF IInv, OwnPair, HeldPair, Generates
<1>7. Written' /\ Exchanged'
  BY <1>1, <1>2, <1>3 DEF IInv, Written, Exchanged
<1>8. Revocation'
  BY <1>1, <1>2, <1>3 DEF IInv, Revocation
<1>9. RevokedStayGone'
  BY <1>1, <1>2, <1>3 DEF IInv, Revocation, RevokedStayGone, Verifies
<1> QED BY <1>4, <1>5, <1>6, <1>7, <1>8, <1>9 DEF IInv

LEMMA SetAccessKeyPreserves ==
    ASSUME IInv, NEW p \in Proc, SetAccessKey(p)
    PROVE  IInv'
<1> USE NoUserAssumption, NoIdAssumption
<1> DEFINE n == req[p].new
           stage == IF req[p].old = NoId THEN "reply" ELSE "delRefresh"
<1>1. /\ TypeOK /\ stage \in Stage /\ Advance(p, stage) /\ req[p].pc = "setAccess"
      /\ access' = access \union {n} /\ issued' = issued \union {n}
      /\ UNCHANGED <<refresh, subject, returned, parent, deadRefresh, deadAccess>>
  BY DEF IInv, SetAccessKey, Stage, history
<1>2. /\ req' \in [Proc -> Request]
      /\ req'[p].pc = stage /\ req'[p].user = req[p].user
      /\ req'[p].old = req[p].old /\ req'[p].new = n
      /\ \A q \in Proc : q # p => req'[q] = req[q]
  BY <1>1, AdvanceFacts
<1>3. /\ n \in TokenId /\ n \notin returned /\ subject[n] # NoUser
      /\ Generates(req[p]) /\ Generates(req'[p]) /\ ~Revokes(req'[p])
  BY <1>1, <1>2 DEF IInv, OwnPair, Written, Generates, Revokes
<1>4. TypeOK'
  BY <1>1, <1>2, <1>3 DEF TypeOK
<1>5. UnusedIsNowhere' /\ OwnPair'
  BY <1>1, <1>2, <1>3 DEF IInv, UnusedIsNowhere, OwnPair, Generates
<1>6. HeldPair'
  BY <1>1, <1>2, <1>3 DEF IInv, OwnPair, HeldPair, Generates
<1>7. Written' /\ Exchanged'
  BY <1>1, <1>2, <1>3 DEF IInv, Written, Exchanged
<1>8. Revocation'
  BY <1>1, <1>2, <1>3 DEF IInv, Revocation
<1>9. RevokedStayGone'
  BY <1>1, <1>2, <1>3 DEF IInv, Revocation, RevokedStayGone, Verifies
<1> QED BY <1>4, <1>5, <1>6, <1>7, <1>8, <1>9 DEF IInv

LEMMA ReplyPreserves ==
    ASSUME IInv, NEW p \in Proc, Reply(p)
    PROVE  IInv'
<1> USE NoUserAssumption, NoIdAssumption
<1> DEFINE n == req[p].new
<1>1. /\ TypeOK /\ End(p) /\ req[p].pc = "reply" /\ Generates(req[p])
      /\ returned' = returned \union {n}
      /\ UNCHANGED <<refresh, access, subject, issued, parent, deadRefresh, deadAccess>>
  BY DEF IInv, Reply, keys, history, Generates
<1>2. /\ req' \in [Proc -> Request]
      /\ ~Generates(req'[p]) /\ ~Revokes(req'[p])
      /\ \A q \in Proc : q # p => req'[q] = req[q]
  BY <1>1, EndFacts DEF Generates, Revokes, Idle
<1>3. /\ n \in TokenId /\ n \notin returned /\ n \in issued /\ subject[n] # NoUser
      /\ parent[n] = req[p].old
      /\ parent[n] # NoId => parent[n] \in returned /\ parent[n] \notin refresh /\ parent[n] \notin access
  BY <1>1 DEF IInv, OwnPair, HeldPair, Written, Generates
<1>4. TypeOK' /\ UnusedIsNowhere'
  BY <1>1, <1>2, <1>3 DEF IInv, TypeOK, UnusedIsNowhere
<1>5. OwnPair'
  BY <1>1, <1>2, <1>3 DEF IInv, OwnPair
<1>6. HeldPair'
  BY <1>1, <1>2, <1>3 DEF IInv, HeldPair
<1>7. Written' /\ Exchanged'
  BY <1>1, <1>2, <1>3 DEF IInv, Written, Exchanged, Generates
<1>8. Revocation'
  BY <1>1, <1>2, <1>3 DEF IInv, Revocation
<1>9. RevokedStayGone'
  BY <1>1, <1>2, <1>3 DEF IInv, RevokedStayGone, Verifies
<1> QED BY <1>4, <1>5, <1>6, <1>7, <1>8, <1>9 DEF IInv

LEMMA DelRefreshKeyPreserves ==
    ASSUME IInv, NEW p \in Proc, DelRefreshKey(p)
    PROVE  IInv'
<1> USE NoUserAssumption, NoIdAssumption
<1> DEFINE o == req[p].old
<1>1. /\ TypeOK /\ "delAccess" \in Stage /\ Advance(p, "delAccess") /\ req[p].pc = "delRefresh"
      /\ refresh' = refresh \ {o}
      /\ UNCHANGED <<access, subject, returned, issued, parent, deadRefresh, deadAccess>>
  BY DEF IInv, DelRefreshKey, Stage, history
<1>2. /\ req' \in [Proc -> Request]
      /\ req'[p].pc = "delAccess" /\ req'[p].user = req[p].user
      /\ req'[p].old = o /\ req'[p].new = req[p].new
      /\ \A q \in Proc : q # p => req'[q] = req[q]
  BY <1>1, AdvanceFacts
<1>3. /\ Generates(req[p]) /\ Generates(req'[p]) /\ ~Revokes(req'[p])
      /\ o # NoId /\ parent[req[p].new] = o /\ req[p].new \in issued
  BY <1>1, <1>2 DEF IInv, OwnPair, HeldPair, Written, Generates, Revokes
<1>4. TypeOK'
  BY <1>1, <1>2 DEF TypeOK
<1>5. UnusedIsNowhere' /\ OwnPair'
  BY <1>1, <1>2, <1>3 DEF IInv, UnusedIsNowhere, OwnPair
<1>6. HeldPair'
  BY <1>1, <1>2, <1>3 DEF IInv, HeldPair
<1>7. Written'
  <2>1. ASSUME NEW q \in Proc, req[q].pc = "setAccess" PROVE req[q].new # o
    BY <2>1, <1>1, <1>3 DEF IInv, OwnPair, HeldPair, Generates
  <2> QED BY <2>1, <1>1, <1>2, <1>3 DEF IInv, Written
<1>8. Exchanged' /\ Revocation'
  BY <1>1, <1>2, <1>3 DEF IInv, Exchanged, Revocation
<1>9. RevokedStayGone'
  BY <1>1, <1>2, <1>3 DEF IInv, RevokedStayGone, Verifies
<1> QED BY <1>4, <1>5, <1>6, <1>7, <1>8, <1>9 DEF IInv

LEMMA DelAccessKeyPreserves ==
    ASSUME IInv, NEW p \in Proc, DelAccessKey(p)
    PROVE  IInv'
<1> USE NoUserAssumption, NoIdAssumption
<1> DEFINE o == req[p].old
<1>1. /\ TypeOK /\ "reply" \in Stage /\ Advance(p, "reply") /\ req[p].pc = "delAccess"
      /\ access' = access \ {o}
      /\ UNCHANGED <<refresh, subject, returned, issued, parent, deadRefresh, deadAccess>>
  BY DEF IInv, DelAccessKey, Stage, history
<1>2. /\ req' \in [Proc -> Request]
      /\ req'[p].pc = "reply" /\ req'[p].user = req[p].user
      /\ req'[p].old = o /\ req'[p].new = req[p].new
      /\ \A q \in Proc : q # p => req'[q] = req[q]
  BY <1>1, AdvanceFacts
<1>3. Generates(req[p]) /\ Generates(req'[p]) /\ ~Revokes(req'[p])
  BY <1>1, <1>2 DEF Generates, Revokes
<1>4. TypeOK' /\ UnusedIsNowhere' /\ OwnPair'
  BY <1>1, <1>2, <1>3 DEF IInv, TypeOK, UnusedIsNowhere, OwnPair
<1>5. HeldPair' /\ Written'
  BY <1>1, <1>2, <1>3 DEF IInv, HeldPair, Written
<1>6. Exchanged' /\ Revocation'
  BY <1>1, <1>2, <1>3 DEF IInv, Exchanged, Revocation
<1>7. RevokedStayGone'
  BY <1>1, <1>2, <1>3 DEF IInv, RevokedStayGone, Verifies
<1> QED BY <1>4, <1>5, <1>6, <1>7 DEF IInv

LEMMA RevokeTokenPreserves ==
    ASSUME IInv, NEW p \in Proc, NEW u \in User, NEW kind \in RevokeType, RevokeToken(p, u, kind)
    PROVE  IInv'
<1> USE NoUserAssumption, NoIdAssumption
<1> DEFINE ids == IF kind = "refresh_token" THEN RefreshKeysOf(u) ELSE AccessKeysOf(u)
           q == Revoking(u, kind, ids)
<1>1. /\ TypeOK /\ req' = [req EXCEPT ![p] = q]
      /\ UNCHANGED <<refresh, access, subject, returned, issued, parent, deadRefresh, deadAccess>>
  BY DEF IInv, RevokeToken, keys, history
<1>2. /\ ids \subseteq TokenId
      /\ \A i \in ids : subject[i] = u
  BY <1>1 DEF TypeOK, RefreshKeysOf, AccessKeysOf
<1>3. /\ q \in Request /\ q.user = u /\ q.found = ids
      /\ q.due \subseteq returned /\ \A i \in q.due : subject[i] = u
      /\ ~Generates(q)
      /\ q.pc = "delScannedAccess" => q.due \intersect access \subseteq ids
      /\ q.pc = "delScannedRefresh" => q.due \intersect refresh \subseteq ids
  BY <1>1, <1>2 DEF TypeOK, Request, Stage, Revoking, Generates, RefreshKeysOf, AccessKeysOf
<1>4. req' \in [Proc -> Request] /\ req'[p] = q /\ \A x \in Proc : x # p => req'[x] = req[x]
  BY <1>1, <1>3 DEF TypeOK
<1> HIDE DEF q, ids
<1>5. TypeOK' /\ UnusedIsNowhere'
  BY <1>1, <1>4 DEF IInv, TypeOK, UnusedIsNowhere
<1>6. OwnPair' /\ HeldPair'
  BY <1>1, <1>3, <1>4 DEF IInv, OwnPair, HeldPair
<1>7. Written' /\ Exchanged'
  BY <1>1, <1>3, <1>4 DEF IInv, Written, Exchanged, Generates
<1>8. Revocation'
  BY <1>1, <1>2, <1>3, <1>4 DEF IInv, Revocation
<1>9. RevokedStayGone'
  BY <1>1 DEF IInv, RevokedStayGone, Verifies
<1> QED BY <1>5, <1>6, <1>7, <1>8, <1>9 DEF IInv

LEMMA DelScannedAccessPreserves ==
    ASSUME IInv, NEW p \in Proc, DelScannedAccess(p)
    PROVE  IInv'
<1> USE NoUserAssumption, NoIdAssumption
<1> PICK more \in SUBSET AccessKeysOf(req[p].user) : access' = access \ (req[p].found \union more)
  BY DEF DelScannedAccess
<1>1. /\ TypeOK /\ "scanRefresh" \in Stage /\ req[p].pc = "delScannedAccess"
      /\ deadAccess' = deadAccess \union req[p].due
      /\ Advance(p, "scanRefresh") \/ End(p)
      /\ UNCHANGED <<refresh, subject, returned, issued, parent, deadRefresh>>
  BY DEF IInv, DelScannedAccess, Stage
<1>2. /\ req' \in [Proc -> Request] /\ ~Generates(req'[p])
      /\ Revokes(req'[p]) => /\ req'[p].pc = "scanRefresh" /\ req'[p].user = req[p].user
                             /\ req'[p].found = req[p].found /\ req'[p].due = req[p].due
      /\ \A x \in Proc : x # p => req'[x] = req[x]
  BY <1>1, AdvanceFacts, EndFacts DEF Generates, Revokes, Idle
<1>3. /\ Revokes(req[p]) /\ ~Generates(req[p]) /\ req[p].due \subseteq returned
      /\ req[p].due \intersect access \subseteq req[p].found
  BY <1>1 DEF IInv, Revocation, Revokes, Generates
<1>4. TypeOK' /\ UnusedIsNowhere'
  BY <1>1, <1>2, <1>3 DEF IInv, TypeOK, UnusedIsNowhere
<1>5. OwnPair' /\ HeldPair'
  BY <1>1, <1>2 DEF IInv, OwnPair, HeldPair
<1>6. Written' /\ Exchanged'
  BY <1>1, <1>2 DEF IInv, Written, Exchanged, Generates
<1>7. Revocation'
  BY <1>1, <1>2, <1>3 DEF IInv, Revocation
<1>8. RevokedStayGone'
  BY <1>1, <1>3 DEF IInv, RevokedStayGone, Verifies
<1> QED BY <1>4, <1>5, <1>6, <1>7, <1>8 DEF IInv

LEMMA ScanRefreshPreserves ==
    ASSUME IInv, NEW p \in Proc, ScanRefresh(p)
    PROVE  IInv'
<1> USE NoUserAssumption, NoIdAssumption
<1> DEFINE q == [req[p] EXCEPT !.pc = "delScannedRefresh", !.found = RefreshKeysOf(req[p].user)]
<1>1. /\ TypeOK /\ req[p].pc = "scanRefresh" /\ req' = [req EXCEPT ![p] = q]
      /\ UNCHANGED <<refresh, access, subject, returned, issued, parent, deadRefresh, deadAccess>>
  BY DEF IInv, ScanRefresh, keys, history
<1>2. /\ req[p] \in Request /\ RefreshKeysOf(req[p].user) \subseteq TokenId
  BY <1>1 DEF TypeOK, RefreshKeysOf
<1>3. /\ q \in Request /\ q.pc = "delScannedRefresh" /\ q.user = req[p].user
      /\ q.due = req[p].due /\ q.found = RefreshKeysOf(req[p].user)
      /\ ~Generates(q) /\ ~Generates(req[p]) /\ Revokes(req[p])
  BY <1>1, <1>2 DEF Request, Stage, Generates, Revokes
<1>4. req' \in [Proc -> Request] /\ req'[p] = q /\ \A x \in Proc : x # p => req'[x] = req[x]
  BY <1>1, <1>3 DEF TypeOK
<1> HIDE DEF q
<1>5. TypeOK' /\ UnusedIsNowhere'
  BY <1>1, <1>4 DEF IInv, TypeOK, UnusedIsNowhere
<1>6. OwnPair' /\ HeldPair'
  BY <1>1, <1>3, <1>4 DEF IInv, OwnPair, HeldPair
<1>7. Written' /\ Exchanged'
  BY <1>1, <1>3, <1>4 DEF IInv, Written, Exchanged, Generates
<1>8. Revocation'
  <2>1. /\ req[p].user \in User /\ req[p].due \subseteq returned
        /\ \A i \in req[p].due : subject[i] = req[p].user
    BY <1>3 DEF IInv, Revocation
  <2>2. /\ req[p].due \intersect refresh \subseteq RefreshKeysOf(req[p].user)
        /\ \A i \in RefreshKeysOf(req[p].user) : subject[i] = req[p].user
    BY <2>1 DEF RefreshKeysOf
  <2> QED BY <1>1, <1>3, <1>4, <2>1, <2>2 DEF IInv, Revocation
<1>9. RevokedStayGone'
  BY <1>1 DEF IInv, RevokedStayGone, Verifies
<1> QED BY <1>5, <1>6, <1>7, <1>8, <1>9 DEF IInv

LEMMA DelScannedRefreshPreserves ==
    ASSUME IInv, NEW p \in Proc, DelScannedRefresh(p)
    PROVE  IInv'
<1> USE NoUserAssumption, NoIdAssumption
<1> PICK more \in SUBSET RefreshKeysOf(req[p].user) : refresh' = refresh \ (req[p].found \union more)
  BY DEF DelScannedRefresh
<1>1. /\ TypeOK /\ req[p].pc = "delScannedRefresh" /\ End(p)
      /\ deadRefresh' = deadRefresh \union req[p].due
      /\ UNCHANGED <<access, subject, returned, issued, parent, deadAccess>>
  BY DEF IInv, DelScannedRefresh
<1>2. /\ req' \in [Proc -> Request] /\ ~Generates(req'[p]) /\ ~Revokes(req'[p])
      /\ \A x \in Proc : x # p => req'[x] = req[x]
  BY <1>1, EndFacts DEF Generates, Revokes, Idle
<1>3. /\ Revokes(req[p]) /\ req[p].due \subseteq returned
      /\ req[p].due \intersect refresh \subseteq req[p].found
      /\ \A i \in req[p].found \union more : subject[i] = req[p].user
  BY <1>1 DEF IInv, Revocation, Revokes, RefreshKeysOf
<1>4. TypeOK' /\ UnusedIsNowhere'
  BY <1>1, <1>2, <1>3 DEF IInv, TypeOK, UnusedIsNowhere
<1>5. OwnPair' /\ HeldPair'
  BY <1>1, <1>2 DEF IInv, OwnPair, HeldPair
<1>6. Written' /\ Exchanged'
  BY <1>1, <1>2, <1>3 DEF IInv, Written, Exchanged, Generates
<1>7. Revocation'
  BY <1>1, <1>2, <1>3 DEF IInv, Revocation
<1>8. RevokedStayGone'
  BY <1>1, <1>3 DEF IInv, RevokedStayGone, Verifies
<1> QED BY <1>4, <1>5, <1>6, <1>7, <1>8 DEF IInv

LEMMA FailPreserves ==
    ASSUME IInv, NEW p \in Proc, Fail(p)
    PROVE  IInv'
<1>1. /\ TypeOK /\ End(p)
      /\ UNCHANGED <<refresh, access, subject, returned, issued, parent, deadRefresh, deadAccess>>
  BY DEF IInv, Fail, keys, history
<1>2. /\ req' \in [Proc -> Request] /\ ~Generates(req'[p]) /\ ~Revokes(req'[p])
      /\ req'[p].pc = "idle"
      /\ \A x \in Proc : x # p => req'[x] = req[x]
  BY <1>1, EndFacts DEF Generates, Revokes, Idle
<1>3. TypeOK' /\ UnusedIsNowhere' /\ OwnPair' /\ HeldPair'
  BY <1>1, <1>2 DEF IInv, TypeOK, UnusedIsNowhere, OwnPair, HeldPair
<1>4. Written' /\ Exchanged' /\ Revocation' /\ RevokedStayGone'
  BY <1>1, <1>2 DEF IInv, Written, Exchanged, Revocation, RevokedStayGone, Verifies
<1> QED BY <1>3, <1>4 DEF IInv

LEMMA ExpiryPreserves ==
    ASSUME IInv, NEW i \in TokenId, ExpireAccess(i) \/ ExpireRefresh(i)
    PROVE  IInv'
<1>1. CASE ExpireAccess(i)
  <2>1. TypeOK' /\ UnusedIsNowhere' /\ OwnPair' /\ HeldPair'
    BY <1>1 DEF IInv, ExpireAccess, history, TypeOK, UnusedIsNowhere, OwnPair, HeldPair
  <2>2. Written' /\ Exchanged' /\ Revocation' /\ RevokedStayGone'
    BY <1>1 DEF IInv, ExpireAccess, history, Written, Exchanged, Revocation, RevokedStayGone,
                Verifies
  <2> QED BY <2>1, <2>2 DEF IInv
<1>2. CASE ExpireRefresh(i)
  <2>1. TypeOK' /\ UnusedIsNowhere' /\ OwnPair' /\ HeldPair'
    BY <1>2 DEF IInv, ExpireRefresh, history, TypeOK, UnusedIsNowhere, OwnPair, HeldPair
  <2>2. Written' /\ Exchanged' /\ Revocation' /\ RevokedStayGone'
    BY <1>2 DEF IInv, ExpireRefresh, history, Written, Exchanged, Revocation, RevokedStayGone,
                Verifies
  <2> QED BY <2>1, <2>2 DEF IInv
<1> QED BY <1>1, <1>2

-----------------------------------------------------------------------------

\* The invariant holds in every reachable state, for any users, ids and number of
\* requests in flight.
THEOREM Invariance == Spec => []IInv
<1>1. IInv /\ [Next]_vars => IInv'
  <2> SUFFICES ASSUME IInv, [Next]_vars PROVE IInv'
    OBVIOUS
  <2>1. CASE \E p \in Proc, u \in User : SignIn(p, u)
    BY <2>1, SignInPreserves
  <2>2. CASE \E p \in Proc, u \in User, a \in TokenId, r \in returned : Refresh(p, u, a, r)
    BY <2>2, RefreshPreserves
  <2>3. CASE \E p \in Proc, u \in User, kind \in RevokeType : RevokeToken(p, u, kind)
    BY <2>3, RevokeTokenPreserves
  <2>4. ASSUME NEW p \in Proc, Step(p) PROVE IInv'
    BY <2>4, SetRefreshKeyPreserves, SetAccessKeyPreserves, ReplyPreserves, DelRefreshKeyPreserves,
       DelAccessKeyPreserves, DelScannedAccessPreserves, ScanRefreshPreserves,
       DelScannedRefreshPreserves, FailPreserves DEF Step
  <2>5. CASE \E i \in TokenId : ExpireAccess(i) \/ ExpireRefresh(i)
    BY <2>5, ExpiryPreserves
  <2>6. CASE UNCHANGED vars
    <3>1. TypeOK' /\ UnusedIsNowhere' /\ OwnPair' /\ HeldPair' /\ Written'
      BY <2>6 DEF vars, keys, history, IInv, TypeOK, UnusedIsNowhere, OwnPair, HeldPair, Written
    <3>2. Exchanged' /\ Revocation' /\ RevokedStayGone'
      BY <2>6 DEF vars, keys, history, IInv, Exchanged, Revocation, RevokedStayGone,
                  Verifies
    <3> QED BY <3>1, <3>2 DEF IInv
  <2> QED BY <2>1, <2>2, <2>3, <2>4, <2>5, <2>6 DEF Next
<1> QED BY InitIInv, <1>1, PTL DEF Spec

\* Every variable keeps its type.
THEOREM TypeCorrect == Spec => []TypeOK
<1>1. IInv => TypeOK
  BY DEF IInv
<1> QED BY Invariance, <1>1, PTL

\* Once a client received the successor of a pair, that pair is accepted nowhere.
THEOREM ExchangeIsOnce == Spec => []ExchangedOnce
<1>1. IInv => ExchangedOnce
  BY DEF IInv, Exchanged, ExchangedOnce, RefreshAccepted, Verifies
<1> QED BY Invariance, <1>1, PTL

\* What a finished revokeToken call had to remove is never accepted again.
THEOREM RevocationIsFinal == Spec => []RevokedStayGone
<1>1. IInv => RevokedStayGone
  BY DEF IInv
<1> QED BY Invariance, <1>1, PTL

\* No failure or interleaving of rotations loses the last usable pair: a request
\* deletes the refresh key it exchanged only after the new pair is written.
THEOREM RotationNeverStrands == Spec => NoStranding
<1>1. IInv /\ [Next]_vars => [KeepsUntilReplaced]_vars
  <2> SUFFICES ASSUME IInv, Next PROVE KeepsUntilReplaced
    OBVIOUS
  <2>1. ASSUME refresh \subseteq refresh' PROVE KeepsUntilReplaced
    BY <2>1 DEF KeepsUntilReplaced
  <2>2. CASE \E p \in Proc, u \in User : SignIn(p, u)
    BY <2>1, <2>2 DEF SignIn, keys
  <2>3. CASE \E p \in Proc, u \in User, a \in TokenId, r \in returned : Refresh(p, u, a, r)
    BY <2>1, <2>3 DEF Refresh, keys
  <2>4. CASE \E p \in Proc, u \in User, kind \in RevokeType : RevokeToken(p, u, kind)
    BY <2>1, <2>4 DEF RevokeToken, keys
  <2>5. ASSUME NEW p \in Proc, Step(p) PROVE KeepsUntilReplaced
    <3>1. CASE SetRefreshKey(p) \/ SetAccessKey(p) \/ DelAccessKey(p) \/ DelScannedAccess(p)
      BY <2>1, <3>1 DEF SetRefreshKey, SetAccessKey, DelAccessKey, DelScannedAccess
    <3>2. CASE Reply(p) \/ ScanRefresh(p) \/ Fail(p)
      BY <2>1, <3>2 DEF Reply, ScanRefresh, Fail, keys
    <3>3. CASE DelRefreshKey(p)
      <4>1. req[p].new \in issued /\ parent[req[p].new] = req[p].old
        BY <3>3 DEF DelRefreshKey, IInv, OwnPair, Written, Generates
      <4> QED BY <3>3, <4>1 DEF DelRefreshKey, KeepsUntilReplaced
    <3>4. CASE DelScannedRefresh(p)
      BY <3>4 DEF KeepsUntilReplaced
    <3> QED BY <2>5, <3>1, <3>2, <3>3, <3>4 DEF Step
  <2>6. ASSUME NEW i \in TokenId, ExpireAccess(i) \/ ExpireRefresh(i) PROVE KeepsUntilReplaced
    <3>1. CASE ExpireAccess(i)
      BY <2>1, <3>1 DEF ExpireAccess
    <3>2. CASE ExpireRefresh(i)
      <4>1. refresh \ refresh' \subseteq {i}
        BY <3>2 DEF ExpireRefresh
      <4> QED BY <3>2, <4>1 DEF KeepsUntilReplaced
    <3> QED BY <2>6, <3>1, <3>2
  <2> QED BY <2>2, <2>3, <2>4, <2>5, <2>6 DEF Next
<1> QED BY Invariance, <1>1, PTL DEF Spec, NoStranding

\* No step of a request removes a key of another user.
THEOREM RequestsRemoveOwnKeys == Spec => OwnKeysOnly
<1>1. IInv /\ [Next]_vars => [RemovesOwnKeys]_vars
  <2> SUFFICES ASSUME IInv, Next PROVE RemovesOwnKeys
    BY DEF RemovesOwnKeys
  <2>1. ASSUME refresh' = refresh, access' = access PROVE RemovesOwnKeys
    BY <2>1 DEF RemovesOwnKeys
  <2>2. CASE \E p \in Proc, u \in User : SignIn(p, u)
    BY <2>1, <2>2 DEF SignIn, keys
  <2>3. CASE \E p \in Proc, u \in User, a \in TokenId, r \in returned : Refresh(p, u, a, r)
    BY <2>1, <2>3 DEF Refresh, keys
  <2>4. CASE \E p \in Proc, u \in User, kind \in RevokeType : RevokeToken(p, u, kind)
    BY <2>1, <2>4 DEF RevokeToken, keys
  <2>5. ASSUME NEW p \in Proc, Step(p) PROVE RemovesOwnKeys
    <3>1. \A q \in Proc : q # p => req'[q] = req[q]
      BY <2>5, AdvanceFacts, EndFacts
      DEF IInv, TypeOK, Step, SetRefreshKey, SetAccessKey, Reply, DelRefreshKey, DelAccessKey,
          DelScannedAccess, ScanRefresh, DelScannedRefresh, Fail, Advance, End
    <3>2. ASSUME \A i \in (refresh \ refresh') \union (access \ access') : subject[i] = req[p].user
          PROVE  RemovesOwnKeys
      BY <3>1, <3>2 DEF RemovesOwnKeys
    <3>3. CASE SetRefreshKey(p) \/ SetAccessKey(p)
      BY <3>2, <3>3 DEF SetRefreshKey, SetAccessKey
    <3>4. CASE Reply(p) \/ ScanRefresh(p) \/ Fail(p)
      BY <2>1, <3>4 DEF Reply, ScanRefresh, Fail, keys
    <3>5. CASE DelRefreshKey(p) \/ DelAccessKey(p)
      <4>1. subject[req[p].old] = req[p].user
        BY <3>5 DEF DelRefreshKey, DelAccessKey, IInv, HeldPair, Generates
      <4> QED BY <3>2, <3>5, <4>1 DEF DelRefreshKey, DelAccessKey
    <3>6. CASE DelScannedAccess(p)
      <4>1. \A i \in req[p].found : subject[i] = req[p].user
        BY <3>6 DEF DelScannedAccess, IInv, Revocation, Revokes
      <4> QED BY <3>2, <3>6, <4>1 DEF DelScannedAccess, AccessKeysOf
    <3>7. CASE DelScannedRefresh(p)
      <4>1. \A i \in req[p].found : subject[i] = req[p].user
        BY <3>7 DEF DelScannedRefresh, IInv, Revocation, Revokes
      <4> QED BY <3>2, <3>7, <4>1 DEF DelScannedRefresh, RefreshKeysOf
    <3> QED BY <2>5, <3>3, <3>4, <3>5, <3>6, <3>7 DEF Step
  <2>6. CASE \E i \in TokenId : ExpireAccess(i) \/ ExpireRefresh(i)
    BY <2>6 DEF ExpireAccess, ExpireRefresh, RemovesOwnKeys
  <2> QED BY <2>2, <2>3, <2>4, <2>5, <2>6 DEF Next
<1> QED BY Invariance, <1>1, PTL DEF Spec, OwnKeysOnly

-----------------------------------------------------------------------------
\* JwtTokens implements Sessions, with held <- Held, open <- Open and due <- Due.

Held == {[id |-> i, user |-> subject[i], parent |-> parent[i]] : i \in returned}

Open == {"access"} \X (access \intersect returned)
          \union {"refresh"} \X (refresh \intersect returned)

Due == [p \in Proc |-> FamiliesLeft(req[p]) \X req[p].due]

LEMMA LeftOf ==
    ASSUME NEW q
    PROVE  /\ ~Revokes(q) => FamiliesLeft(q) = {}
           /\ q.pc = "delScannedAccess" /\ q.kind = "both"
                => FamiliesLeft(q) = {"access", "refresh"}
           /\ q.pc = "delScannedAccess" /\ q.kind # "both" => FamiliesLeft(q) = {"access"}
           /\ q.pc \in {"scanRefresh", "delScannedRefresh"} => FamiliesLeft(q) = {"refresh"}
BY DEF FamiliesLeft, Revokes

\* What a step of request p does to what the revocations have left.
LEMMA DueFacts ==
    ASSUME NEW p \in Proc, \A q \in Proc : q # p => req'[q] = req[q]
    PROVE  /\ Due' = [Due EXCEPT ![p] = FamiliesLeft(req'[p]) \X req'[p].due]
           /\ FamiliesLeft(req'[p]) \X req'[p].due = Due[p] => Due' = Due
<1>1. Due' = [q \in Proc |-> FamiliesLeft(req'[q]) \X req'[q].due]
  BY DEF Due, FamiliesLeft
<1>2. ASSUME NEW q \in Proc, q # p
      PROVE  FamiliesLeft(req'[q]) \X req'[q].due = Due[q]
  BY <1>2, Zenon DEF Due
<1> QED BY <1>1, <1>2 DEF Due

LEMMA GeneratesLeavesDue ==
    ASSUME NEW p \in Proc, \A q \in Proc : q # p => req'[q] = req[q],
           ~Revokes(req[p]), ~Revokes(req'[p])
    PROVE  Due' = Due
<1>1. FamiliesLeft(req[p]) = {} /\ FamiliesLeft(req'[p]) = {}
  BY LeftOf
<1>2. FamiliesLeft(req'[p]) \X req'[p].due = Due[p]
  BY <1>1 DEF Due
<1> QED BY <1>2, DueFacts

\* Nothing happens to the pairs that clients hold.
LEMMA UnseenStutters ==
    ASSUME returned' = returned,
           \A i \in returned : subject'[i] = subject[i] /\ parent'[i] = parent[i],
           access' \intersect returned = access \intersect returned,
           refresh' \intersect returned = refresh \intersect returned,
           Due' = Due
    PROVE  UNCHANGED Client!vars
<1>1. Held' = Held
  BY DEF Held
<1>2. Open' = Open
  BY DEF Open
<1> QED BY <1>1, <1>2 DEF Client!vars, Held, Open, Due

LEMMA FewerOpen ==
    ASSUME returned' = returned, access' \subseteq access, refresh' \subseteq refresh
    PROVE  Open' \subseteq Open
BY DEF Open

LEMMA ClosingImplements ==
    ASSUME UNCHANGED <<returned, subject, parent>>, access' \subseteq access,
           refresh' \subseteq refresh, Due' = Due
    PROVE  Client!Close
<1>1. Held' = Held
  BY DEF Held
<1> QED BY <1>1, FewerOpen DEF Client!Close, Held, Open, Due

\* generate() works on a pair no client has.
LEMMA GenerateImplements ==
    ASSUME IInv, NEW p \in Proc,
           \/ \E u \in User : SignIn(p, u)
           \/ \E u \in User, a \in TokenId, r \in returned : Refresh(p, u, a, r)
           \/ SetRefreshKey(p) \/ SetAccessKey(p)
    PROVE  UNCHANGED Client!vars
<1>1. TypeOK
  BY DEF IInv
<1>2. CASE \/ \E u \in User : SignIn(p, u)
           \/ \E u \in User, a \in TokenId, r \in returned : Refresh(p, u, a, r)
  <2>1. PICK n \in UnusedIds, u \in User \union {NoUser}, o \in TokenId \union {NoId} :
               /\ subject' = [subject EXCEPT ![n] = u] /\ parent' \in {parent, [parent EXCEPT ![n] = o]}
               /\ req' = [req EXCEPT ![p] = Generating(u, o, n)]
               /\ req[p].pc = "idle"
               /\ UNCHANGED <<refresh, access, returned>>
    BY <1>1, <1>2 DEF SignIn, Refresh, keys, history, TypeOK
  <2>2. n \notin returned
    BY <2>1 DEF IInv, UnusedIsNowhere, UnusedIds
  <2>3. /\ \A q \in Proc : q # p => req'[q] = req[q]
        /\ ~Revokes(req[p]) /\ ~Revokes(req'[p])
    BY <1>1, <2>1 DEF TypeOK, Revokes, Generating
  <2>4. Due' = Due
    BY <2>3, GeneratesLeavesDue
  <2>5. \A i \in returned : subject'[i] = subject[i] /\ parent'[i] = parent[i]
    BY <1>1, <2>1, <2>2 DEF TypeOK
  <2> QED BY <2>1, <2>4, <2>5, UnseenStutters
<1>3. ASSUME SetRefreshKey(p) \/ SetAccessKey(p)
      PROVE  UNCHANGED Client!vars
  <2>1. PICK stage \in Stage : Advance(p, stage) /\ stage \in {"setAccess", "delRefresh", "reply"}
    BY <1>3 DEF SetRefreshKey, SetAccessKey, Stage
  <2>2. /\ \A q \in Proc : q # p => req'[q] = req[q]
        /\ ~Revokes(req'[p])
    BY <1>1, <2>1, AdvanceFacts DEF Revokes
  <2>3. ~Revokes(req[p]) /\ req[p].new \notin returned
    BY <1>3 DEF SetRefreshKey, SetAccessKey, IInv, OwnPair, Generates, Revokes
  <2>4. Due' = Due
    BY <2>2, <2>3, GeneratesLeavesDue
  <2> QED BY <1>3, <2>3, <2>4, UnseenStutters DEF SetRefreshKey, SetAccessKey, history
<1> QED BY <1>2, <1>3

\* The answer delivers the pair: its id is new to the clients, and both tokens of the
\* pair it replaces are refused by now.
LEMMA ReplyImplements ==
    ASSUME IInv, NEW p \in Proc, Reply(p)
    PROVE  \E n \in TokenId, u \in User, o \in TokenId \union {NoId} : Client!Deliver(n, u, o)
<1>0. PICK n, u, o : n = req[p].new /\ u = req[p].user /\ o = req[p].old
  OBVIOUS
<1>1. /\ TypeOK /\ End(p) /\ Generates(req[p]) /\ ~Revokes(req[p])
      /\ returned' = returned \union {n}
      /\ UNCHANGED <<refresh, access, subject, parent>>
  BY <1>0 DEF IInv, Reply, keys, history, Generates, Revokes
<1>2. /\ n \in TokenId /\ u \in User /\ o \in TokenId \union {NoId}
      /\ n \notin returned /\ subject[n] = u /\ parent[n] = o
      /\ o # NoId => o \in returned /\ subject[o] = u /\ o \notin refresh /\ o \notin access
  BY <1>0, <1>1 DEF Reply, IInv, OwnPair, HeldPair, Generates, TypeOK
<1>3. NoId \notin returned
  BY <1>1, NoIdAssumption DEF TypeOK
<1>4. \A t \in Held : t.id # n
  BY <1>2 DEF Held
<1>5. ASSUME o # NoId
      PROVE  /\ o \in {t.id : t \in {s \in Held : s.user = u}}
             /\ (Client!Family \X {o}) \intersect Open = {}
  <2>1. [id |-> o, user |-> subject[o], parent |-> parent[o]] \in {s \in Held : s.user = u}
    BY <1>2, <1>5 DEF Held
  <2>2. \A t \in Open : t[2] # o
    BY <1>2, <1>5 DEF Open
  <2> QED BY <2>1, <2>2 DEF Client!Family
<1>6. Held' = Held \union {[id |-> n, user |-> u, parent |-> o]}
  BY <1>1, <1>2 DEF Held
<1>7. \E families \in SUBSET Client!Family : Open' = Open \union families \X {n}
  <2> DEFINE families == {f \in Client!Family : n \in IF f = "access" THEN access ELSE refresh}
  <2>1. Open' = Open \union families \X {n}
    BY <1>1 DEF Open, Client!Family
  <2>2. families \in SUBSET Client!Family
    BY DEF Client!Family
  <2> HIDE DEF families
  <2> QED BY <2>1, <2>2
<1>8. Due' = Due
  <2>1. (\A q \in Proc : q # p => req'[q] = req[q]) /\ ~Revokes(req'[p])
    BY <1>1, EndFacts DEF Revokes, Idle
  <2> QED BY <1>1, <2>1, GeneratesLeavesDue
<1>9. Client!Deliver(n, u, o)
  BY <1>4, <1>5, <1>6, <1>7, <1>8
  DEF Client!Deliver, Client!Tokens, Client!IdsOf, Client!Family, Held, Open, Due
<1> QED BY <1>2, <1>9

\* A DEL of a rotation and a TTL close tokens.
LEMMA RemovalImplements ==
    ASSUME IInv, \/ \E p \in Proc : DelRefreshKey(p) \/ DelAccessKey(p)
                 \/ \E i \in TokenId : ExpireAccess(i) \/ ExpireRefresh(i)
    PROVE  Client!Close
<1>1. /\ UNCHANGED <<returned, subject, parent>>
      /\ access' \subseteq access /\ refresh' \subseteq refresh
  BY DEF DelRefreshKey, DelAccessKey, ExpireAccess, ExpireRefresh, history
<1>2. CASE \E i \in TokenId : ExpireAccess(i) \/ ExpireRefresh(i)
  <2>1. Due' = Due
    BY <1>2 DEF ExpireAccess, ExpireRefresh, Due, FamiliesLeft
  <2> QED BY <1>1, <2>1, ClosingImplements
<1>3. ASSUME NEW p \in Proc, DelRefreshKey(p) \/ DelAccessKey(p)
      PROVE  Client!Close
  <2>1. PICK stage \in Stage : Advance(p, stage) /\ stage \in {"delAccess", "reply"}
    BY <1>3 DEF DelRefreshKey, DelAccessKey, Stage
  <2>2. /\ \A q \in Proc : q # p => req'[q] = req[q]
        /\ ~Revokes(req[p]) /\ ~Revokes(req'[p])
    BY <1>3, <2>1, AdvanceFacts DEF IInv, DelRefreshKey, DelAccessKey, Revokes
  <2> QED BY <1>1, <2>2, GeneratesLeavesDue, ClosingImplements
<1> QED BY <1>2, <1>3

LEMMA HeldBy ==
    ASSUME NEW u
    PROVE  {t.id : t \in {s \in Held : s.user = u}} = {i \in returned : subject[i] = u}
<1>1. ASSUME NEW i \in returned, subject[i] = u
      PROVE  i \in {t.id : t \in {s \in Held : s.user = u}}
  <2>1. [id |-> i, user |-> subject[i], parent |-> parent[i]] \in {s \in Held : s.user = u}
    BY <1>1 DEF Held
  <2> QED BY <2>1
<1>2. \A t \in Held : t.id \in returned /\ subject[t.id] = t.user
  BY DEF Held
<1> QED BY <1>1, <1>2

LEMMA RevokeTokenImplements ==
    ASSUME IInv, NEW p \in Proc, NEW u \in User, NEW kind \in RevokeType, RevokeToken(p, u, kind)
    PROVE  \E families \in SUBSET Client!Family : Client!RevokeToken(p, u, families)
<1> DEFINE ids == IF kind = "refresh_token" THEN RefreshKeysOf(u) ELSE AccessKeysOf(u)
           q == Revoking(u, kind, ids)
<1>1. /\ TypeOK /\ req' = [req EXCEPT ![p] = q] /\ req[p].pc = "idle"
      /\ UNCHANGED <<refresh, access, subject, returned, parent>>
  BY DEF IInv, RevokeToken, keys, history
<1>2. req'[p] = q /\ \A x \in Proc : x # p => req'[x] = req[x]
  BY <1>1 DEF TypeOK
<1>3. q.due = {t.id : t \in {s \in Held : s.user = u}}
  <2>1. q.due = {i \in returned : subject[i] = u}
    BY DEF Revoking
  <2> QED BY <2>1, HeldBy
<1>4. PICK families \in SUBSET Client!Family : families = FamiliesLeft(q)
  <2>1. FamiliesLeft(q) \in SUBSET Client!Family
    BY DEF FamiliesLeft, Client!Family
  <2> QED BY <2>1
<1>5. Due' = [Due EXCEPT ![p] = families \X q.due]
  BY <1>2, <1>4, DueFacts
<1>6. Due[p] = {}
  <2>1. FamiliesLeft(req[p]) = {}
    BY <1>1, LeftOf DEF Revokes
  <2> QED BY <2>1 DEF Due
<1>7. Held' = Held /\ Open' = Open
  BY <1>1 DEF Held, Open
<1> HIDE DEF q
<1>8. Client!RevokeToken(p, u, families)
  BY <1>3, <1>5, <1>6, <1>7
  DEF Client!RevokeToken, Client!Tokens, Client!IdsOf, Held, Open, Due
<1> QED BY <1>8

\* A DEL of a revocation closes what its SCAN found, and whatever it was due to close
\* in that family was found or is closed already.
LEMMA DelScannedAccessImplements ==
    ASSUME IInv, NEW p \in Proc, DelScannedAccess(p)
    PROVE  Client!FinishFamily(p, "access")
<1>1. /\ TypeOK /\ "scanRefresh" \in Stage /\ req[p].pc = "delScannedAccess"
      /\ UNCHANGED <<refresh, subject, returned, parent>>
      /\ access' \subseteq access \ req[p].found
  BY DEF IInv, DelScannedAccess, Stage
<1>2. \A q \in Proc : q # p => req'[q] = req[q]
  BY <1>1, AdvanceFacts, EndFacts DEF DelScannedAccess
<1>3. Due' = [Due EXCEPT ![p] = {t \in @ : t[1] # "access"}]
  <2>1. CASE req[p].kind = "both"
    <3>1. req'[p].pc = "scanRefresh" /\ req'[p].due = req[p].due
      BY <1>1, <2>1, AdvanceFacts DEF DelScannedAccess
    <3>2. /\ FamiliesLeft(req[p]) = {"access", "refresh"}
          /\ FamiliesLeft(req'[p]) = {"refresh"}
      BY <1>1, <2>1, <3>1, LeftOf
    <3>3. Due[p] = {"access", "refresh"} \X req[p].due
      BY <3>2 DEF Due
    <3>4. FamiliesLeft(req'[p]) \X req'[p].due = {t \in Due[p] : t[1] # "access"}
      BY <3>1, <3>2, <3>3
    <3> QED BY <1>2, <3>4, DueFacts
  <2>2. CASE req[p].kind # "both"
    <3>1. req'[p] = Idle
      BY <1>1, <2>2, EndFacts DEF DelScannedAccess
    <3>2. FamiliesLeft(req[p]) = {"access"} /\ FamiliesLeft(req'[p]) = {}
      BY <1>1, <2>2, <3>1, LeftOf DEF Idle, Revokes
    <3>3. Due[p] = {"access"} \X req[p].due
      BY <3>2 DEF Due
    <3>4. FamiliesLeft(req'[p]) \X req'[p].due = {t \in Due[p] : t[1] # "access"}
      BY <3>2, <3>3
    <3> QED BY <1>2, <3>4, DueFacts
  <2> QED BY <2>1, <2>2
<1>4. {t \in Due[p] : t[1] = "access"} \intersect Open' = {}
  <2>1. req[p].due \intersect access \subseteq req[p].found
    BY <1>1 DEF IInv, Revocation, Revokes
  <2>2. req[p].due \intersect access' = {}
    BY <1>1, <2>1
  <2>3. \A t \in Due[p] : t[2] \in req[p].due
    BY DEF Due
  <2>4. \A t \in Open' : t[1] = "access" => t[2] \in access'
    BY DEF Open
  <2> QED BY <2>2, <2>3, <2>4
<1>5. Open' \subseteq Open /\ Held' = Held
  BY <1>1, FewerOpen DEF Held
<1> QED BY <1>3, <1>4, <1>5 DEF Client!FinishFamily, Held, Open, Due

LEMMA DelScannedRefreshImplements ==
    ASSUME IInv, NEW p \in Proc, DelScannedRefresh(p)
    PROVE  Client!FinishFamily(p, "refresh")
<1>1. /\ TypeOK /\ req[p].pc = "delScannedRefresh" /\ End(p)
      /\ UNCHANGED <<access, subject, returned, parent>>
      /\ refresh' \subseteq refresh \ req[p].found
  BY DEF IInv, DelScannedRefresh
<1>2. req'[p] = Idle /\ \A q \in Proc : q # p => req'[q] = req[q]
  BY <1>1, EndFacts
<1>3. Due' = [Due EXCEPT ![p] = {t \in @ : t[1] # "refresh"}]
  <2>1. FamiliesLeft(req[p]) = {"refresh"} /\ FamiliesLeft(req'[p]) = {}
    BY <1>1, <1>2, LeftOf DEF Idle, Revokes
  <2>2. Due[p] = {"refresh"} \X req[p].due
    BY <2>1 DEF Due
  <2>3. FamiliesLeft(req'[p]) \X req'[p].due = {t \in Due[p] : t[1] # "refresh"}
    BY <2>1, <2>2
  <2> QED BY <1>2, <2>3, DueFacts
<1>4. {t \in Due[p] : t[1] = "refresh"} \intersect Open' = {}
  <2>1. req[p].due \intersect refresh \subseteq req[p].found
    BY <1>1 DEF IInv, Revocation, Revokes
  <2>2. req[p].due \intersect refresh' = {}
    BY <1>1, <2>1
  <2>3. \A t \in Due[p] : t[2] \in req[p].due
    BY DEF Due
  <2>4. \A t \in Open' : t[1] = "refresh" => t[2] \in refresh'
    BY DEF Open
  <2> QED BY <2>2, <2>3, <2>4
<1>5. Open' \subseteq Open /\ Held' = Held
  BY <1>1, FewerOpen DEF Held
<1> QED BY <1>3, <1>4, <1>5 DEF Client!FinishFamily, Held, Open, Due

LEMMA ScanRefreshImplements ==
    ASSUME IInv, NEW p \in Proc, ScanRefresh(p)
    PROVE  UNCHANGED Client!vars
<1>1. /\ TypeOK /\ req[p].pc = "scanRefresh"
      /\ req' = [req EXCEPT ![p] = [@ EXCEPT !.pc = "delScannedRefresh",
                                             !.found = RefreshKeysOf(req[p].user)]]
      /\ UNCHANGED <<refresh, access, subject, returned, parent>>
  BY DEF IInv, ScanRefresh, keys, history
<1>2. /\ req'[p].pc = "delScannedRefresh" /\ req'[p].due = req[p].due
      /\ \A q \in Proc : q # p => req'[q] = req[q]
  BY <1>1 DEF TypeOK, Request
<1>3. FamiliesLeft(req'[p]) = FamiliesLeft(req[p])
  BY <1>1, <1>2, LeftOf
<1>4. FamiliesLeft(req'[p]) \X req'[p].due = Due[p]
  BY <1>2, <1>3 DEF Due
<1> QED BY <1>1, <1>2, <1>4, DueFacts, UnseenStutters

LEMMA FailImplements ==
    ASSUME IInv, NEW p \in Proc, Fail(p)
    PROVE  Client!Abandon(p)
<1>1. /\ TypeOK /\ End(p) /\ UNCHANGED <<refresh, access, subject, returned, parent>>
  BY DEF IInv, Fail, keys, history
<1>2. req'[p] = Idle /\ \A q \in Proc : q # p => req'[q] = req[q]
  BY <1>1, EndFacts
<1>3. FamiliesLeft(req'[p]) \X req'[p].due = {}
  BY <1>2, LeftOf DEF Idle, Revokes
<1>4. Due' = [Due EXCEPT ![p] = {}]
  BY <1>2, <1>3, DueFacts
<1>5. Held' = Held /\ Open' = Open
  BY <1>1 DEF Held, Open
<1> QED BY <1>4, <1>5 DEF Client!Abandon, Held, Open, Due

LEMMA InitImplements == Init => Client!Init
<1> SUFFICES ASSUME Init
             PROVE  Client!Init
  OBVIOUS
<1>1. Held = {} /\ Open = {}
  BY DEF Init, Held, Open
<1>2. \A p \in Proc : FamiliesLeft(req[p]) = {}
  BY LeftOf DEF Init, Idle, Revokes
<1>3. Due = [p \in Proc |-> {}]
  BY <1>2 DEF Due
<1> QED BY <1>1, <1>3 DEF Client!Init, Held, Open, Due

LEMMA NextImplements == IInv /\ [Next]_vars => [Client!Next]_Client!vars
<1> SUFFICES ASSUME IInv, [Next]_vars
             PROVE  Client!Next \/ UNCHANGED Client!vars
  OBVIOUS
<1>1. CASE UNCHANGED vars
  <2>1. Held' = Held /\ Open' = Open /\ Due' = Due
    BY <1>1 DEF vars, keys, history, Held, Open, Due, FamiliesLeft
  <2> QED BY <2>1 DEF Client!vars, Held, Open, Due
<1>2. ASSUME NEW p \in Proc, \/ \E u \in User : SignIn(p, u)
                             \/ \E u \in User, a \in TokenId, r \in returned : Refresh(p, u, a, r)
      PROVE  UNCHANGED Client!vars
  BY <1>2, GenerateImplements
<1>3. ASSUME NEW p \in Proc, NEW u \in User, NEW kind \in RevokeType, RevokeToken(p, u, kind)
      PROVE  Client!Next
  BY <1>3, RevokeTokenImplements DEF Client!Next
<1>4. ASSUME NEW p \in Proc, Step(p)
      PROVE  Client!Next \/ UNCHANGED Client!vars
  <2>1. CASE SetRefreshKey(p) \/ SetAccessKey(p)
    BY <2>1, GenerateImplements
  <2>2. CASE Reply(p)
    BY <2>2, ReplyImplements DEF Client!Next
  <2>3. CASE DelRefreshKey(p) \/ DelAccessKey(p)
    BY <2>3, RemovalImplements DEF Client!Next
  <2>4. CASE DelScannedAccess(p) \/ DelScannedRefresh(p)
    BY <2>4, DelScannedAccessImplements, DelScannedRefreshImplements
    DEF Client!Next, Client!Family
  <2>5. CASE ScanRefresh(p)
    BY <2>5, ScanRefreshImplements
  <2>6. CASE Fail(p)
    BY <2>6, FailImplements DEF Client!Next
  <2> QED BY <1>4, <2>1, <2>2, <2>3, <2>4, <2>5, <2>6 DEF Step
<1>5. CASE \E i \in TokenId : ExpireAccess(i) \/ ExpireRefresh(i)
  BY <1>5, RemovalImplements DEF Client!Next
<1> QED BY <1>1, <1>2, <1>3, <1>4, <1>5 DEF Next

\* The clients of any number of users, with any number of requests in flight, get what
\* Sessions promises, although no command of the service is atomic with the next: a
\* refused token stays refused, a successor comes only for a pair that is refused, and
\* a finished revocation leaves nothing of what it was due to close.
THEOREM SessionsAreKept == Spec => ImplementsSessions
<1> QED BY InitImplements, Invariance, NextImplements, PTL DEF Spec, ImplementsSessions, Client!Spec

=============================================================================
