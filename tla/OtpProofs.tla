------------------------------ MODULE OtpProofs ------------------------------
(***************************************************************************)
(* Theorems about Otp for any users, destinations, codes and number of     *)
(* requests.                                                               *)
(***************************************************************************)
EXTENDS Otp, FiniteSetTheorems, TLAPS

\* Every OTP is for the owner of its destination.
RowsOwned == \A o \in Saved : row[o].user = Owner[row[o].dest]

\* What an issuing request knows at each of its statements.
Issuing ==
    \A p \in Proc : req[p].pc \in {"createUser", "saveOtp"} =>
        /\ req[p].kind \in IssueKind
        /\ req[p].dest \in Dest
        /\ req[p].pc = "createUser" => config.allowRegisterNewUser
        /\ req[p].pc = "saveOtp" => Owner[req[p].dest] \in users

\* What a redeeming request knows: the row it found is for its destination, and
\* is used by the time the request acts.
Redeeming ==
    \A p \in Proc : req[p].pc \in {"saveUsed", "finish"} =>
        /\ req[p].kind \in RedeemKind
        /\ req[p].otp \in Saved
        /\ row[req[p].otp].dest = req[p].dest
        /\ req[p].pc = "finish" => req[p].otp \in used

\* A redemption that took effect used its OTP.
GrantsUsed == \A g \in granted : g.otp \in used

IInv ==
    /\ TypeOK /\ RowsOwned /\ Issuing /\ Redeeming /\ GrantsUsed
    /\ GrantsMatchDestination /\ IssuedToUsers /\ RegistrationClosed

-----------------------------------------------------------------------------

\* Start replaces one request.
LEMMA StartFacts ==
    ASSUME TypeOK, NEW p \in Proc, NEW stage \in Stage,
           NEW kind \in IssueKind \union RedeemKind \union {"none"},
           NEW d \in Dest \union {NoDest}, NEW o \in OtpId \union {NoOtp},
           Start(p, stage, kind, d, o)
    PROVE  /\ req' \in [Proc -> Request]
           /\ req'[p].pc = stage /\ req'[p].kind = kind
           /\ req'[p].dest = d /\ req'[p].otp = o
           /\ \A q \in Proc : q # p => req'[q] = req[q]
BY DEF TypeOK, Start, Request

LEMMA AdvanceFacts ==
    ASSUME TypeOK, NEW p \in Proc, NEW stage \in Stage, Advance(p, stage)
    PROVE  /\ req' \in [Proc -> Request]
           /\ req'[p].pc = stage /\ req'[p].kind = req[p].kind
           /\ req'[p].dest = req[p].dest /\ req'[p].otp = req[p].otp
           /\ \A q \in Proc : q # p => req'[q] = req[q]
<1>1. /\ req[p].kind \in IssueKind \union RedeemKind \union {"none"}
      /\ req[p].dest \in Dest \union {NoDest} /\ req[p].otp \in OtpId \union {NoOtp}
  BY DEF TypeOK, Request
<1> QED BY <1>1, StartFacts DEF Advance

LEMMA EndFacts ==
    ASSUME TypeOK, NEW p \in Proc, End(p)
    PROVE  /\ req' \in [Proc -> Request]
           /\ req'[p].pc = "idle"
           /\ \A q \in Proc : q # p => req'[q] = req[q]
BY DEF TypeOK, End, Idle, Request, Stage

LEMMA InitIInv == Init => IInv
BY SeededAssumption
DEF Init, IInv, TypeOK, RowsOwned, Issuing, Redeeming, GrantsUsed, GrantsMatchDestination,
    IssuedToUsers, RegistrationClosed, Saved, Request, Idle, Stage, Grant

\* One lemma per action: it preserves the inductive invariant.

LEMMA FindIssuerPreserves ==
    ASSUME IInv, NEW p \in Proc, NEW d \in Dest, FindIssuer(p, d)
    PROVE  IInv'
<1>1. TypeOK /\ UNCHANGED <<config, users, row, used, expired, granted>>
  BY DEF FindIssuer, SendOtp, SignUp, RequestResetPassword, IInv
<1>. PICK kind \in IssueKind :
        \/ Start(p, "saveOtp", kind, d, NoOtp) /\ Owner[d] \in users
        \/ Start(p, "createUser", kind, d, NoOtp) /\ config.allowRegisterNewUser
  BY DEF FindIssuer, SendOtp, SignUp, RequestResetPassword, RegistersOnSend, IssueKind
<1>2. /\ req' \in [Proc -> Request]
      /\ req'[p].kind = kind /\ req'[p].dest = d
      /\ \/ req'[p].pc = "saveOtp" /\ Owner[d] \in users
         \/ req'[p].pc = "createUser" /\ config.allowRegisterNewUser
      /\ \A q \in Proc : q # p => req'[q] = req[q]
  BY <1>1, StartFacts DEF Stage
<1>3. TypeOK' /\ RowsOwned' /\ GrantsUsed' /\ GrantsMatchDestination' /\ IssuedToUsers'
      /\ RegistrationClosed'
  BY <1>1, <1>2 DEF IInv, TypeOK, RowsOwned, GrantsUsed, GrantsMatchDestination, IssuedToUsers,
                    RegistrationClosed, Saved
<1>4. Issuing'
  BY <1>1, <1>2 DEF IInv, Issuing
<1>5. Redeeming'
  BY <1>1, <1>2 DEF IInv, Redeeming, Saved
<1> QED BY <1>3, <1>4, <1>5 DEF IInv

LEMMA CreateUserPreserves ==
    ASSUME IInv, NEW p \in Proc, CreateUser(p)
    PROVE  IInv'
<1> USE OwnerAssumption
<1>1. /\ TypeOK /\ Advance(p, "saveOtp") /\ UNCHANGED <<config, row, used, expired, granted>>
      /\ users' = users \union {Owner[req[p].dest]}
      /\ req[p].dest \in Dest /\ req[p].kind \in IssueKind /\ config.allowRegisterNewUser
  BY DEF CreateUser, IInv, Issuing
<1>2. /\ req' \in [Proc -> Request]
      /\ req'[p].pc = "saveOtp" /\ req'[p].kind = req[p].kind /\ req'[p].dest = req[p].dest
      /\ \A q \in Proc : q # p => req'[q] = req[q]
  BY <1>1, AdvanceFacts DEF Stage
<1>3. TypeOK' /\ RowsOwned' /\ GrantsUsed' /\ GrantsMatchDestination' /\ IssuedToUsers'
      /\ RegistrationClosed'
  BY <1>1, <1>2 DEF IInv, TypeOK, RowsOwned, GrantsUsed, GrantsMatchDestination, IssuedToUsers,
                    RegistrationClosed, Saved
<1>4. Issuing' /\ Redeeming'
  BY <1>1, <1>2 DEF IInv, Issuing, Redeeming, Saved
<1> QED BY <1>3, <1>4 DEF IInv

LEMMA SaveOtpPreserves ==
    ASSUME IInv, NEW p \in Proc, SaveOtp(p)
    PROVE  IInv'
<1> USE OwnerAssumption
<1> DEFINE d == req[p].dest
           New(c) == [user |-> Owner[d], dest |-> d, code |-> c, reason |-> ReasonOf(req[p].kind)]
<1>1. /\ TypeOK /\ End(p) /\ UNCHANGED <<config, users, used, expired, granted>>
      /\ d \in Dest /\ Owner[d] \in users /\ req[p].kind \in IssueKind
  BY DEF SaveOtp, IInv, Issuing
<1>2. PICK o \in OtpId \ Saved, c \in Code :
          row' = [x \in Saved \union {o} |-> IF x = o THEN New(c) ELSE row[x]]
  BY DEF SaveOtp
<1>3. ReasonOf(req[p].kind) \in Reason
  BY <1>1 DEF ReasonOf, Reason, IssueKind
<1>4. New(c) \in OtpRow
  BY <1>1, <1>3 DEF OtpRow
<1>5. /\ Saved' = Saved \union {o}
      /\ row'[o] = New(c) /\ \A x \in Saved : row'[x] = row[x]
      /\ row' \in [Saved' -> OtpRow]
  BY <1>1, <1>2, <1>4 DEF Saved, TypeOK
<1>6. New(c).user = Owner[d] /\ New(c).dest = d
  OBVIOUS
<1> HIDE DEF New
<1>7. /\ req' \in [Proc -> Request] /\ req'[p].pc = "idle"
      /\ \A q \in Proc : q # p => req'[q] = req[q]
  BY <1>1, EndFacts
<1>8. TypeOK'
  BY <1>1, <1>5, <1>7 DEF TypeOK
<1>9. RowsOwned' /\ IssuedToUsers' /\ RegistrationClosed'
  BY <1>1, <1>5, <1>6 DEF IInv, RowsOwned, IssuedToUsers, RegistrationClosed
<1>10. Issuing' /\ Redeeming'
  BY <1>1, <1>5, <1>7 DEF IInv, Issuing, Redeeming
<1>11. GrantsUsed' /\ GrantsMatchDestination'
  BY <1>1, <1>5 DEF IInv, TypeOK, GrantsUsed, GrantsMatchDestination
<1> QED BY <1>8, <1>9, <1>10, <1>11 DEF IInv

LEMMA FindOtpPreserves ==
    ASSUME IInv, NEW p \in Proc, NEW kind \in RedeemKind, NEW d \in Dest, NEW c \in Code,
           FindOtp(p, kind, d, c)
    PROVE  IInv'
<1>1. PICK o \in LiveRows(c) : row[o].dest = d /\ Start(p, "saveUsed", kind, d, o)
  BY DEF FindOtp
<1>2. /\ TypeOK /\ UNCHANGED <<config, users, row, used, expired, granted>>
      /\ o \in Saved /\ o \in OtpId
  BY <1>1 DEF FindOtp, IInv, TypeOK, LiveRows
<1>3. /\ req' \in [Proc -> Request]
      /\ req'[p].pc = "saveUsed" /\ req'[p].kind = kind
      /\ req'[p].dest = d /\ req'[p].otp = o
      /\ \A q \in Proc : q # p => req'[q] = req[q]
  BY <1>1, <1>2, StartFacts DEF Stage
<1>4. TypeOK' /\ RowsOwned' /\ GrantsUsed' /\ GrantsMatchDestination' /\ IssuedToUsers'
      /\ RegistrationClosed'
  BY <1>2, <1>3 DEF IInv, TypeOK, RowsOwned, GrantsUsed, GrantsMatchDestination, IssuedToUsers,
                    RegistrationClosed, Saved
<1>5. Issuing'
  BY <1>2, <1>3 DEF IInv, Issuing
<1>6. Redeeming'
  BY <1>1, <1>2, <1>3 DEF IInv, Redeeming, Saved
<1> QED BY <1>4, <1>5, <1>6 DEF IInv

LEMMA SaveUsedPreserves ==
    ASSUME IInv, NEW p \in Proc, SaveUsed(p)
    PROVE  IInv'
<1>1. /\ TypeOK /\ Advance(p, "finish") /\ UNCHANGED <<config, users, row, expired, granted>>
      /\ used' = used \union {req[p].otp}
      /\ req[p].otp \in Saved /\ req[p].kind \in RedeemKind /\ row[req[p].otp].dest = req[p].dest
  BY DEF SaveUsed, IInv, Redeeming
<1>2. /\ req' \in [Proc -> Request]
      /\ req'[p].pc = "finish" /\ req'[p].kind = req[p].kind
      /\ req'[p].dest = req[p].dest /\ req'[p].otp = req[p].otp
      /\ \A q \in Proc : q # p => req'[q] = req[q]
  BY <1>1, AdvanceFacts DEF Stage
<1>3. TypeOK' /\ RowsOwned' /\ GrantsUsed' /\ GrantsMatchDestination' /\ IssuedToUsers'
      /\ RegistrationClosed'
  BY <1>1, <1>2 DEF IInv, TypeOK, RowsOwned, GrantsUsed, GrantsMatchDestination, IssuedToUsers,
                    RegistrationClosed, Saved
<1>4. Issuing' /\ Redeeming'
  BY <1>1, <1>2 DEF IInv, Issuing, Redeeming, Saved
<1> QED BY <1>3, <1>4 DEF IInv

LEMMA FinishPreserves ==
    ASSUME IInv, NEW p \in Proc, Finish(p)
    PROVE  IInv'
<1> DEFINE o == req[p].otp
           g == [by |-> p, otp |-> o, kind |-> req[p].kind, dest |-> req[p].dest,
                 user |-> row[o].user]
<1>1. /\ TypeOK /\ End(p) /\ UNCHANGED <<config, users, row, used, expired>>
      /\ granted' = granted \union {g}
      /\ o \in Saved /\ o \in used /\ req[p].kind \in RedeemKind /\ row[o].dest = req[p].dest
      /\ row[o].user \in users
  BY DEF Finish, SigninByOtp, Verify, ResetPassword, ActsFor, IInv, Redeeming
<1>2. row[o] \in OtpRow /\ o \in OtpId
  BY <1>1 DEF TypeOK
<1>3. /\ g \in Grant /\ g.otp = o /\ g.dest = row[o].dest /\ g.user = Owner[g.dest]
  BY <1>1, <1>2 DEF Grant, OtpRow, IInv, RowsOwned
<1> HIDE DEF g
<1>4. /\ req' \in [Proc -> Request] /\ req'[p].pc = "idle"
      /\ \A q \in Proc : q # p => req'[q] = req[q]
  BY <1>1, EndFacts
<1>5. TypeOK' /\ RowsOwned' /\ IssuedToUsers' /\ RegistrationClosed'
  BY <1>1, <1>3, <1>4 DEF IInv, TypeOK, RowsOwned, IssuedToUsers, RegistrationClosed, Saved
<1>6. GrantsUsed' /\ GrantsMatchDestination'
  BY <1>1, <1>3 DEF IInv, GrantsUsed, GrantsMatchDestination
<1>7. Issuing' /\ Redeeming'
  BY <1>1, <1>4 DEF IInv, Issuing, Redeeming, Saved
<1> QED BY <1>5, <1>6, <1>7 DEF IInv

LEMMA FailPreserves ==
    ASSUME IInv, NEW p \in Proc, Fail(p)
    PROVE  IInv'
<1>1. TypeOK /\ End(p) /\ UNCHANGED <<config, users, row, used, expired, granted>>
  BY DEF Fail, IInv
<1>2. /\ req' \in [Proc -> Request] /\ req'[p].pc = "idle"
      /\ \A q \in Proc : q # p => req'[q] = req[q]
  BY <1>1, EndFacts
<1>3. TypeOK' /\ RowsOwned' /\ GrantsUsed' /\ GrantsMatchDestination' /\ IssuedToUsers'
      /\ RegistrationClosed'
  BY <1>1, <1>2 DEF IInv, TypeOK, RowsOwned, GrantsUsed, GrantsMatchDestination, IssuedToUsers,
                    RegistrationClosed, Saved
<1>4. Issuing' /\ Redeeming'
  BY <1>1, <1>2 DEF IInv, Issuing, Redeeming, Saved
<1> QED BY <1>3, <1>4 DEF IInv

-----------------------------------------------------------------------------

\* The invariant holds in every reachable state, for any constants.
THEOREM Invariance == Spec => []IInv
<1>1. IInv /\ [Next]_vars => IInv'
  <2> SUFFICES ASSUME IInv, [Next]_vars PROVE IInv'
    OBVIOUS
  <2>1. CASE \E p \in Proc, d \in Dest : FindIssuer(p, d)
    BY <2>1, FindIssuerPreserves
  <2>2. CASE \E p \in Proc, kind \in RedeemKind, d \in Dest, c \in Code : FindOtp(p, kind, d, c)
    BY <2>2, FindOtpPreserves
  <2>3. CASE \E p \in Proc : Step(p)
    BY <2>3, CreateUserPreserves, SaveOtpPreserves, SaveUsedPreserves, FinishPreserves,
       FailPreserves DEF Step
  <2>4. CASE (\E o \in OtpId : Expire(o)) \/ UNCHANGED vars
    <3>1. /\ UNCHANGED <<config, users, row, used, req, granted>>
          /\ expired' \subseteq Saved
      BY <2>4 DEF Expire, vars, IInv, TypeOK
    <3>2. TypeOK' /\ RowsOwned' /\ GrantsUsed' /\ GrantsMatchDestination' /\ IssuedToUsers'
          /\ RegistrationClosed'
      BY <3>1 DEF IInv, TypeOK, RowsOwned, GrantsUsed, GrantsMatchDestination, IssuedToUsers,
                  RegistrationClosed, Saved
    <3>3. Issuing' /\ Redeeming'
      BY <3>1 DEF IInv, Issuing, Redeeming, Saved
    <3> QED BY <3>2, <3>3 DEF IInv
  <2> QED BY <2>1, <2>2, <2>3, <2>4 DEF Next
<1> QED BY InitIInv, <1>1, PTL DEF Spec

\* Every variable keeps its type.
THEOREM TypeCorrect == Spec => []TypeOK
<1>1. IInv => TypeOK
  BY DEF IInv
<1> QED BY Invariance, <1>1, PTL

\* A code acts only for the owner of the destination it was sent to.
THEOREM CodesActForTheirOwner == Spec => []GrantsMatchDestination
<1>1. IInv => GrantsMatchDestination
  BY DEF IInv
<1> QED BY Invariance, <1>1, PTL

\* No OTP belongs to a user without a row.
THEOREM OtpsHaveUsers == Spec => []IssuedToUsers
<1>1. IInv => IssuedToUsers
  BY DEF IInv
<1> QED BY Invariance, <1>1, PTL

\* With registration closed, the users are the seeded ones.
THEOREM ClosedRegistrationStaysClosed == Spec => []RegistrationClosed
<1>1. IInv => RegistrationClosed
  BY DEF IInv
<1> QED BY Invariance, <1>1, PTL

\* A request that starts after a code took effect does not find it.
THEOREM SpentCodesAreRefused == Spec => NoReplay
<1>1. IInv /\ [Next]_vars => [RefuseSpent]_vars
  <2> SUFFICES ASSUME IInv, Next,
                      NEW p \in Proc, req'[p].pc = "saveUsed", req[p].pc = "idle"
               PROVE  \A g \in granted : g.otp # req'[p].otp
    BY DEF RefuseSpent
  <2>1. TypeOK /\ p \in DOMAIN req
    BY DEF IInv, TypeOK
  <2>2. ASSUME NEW q \in Proc, NEW d \in Dest, FindIssuer(q, d)
        PROVE  FALSE
    BY <2>1, <2>2 DEF FindIssuer, SendOtp, SignUp, RequestResetPassword, Start, TypeOK
  <2>3. ASSUME NEW q \in Proc, Step(q) PROVE FALSE
    <3>1. /\ req[q].pc # "idle"
          /\ (\E stage \in {"saveOtp", "finish"} : Advance(q, stage)) \/ End(q)
      BY <2>3 DEF Step, CreateUser, SaveOtp, SaveUsed, Finish, SigninByOtp, Verify, ResetPassword,
               ActsFor, Fail
    <3> QED BY <2>1, <3>1 DEF Advance, Start, End, TypeOK
  <2>4. ASSUME NEW q \in Proc, NEW kind \in RedeemKind, NEW d \in Dest, NEW c \in Code,
               FindOtp(q, kind, d, c)
        PROVE  req'[p].otp \notin used
    BY <2>1, <2>4 DEF FindOtp, Start, LiveRows, TypeOK
  <2>5. req'[p].otp \notin used
    BY <2>2, <2>3, <2>4 DEF Next, Expire
  <2> QED BY <2>5 DEF IInv, GrantsUsed
<1> QED BY Invariance, <1>1, PTL DEF Spec, NoReplay

-----------------------------------------------------------------------------
\* How often a code can take effect, given that the check of used_at and the UPDATE
\* are two statements.

\* A request redeems a code once, and does not hold one it has redeemed.
OnePerRequest ==
    /\ \A g, h \in granted : g.otp = h.otp /\ g.by = h.by => g = h
    /\ \A g \in granted : req[g.by].pc \in {"saveUsed", "finish"} => req[g.by].otp # g.otp

LEMMA InitOnePerRequest == Init => OnePerRequest
BY DEF Init, OnePerRequest

\* Only a lookup gives a request a code, and it finds none that took effect.
LEMMA FindOtpOnePerRequest ==
    ASSUME IInv, OnePerRequest, NEW p \in Proc, NEW kind \in RedeemKind, NEW d \in Dest,
           NEW c \in Code, FindOtp(p, kind, d, c)
    PROVE  OnePerRequest'
<1>1. PICK o \in LiveRows(c) : Start(p, "saveUsed", kind, d, o)
  BY DEF FindOtp
<1>2. /\ TypeOK /\ UNCHANGED granted
      /\ \A g \in granted : g.otp # o /\ g.by \in Proc
  BY DEF FindOtp, IInv, TypeOK, Grant, GrantsUsed, LiveRows
<1>3. req'[p].otp = o /\ \A q \in Proc : q # p => req'[q] = req[q]
  BY <1>1, <1>2 DEF Start, TypeOK
<1> QED BY <1>2, <1>3 DEF OnePerRequest

\* The request that redeems a code is done with it.
LEMMA FinishOnePerRequest ==
    ASSUME IInv, OnePerRequest, NEW p \in Proc, Finish(p)
    PROVE  OnePerRequest'
<1>1. PICK g : /\ g.by = p /\ g.otp = req[p].otp
               /\ granted' = granted \union {g}
  BY DEF Finish, SigninByOtp, Verify, ResetPassword, ActsFor
<1>2. /\ TypeOK /\ End(p) /\ req[p].pc = "finish"
      /\ \A h \in granted : h.by \in Proc
  BY DEF Finish, SigninByOtp, Verify, ResetPassword, ActsFor, IInv, TypeOK, Grant
<1>3. req'[p].pc = "idle" /\ \A q \in Proc : q # p => req'[q] = req[q]
  BY <1>2, EndFacts
<1>4. \A h \in granted : h.by = p => h.otp # g.otp
  BY <1>1, <1>2 DEF OnePerRequest
<1> QED BY <1>1, <1>2, <1>3, <1>4 DEF OnePerRequest

\* The other steps redeem nothing: the request keeps its code, or has none.
LEMMA QuietOnePerRequest ==
    ASSUME OnePerRequest, IInv, granted' = granted,
           \A p \in Proc : \/ req'[p].pc \notin {"saveUsed", "finish"}
                           \/ /\ req[p].pc \in {"saveUsed", "finish"}
                              /\ req'[p].otp = req[p].otp
    PROVE  OnePerRequest'
<1>1. \A g \in granted : g.by \in Proc
  BY DEF IInv, TypeOK, Grant
<1> QED BY <1>1 DEF OnePerRequest

LEMMA NextOnePerRequest == IInv /\ OnePerRequest /\ [Next]_vars => OnePerRequest'
<1> SUFFICES ASSUME IInv, OnePerRequest, [Next]_vars
             PROVE  OnePerRequest'
  OBVIOUS
<1>1. TypeOK
  BY DEF IInv
<1>2. ASSUME NEW p \in Proc, NEW d \in Dest, FindIssuer(p, d)
      PROVE  OnePerRequest'
  <2>1. /\ granted' = granted
        /\ \E stage \in {"saveOtp", "createUser"}, kind \in IssueKind : Start(p, stage, kind, d, NoOtp)
    BY <1>2 DEF FindIssuer, SendOtp, SignUp, RequestResetPassword, IssueKind
  <2>2. req'[p].pc \in {"saveOtp", "createUser"} /\ \A q \in Proc : q # p => req'[q] = req[q]
    BY <1>1, <2>1 DEF Start, TypeOK
  <2> QED BY <2>1, <2>2, QuietOnePerRequest
<1>3. ASSUME NEW p \in Proc, Step(p)
      PROVE  OnePerRequest'
  <2>1. CASE Finish(p)
    BY <2>1, FinishOnePerRequest
  <2>2. CASE CreateUser(p) \/ SaveUsed(p)
    <3>1. /\ granted' = granted
          /\ \/ req[p].pc = "saveUsed" /\ Advance(p, "finish")
             \/ Advance(p, "saveOtp")
      BY <2>2 DEF CreateUser, SaveUsed
    <3>2. /\ \A q \in Proc : q # p => req'[q] = req[q]
          /\ \/ req'[p].pc = "saveOtp"
             \/ req[p].pc = "saveUsed" /\ req'[p].otp = req[p].otp
      BY <1>1, <3>1, AdvanceFacts DEF Stage
    <3> QED BY <3>1, <3>2, QuietOnePerRequest
  <2>3. CASE SaveOtp(p) \/ Fail(p)
    <3>1. granted' = granted /\ End(p)
      BY <2>3 DEF SaveOtp, Fail
    <3>2. req'[p].pc = "idle" /\ \A q \in Proc : q # p => req'[q] = req[q]
      BY <1>1, <3>1, EndFacts
    <3> QED BY <3>1, <3>2, QuietOnePerRequest
  <2> QED BY <1>3, <2>1, <2>2, <2>3 DEF Step
<1>4. CASE (\E o \in OtpId : Expire(o)) \/ UNCHANGED vars
  BY <1>4, QuietOnePerRequest DEF Expire, vars
<1> QED BY <1>2, <1>3, <1>4, FindOtpOnePerRequest DEF Next

\* The redemptions of one OTP that took effect.
GrantsOf(o) == {g \in granted : g.otp = o}

\* OneTime does not hold, but a code takes effect once for every request that is in
\* flight at the same time, at most: no number of later requests adds another.
ReplayBounded == \A o \in OtpId : Cardinality(GrantsOf(o)) <= Cardinality(Proc)

\* For any number of users and codes, and however the statements of verify() interleave
\* and fail, the race behind OneTime is worth one redemption per request in flight.
THEOREM ReplayIsBounded == IsFiniteSet(Proc) => (Spec => []ReplayBounded)
<1> SUFFICES ASSUME IsFiniteSet(Proc)
             PROVE  Spec => []ReplayBounded
  OBVIOUS
<1>1. IInv /\ OnePerRequest => ReplayBounded
  <2> SUFFICES ASSUME IInv, OnePerRequest, NEW o \in OtpId
               PROVE  Cardinality(GrantsOf(o)) <= Cardinality(Proc)
    BY DEF ReplayBounded
  <2> DEFINE by == [g \in GrantsOf(o) |-> g.by]
  <2>1. by \in Injection(GrantsOf(o), Proc)
    <3>1. by \in [GrantsOf(o) -> Proc]
      BY DEF IInv, TypeOK, Grant, GrantsOf
    <3>2. \A g, h \in GrantsOf(o) : by[g] = by[h] => g = h
      BY DEF OnePerRequest, GrantsOf
    <3> QED BY <3>1, <3>2 DEF Injection, IsInjective
  <2> QED BY <2>1, FS_Injection
<1> QED BY <1>1, InitOnePerRequest, NextOnePerRequest, Invariance, PTL DEF Spec

=============================================================================
