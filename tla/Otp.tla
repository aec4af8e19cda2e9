--------------------------------- MODULE Otp ---------------------------------
(***************************************************************************)
(* One-time passwords: OtpService, the otp_logs table behind it, and the   *)
(* use cases that issue and redeem them.  An OTP is issued by "send OTP",  *)
(* by a sign-up or by a reset-password request, and redeemed by a sign-in, *)
(* a verification or a password reset.  Requests of any number of gateway  *)
(* instances interleave between their awaited SQL statements; there is no  *)
(* transaction.                                                            *)
(*                                                                         *)
(* A code stands for the six digits and for their SHA-256.  Every caller   *)
(* of generate() asks for the type CODE, and a redemption with the type    *)
(* TOKEN finds no row, so the type is left out.  No code path sets a user  *)
(* to blocked, so the isBlocked guards always pass and are left out.       *)
(***************************************************************************)
CONSTANTS
    User,
    Dest,      \* the emails and mobiles
    Owner,     \* Owner[d]: the user whose email or mobile d is, or will be
    Seeded,    \* the users that are there from the start
    OtpId,     \* ids of otp_logs rows; finite, so it bounds the OTPs issued
    Code,
    Proc,      \* requests that can be in flight at once
    NoDest,
    NoOtp

ASSUME OwnerAssumption == Owner \in [Dest -> User]
ASSUME SeededAssumption == Seeded \subseteq User
ASSUME NoDestAssumption == NoDest \notin Dest
ASSUME NoOtpAssumption == NoOtp \notin OtpId

VARIABLES
    config,    \* the configuration the gateway started with
    users,     \* users that have a row
    row,       \* the otp_logs table: row[o] for the ids inserted so far
    used,      \* OTPs whose used_at is set
    expired,   \* OTPs whose expire_at has passed
    req,       \* req[p]: the request p is serving
    granted    \* history: the redemptions that took effect

vars == <<config, users, row, used, expired, req, granted>>

-----------------------------------------------------------------------------

Reason == {"login", "verify", "reset_password"}
IssueKind == {"sendOtp", "signup", "requestReset"}
RedeemKind == {"signin", "verify", "reset"}

\* The OTPReason each use case passes to OtpService.
ReasonOf(kind) ==
    CASE kind \in {"sendOtp", "signin"}     -> "login"
      [] kind \in {"signup", "verify"}      -> "verify"
      [] kind \in {"requestReset", "reset"} -> "reset_password"

Config == [allowRegisterNewUser: BOOLEAN, registerUserOnSendOtp: BOOLEAN]

OtpRow == [user: User, dest: Dest, code: Code, reason: Reason]

Stage == {"idle", "createUser", "saveOtp", "saveUsed", "finish"}

Request == [pc: Stage, kind: IssueKind \union RedeemKind \union {"none"},
            dest: Dest \union {NoDest}, otp: OtpId \union {NoOtp}]

Idle == [pc |-> "idle", kind |-> "none", dest |-> NoDest, otp |-> NoOtp]

Saved == DOMAIN row

\* Request p goes on to its next statement, or ends.
Start(p, stage, kind, d, o) ==
    req' = [req EXCEPT ![p] = [pc |-> stage, kind |-> kind, dest |-> d, otp |-> o]]
Advance(p, stage) == Start(p, stage, req[p].kind, req[p].dest, req[p].otp)
End(p) == req' = [req EXCEPT ![p] = Idle]

Init ==
    /\ config \in Config
    /\ users = Seeded
    /\ row = [o \in {} |-> NoOtp]
    /\ used = {} /\ expired = {}
    /\ req = [p \in Proc |-> Idle]
    /\ granted = {}

-----------------------------------------------------------------------------
\* Issuing: find the user by its identifier, create it if need be, insert the row.

\* Mutant of RegistersOnSend: either setting lets "send OTP" register the user.
RegistersOnEither == config.allowRegisterNewUser \/ config.registerUserOnSendOtp

\* "Send OTP" registers the user when both settings allow it.
RegistersOnSend == config.registerUserOnSendOtp /\ config.allowRegisterNewUser

\* A request for an OTP of a user that does not exist is dropped, or registers it.
SendOtp(p, d) ==
    /\ req[p].pc = "idle"
    /\ \/ Owner[d] \in users /\ Start(p, "saveOtp", "sendOtp", d, NoOtp)
       \/ /\ Owner[d] \notin users /\ RegistersOnSend
          /\ Start(p, "createUser", "sendOtp", d, NoOtp)
    /\ UNCHANGED <<config, users, row, used, expired, granted>>

\* The sign-up routes, behind CheckSignupGuard; the sign-up of a user that exists throws.
SignUp(p, d) ==
    /\ req[p].pc = "idle"
    /\ config.allowRegisterNewUser
    /\ Owner[d] \notin users
    /\ Start(p, "createUser", "signup", d, NoOtp)
    /\ UNCHANGED <<config, users, row, used, expired, granted>>

\* Mutant of RequestResetPassword: it does not look the user up.
RequestResetUnchecked(p, d) ==
    /\ req[p].pc = "idle"
    /\ Start(p, "saveOtp", "requestReset", d, NoOtp)
    /\ UNCHANGED <<config, users, row, used, expired, granted>>

RequestResetPassword(p, d) ==
    /\ req[p].pc = "idle"
    /\ Owner[d] \in users
    /\ Start(p, "saveOtp", "requestReset", d, NoOtp)
    /\ UNCHANGED <<config, users, row, used, expired, granted>>

FindIssuer(p, d) == SendOtp(p, d) \/ SignUp(p, d) \/ RequestResetPassword(p, d)

\* The INSERT.  The UNIQUE constraints on email and mobile refuse it when another
\* request inserted the same user since the lookup; the request then fails.
CreateUser(p) ==
    /\ req[p].pc = "createUser"
    /\ Owner[req[p].dest] \notin users
    /\ users' = users \union {Owner[req[p].dest]}
    /\ Advance(p, "saveOtp")
    /\ UNCHANGED <<config, row, used, expired, granted>>

\* Mutant of SaveOtp: the destination is the mobile, "?? email" is lost.
SaveOtpForMobile(p) ==
    /\ req[p].pc = "saveOtp"
    /\ \E o \in OtpId \ Saved, c \in Code :
        row' = [x \in Saved \union {o} |->
                   IF x = o THEN [user |-> Owner[req[p].dest], dest |-> NoDest,
                                  code |-> c, reason |-> ReasonOf(req[p].kind)]
                            ELSE row[x]]
    /\ End(p)
    /\ UNCHANGED <<config, users, used, expired, granted>>

\* generate(): six random digits that no other row is compared with.  Publishing
\* the notification that carries the code is not awaited and ends the request.
SaveOtp(p) ==
    /\ req[p].pc = "saveOtp"
    /\ \E o \in OtpId \ Saved, c \in Code :
        row' = [x \in Saved \union {o} |->
                   IF x = o THEN [user |-> Owner[req[p].dest], dest |-> req[p].dest,
                                  code |-> c, reason |-> ReasonOf(req[p].kind)]
                            ELSE row[x]]
    /\ End(p)
    /\ UNCHANGED <<config, users, used, expired, granted>>

-----------------------------------------------------------------------------
\* Redeeming: find the row by its code, check it, mark it used, act.

\* findOne(): getOne() of a query without ORDER BY answers with any live row
\* that has the code, whatever destination and reason it was issued for.
LiveRows(c) == {o \in Saved : row[o].code = c /\ o \notin used /\ o \notin expired}

\* Mutant of FindOtp: verify() does not compare the destination.
FindOtpForAnyDest(p, kind, d, c) ==
    /\ req[p].pc = "idle"
    /\ \E o \in LiveRows(c) : Start(p, "saveUsed", kind, d, o)
    /\ UNCHANGED <<config, users, row, used, expired, granted>>

\* The SELECT and OTPEntity.verify(): the row found must be for the destination
\* the client names, or the request throws and changes nothing.
FindOtp(p, kind, d, c) ==
    /\ req[p].pc = "idle"
    /\ \E o \in LiveRows(c) :
        /\ row[o].dest = d
        /\ Start(p, "saveUsed", kind, d, o)
    /\ UNCHANGED <<config, users, row, used, expired, granted>>

\* Mutant of SaveUsed: save() comes before markAsUsed().
SaveBeforeMark(p) ==
    /\ req[p].pc = "saveUsed"
    /\ Advance(p, "finish")
    /\ UNCHANGED <<config, users, row, used, expired, granted>>

\* markAsUsed() and save(): an UPDATE by id with no condition on used_at.
SaveUsed(p) ==
    /\ req[p].pc = "saveUsed"
    /\ used' = used \union {req[p].otp}
    /\ Advance(p, "finish")
    /\ UNCHANGED <<config, users, row, expired, granted>>

\* The use case acts for the user of the row, once it has looked the user up.
ActsFor(p, user) ==
    /\ req[p].pc = "finish"
    /\ user \in users
    /\ granted' = granted \union {[by |-> p, otp |-> req[p].otp, kind |-> req[p].kind,
                                   dest |-> req[p].dest, user |-> user]}
    /\ End(p)
    /\ UNCHANGED <<config, users, row, used, expired>>

\* It publishes the user's events and generates a token pair.
SigninByOtp(p) == req[p].kind = "signin" /\ ActsFor(p, row[req[p].otp].user)

Verify(p) == req[p].kind = "verify" /\ ActsFor(p, row[req[p].otp].user)

\* It sets the password.
ResetPassword(p) == req[p].kind = "reset" /\ ActsFor(p, row[req[p].otp].user)

Finish(p) == SigninByOtp(p) \/ Verify(p) \/ ResetPassword(p)

-----------------------------------------------------------------------------

\* A statement fails or the process dies: nothing is undone.
Fail(p) ==
    /\ req[p].pc # "idle"
    /\ End(p)
    /\ UNCHANGED <<config, users, row, used, expired, granted>>

Expire(o) ==
    /\ o \in Saved \ expired
    /\ expired' = expired \union {o}
    /\ UNCHANGED <<config, users, row, used, req, granted>>

Step(p) == CreateUser(p) \/ SaveOtp(p) \/ SaveUsed(p) \/ Finish(p) \/ Fail(p)

Next ==
    \/ \E p \in Proc, d \in Dest : FindIssuer(p, d)
    \/ \E p \in Proc, kind \in RedeemKind, d \in Dest, c \in Code : FindOtp(p, kind, d, c)
    \/ \E p \in Proc : Step(p)
    \/ \E o \in OtpId : Expire(o)

Spec == Init /\ [][Next]_vars

-----------------------------------------------------------------------------

Grant == [by: Proc, otp: OtpId, kind: RedeemKind, dest: Dest, user: User]

TypeOK ==
    /\ config \in Config
    /\ users \subseteq User
    /\ Saved \subseteq OtpId /\ row \in [Saved -> OtpRow]
    /\ used \subseteq Saved /\ expired \subseteq Saved
    /\ req \in [Proc -> Request]
    /\ granted \subseteq Grant

\* Six digits are not unique and the lookup ignores the destination, yet a code
\* never acts for anybody but the owner of the destination it was sent to, even
\* when live rows of two users collide.
GrantsMatchDestination ==
    \A g \in granted : g.dest = row[g.otp].dest /\ g.user = Owner[g.dest]

\* A code is refused from the moment some request it was redeemed by took
\* effect, whatever failed meanwhile: a redemption that starts later does not
\* find it.  (Redemptions that overlap may all succeed, see OneTime.)
RefuseSpent ==
    \A p \in Proc : req'[p].pc = "saveUsed" /\ req[p].pc = "idle" =>
        \A g \in granted : g.otp # req'[p].otp
NoReplay == [][RefuseSpent]_vars

\* An OTP always belongs to a user that has a row, so the user-not-found branches
\* after a redemption cannot be reached: whatever fails between the INSERT of the
\* user and that of its OTP leaves a user without an OTP, never the reverse.
IssuedToUsers == \A o \in Saved : row[o].user \in users

\* When the configuration closes registration, no route that sends an OTP opens it.
RegistrationClosed == ~config.allowRegisterNewUser => users = Seeded

\* What a one-time password is said to be: it takes effect once.
OneTime == \A g, h \in granted : g.otp = h.otp => g = h

\* What FindOTPData asks for: a code is good for the reason it was issued for.
ReasonRespected == \A g \in granted : row[g.otp].reason = ReasonOf(g.kind)

=============================================================================
