-------------------------------- MODULE Accounts --------------------------------
(***************************************************************************)
(* The users table and what writes it: sign-ups, password resets, profile  *)
(* and role updates, and the consumers of the events "user verified" and   *)
(* "user logged in"; and the sign-ins and refreshes, which turn a row, or  *)
(* the claims of another token, into the claims of a token.                *)
(*                                                                         *)
(* Requests of any number of gateway instances interleave.  A request      *)
(* reads the user and acts on what it read; all but the password reset     *)
(* then write the columns they name, or nothing, so what they read before  *)
(* cannot hurt the row and each is one action here.  The password reset    *)
(* reads the whole user and saves it: save() selects the row again and     *)
(* updates the columns that differ from the entity.  It is three actions.  *)
(* Otp has the redemption of a one-time password and the race of two       *)
(* sign-ups.                                                               *)
(*                                                                         *)
(* The events are what EventDelivery promises: one may be lost, and one    *)
(* that is not is handled any number of times, in any order, however late. *)
(*                                                                         *)
(* A flag isEmailVerified or isMobileVerified, each a column of its own,   *)
(* stands as the identifier it is about, a member of "verified".  Names,   *)
(* time stamps and hashes are left out; no code sets isBlocked, and none   *)
(* changes an identifier.  No avatar comes from a third party:             *)
(* moveUserAvatarToCdn() hands a Buffer to a store that reads a stream,    *)
(* and swallows the error (see Attachments).                               *)
(***************************************************************************)
CONSTANTS
    User,         \* ids of users; finite, so it bounds the sign-ups
    Email,
    Mobile,
    Password,
    Role,
    Attachment,   \* public attachments, which stay (no code removes the row of one)
    Proc,         \* password resets that can be in flight at once
    Admin,        \* the default user ...
    AdminIdent,   \* ... and its identifiers
    None,         \* null
    AllowUnverifiedSignin,    \* the configuration of the deployment
    AllowImpersonation

Ident == Email \union Mobile

ASSUME AdminAssumption == Admin \in User /\ AdminIdent \in SUBSET Ident
ASSUME ConfigAssumption == {AllowUnverifiedSignin, AllowImpersonation} \subseteq BOOLEAN
ASSUME NoneAssumption == None \notin User \union Password \union Role \union Attachment

VARIABLES
    row,              \* the users table: row[u] for the users that exist
    verifiedEvents,   \* what the queue users_user_verified may still deliver
    loggedInEvents,   \* what the queue users_user_logged_in may still deliver
    reset,            \* reset[p]: the password reset p has under way
    token,            \* the claims of one of the tokens clients hold
    proven            \* history: the identifiers somebody has shown to own

vars == <<row, verifiedEvents, loggedInEvents, reset, token, proven>>

-----------------------------------------------------------------------------

UserRow == [idents: SUBSET Ident, verified: SUBSET Ident, password: Password \union {None},
            role: Role \union {None}, avatar: Attachment \union {None},
            avatarId: Attachment \union {None}, loggedIn: BOOLEAN]

NewUser(idents, verified, password) ==
    [idents |-> idents, verified |-> verified, password |-> password, role |-> None,
     avatar |-> None, avatarId |-> None, loggedIn |-> FALSE]

UserVerifiedEvent == [user: User, verified: SUBSET Ident]

\* The columns that are not flags or identifiers.
Column == {"password", "role", "avatar", "avatarId", "loggedIn"}

\* A reset holds the entity it read and, once save() has selected the row again, the
\* columns and the flags in which the row differed from it.
Reset == [user: User, entity: UserRow, selected: BOOLEAN,
          columns: SUBSET Column, flags: SUBSET Ident]
NoReset == [user |-> None]

SigninKind == {"signinByOtp", "verify", "password", "thirdParty", "impersonation"}

SigninClaims == [kind: SigninKind, user: User, ident: Ident, verified: SUBSET Ident,
                 accessType: {"verified", "unverified"}]
\* Of a refresh that was given claims other than those signed: all but the user are then
\* what the client wrote, whatever that is.
RefreshClaims == [kind: {"refresh"}, user: User]
Claims == SigninClaims \union RefreshClaims
NoToken == [kind |-> "none"]

Existing == DOMAIN row

\* findOneByIdentifier()
Owners(d) == {u \in Existing : d \in row[u].idents}

\* A sign-in by password and an impersonation tell verified users from others; the
\* other kinds say "verified".
AccessType(kind, user) ==
    IF kind \in {"password", "impersonation"} /\ user.verified = {}
    THEN "unverified" ELSE "verified"

\* The claims are those of the entity the request holds.  Of all tokens "token" is one that is
\* chosen when it is made, and stays, so that it may be of any age.
GenerateToken(kind, u, d, user) ==
    token' \in IF token # NoToken THEN {token}
               ELSE {NoToken, [kind |-> kind, user |-> u, ident |-> d,
                               verified |-> user.verified, accessType |-> AccessType(kind, user)]}

Publish(events, e) == events' = events \union {e}

\* The user the default seeder saves: verified for every identifier it has.
AdminRow(password) == NewUser(AdminIdent, AdminIdent, password)

Init ==
    /\ \E pw \in Password : row = [u \in {Admin} |-> AdminRow(pw)]
    /\ verifiedEvents = {} /\ loggedInEvents = {}
    /\ reset = [p \in Proc |-> NoReset]
    /\ token = NoToken
    /\ proven = AdminIdent

-----------------------------------------------------------------------------
\* Sign-ups: an INSERT, unless some user has the identifier.

\* CreateUserUsecase's save().
Insert(u, new) ==
    /\ u \in User \ Existing
    /\ \A d \in new.idents : Owners(d) = {}
    /\ row' = [x \in Existing \union {u} |-> IF x = u THEN new ELSE row[x]]

\* Mutant of SignUp: the client that signs up counts as verified.
SignUpAsVerified(u, d, pw) ==
    /\ Insert(u, NewUser({d}, {d}, pw))
    /\ UNCHANGED <<verifiedEvents, loggedInEvents, reset, token, proven>>

\* By password, or by OTP with no password.
SignUp(u, d, pw) ==
    /\ Insert(u, NewUser({d}, {}, pw))
    /\ UNCHANGED <<verifiedEvents, loggedInEvents, reset, token, proven>>

\* Mutant of SignUpByThirdParty: the event is published for an entity without an id.
SignUpByThirdPartyWithoutId(u, d) ==
    /\ d \in Email
    /\ proven' = proven \union {d}
    /\ Insert(u, NewUser({d}, {d}, None))
    /\ Publish(verifiedEvents, [user |-> None, verified |-> {d}])
    /\ GenerateToken("thirdParty", u, d, NewUser({d}, {d}, None))
    /\ UNCHANGED <<loggedInEvents, reset>>

\* The provider vouches for the email; both events are published.
SignUpByThirdParty(u, d) ==
    /\ d \in Email
    /\ proven' = proven \union {d}
    /\ Insert(u, NewUser({d}, {d}, None))
    /\ Publish(verifiedEvents, [user |-> u, verified |-> {d}])
    /\ Publish(loggedInEvents, u)
    /\ GenerateToken("thirdParty", u, d, NewUser({d}, {d}, None))
    /\ UNCHANGED <<reset>>

-----------------------------------------------------------------------------
\* Sign-ins.

\* Mutant of VerifiedEnough: isVerified() is not asked.
VerifiedEnoughForPhone(user, d, passwordIsEmail) ==
    \/ AllowUnverifiedSignin
    \/ /\ passwordIsEmail => user.verified \intersect Email # {}
       /\ d \in Mobile => user.verified \intersect Mobile # {}

\* The checks of a sign-in by password.  The second is for identifiers that are
\* emails, but the code asks isEmail(command.password).
VerifiedEnough(user, d, passwordIsEmail) ==
    \/ AllowUnverifiedSignin
    \/ /\ user.verified # {}
       /\ passwordIsEmail => user.verified \intersect Email # {}
       /\ d \in Mobile => user.verified \intersect Mobile # {}

SigninByPassword(d, pw) ==
    /\ \E u \in Owners(d), passwordIsEmail \in BOOLEAN :
        /\ row[u].password = pw
        /\ VerifiedEnough(row[u], d, passwordIsEmail)
        /\ Publish(loggedInEvents, u)
        /\ GenerateToken("password", u, d, row[u])
    /\ UNCHANGED <<row, verifiedEvents, reset, proven>>

SigninByThirdParty(d) ==
    /\ d \in Email
    /\ proven' = proven \union {d}
    /\ \E u \in Owners(d) : /\ Publish(loggedInEvents, u)
                            /\ GenerateToken("thirdParty", u, d, row[u])
    /\ UNCHANGED <<row, verifiedEvents, reset>>

Impersonation(d) ==
    /\ AllowImpersonation
    /\ \E u \in Owners(d) : GenerateToken("impersonation", u, d, row[u])
    /\ UNCHANGED <<row, verifiedEvents, loggedInEvents, reset, proven>>

\* The entity a request with an OTP for d holds once it has set the flag of d.
Marked(u, d) == [row[u] EXCEPT !.verified = @ \union {d}]

\* Mutant of SigninByOtp: the event is published before the flag is set.
SigninByOtpPublishesFirst(d) ==
    /\ proven' = proven \union {d}
    /\ \E u \in Owners(d) :
        /\ \/ row[u].verified # {} /\ UNCHANGED verifiedEvents
           \/ row[u].verified = {} /\ Publish(verifiedEvents, [user |-> u, verified |-> {}])
        /\ Publish(loggedInEvents, u)
        /\ GenerateToken("signinByOtp", u, d, row[u])
    /\ UNCHANGED <<row, reset>>

\* It verifies a user that is not verified: in memory, and by an event that carries
\* both flags.
SigninByOtp(d) ==
    /\ proven' = proven \union {d}
    /\ \E u \in Owners(d) :
        /\ \/ /\ row[u].verified # {}
              /\ UNCHANGED verifiedEvents
              /\ GenerateToken("signinByOtp", u, d, row[u])
           \/ /\ row[u].verified = {}
              /\ Publish(verifiedEvents, [user |-> u, verified |-> Marked(u, d).verified])
              /\ GenerateToken("signinByOtp", u, d, Marked(u, d))
        /\ Publish(loggedInEvents, u)
    /\ UNCHANGED <<row, reset>>

Verify(d) ==
    /\ proven' = proven \union {d}
    /\ \E u \in Owners(d) :
        /\ Publish(verifiedEvents, [user |-> u, verified |-> Marked(u, d).verified])
        /\ GenerateToken("verify", u, d, Marked(u, d))
    /\ UNCHANGED <<row, loggedInEvents, reset>>

\* refresh() decodes the presented token and signs the claims it finds: the Redis key
\* proves the user and the jti (JwtTokens), and nothing the other claims.  For the
\* claims of "token" itself this is a stuttering step.
Refresh ==
    /\ token # NoToken
    /\ token' = [kind |-> "refresh", user |-> token.user]
    /\ UNCHANGED <<row, verifiedEvents, loggedInEvents, reset, proven>>

-----------------------------------------------------------------------------
\* The password reset: findOne(), then save(), a SELECT and an UPDATE.

UpdatePassword(p, u, pw) ==
    /\ reset[p] = NoReset
    /\ u \in Existing
    /\ reset' = [reset EXCEPT ![p] = [user |-> u, entity |-> [row[u] EXCEPT !.password = pw],
                                      selected |-> FALSE, columns |-> {}, flags |-> {}]]
    /\ UNCHANGED <<row, verifiedEvents, loggedInEvents, token, proven>>

\* The columns and flags in which two states of a user differ.
ColumnDiff(e, r) == {c \in Column : e[c] # r[c]}
FlagDiff(e, r) == (e.verified \ r.verified) \union (r.verified \ e.verified)

\* save() selects the row and compares it with the entity.
SelectAgain(p) ==
    /\ reset[p] # NoReset /\ ~reset[p].selected
    /\ LET e == reset[p].entity
           r == row[reset[p].user]
       IN  reset' = [reset EXCEPT ![p] = [@ EXCEPT !.selected = TRUE,
                                                   !.columns = ColumnDiff(e, r),
                                                   !.flags = FlagDiff(e, r)]]
    /\ UNCHANGED <<row, verifiedEvents, loggedInEvents, token, proven>>

\* The row r with those columns and flags of the entity e.
Updated(r, e, columns, flags) ==
    [c \in DOMAIN r |->
        IF c = "verified" THEN (r.verified \ flags) \union (e.verified \intersect flags)
        ELSE IF c \in columns THEN e[c] ELSE r[c]]

\* The UPDATE; none when nothing differs.
SavePassword(p) ==
    /\ reset[p] # NoReset /\ reset[p].selected
    /\ row' = [row EXCEPT ![reset[p].user] =
                    Updated(@, reset[p].entity, reset[p].columns, reset[p].flags)]
    /\ reset' = [reset EXCEPT ![p] = NoReset]
    /\ UNCHANGED <<verifiedEvents, loggedInEvents, token, proven>>

\* The save fails or the process dies.
Fail(p) ==
    /\ reset' = [reset EXCEPT ![p] = NoReset]
    /\ UNCHANGED <<row, verifiedEvents, loggedInEvents, token, proven>>

-----------------------------------------------------------------------------
\* Requests and consumers that are one UPDATE of the columns they name.

\* Mutant of UpdateMyProfile: only the id of the avatar is written.
UpdateMyAvatarId(u, a) ==
    /\ u \in Existing
    /\ row' = [row EXCEPT ![u].avatarId = a]
    /\ UNCHANGED <<verifiedEvents, loggedInEvents, reset, token, proven>>

\* An avatar is looked up first and sets both columns; without one avatarId is null
\* and the column "avatar" stays.
UpdateMyProfile(u, a) ==
    /\ u \in Existing
    /\ \/ /\ a = None
          /\ row' = [row EXCEPT ![u].avatarId = None]
       \/ /\ a \in Attachment
          /\ row' = [row EXCEPT ![u].avatar = a, ![u].avatarId = a]
    /\ UNCHANGED <<verifiedEvents, loggedInEvents, reset, token, proven>>

\* An admin's PATCH of the role, or to no role; nothing checks that the role exists.
UpdateRole(u, r) ==
    /\ u \in Existing
    /\ row' = [row EXCEPT ![u].role = r]
    /\ UNCHANGED <<verifiedEvents, loggedInEvents, reset, token, proven>>

\* Both flags are set to what the event says.
MarkUserAsVerified(e) ==
    /\ row' = [row EXCEPT ![e.user].verified = e.verified]
    /\ UNCHANGED <<verifiedEvents, loggedInEvents, reset, token, proven>>

UpdateLoggedInTime(u) ==
    /\ row' = [row EXCEPT ![u].loggedIn = TRUE]
    /\ UNCHANGED <<verifiedEvents, loggedInEvents, reset, token, proven>>

-----------------------------------------------------------------------------

SignUps ==
    \E u \in User, d \in Ident :
        \/ SignUpByThirdParty(u, d)
        \/ \E pw \in Password \union {None} : SignUp(u, d, pw)

SignIns ==
    \E d \in Ident :
        \/ SigninByThirdParty(d) \/ Impersonation(d) \/ SigninByOtp(d) \/ Verify(d)
        \/ \E pw \in Password : SigninByPassword(d, pw)

Resets ==
    \E p \in Proc :
        \/ SelectAgain(p) \/ SavePassword(p) \/ Fail(p)
        \/ \E u \in User, pw \in Password : UpdatePassword(p, u, pw)

Updates ==
    \/ \E u \in User : \/ \E a \in Attachment \union {None} : UpdateMyProfile(u, a)
                       \/ \E r \in Role \union {None} : UpdateRole(u, r)
    \/ \E e \in verifiedEvents : MarkUserAsVerified(e)
    \/ \E u \in loggedInEvents : UpdateLoggedInTime(u)

Next == SignUps \/ SignIns \/ Refresh \/ Resets \/ Updates

Spec == Init /\ [][Next]_vars

-----------------------------------------------------------------------------

TypeOK ==
    /\ Existing \subseteq User /\ row \in [Existing -> UserRow]
    /\ verifiedEvents \subseteq UserVerifiedEvent
    /\ loggedInEvents \subseteq User
    /\ reset \in [Proc -> Reset \union {NoReset}]
    /\ token \in Claims \union {NoToken}
    /\ proven \subseteq Ident

\* A verified flag travels from an OTP through the memory of a request into an event,
\* into the row, back into an entity that a password reset saves, and into claims.
\* However late or often each of these arrives, no flag is up for an identifier that
\* nobody has shown to own.  Of a token this is said as long as every refresh on the way
\* to it was given the claims the service had signed: refresh() does not look whether
\* they are.
VerifiedIsProven ==
    /\ \A u \in Existing : row[u].verified \subseteq proven
    /\ \A e \in verifiedEvents : e.verified \subseteq proven
    /\ \A p \in Proc : reset[p] # NoReset => reset[p].entity.verified \subseteq proven
    /\ token # NoToken /\ token.kind # "refresh" =>
        /\ token.verified \subseteq proven
        /\ token.accessType = "verified" => row[token.user].idents \intersect proven # {}

\* Unless unverified users may sign in, a password opens a session only under an
\* identifier that was verified.  The check for emails tests the password (signin-by-
\* password, line 47): what saves the rule is that a user with two identifiers has
\* both verified from the start, and that no event or reset takes one flag away.
PasswordNeedsProof ==
    token # NoToken =>
        (token.kind = "password" /\ ~AllowUnverifiedSignin => token.ident \in proven)

\* Events carry both flags and may be handled late and again, yet none of them takes
\* a verification back: only a password reset that read the user before it does
\* (update-password saves the entity it read).
TakenBackByReset ==
    \A u \in Existing : ~(row[u].verified \subseteq row'[u].verified) =>
        \E p \in Proc : /\ reset[p] # NoReset /\ reset[p].user = u
                        /\ reset[p].selected /\ reset'[p] = NoReset
                        /\ (row[u].verified \ row'[u].verified)
                              \intersect reset[p].entity.verified = {}
VerifiedStays == [][TakenBackByReset]_vars

\* The address shown next to an avatar's id is that avatar's.
AvatarMatches(user) == user.avatarId \in {None, user.avatar}

\* A profile update writes one or both columns of the avatar and a password reset those
\* that differ, and still the two are parted in one way only: by a reset that writes
\* one of them, because the row had changed when save() selected it, and leaves the
\* other, which has changed since; or that read them parted.
AvatarPartedByReset ==
    \A u \in Existing : AvatarMatches(row[u]) /\ ~AvatarMatches(row'[u]) =>
        \E p \in Proc :
            /\ reset[p] # NoReset /\ reset[p].user = u /\ reset'[p] = NoReset
            /\ \/ ~AvatarMatches(reset[p].entity)
               \/ \E c, d \in {"avatar", "avatarId"} :
                    /\ c \in reset[p].columns
                    /\ d \notin reset[p].columns /\ row[u][d] # reset[p].entity[d]
AvatarStaysWhole == [][AvatarPartedByReset]_vars

=============================================================================
