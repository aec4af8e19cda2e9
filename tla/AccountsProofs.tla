--------------------------- MODULE AccountsProofs ---------------------------
(***************************************************************************)
(* Theorems about Accounts for any users, identifiers and number of        *)
(* password resets.                                                        *)
(***************************************************************************)
EXTENDS Accounts, TLAPS

\* A user is verified for all of its identifiers, or has one and is not verified.
Whole(r) == r.verified = r.idents \/ \E d \in Ident : r.idents = {d} /\ r.verified = {}

\* What holds of every row and of every entity read from one.
Good(r) == Whole(r) /\ r.verified \subseteq proven

\* An event verifies a user for all of its identifiers.
GoodEvent(e) ==
    e.user \in Existing /\ e.verified = row[e.user].idents /\ e.verified \subseteq proven

\* A reset holds an older state of the row it will write.
GoodReset(p) ==
    reset[p] # NoReset => /\ reset[p].user \in Existing
                          /\ reset[p].entity.idents = row[reset[p].user].idents
                          /\ Good(reset[p].entity)

\* A token is that of a user; what else it says of the user is true unless a refresh was
\* given other claims than those signed.
GoodToken ==
    token # NoToken =>
        /\ token.user \in Existing
        /\ token.kind # "refresh" =>
            /\ token.verified \subseteq proven
            /\ token.accessType = "verified" => row[token.user].idents \intersect proven # {}

IInv ==
    /\ TypeOK
    /\ \A u \in Existing : Good(row[u])
    /\ \A e \in verifiedEvents : GoodEvent(e)
    /\ loggedInEvents \subseteq Existing
    /\ \A p \in Proc : GoodReset(p)
    /\ GoodToken
    /\ PasswordNeedsProof

-----------------------------------------------------------------------------

LEMMA InitIInv == Init => IInv
<1> SUFFICES ASSUME Init PROVE IInv
  OBVIOUS
<1>1. PICK pw \in Password : row = [u \in {Admin} |-> AdminRow(pw)]
  BY DEF Init
<1>2. AdminRow(pw) \in UserRow
  BY AdminAssumption DEF AdminRow, NewUser, UserRow
<1>3. TypeOK
  BY <1>1, <1>2, AdminAssumption DEF Init, TypeOK, Existing
<1>4. \A u \in Existing : Good(row[u])
  BY <1>1 DEF Init, Good, Whole, AdminRow, NewUser, Existing
<1> QED BY <1>1, <1>3, <1>4 DEF Init, IInv, GoodReset, GoodToken, PasswordNeedsProof

\* An UPDATE of one row that keeps its identifiers and leaves it good.
LEMMA UpdatePreserves ==
    ASSUME IInv, NEW u \in Existing, NEW r \in UserRow,
           row' = [row EXCEPT ![u] = r], r.idents = row[u].idents, Good(r),
           reset' \in [Proc -> Reset \union {NoReset}],
           \A p \in Proc : reset'[p] \in {reset[p], NoReset},
           UNCHANGED <<verifiedEvents, loggedInEvents, token, proven>>
    PROVE  IInv'
<1>1. /\ Existing' = Existing /\ row' \in [Existing -> UserRow]
      /\ \A x \in Existing : row'[x].idents = row[x].idents /\ row'[x] \in {row[x], r}
  BY DEF IInv, TypeOK, Existing
<1>2. TypeOK'
  BY <1>1 DEF IInv, TypeOK
<1>3. \A x \in Existing' : Good(row[x])'
  BY <1>1 DEF IInv, Good, Whole
<1>4. (\A e \in verifiedEvents : GoodEvent(e))' /\ (loggedInEvents \subseteq Existing)'
  BY <1>1 DEF IInv, GoodEvent
<1>5. \A p \in Proc : GoodReset(p)'
  BY <1>1 DEF IInv, GoodReset, Good, Whole
<1>6. GoodToken' /\ PasswordNeedsProof'
  BY <1>1 DEF IInv, GoodToken, PasswordNeedsProof
<1> QED BY <1>2, <1>3, <1>4, <1>5, <1>6 DEF IInv

\* A new row under an identifier nobody has.
LEMMA InsertPreserves ==
    ASSUME IInv, NEW u \in User, NEW new \in UserRow, Insert(u, new),
           proven \subseteq proven', proven' \subseteq Ident, Good(new)',
           UNCHANGED <<reset>>,
           verifiedEvents' \subseteq verifiedEvents \union
                                        {[user |-> u, verified |-> new.verified]},
           new.verified = new.idents \/ verifiedEvents' = verifiedEvents,
           loggedInEvents' \subseteq loggedInEvents \union {u},
           \/ UNCHANGED token
           \/ \E d \in new.idents : /\ d \in proven'
                                    /\ GenerateToken("thirdParty", u, d, new)
    PROVE  IInv'
<1>1. /\ u \notin Existing /\ Existing' = Existing \union {u}
      /\ row'[u] = new /\ \A x \in Existing : row'[x] = row[x]
      /\ row' \in [Existing' -> UserRow]
  BY DEF IInv, TypeOK, Existing, Insert
<1>2. \A x \in Existing' : Good(row[x])'
  BY <1>1 DEF IInv, Good
<1>3. \A e \in verifiedEvents' : GoodEvent(e)'
  BY <1>1, <1>2 DEF IInv, GoodEvent, Good
<1>4. \A p \in Proc : GoodReset(p)'
  BY <1>1 DEF IInv, GoodReset, Good
<1>5. token' \in Claims \union {NoToken} /\ GoodToken' /\ PasswordNeedsProof'
  <2>1. CASE UNCHANGED token
    BY <1>1, <2>1 DEF IInv, TypeOK, GoodToken, PasswordNeedsProof
  <2>2. CASE \E d \in new.idents : d \in proven' /\ GenerateToken("thirdParty", u, d, new)
    <3>1. PICK d \in new.idents : d \in proven' /\ GenerateToken("thirdParty", u, d, new)
      BY <2>2
    <3>2. \/ token' \in Claims /\ token'.user = u /\ token'.verified = new.verified
             /\ token'.kind = "thirdParty"
          \/ UNCHANGED token
      BY <3>1 DEF GenerateToken, Claims, SigninClaims, AccessType, SigninKind, UserRow
    <3> QED BY <1>1, <2>1, <3>1, <3>2 DEF GoodToken, PasswordNeedsProof, Good
  <2> QED BY <2>1, <2>2
<1>6. TypeOK'
  BY <1>1, <1>5 DEF IInv, TypeOK, UserVerifiedEvent, UserRow
<1> QED BY <1>1, <1>2, <1>3, <1>4, <1>5, <1>6 DEF IInv

\* A token for an entity whose flags are proven.
LEMMA TokenPreserves ==
    ASSUME IInv, NEW kind \in SigninKind, NEW d \in Ident, NEW u \in Owners(d), NEW user \in UserRow,
           GenerateToken(kind, u, d, user),
           UNCHANGED <<row, reset>>,
           proven \subseteq proven', proven' \subseteq Ident, user.verified \subseteq proven',
           \A e \in verifiedEvents' \ verifiedEvents :
                e \in UserVerifiedEvent /\ GoodEvent(e)',
           loggedInEvents' \subseteq loggedInEvents \union {u},
           AccessType(kind, user) = "verified" => row[u].idents \intersect proven' # {},
           kind = "password" /\ ~AllowUnverifiedSignin => d \in proven'
    PROVE  IInv'
<1>1. u \in Existing /\ u \in User /\ Existing' = Existing
  BY DEF Owners, IInv, TypeOK, Existing
<1>2. \/ /\ token' \in Claims /\ token'.user = u /\ token'.verified = user.verified
         /\ token'.kind = kind /\ token'.ident = d /\ token'.accessType = AccessType(kind, user)
      \/ UNCHANGED token
  BY <1>1 DEF GenerateToken, Claims, SigninClaims, AccessType, UserRow
<1>3. TypeOK'
  BY <1>1, <1>2 DEF IInv, TypeOK
<1>4. (\A x \in Existing : Good(row[x]))' /\ (\A p \in Proc : GoodReset(p))'
  BY <1>1 DEF IInv, Good, GoodReset
<1>5. (\A e \in verifiedEvents : GoodEvent(e))' /\ (loggedInEvents \subseteq Existing)'
  BY <1>1 DEF IInv, GoodEvent
<1>6. GoodToken' /\ PasswordNeedsProof'
  BY <1>1, <1>2 DEF IInv, GoodToken, PasswordNeedsProof
<1> QED BY <1>3, <1>4, <1>5, <1>6 DEF IInv

-----------------------------------------------------------------------------
\* The disjuncts of Next.

LEMMA SignUpsPreserve == ASSUME IInv, SignUps PROVE IInv'
<1>. PICK u \in User, d \in Ident :
        SignUpByThirdParty(u, d) \/ \E pw \in Password \union {None} : SignUp(u, d, pw)
  BY DEF SignUps
<1>1. ASSUME SignUpByThirdParty(u, d) PROVE IInv'
  <2> DEFINE new == NewUser({d}, {d}, None)
  <2>1. new \in UserRow /\ new.idents = {d} /\ new.verified = {d}
    BY DEF NewUser, UserRow
  <2>2. /\ Insert(u, new) /\ proven' = proven \union {d} /\ UNCHANGED <<reset>>
        /\ verifiedEvents' = verifiedEvents \union {[user |-> u, verified |-> {d}]}
        /\ loggedInEvents' = loggedInEvents \union {u}
        /\ GenerateToken("thirdParty", u, d, new)
    BY <1>1 DEF SignUpByThirdParty, Publish
  <2> HIDE DEF new
  <2>3. Good(new)' /\ proven' \subseteq Ident
    BY <2>1, <2>2 DEF Good, Whole, IInv, TypeOK
  <2> QED BY <2>1, <2>2, <2>3, InsertPreserves
<1>2. ASSUME NEW pw \in Password \union {None}, SignUp(u, d, pw) PROVE IInv'
  <2> DEFINE new == NewUser({d}, {}, pw)
  <2>1. new \in UserRow /\ new.idents = {d} /\ new.verified = {}
    BY DEF NewUser, UserRow
  <2>2. /\ Insert(u, new)
        /\ UNCHANGED <<verifiedEvents, loggedInEvents, reset, token, proven>>
    BY <1>2 DEF SignUp
  <2> HIDE DEF new
  <2>3. Good(new)' /\ proven' \subseteq Ident
    BY <2>1, <2>2 DEF Good, Whole, IInv, TypeOK
  <2> QED BY <2>1, <2>2, <2>3, InsertPreserves
<1> QED BY <1>1, <1>2

LEMMA SignInsPreserve == ASSUME IInv, SignIns PROVE IInv'
<1>. PICK d \in Ident :
        \/ SigninByThirdParty(d) \/ Impersonation(d) \/ SigninByOtp(d) \/ Verify(d)
        \/ \E pw \in Password : SigninByPassword(d, pw)
  BY DEF SignIns
<1>1. \A u \in Owners(d) : /\ u \in Existing /\ u \in User /\ d \in row[u].idents
                           /\ row[u] \in UserRow /\ Good(row[u])
  BY DEF Owners, IInv, TypeOK
<1>2. proven \subseteq Ident /\ proven \union {d} \subseteq Ident
  BY DEF IInv, TypeOK
<1>3. \A u \in Owners(d) : /\ Marked(u, d) \in UserRow
                           /\ Marked(u, d).verified = row[u].verified \union {d}
                           /\ Marked(u, d).verified = row[u].idents
  BY <1>1 DEF Marked, UserRow, Good, Whole
<1>4. ASSUME SigninByThirdParty(d) PROVE IInv'
  <2>1. PICK u \in Owners(d) : Publish(loggedInEvents, u) /\ GenerateToken("thirdParty", u, d, row[u])
    BY <1>4 DEF SigninByThirdParty
  <2>2. /\ proven' = proven \union {d} /\ UNCHANGED <<row, verifiedEvents, reset>>
    BY <1>4 DEF SigninByThirdParty
  <2>3. row[u].verified \subseteq proven' /\ row[u].idents \intersect proven' # {}
    BY <1>1, <2>2 DEF Good
  <2> QED BY <1>1, <1>2, <2>1, <2>2, <2>3, TokenPreserves DEF Publish, SigninKind
<1>5. ASSUME Impersonation(d) PROVE IInv'
  <2>1. PICK u \in Owners(d) : GenerateToken("impersonation", u, d, row[u])
    BY <1>5 DEF Impersonation
  <2>2. UNCHANGED <<row, verifiedEvents, loggedInEvents, reset, proven>>
    BY <1>5 DEF Impersonation
  <2>3. AccessType("impersonation", row[u]) = "verified" => row[u].idents \intersect proven # {}
    BY <1>1 DEF AccessType, Good, Whole
  <2> QED BY <1>1, <1>2, <2>1, <2>2, <2>3, TokenPreserves DEF SigninKind, Good
<1>6. ASSUME NEW pw \in Password, SigninByPassword(d, pw) PROVE IInv'
  <2>1. PICK u \in Owners(d), passwordIsEmail \in BOOLEAN :
           /\ VerifiedEnough(row[u], d, passwordIsEmail)
           /\ Publish(loggedInEvents, u) /\ GenerateToken("password", u, d, row[u])
    BY <1>6 DEF SigninByPassword
  <2>2. UNCHANGED <<row, verifiedEvents, reset, proven>>
    BY <1>6 DEF SigninByPassword
  <2>3. AccessType("password", row[u]) = "verified" => row[u].idents \intersect proven # {}
    BY <1>1 DEF AccessType, Good, Whole
  <2>4. ~AllowUnverifiedSignin => d \in proven
    BY <1>1, <2>1 DEF VerifiedEnough, Good, Whole
  <2> QED BY <1>1, <1>2, <2>1, <2>2, <2>3, <2>4, TokenPreserves DEF Publish, SigninKind, Good
<1>7. ASSUME SigninByOtp(d) PROVE IInv'
  <2>1. /\ proven' = proven \union {d} /\ UNCHANGED <<row, reset>>
    BY <1>7 DEF SigninByOtp
  <2>2. PICK u \in Owners(d) :
           /\ Publish(loggedInEvents, u)
           /\ \/ UNCHANGED verifiedEvents /\ GenerateToken("signinByOtp", u, d, row[u])
              \/ /\ Publish(verifiedEvents, [user |-> u, verified |-> Marked(u, d).verified])
                 /\ GenerateToken("signinByOtp", u, d, Marked(u, d))
    BY <1>7 DEF SigninByOtp
  <2>3. PICK user \in {row[u], Marked(u, d)} :
           /\ GenerateToken("signinByOtp", u, d, user)
           /\ verifiedEvents' \subseteq verifiedEvents \union
                                  {[user |-> u, verified |-> Marked(u, d).verified]}
    BY <2>2 DEF Publish
  <2>4. /\ user \in UserRow /\ user.verified \subseteq proven'
        /\ row[u].idents \intersect proven' # {}
    BY <1>1, <1>3, <2>1 DEF Good
  <2>5. \A e \in verifiedEvents' \ verifiedEvents : e \in UserVerifiedEvent /\ GoodEvent(e)'
    BY <1>1, <1>3, <2>1, <2>3 DEF UserVerifiedEvent, GoodEvent, UserRow, Good, Existing
  <2> QED BY <1>2, <2>1, <2>2, <2>3, <2>4, <2>5, TokenPreserves DEF Publish, SigninKind
<1>8. ASSUME Verify(d) PROVE IInv'
  <2>1. /\ proven' = proven \union {d} /\ UNCHANGED <<row, loggedInEvents, reset>>
    BY <1>8 DEF Verify
  <2>2. PICK u \in Owners(d) :
           /\ Publish(verifiedEvents, [user |-> u, verified |-> Marked(u, d).verified])
           /\ GenerateToken("verify", u, d, Marked(u, d))
    BY <1>8 DEF Verify
  <2>3. Marked(u, d).verified \subseteq proven' /\ row[u].idents \intersect proven' # {}
    BY <1>1, <1>3, <2>1 DEF Good
  <2>4. \A e \in verifiedEvents' \ verifiedEvents : e \in UserVerifiedEvent /\ GoodEvent(e)'
    BY <1>1, <1>3, <2>1, <2>2, <2>3 DEF Publish, UserVerifiedEvent, GoodEvent, UserRow, Existing
  <2> QED BY <1>2, <1>3, <2>1, <2>2, <2>3, <2>4, TokenPreserves DEF SigninKind
<1> QED BY <1>4, <1>5, <1>6, <1>7, <1>8

\* refresh() changes the token only, and says so by its kind.
LEMMA RefreshPreserves == ASSUME IInv, Refresh PROVE IInv'
<1>1. /\ token # NoToken /\ token.user \in Existing /\ token.user \in User
      /\ UNCHANGED <<row, verifiedEvents, loggedInEvents, reset, proven>> /\ Existing' = Existing
  BY DEF Refresh, IInv, TypeOK, GoodToken, Existing
<1>2. token' \in Claims /\ token'.user = token.user /\ token'.kind = "refresh"
  BY <1>1 DEF Refresh, Claims, RefreshClaims
<1>3. TypeOK'
  BY <1>1, <1>2 DEF IInv, TypeOK
<1> QED BY <1>1, <1>2, <1>3 DEF IInv, Good, GoodEvent, GoodReset, GoodToken, PasswordNeedsProof

\* The steps of a password reset but the UPDATE.
LEMMA ResetReadPreserves ==
    ASSUME IInv, NEW p \in Proc,
           \/ SelectAgain(p) \/ Fail(p)
           \/ \E u \in User, pw \in Password : UpdatePassword(p, u, pw)
    PROVE  IInv'
<1>1. /\ UNCHANGED <<row, verifiedEvents, loggedInEvents, token, proven>>
      /\ Existing' = Existing
  BY DEF SelectAgain, Fail, UpdatePassword, Existing
<1>2. reset' \in [Proc -> Reset \union {NoReset}] /\ \A q \in Proc : GoodReset(q)'
  <2>1. CASE Fail(p)
    BY <1>1, <2>1 DEF Fail, IInv, TypeOK, GoodReset, Good, Whole
  <2>2. ASSUME NEW u \in User, NEW pw \in Password, UpdatePassword(p, u, pw)
        PROVE  reset' \in [Proc -> Reset \union {NoReset}] /\ \A q \in Proc : GoodReset(q)'
    <3> DEFINE entity == [row[u] EXCEPT !.password = pw]
               new == [user |-> u, entity |-> entity, selected |-> FALSE,
                       columns |-> {}, flags |-> {}]
    <3>1. u \in Existing /\ row[u] \in UserRow /\ Good(row[u])
      BY <2>2 DEF UpdatePassword, IInv, TypeOK
    <3>2. /\ entity \in UserRow /\ entity.idents = row[u].idents
          /\ entity.verified = row[u].verified
      BY <3>1 DEF UserRow
    <3>3. Good(entity)' /\ new \in Reset /\ reset' = [reset EXCEPT ![p] = new]
      BY <1>1, <2>2, <3>1, <3>2 DEF Good, Whole, Reset, UpdatePassword
    <3> HIDE DEF entity
    <3> QED BY <1>1, <3>1, <3>2, <3>3 DEF IInv, TypeOK, GoodReset, Good, Whole
  <2>3. ASSUME SelectAgain(p)
        PROVE  reset' \in [Proc -> Reset \union {NoReset}] /\ \A q \in Proc : GoodReset(q)'
    <3> DEFINE e == reset[p].entity
               r == row[reset[p].user]
               new == [reset[p] EXCEPT !.selected = TRUE, !.columns = ColumnDiff(e, r),
                                       !.flags = FlagDiff(e, r)]
    <3>1. reset[p] \in Reset /\ e \in UserRow /\ r \in UserRow
      BY <2>3 DEF SelectAgain, IInv, TypeOK, GoodReset, Reset
    <3>2. ColumnDiff(e, r) \subseteq Column /\ FlagDiff(e, r) \subseteq Ident
      BY <3>1 DEF ColumnDiff, FlagDiff, UserRow
    <3>3. new \in Reset /\ new.user = reset[p].user /\ new.entity = reset[p].entity
      BY <3>1, <3>2 DEF Reset
    <3>4. reset' = [reset EXCEPT ![p] = new] /\ reset[p] # NoReset
      BY <2>3 DEF SelectAgain
    <3> HIDE DEF new
    <3> QED BY <1>1, <3>3, <3>4 DEF IInv, TypeOK, GoodReset, Good, Whole
  <2> QED BY <2>1, <2>2, <2>3
<1>3. TypeOK'
  BY <1>1, <1>2 DEF IInv, TypeOK
<1> QED BY <1>1, <1>2, <1>3 DEF IInv, Good, GoodEvent, GoodToken, PasswordNeedsProof

\* What an UPDATE of some columns and flags leaves in a row.
LEMMA UpdatedRow ==
    ASSUME NEW r \in UserRow, NEW e \in UserRow, NEW columns \in SUBSET Column, NEW flags
    PROVE  /\ Updated(r, e, columns, flags) \in UserRow
           /\ Updated(r, e, columns, flags).idents = r.idents
           /\ Updated(r, e, columns, flags).verified
                = (r.verified \ flags) \union (e.verified \intersect flags)
           /\ Updated(r, e, columns, flags).avatar
                = IF "avatar" \in columns THEN e.avatar ELSE r.avatar
           /\ Updated(r, e, columns, flags).avatarId
                = IF "avatarId" \in columns THEN e.avatarId ELSE r.avatarId
<1> DEFINE x == Updated(r, e, columns, flags)
<1>1. DOMAIN r = Column \union {"idents", "verified"}
  BY DEF UserRow, Column
<1>2. x = [c \in Column \union {"idents", "verified"} |->
             IF c = "verified" THEN (r.verified \ flags) \union (e.verified \intersect flags)
             ELSE IF c \in columns THEN e[c] ELSE r[c]]
  BY <1>1 DEF Updated
<1> HIDE DEF x
<1>3. /\ x.idents = r.idents
      /\ x.verified = (r.verified \ flags) \union (e.verified \intersect flags)
      /\ \A c \in columns : x[c] = e[c]
      /\ \A c \in Column \ columns : x[c] = r[c]
  BY <1>2 DEF Column
<1>4. x = [idents |-> x.idents, verified |-> x.verified, password |-> x.password,
           role |-> x.role, avatar |-> x.avatar, avatarId |-> x.avatarId,
           loggedIn |-> x.loggedIn]
  BY <1>2 DEF Column
<1>5. /\ x.idents \in SUBSET Ident /\ x.verified \in SUBSET Ident
      /\ x.password \in Password \union {None} /\ x.role \in Role \union {None}
      /\ x.avatar \in Attachment \union {None} /\ x.avatarId \in Attachment \union {None}
      /\ x.loggedIn \in BOOLEAN
  BY <1>3 DEF UserRow, Column
<1>6. x \in UserRow
  BY <1>4, <1>5 DEF UserRow
<1>7. /\ x.avatar = IF "avatar" \in columns THEN e.avatar ELSE r.avatar
      /\ x.avatarId = IF "avatarId" \in columns THEN e.avatarId ELSE r.avatarId
  BY <1>3 DEF Column
<1> QED BY <1>3, <1>6, <1>7 DEF x

\* The row and the reset at the UPDATE of a reset.
LEMMA AtSave ==
    ASSUME IInv, NEW p \in Proc, SavePassword(p)
    PROVE  \E u \in Existing, r \in UserRow :
              /\ reset[p].user = u /\ reset[p].selected
              /\ r.verified = (row[u].verified \ reset[p].flags)
                                \union (reset[p].entity.verified \intersect reset[p].flags)
              /\ r.avatar = IF "avatar" \in reset[p].columns
                            THEN reset[p].entity.avatar ELSE row[u].avatar
              /\ r.avatarId = IF "avatarId" \in reset[p].columns
                              THEN reset[p].entity.avatarId ELSE row[u].avatarId
              /\ row' = [row EXCEPT ![u] = r]
              /\ r.idents = row[u].idents /\ Good(r)
<1>1. PICK u, old, e, columns, flags :
         /\ u = reset[p].user /\ old = row[u] /\ e = reset[p].entity
         /\ columns = reset[p].columns /\ flags = reset[p].flags
  OBVIOUS
<1>2. /\ reset[p].selected /\ u \in Existing /\ old \in UserRow
      /\ e \in UserRow /\ columns \in SUBSET Column
      /\ e.idents = old.idents /\ Good(e) /\ Good(old)
  BY <1>1 DEF SavePassword, IInv, TypeOK, GoodReset, Reset
<1> DEFINE r == Updated(old, e, columns, flags)
<1>3. row' = [row EXCEPT ![u] = r]
  BY <1>1 DEF SavePassword
<1>4. /\ r \in UserRow /\ r.idents = old.idents
      /\ r.verified = (old.verified \ flags) \union (e.verified \intersect flags)
      /\ r.avatar = IF "avatar" \in columns THEN e.avatar ELSE old.avatar
      /\ r.avatarId = IF "avatarId" \in columns THEN e.avatarId ELSE old.avatarId
  BY <1>2, UpdatedRow
<1> HIDE DEF r
<1>5. Good(r)
  BY <1>2, <1>4 DEF Good, Whole
<1> QED BY <1>1, <1>2, <1>3, <1>4, <1>5

LEMMA SavePasswordPreserves == ASSUME IInv, NEW p \in Proc, SavePassword(p) PROVE IInv'
<1>1. PICK u \in Existing, r \in UserRow :
         row' = [row EXCEPT ![u] = r] /\ r.idents = row[u].idents /\ Good(r)
  BY AtSave
<1>2. /\ reset' \in [Proc -> Reset \union {NoReset}]
      /\ \A q \in Proc : reset'[q] \in {reset[q], NoReset}
      /\ UNCHANGED <<verifiedEvents, loggedInEvents, token, proven>>
  BY DEF SavePassword, IInv, TypeOK
<1> QED BY <1>1, <1>2, UpdatePreserves

\* A profile or role update, or a consumer, writes one row: it keeps the identifiers and
\* stays good.
LEMMA UpdatesWriteOneRow ==
    ASSUME IInv, Updates
    PROVE  \E u \in Existing, r \in UserRow :
              row' = [row EXCEPT ![u] = r] /\ r.idents = row[u].idents /\ Good(r)
<1>1. ASSUME NEW u \in User, NEW a \in Attachment \union {None}, UpdateMyProfile(u, a)
      PROVE  \E r \in UserRow :
                /\ row' = [row EXCEPT ![u] = r] /\ r.idents = row[u].idents /\ Good(r)
                /\ u \in Existing
  <2> DEFINE r == IF a = None THEN [row[u] EXCEPT !.avatarId = None]
                              ELSE [row[u] EXCEPT !.avatar = a, !.avatarId = a]
  <2>1. u \in Existing /\ row[u] \in UserRow /\ Good(row[u])
    BY <1>1 DEF UpdateMyProfile, IInv, TypeOK
  <2>2. r \in UserRow /\ r.idents = row[u].idents /\ Good(r)
    BY <2>1 DEF UserRow, Good, Whole
  <2>3. row' = [row EXCEPT ![u] = r]
    BY <1>1, <2>1, NoneAssumption DEF UpdateMyProfile
  <2> QED BY <2>1, <2>2, <2>3
<1>2. ASSUME NEW u \in User, NEW role \in Role \union {None}, UpdateRole(u, role)
      PROVE  \E r \in UserRow :
                /\ row' = [row EXCEPT ![u] = r] /\ r.idents = row[u].idents /\ Good(r)
                /\ u \in Existing
  <2> DEFINE r == [row[u] EXCEPT !.role = role]
  <2>1. u \in Existing /\ row[u] \in UserRow /\ Good(row[u])
    BY <1>2 DEF UpdateRole, IInv, TypeOK
  <2>2. r \in UserRow /\ r.idents = row[u].idents /\ Good(r)
    BY <2>1 DEF UserRow, Good, Whole
  <2> QED BY <1>2, <2>1, <2>2 DEF UpdateRole
<1>3. ASSUME NEW e \in verifiedEvents, MarkUserAsVerified(e)
      PROVE  \E r \in UserRow :
                /\ row' = [row EXCEPT ![e.user] = r] /\ r.idents = row[e.user].idents /\ Good(r)
                /\ e.user \in Existing
  <2> DEFINE r == [row[e.user] EXCEPT !.verified = e.verified]
  <2>1. e.user \in Existing /\ row[e.user] \in UserRow /\ Good(row[e.user]) /\ GoodEvent(e)
    BY DEF IInv, TypeOK, GoodEvent
  <2>2. r \in UserRow /\ r.idents = row[e.user].idents /\ Good(r)
    BY <2>1 DEF UserRow, Good, Whole, GoodEvent
  <2> QED BY <1>3, <2>1, <2>2 DEF MarkUserAsVerified
<1>4. ASSUME NEW u \in loggedInEvents, UpdateLoggedInTime(u)
      PROVE  \E r \in UserRow :
                /\ row' = [row EXCEPT ![u] = r] /\ r.idents = row[u].idents /\ Good(r)
                /\ u \in Existing
  <2> DEFINE r == [row[u] EXCEPT !.loggedIn = TRUE]
  <2>1. u \in Existing /\ row[u] \in UserRow /\ Good(row[u])
    BY DEF IInv, TypeOK
  <2>2. r \in UserRow /\ r.idents = row[u].idents /\ Good(r)
    BY <2>1 DEF UserRow, Good, Whole
  <2> QED BY <1>4, <2>1, <2>2 DEF UpdateLoggedInTime
<1> QED BY <1>1, <1>2, <1>3, <1>4 DEF Updates

LEMMA UpdatesPreserve == ASSUME IInv, Updates PROVE IInv'
<1>1. PICK u \in Existing, r \in UserRow :
         row' = [row EXCEPT ![u] = r] /\ r.idents = row[u].idents /\ Good(r)
  BY UpdatesWriteOneRow
<1>2. UNCHANGED <<verifiedEvents, loggedInEvents, reset, token, proven>>
  BY DEF Updates, UpdateMyProfile, UpdateRole, MarkUserAsVerified, UpdateLoggedInTime
<1>3. reset' \in [Proc -> Reset \union {NoReset}]
  BY <1>2 DEF IInv, TypeOK
<1> QED BY <1>1, <1>2, <1>3, UpdatePreserves

-----------------------------------------------------------------------------

\* The invariant holds in every reachable state, for any constants.
THEOREM Invariance == Spec => []IInv
<1>1. IInv /\ [Next]_vars => IInv'
  <2> SUFFICES ASSUME IInv, [Next]_vars PROVE IInv'
    OBVIOUS
  <2>1. CASE UNCHANGED vars
    BY <2>1 DEF vars, IInv, TypeOK, Existing, Good, Whole, GoodEvent, GoodReset, GoodToken,
                PasswordNeedsProof
  <2>2. CASE Resets
    BY <2>2, ResetReadPreserves, SavePasswordPreserves DEF Resets
  <2> QED BY <2>1, <2>2, SignUpsPreserve, SignInsPreserve, RefreshPreserves, UpdatesPreserve
          DEF Next
<1> QED BY InitIInv, <1>1, PTL DEF Spec

\* Every variable keeps its type.
THEOREM TypeCorrect == Spec => []TypeOK
<1>1. IInv => TypeOK
  BY DEF IInv
<1> QED BY Invariance, <1>1, PTL

\* No verified flag is up, in a row, an event, a reset or a token, for an identifier
\* nobody has shown to own.
THEOREM FlagsAreProven == Spec => []VerifiedIsProven
<1>1. IInv => VerifiedIsProven
  BY DEF IInv, VerifiedIsProven, Good, GoodEvent, GoodReset, GoodToken
<1> QED BY Invariance, <1>1, PTL

\* A password opens a session only under a verified identifier, unless configured.
THEOREM PasswordsNeedProof == Spec => []PasswordNeedsProof
<1>1. IInv => PasswordNeedsProof
  BY DEF IInv
<1> QED BY Invariance, <1>1, PTL

\* Only the UPDATE of a password reset that read the user before takes a verification
\* back.
THEOREM VerificationsStay == Spec => VerifiedStays
<1>1. IInv /\ [Next]_vars => [TakenBackByReset]_vars
  <2> SUFFICES ASSUME IInv, Next, NEW u \in Existing, ~(row[u].verified \subseteq row'[u].verified)
               PROVE  \E p \in Proc : /\ reset[p] # NoReset /\ reset[p].user = u
                                      /\ reset[p].selected /\ reset'[p] = NoReset
                                      /\ (row[u].verified \ row'[u].verified)
                                            \intersect reset[p].entity.verified = {}
    BY DEF TakenBackByReset
  <2>1. row[u] \in UserRow /\ row \in [Existing -> UserRow] /\ Good(row[u])
    BY DEF IInv, TypeOK
  <2>2. CASE SignUps
    BY <2>1, <2>2 DEF SignUps, SignUp, SignUpByThirdParty, Insert
  <2>3. CASE SignIns \/ Refresh
    BY <2>1, <2>3 DEF SignIns, SigninByThirdParty, Impersonation, SigninByOtp, Verify,
                      SigninByPassword, Refresh
  <2>4. CASE Resets
    <3>1. PICK p \in Proc : SavePassword(p)
      BY <2>1, <2>4 DEF Resets, SelectAgain, Fail, UpdatePassword
    <3>2. PICK x \in Existing, r \in UserRow :
             /\ reset[p].user = x /\ reset[p].selected
             /\ r.verified = (row[x].verified \ reset[p].flags)
                               \union (reset[p].entity.verified \intersect reset[p].flags)
             /\ row' = [row EXCEPT ![x] = r]
      BY <3>1, AtSave
    <3>3. x = u /\ row'[u] = r
      BY <2>1, <3>2
    <3>5. reset'[p] = NoReset /\ reset[p] # NoReset
      BY <3>1 DEF SavePassword, IInv, TypeOK
    <3> QED BY <3>2, <3>3, <3>5
  <2>5. CASE Updates
    <3>1. ASSUME NEW e \in verifiedEvents, MarkUserAsVerified(e) PROVE FALSE
      BY <2>1, <3>1 DEF MarkUserAsVerified, IInv, GoodEvent, UserRow, Good, Whole
    <3>2. ASSUME NEW x \in User, NEW a \in Attachment \union {None}, UpdateMyProfile(x, a)
          PROVE  FALSE
      BY <2>1, <3>2 DEF UpdateMyProfile, UserRow
    <3>3. ASSUME NEW x \in User, NEW r \in Role \union {None}, UpdateRole(x, r) PROVE FALSE
      BY <2>1, <3>3 DEF UpdateRole, UserRow
    <3>4. ASSUME NEW x \in loggedInEvents, UpdateLoggedInTime(x) PROVE FALSE
      BY <2>1, <3>4 DEF UpdateLoggedInTime, UserRow
    <3> QED BY <2>5, <3>1, <3>2, <3>3, <3>4 DEF Updates
  <2> QED BY <2>2, <2>3, <2>4, <2>5 DEF Next
<1> QED BY Invariance, <1>1, PTL DEF Spec, VerifiedStays

\* The columns of an avatar are parted only by a reset that writes one of them and leaves
\* the other, which has changed since save() selected the row, or that read them parted.
THEOREM AvatarsStayWhole == Spec => AvatarStaysWhole
<1>1. IInv /\ [Next]_vars => [AvatarPartedByReset]_vars
  <2> SUFFICES ASSUME IInv, Next, NEW u \in Existing,
                      AvatarMatches(row[u]), ~AvatarMatches(row'[u])
               PROVE  \E p \in Proc :
                        /\ reset[p] # NoReset /\ reset[p].user = u /\ reset'[p] = NoReset
                        /\ \/ ~AvatarMatches(reset[p].entity)
                           \/ \E c, d \in {"avatar", "avatarId"} :
                                /\ c \in reset[p].columns /\ d \notin reset[p].columns
                                /\ row[u][d] # reset[p].entity[d]
    BY DEF AvatarPartedByReset
  <2>1. row[u] \in UserRow /\ row \in [Existing -> UserRow]
    BY DEF IInv, TypeOK
  <2>2. CASE SignUps
    BY <2>1, <2>2 DEF SignUps, SignUp, SignUpByThirdParty, Insert, AvatarMatches
  <2>3. CASE SignIns \/ Refresh
    BY <2>1, <2>3 DEF SignIns, SigninByThirdParty, Impersonation, SigninByOtp, Verify,
                      SigninByPassword, Refresh, AvatarMatches
  <2>4. CASE Resets
    <3>1. PICK p \in Proc : SavePassword(p)
      BY <2>1, <2>4 DEF Resets, SelectAgain, Fail, UpdatePassword, AvatarMatches
    <3>2. PICK x \in Existing, r \in UserRow :
             /\ reset[p].user = x
             /\ r.avatar = IF "avatar" \in reset[p].columns
                           THEN reset[p].entity.avatar ELSE row[x].avatar
             /\ r.avatarId = IF "avatarId" \in reset[p].columns
                             THEN reset[p].entity.avatarId ELSE row[x].avatarId
             /\ row' = [row EXCEPT ![x] = r]
      BY <3>1, AtSave
    <3>3. x = u /\ row'[u] = r
      BY <2>1, <3>2 DEF AvatarMatches
    <3>6. reset'[p] = NoReset /\ reset[p] # NoReset
      BY <3>1 DEF SavePassword, IInv, TypeOK
    <3> QED BY <3>2, <3>3, <3>6 DEF AvatarMatches
  <2>5. CASE Updates
    <3>1. ASSUME NEW e \in verifiedEvents, MarkUserAsVerified(e) PROVE FALSE
      BY <2>1, <3>1 DEF MarkUserAsVerified, UserRow, AvatarMatches
    <3>2. ASSUME NEW x \in User, NEW a \in Attachment \union {None}, UpdateMyProfile(x, a)
          PROVE  FALSE
      BY <2>1, <3>2 DEF UpdateMyProfile, UserRow, AvatarMatches
    <3>3. ASSUME NEW x \in User, NEW r \in Role \union {None}, UpdateRole(x, r) PROVE FALSE
      BY <2>1, <3>3 DEF UpdateRole, UserRow, AvatarMatches
    <3>4. ASSUME NEW x \in loggedInEvents, UpdateLoggedInTime(x) PROVE FALSE
      BY <2>1, <3>4 DEF UpdateLoggedInTime, UserRow, AvatarMatches
    <3> QED BY <2>5, <3>1, <3>2, <3>3, <3>4 DEF Updates
  <2> QED BY <2>2, <2>3, <2>4, <2>5 DEF Next
<1> QED BY Invariance, <1>1, PTL DEF Spec, AvatarStaysWhole

-----------------------------------------------------------------------------
\* Who owns an identifier.

\* Two users share no identifier.
Unique == \A u, v \in Existing : u # v => row[u].idents \intersect row[v].idents = {}

\* A session is that of the one owner of the identifier it was opened with, as long as
\* its refreshes were given the claims that had been signed.
OneOwner ==
    token # NoToken /\ token.kind # "refresh" => Owners(token.ident) = {token.user}

\* A row stays and keeps its identifiers, whatever writes it, and no user has those of a
\* new row.
LEMMA IdentsStay ==
    ASSUME IInv, [Next]_vars
    PROVE  /\ \A u \in Existing : u \in Existing' /\ row'[u].idents = row[u].idents
           /\ \A u \in Existing' : u \notin Existing =>
                \A d \in row'[u].idents : Owners(d) = {}
           /\ \A u, v \in Existing' : u \notin Existing /\ v \notin Existing => u = v
<1>1. row \in [Existing -> UserRow]
  BY DEF IInv, TypeOK
<1>2. CASE \E u \in User, new \in UserRow : Insert(u, new)
  <2>1. PICK u \in User, new \in UserRow : Insert(u, new)
    BY <1>2
  <2>2. /\ u \notin Existing /\ Existing' = Existing \union {u}
        /\ row'[u] = new /\ \A x \in Existing : row'[x] = row[x]
        /\ \A d \in new.idents : Owners(d) = {}
    BY <2>1 DEF Insert, Existing
  <2> QED BY <2>2
<1>3. CASE \E u \in Existing, r \in UserRow :
              row' = [row EXCEPT ![u] = r] /\ r.idents = row[u].idents
  BY <1>1, <1>3 DEF Existing
<1>4. CASE UNCHANGED row
  BY <1>4 DEF Existing
<1>5. CASE SignUps
  <2>1. PICK u \in User, d \in Ident :
          SignUpByThirdParty(u, d) \/ \E pw \in Password \union {None} : SignUp(u, d, pw)
    BY <1>5 DEF SignUps
  <2>2. \A pw \in Password \union {None}, verified \in SUBSET {d} :
          NewUser({d}, verified, pw) \in UserRow
    BY DEF NewUser, UserRow
  <2> QED BY <1>2, <2>1, <2>2 DEF SignUp, SignUpByThirdParty
<1>6. CASE SignIns \/ Refresh
  BY <1>4, <1>6 DEF SignIns, SigninByThirdParty, Impersonation, SigninByOtp, Verify,
                    SigninByPassword, Refresh
<1>7. CASE Resets
  <2>1. CASE \E p \in Proc : SavePassword(p)
    <3> PICK p \in Proc : SavePassword(p)
      BY <2>1
    <3> QED BY <1>3, AtSave
  <2> QED BY <1>4, <1>7, <2>1 DEF Resets, SelectAgain, Fail, UpdatePassword
<1>8. CASE Updates
  BY <1>3, <1>8, UpdatesWriteOneRow
<1> QED BY <1>4, <1>5, <1>6, <1>7, <1>8 DEF Next, vars

\* A new token of a sign-in is that of an owner of its identifier.
LEMMA TokensAreOwned ==
    ASSUME IInv, [Next]_vars
    PROVE  \/ UNCHANGED token \/ token'.kind = "refresh"
           \/ token'.user \in Existing' /\ token'.ident \in row'[token'.user].idents
<1>1. CASE SignUps
  BY <1>1 DEF SignUps, SignUp, SignUpByThirdParty, Insert, GenerateToken, NewUser, Existing
<1>2. CASE SignIns
  <2>1. PICK d \in Ident, u \in Existing :
          /\ d \in row[u].idents /\ UNCHANGED row
          /\ \E kind, user : GenerateToken(kind, u, d, user)
    BY <1>2 DEF SignIns, SigninByThirdParty, Impersonation, SigninByOtp, Verify,
                SigninByPassword, Owners
  <2>2. (token'.user = u /\ token'.ident = d) \/ UNCHANGED token
    BY <2>1 DEF GenerateToken
  <2> QED BY <2>1, <2>2 DEF Existing
<1>3. CASE Refresh
  BY <1>3 DEF Refresh
<1>4. CASE Resets
  BY <1>4 DEF Resets, SelectAgain, SavePassword, Fail, UpdatePassword
<1>5. CASE Updates \/ UNCHANGED vars
  BY <1>5 DEF Updates, UpdateMyProfile, UpdateRole, MarkUserAsVerified, UpdateLoggedInTime, vars
<1> QED BY <1>1, <1>2, <1>3, <1>4, <1>5 DEF Next

\* An identifier never has two owners: each sign-up inserts one nobody has, and no
\* reset, however old the entity it saves, changes one.
THEOREM IdentifiersAreUnique == Spec => []Unique
<1>1. Init => Unique
  BY DEF Init, Unique, Existing
<1>2. IInv /\ Unique /\ [Next]_vars => Unique'
  <2> SUFFICES ASSUME IInv, Unique, [Next]_vars,
                      NEW u \in Existing', NEW v \in Existing', u # v,
                      NEW d \in row'[u].idents, d \in row'[v].idents
               PROVE  FALSE
    BY DEF Unique
  <2>1. CASE u \in Existing /\ v \in Existing
    BY <2>1, IdentsStay DEF Unique
  <2>2. CASE u \notin Existing
    BY <2>2, IdentsStay DEF Owners
  <2>3. CASE v \notin Existing
    BY <2>3, IdentsStay DEF Owners
  <2> QED BY <2>1, <2>2, <2>3
<1> QED BY <1>1, <1>2, Invariance, PTL DEF Spec

\* A session is that of the one owner its identifier has, then and ever after: no
\* sign-up, reset or late event hands the identifier to somebody else.  (Of claims a
\* refresh was given in place of those signed nothing is said.)
THEOREM SessionsHaveOneOwner == Spec => []OneOwner
<1> DEFINE Owned == token # NoToken /\ token.kind # "refresh" =>
                       /\ token.user \in Existing
                       /\ token.ident \in row[token.user].idents
<1>1. Init => Owned
  BY DEF Init
<1>2. IInv /\ Owned /\ [Next]_vars => Owned'
  BY IdentsStay, TokensAreOwned
<1>3. Unique /\ Owned => OneOwner
  BY DEF Unique, OneOwner, Owners
<1> QED BY <1>1, <1>2, <1>3, Invariance, IdentifiersAreUnique, PTL DEF Spec

=============================================================================
