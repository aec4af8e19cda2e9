------------------------------ MODULE AccessProofs ------------------------------
(***************************************************************************)
(* Theorems about Access for any processes, clients, users, roles and      *)
(* permission lists.                                                       *)
(***************************************************************************)
EXTENDS Access, TLAPS

USE NamesAssumption, IdentsAssumption, GrantsAssumption

-----------------------------------------------------------------------------
\* The inductive invariant.

\* Nothing holds a permission before a default user has signed in (and as long as refreshes
\* are given the permissions that were signed).
NothingGiven ==
    /\ \A u \in DOMAIN users \intersect Customer : users[u] = None
    /\ \A r \in DOMAIN roles : r \in Process /\ roles[r] = {"*"}
    /\ \A c \in Client : token[c] # None => token[c] = {}
    /\ \A c \in Client : request[c] # None =>
           /\ request[c].at = "handler" /\ request[c].user # None => request[c].user = {}
           /\ request[c].at = "role" => request[c].role = None

\* The role a default user is saved with is there.
RolesFound == \A p \in Process : userSeeder[p].stage = "save" => userSeeder[p].role \in DOMAIN roles

\* A seeder that began when a "*" role was there has it until a default user is there, or it
\* has met a customer with its identifier.
Served(p) ==
    \/ userSeeder[p].stage \in {"roles", "save"}
    \/ DefaultIdents[p] \intersect taken # {}

ReadyIsServed ==
    DefaultUsers = {} =>
        /\ ~entered
        /\ ~altered => \A p \in ready : Served(p) /\ Managing # {}

IInv ==
    /\ TypeOK /\ RolesFound /\ AdmittedIsAllowed
    /\ ~entered /\ ~altered => NothingGiven
    /\ ReadyIsServed

-----------------------------------------------------------------------------

\* What the guards let through: a request for the handler, of somebody who may send it.
LEMMA GuardedFacts ==
    ASSUME NEW controller \in Controller, NEW claim \in (SUBSET Permission) \union {None},
           NEW q, q = [at |-> "handler", controller |-> controller, user |-> None],
           NEW solved, NEW g, g = Guarded(q, claim, solved), g # None
    PROVE  /\ g \in Request /\ g.at = "handler" /\ g.controller = controller
           /\ g.user \in {None, claim}
           /\ controller \notin IgnoreAuthorization =>
                  /\ g.user # None
                  /\ (RequiredPermissions[controller] \union {"*"}) \intersect g.user # {}
<1> DEFINE a == AuthorizationGuard(q, claim)
<1>1. a # None /\ g = CheckPermissionGuard(a) /\ g = a
  <2>1. CaptchaGuard(a, solved) \in {a, None}
    BY DEF CaptchaGuard
  <2>2. \A h : CheckPermissionGuard(h) \in {h, None}
    BY DEF CheckPermissionGuard
  <2> QED BY <2>1, <2>2 DEF Guarded
<1>2. CASE controller \in IgnoreAuthorization
  <2>1. g = q
    BY <1>1, <1>2 DEF AuthorizationGuard
  <2>2. q.at = "handler" /\ q.controller = controller /\ q.user = None /\ q \in Request
    BY DEF Request, Admitted
  <2> HIDE DEF a
  <2> QED BY <1>2, <2>1, <2>2
<1>3. CASE controller \notin IgnoreAuthorization
  <2>1. claim # None /\ g = [q EXCEPT !.user = claim]
    BY <1>1, <1>3 DEF AuthorizationGuard
  <2>2. g.user = claim /\ g.at = "handler" /\ g.controller = controller /\ g \in Request
    BY <2>1 DEF Request, Admitted
  <2>3. RequiredPermissions[controller] # {}
    BY <1>3 DEF RequiredPermissions, Controller, IgnoreAuthorization
  <2>4. "*" \in g.user \/ RequiredPermissions[controller] \intersect g.user # {}
    <3>1. CheckPermissionGuard(a) = IF a.user = None \/ "*" \in a.user
              \/ RequiredPermissions[a.controller] = {}
              \/ RequiredPermissions[a.controller] \intersect a.user # {} THEN a ELSE None
      BY DEF CheckPermissionGuard
    <3> HIDE DEF a
    <3> QED BY <1>1, <2>1, <2>2, <2>3, <3>1
  <2> QED BY <2>1, <2>2, <2>4
<1> QED BY <1>2, <1>3

-----------------------------------------------------------------------------
\* One lemma per action: it preserves the inductive invariant.

LEMMA InitIInv == Init => IInv
<1> SUFFICES ASSUME Init PROVE IInv
  OBVIOUS
<1>2. DOMAIN roles = {} /\ DOMAIN users = {}
  BY DEF Init
<1>3. TypeOK
  BY <1>2 DEF Init, TypeOK
<1>4. RolesFound /\ AdmittedIsAllowed /\ NothingGiven
  BY <1>2 DEF Init, RolesFound, AdmittedIsAllowed, Handling, NothingGiven
<1>5. ReadyIsServed
  BY DEF Init, ReadyIsServed
<1> QED BY <1>3, <1>4, <1>5 DEF IInv

\* A step of the seeders that leaves the users table alone, and only saves a role.
LEMMA TestRolesPreserves == ASSUME IInv, NEW p \in Process, TestRoles(p) PROVE IInv'
<1>1. UNCHANGED <<roles, users, userSeeder, taken, token, request, ready, entered, altered>>
  BY DEF TestRoles, tables, history
<1>2. roleSeeder' \in [Process -> {"new", "save", "done"}]
  BY DEF TestRoles, IInv, TypeOK
<1>3. TypeOK'
  BY <1>1, <1>2 DEF IInv, TypeOK
<1> QED BY <1>1, <1>3 DEF IInv, RolesFound, AdmittedIsAllowed, Handling, NothingGiven,
                         ReadyIsServed, Served, DefaultUsers, Managing

LEMMA RoleSeederDiesPreserves == ASSUME IInv, NEW p \in Process, RoleSeederDies(p) PROVE IInv'
<1>1. UNCHANGED <<roles, users, userSeeder, taken, token, request, ready, entered, altered>>
  BY DEF RoleSeederDies, tables, history
<1>2. roleSeeder' \in [Process -> {"new", "save", "done"}]
  BY DEF RoleSeederDies, IInv, TypeOK
<1>3. TypeOK'
  BY <1>1, <1>2 DEF IInv, TypeOK
<1> QED BY <1>1, <1>3 DEF IInv, RolesFound, AdmittedIsAllowed, Handling, NothingGiven,
                         ReadyIsServed, Served, DefaultUsers, Managing

LEMMA SaveRolePreserves == ASSUME IInv, NEW p \in Process, SaveRole(p) PROVE IInv'
<1>1. /\ UNCHANGED <<users, userSeeder, taken, token, request, ready, entered, altered>>
      /\ roles' = Put(roles, p, {"*"})
  BY DEF SaveRole, history
<1>2. /\ DOMAIN roles' = DOMAIN roles \union {p} /\ roles'[p] = {"*"}
      /\ \A r \in DOMAIN roles : r # p => roles'[r] = roles[r]
  BY <1>1 DEF Put
<1>3. roleSeeder' \in [Process -> {"new", "save", "done"}]
  BY DEF SaveRole, IInv, TypeOK
<1>4. TypeOK'
  <2>1. p \in Role /\ {"*"} \in SUBSET Permission
    BY DEF Role, Permission
  <2> QED BY <1>1, <1>2, <1>3, <2>1 DEF IInv, TypeOK
<1>5. RolesFound' /\ AdmittedIsAllowed' /\ (~entered /\ ~altered => NothingGiven)'
  <2>1. RolesFound'
    BY <1>1, <1>2 DEF IInv, RolesFound
  <2>2. AdmittedIsAllowed'
    BY <1>1 DEF IInv, AdmittedIsAllowed, Handling
  <2>3. ASSUME ~entered, ~altered PROVE NothingGiven'
    <3>1. \A r \in DOMAIN roles' : r \in Process /\ roles'[r] = {"*"}
      BY <1>2, <2>3 DEF IInv, NothingGiven
    <3> QED BY <1>1, <2>3, <3>1 DEF IInv, NothingGiven
  <2> QED BY <1>1, <2>1, <2>2, <2>3
<1>6. ReadyIsServed'
  <2>1. p \in Managing'
    BY <1>2 DEF Managing
  <2> QED BY <1>1, <2>1 DEF IInv, ReadyIsServed, Served, DefaultUsers
<1> QED BY <1>4, <1>5, <1>6 DEF IInv

\* A step of p's user seeder.
LEMMA SeedUserFacts ==
    ASSUME IInv, NEW p \in Process, NEW stage, NEW role, SeedUser(p, stage, role)
    PROVE  /\ UNCHANGED <<roles, roleSeeder, taken, token, request, entered, altered>>
           /\ userSeeder'[p] = [stage |-> stage, role |-> role]
           /\ \A q \in Process : q # p => userSeeder'[q] = userSeeder[q]
           /\ (stage \in {"new", "roles", "save", "done"} /\ role \in Role \union {None}) =>
                  userSeeder' \in [Process -> [stage: {"new", "roles", "save", "done"},
                                               role: Role \union {None}]]
BY DEF SeedUser, history, IInv, TypeOK

LEMMA TestUsersPreserves == ASSUME IInv, NEW p \in Process, TestUsers(p) PROVE IInv'
<1> DEFINE stage == IF users = <<>> THEN "roles" ELSE "done"
<1>1. /\ UNCHANGED <<roles, roleSeeder, taken, token, request, entered, altered, users>>
      /\ userSeeder'[p] = [stage |-> stage, role |-> None]
      /\ \A q \in Process : q # p => userSeeder'[q] = userSeeder[q]
      /\ userSeeder' \in [Process -> [stage: {"new", "roles", "save", "done"},
                                      role: Role \union {None}]]
  BY SeedUserFacts DEF TestUsers
<1>2. ready' = IF users = <<>> /\ Managing # {} THEN ready \union {p} ELSE ready
  BY DEF TestUsers
<1>3. TypeOK'
  BY <1>1, <1>2 DEF IInv, TypeOK
<1>4. RolesFound' /\ AdmittedIsAllowed' /\ (~entered /\ ~altered => NothingGiven)'
  BY <1>1 DEF IInv, RolesFound, AdmittedIsAllowed, Handling, NothingGiven
<1>5. ReadyIsServed'
  <2>1. Managing' = Managing /\ DefaultUsers' = DefaultUsers
    BY <1>1 DEF Managing, DefaultUsers
  <2>2. ASSUME DefaultUsers = {}, ~altered, NEW q \in ready' PROVE Served(q)' /\ Managing # {}
    <3>1. CASE q \in ready
      <4>1. q \in Process /\ Served(q) /\ Managing # {}
        BY <2>2, <3>1 DEF IInv, TypeOK, ReadyIsServed
      <4>2. userSeeder[p].stage \notin {"roles", "save"}
        BY DEF TestUsers
      <4> QED BY <1>1, <4>1, <4>2 DEF Served
    <3>2. CASE q \notin ready
      <4>1. q = p /\ stage = "roles" /\ Managing # {}
        BY <1>2, <2>2, <3>2
      <4> HIDE DEF stage
      <4> QED BY <1>1, <4>1 DEF Served
    <3> QED BY <3>1, <3>2
  <2> QED BY <1>1, <2>1, <2>2 DEF IInv, ReadyIsServed
<1> QED BY <1>3, <1>4, <1>5 DEF IInv

LEMMA FindRolesPreserves == ASSUME IInv, NEW p \in Process, FindRoles(p) PROVE IInv'
<1>1. PICK stage \in {"save", "done"}, role \in Role \union {None} :
          /\ SeedUser(p, stage, role)
          /\ stage = "save" => role \in Managing
          /\ stage = "done" => Managing = {}
  <2>1. Managing \subseteq Role
    BY DEF IInv, TypeOK, Managing
  <2>2. CASE Managing = {} /\ SeedUser(p, "done", None)
    <3> WITNESS "done" \in {"save", "done"}, None \in Role \union {None}
    <3> QED BY <2>2
  <2>3. CASE \E r \in Managing : SeedUser(p, "save", r)
    <3>1. PICK r \in Managing : SeedUser(p, "save", r)
      BY <2>3
    <3>2. r \in Role \union {None}
      BY <2>1
    <3> WITNESS "save" \in {"save", "done"}, r \in Role \union {None}
    <3> QED BY <3>1
  <2> QED BY <2>2, <2>3 DEF FindRoles
<1>2. /\ UNCHANGED <<roles, roleSeeder, taken, token, request, entered, altered, users, ready>>
      /\ userSeeder'[p] = [stage |-> stage, role |-> role]
      /\ \A q \in Process : q # p => userSeeder'[q] = userSeeder[q]
      /\ userSeeder' \in [Process -> [stage: {"new", "roles", "save", "done"},
                                      role: Role \union {None}]]
  BY <1>1, SeedUserFacts DEF FindRoles
<1>3. TypeOK'
  BY <1>2 DEF IInv, TypeOK
<1>4. RolesFound' /\ AdmittedIsAllowed' /\ (~entered /\ ~altered => NothingGiven)'
  <2>1. stage = "save" => role \in DOMAIN roles
    BY <1>1 DEF Managing
  <2>2. RolesFound'
    BY <1>2, <2>1 DEF IInv, RolesFound
  <2> QED BY <1>2, <2>2 DEF IInv, AdmittedIsAllowed, Handling, NothingGiven
<1>5. ReadyIsServed'
  <2>1. Managing' = Managing /\ DefaultUsers' = DefaultUsers
    BY <1>2 DEF Managing, DefaultUsers
  <2>2. ASSUME DefaultUsers = {}, ~altered, NEW q \in ready PROVE Served(q)' /\ Managing # {}
    <3>1. Served(q) /\ Managing # {} /\ q \in Process
      BY <2>2 DEF IInv, ReadyIsServed, TypeOK
    <3>2. stage = "save"
      BY <1>1, <3>1
    <3> QED BY <1>2, <3>1, <3>2 DEF Served
  <2> QED BY <1>2, <2>1, <2>2 DEF IInv, ReadyIsServed
<1> QED BY <1>3, <1>4, <1>5 DEF IInv

\* The UNIQUE constraints refuse the user only when another default user is there, or a
\* customer with one of its identifiers.
LEMMA SaveUserPreserves == ASSUME IInv, NEW p \in Process, SaveUser(p) PROVE IInv'
<1> DEFINE refused == \E d \in DefaultIdents[p] : Taken(d)
<1>1. /\ UNCHANGED <<roles, roleSeeder, taken, token, request, entered, altered, ready>>
      /\ userSeeder'[p] = [stage |-> "done", role |-> None]
      /\ \A q \in Process : q # p => userSeeder'[q] = userSeeder[q]
      /\ userSeeder' \in [Process -> [stage: {"new", "roles", "save", "done"},
                                      role: Role \union {None}]]
  BY SeedUserFacts DEF SaveUser
<1>2. users' = IF refused THEN users ELSE Put(users, p, userSeeder[p].role)
  BY DEF SaveUser
<1>3. userSeeder[p].role \in DOMAIN roles /\ p \in User /\ p \notin Customer
  BY DEF SaveUser, IInv, RolesFound, User
<1>4. /\ DOMAIN users' \subseteq DOMAIN users \union {p}
      /\ DOMAIN users \subseteq DOMAIN users'
      /\ \A u \in DOMAIN users : u # p => users'[u] = users[u]
      /\ \A u \in DOMAIN users' : users'[u] \in DOMAIN roles \union {None}
  <2>1. CASE refused
    BY <1>2, <2>1 DEF IInv, TypeOK
  <2>2. CASE ~refused
    <3>1. users' = Put(users, p, userSeeder[p].role)
      BY <1>2, <2>2
    <3>2. /\ DOMAIN users' = DOMAIN users \union {p}
          /\ users'[p] = userSeeder[p].role
          /\ \A u \in DOMAIN users : u # p => users'[u] = users[u]
      BY <3>1 DEF Put
    <3> QED BY <1>3, <3>2 DEF IInv, TypeOK
  <2> QED BY <2>1, <2>2
<1>5. DefaultUsers' # {} \/ (DefaultUsers' = DefaultUsers /\ DefaultIdents[p] \intersect taken # {})
  <2>1. CASE refused
    BY <1>2, <2>1 DEF DefaultUsers, Taken
  <2>2. CASE ~refused
    <3>1. p \in DOMAIN users'
      BY <1>2, <2>2 DEF Put
    <3> QED BY <3>1 DEF DefaultUsers
  <2> QED BY <2>1, <2>2
<1> HIDE DEF refused
<1>6. TypeOK'
  BY <1>1, <1>3, <1>4 DEF IInv, TypeOK
<1>7. RolesFound'
  BY <1>1 DEF IInv, RolesFound
<1>8. AdmittedIsAllowed'
  BY <1>1 DEF IInv, AdmittedIsAllowed, Handling
<1>9. ASSUME ~entered, ~altered PROVE NothingGiven'
  <2>1. \A u \in DOMAIN users' \intersect Customer : users'[u] = None
    BY <1>3, <1>4, <1>9 DEF IInv, NothingGiven
  <2> QED BY <1>1, <1>9, <2>1 DEF IInv, NothingGiven
<1>10. ReadyIsServed'
  <2>1. Managing' = Managing
    BY <1>1 DEF Managing
  <2>2. ASSUME DefaultUsers' = {}, ~altered, NEW q \in ready PROVE Served(q)' /\ Managing # {}
    <3>1. Served(q) /\ Managing # {} /\ q \in Process
      BY <1>5, <2>2 DEF IInv, ReadyIsServed, TypeOK
    <3> QED BY <1>1, <1>5, <2>2, <3>1 DEF Served
  <2> QED BY <1>1, <1>5, <2>1, <2>2 DEF IInv, ReadyIsServed
<1> QED BY <1>1, <1>6, <1>7, <1>8, <1>9, <1>10 DEF IInv

LEMMA UserSeederDiesPreserves == ASSUME IInv, NEW p \in Process, UserSeederDies(p) PROVE IInv'
<1>1. /\ UNCHANGED <<roles, roleSeeder, taken, token, request, entered, altered, users>>
      /\ userSeeder'[p] = [stage |-> "done", role |-> None]
      /\ \A q \in Process : q # p => userSeeder'[q] = userSeeder[q]
      /\ userSeeder' \in [Process -> [stage: {"new", "roles", "save", "done"},
                                      role: Role \union {None}]]
      /\ ready' = ready \ {p}
  BY SeedUserFacts DEF UserSeederDies
<1>2. TypeOK'
  BY <1>1 DEF IInv, TypeOK
<1>3. RolesFound'
  BY <1>1 DEF IInv, RolesFound
<1>4. AdmittedIsAllowed' /\ (~entered /\ ~altered => NothingGiven)'
  BY <1>1 DEF IInv, AdmittedIsAllowed, Handling, NothingGiven
<1>5. ReadyIsServed'
  <2>1. Managing' = Managing /\ DefaultUsers' = DefaultUsers
    BY <1>1 DEF Managing, DefaultUsers
  <2> QED BY <1>1, <2>1 DEF IInv, TypeOK, ReadyIsServed, Served
<1> QED BY <1>2, <1>3, <1>4, <1>5 DEF IInv

-----------------------------------------------------------------------------
\* The requests.

LEMMA ArrivePreserves ==
    ASSUME IInv, NEW c \in Client, NEW controller \in Controller, Arrive(c, controller)
    PROVE  IInv'
<1> DEFINE q == [at |-> "handler", controller |-> controller, user |-> None]
           g(solved) == Guarded(q, token[c], solved)
<1>1. /\ UNCHANGED <<roles, users, roleSeeder, userSeeder, ready, taken, token, entered, altered>>
      /\ \E solved \in Solved : request' = [request EXCEPT ![c] = g(solved)]
  BY DEF Arrive, seeders, tables, history
<1>3. token[c] \in (SUBSET Permission) \union {None}
  BY DEF IInv, TypeOK
<1>4. PICK h : /\ \E solved \in Solved : h = g(solved)
              /\ request' = [request EXCEPT ![c] = h]
  BY <1>1
<1>5. h # None =>
          /\ h \in Request /\ h.at = "handler" /\ h.controller = controller
          /\ h.user \in {None, token[c]}
          /\ controller \notin IgnoreAuthorization =>
                 /\ h.user # None
                 /\ (RequiredPermissions[controller] \union {"*"}) \intersect h.user # {}
  BY <1>3, <1>4, GuardedFacts
<1> HIDE DEF q, g
<1>6. /\ request' \in [Client -> Request \union {None}]
      /\ request'[c] = h
      /\ \A d \in Client : d # c => request'[d] = request[d]
  BY <1>4, <1>5 DEF IInv, TypeOK
<1>7. TypeOK'
  BY <1>1, <1>6 DEF IInv, TypeOK
<1>8. RolesFound' /\ ReadyIsServed'
  BY <1>1 DEF IInv, RolesFound, ReadyIsServed, Served, DefaultUsers, Managing
<1>9. AdmittedIsAllowed'
  BY <1>4, <1>5, <1>6 DEF IInv, AdmittedIsAllowed, Handling
<1>10. ASSUME ~entered, ~altered PROVE NothingGiven'
  <2>1. h # None => h.at = "handler" /\ (h.user # None => h.user = {})
    BY <1>4, <1>5, <1>10 DEF IInv, NothingGiven
  <2> QED BY <1>1, <1>6, <1>10, <2>1 DEF IInv, NothingGiven
<1> QED BY <1>1, <1>7, <1>8, <1>9, <1>10 DEF IInv

\* The request is answered and nothing but the named table changes.
LEMMA AnswerFacts ==
    ASSUME IInv, NEW c \in Client, Answer(c)
    PROVE  /\ request' \in [Client -> Request \union {None}]
           /\ request'[c] = None
           /\ \A d \in Client : d # c => request'[d] = request[d]
           /\ AdmittedIsAllowed'
<1>1. /\ request' \in [Client -> Request \union {None}]
      /\ request'[c] = None
      /\ \A d \in Client : d # c => request'[d] = request[d]
  BY DEF Answer, IInv, TypeOK
<1>2. AdmittedIsAllowed'
  BY <1>1 DEF IInv, AdmittedIsAllowed, Handling
<1> QED BY <1>1, <1>2

\* A handler with required permissions works for somebody who holds one: a default user has
\* signed in, and is there, or a refresh was given other permissions.
LEMMA HandlersAreEntered ==
    ASSUME IInv, NEW c \in Client, NEW controller \in {"roles", "users"}, Handling(c, controller)
    PROVE  altered \/ (entered /\ DefaultUsers # {})
<1> SUFFICES ASSUME ~altered PROVE entered /\ DefaultUsers # {}
  OBVIOUS
<1>1. /\ request[c] # None /\ request[c].at = "handler" /\ request[c].user # None
      /\ (RequiredPermissions[controller] \union {"*"}) \intersect request[c].user # {}
  <2>1. controller \in Controller \ IgnoreAuthorization
    BY DEF Controller, IgnoreAuthorization
  <2> QED BY <2>1 DEF IInv, AdmittedIsAllowed, Handling
<1>2. entered
  <2>1. ASSUME ~entered PROVE FALSE
    <3>1. request[c].user = {}
      BY <1>1, <2>1 DEF IInv, NothingGiven
    <3> QED BY <1>1, <3>1
  <2> QED BY <2>1 DEF IInv, TypeOK
<1> QED BY <1>2 DEF IInv, ReadyIsServed

LEMMA FailPreserves == ASSUME IInv, NEW c \in Client, Fail(c) PROVE IInv'
<1>1. /\ UNCHANGED <<roles, users, roleSeeder, userSeeder, ready, taken, token, entered, altered>>
      /\ request' \in [Client -> Request \union {None}]
      /\ request'[c] = None
      /\ \A d \in Client : d # c => request'[d] = request[d]
      /\ AdmittedIsAllowed'
  BY AnswerFacts DEF Fail, seeders, tables, history
<1>2. TypeOK'
  BY <1>1 DEF IInv, TypeOK
<1>3. RolesFound' /\ ReadyIsServed'
  BY <1>1 DEF IInv, RolesFound, ReadyIsServed, Served, DefaultUsers, Managing
<1>4. (~entered /\ ~altered => NothingGiven)'
  BY <1>1 DEF IInv, NothingGiven
<1> QED BY <1>1, <1>2, <1>3, <1>4 DEF IInv

LEMMA RevokePreserves == ASSUME IInv, NEW c \in Client, Revoke(c) PROVE IInv'
<1>1. /\ UNCHANGED <<roles, users, roleSeeder, userSeeder, ready, taken, request, entered, altered>>
      /\ token' \in [Client -> (SUBSET Permission) \union {None}]
      /\ token'[c] = None
      /\ \A d \in Client : d # c => token'[d] = token[d]
  BY DEF Revoke, seeders, tables, history, IInv, TypeOK
<1>2. TypeOK'
  BY <1>1 DEF IInv, TypeOK
<1>3. RolesFound' /\ ReadyIsServed' /\ AdmittedIsAllowed'
  BY <1>1 DEF IInv, RolesFound, ReadyIsServed, Served, DefaultUsers, Managing,
                AdmittedIsAllowed, Handling
<1>4. (~entered /\ ~altered => NothingGiven)'
  BY <1>1 DEF IInv, NothingGiven
<1> QED BY <1>2, <1>3, <1>4 DEF IInv

LEMMA SignUpPreserves ==
    ASSUME IInv, NEW c \in Client, NEW u \in Customer, NEW d \in Ident, SignUp(c, u, d)
    PROVE  IInv'
<1>1. /\ UNCHANGED <<roles, roleSeeder, userSeeder, ready, token, entered, altered>>
      /\ users' = Put(users, u, None) /\ taken' = taken \union {d}
      /\ request' \in [Client -> Request \union {None}]
      /\ request'[c] = None
      /\ \A x \in Client : x # c => request'[x] = request[x]
      /\ AdmittedIsAllowed'
  BY AnswerFacts DEF SignUp, seeders, history
<1>2. /\ DOMAIN users' = DOMAIN users \union {u} /\ users'[u] = None
      /\ \A v \in DOMAIN users : v # u => users'[v] = users[v]
  BY <1>1 DEF Put
<1>3. u \in User /\ u \notin Process
  BY DEF User
<1>4. TypeOK'
  <2>1. /\ DOMAIN users' \subseteq User
        /\ \A v \in DOMAIN users' : users'[v] \in DOMAIN roles \union {None}
    BY <1>2, <1>3 DEF IInv, TypeOK
  <2> QED BY <1>1, <2>1 DEF IInv, TypeOK
<1>5. RolesFound'
  BY <1>1 DEF IInv, RolesFound
<1>6. ReadyIsServed'
  <2>1. DefaultUsers' = DefaultUsers /\ Managing' = Managing
    BY <1>1, <1>2, <1>3 DEF DefaultUsers, Managing
  <2> QED BY <1>1, <2>1 DEF IInv, ReadyIsServed, Served
<1>7. ASSUME ~entered, ~altered PROVE NothingGiven'
  <2>1. \A v \in DOMAIN users' \intersect Customer : users'[v] = None
    BY <1>2, <1>7 DEF IInv, NothingGiven
  <2> QED BY <1>1, <1>7, <2>1 DEF IInv, NothingGiven
<1> QED BY <1>1, <1>4, <1>5, <1>6, <1>7 DEF IInv

LEMMA ReadUserPreserves ==
    ASSUME IInv, NEW c \in Client, NEW u \in User, ReadUser(c, u)
    PROVE  IInv'
<1> DEFINE h == [at |-> "role", role |-> users[u]]
<1>1. /\ UNCHANGED <<roles, users, roleSeeder, userSeeder, ready, taken, token, altered>>
      /\ request' = [request EXCEPT ![c] = h]
      /\ entered' = (entered \/ u \in Process)
      /\ u \in DOMAIN users
  BY DEF ReadUser, seeders, tables
<1>2. users[u] \in Role \union {None}
  BY <1>1 DEF IInv, TypeOK
<1>3. h \in Request /\ h.at = "role" /\ h.role = users[u] /\ h.at # "handler"
  BY <1>2 DEF Request
<1> HIDE DEF h
<1>4. /\ request' \in [Client -> Request \union {None}]
      /\ request'[c] = h
      /\ \A d \in Client : d # c => request'[d] = request[d]
  BY <1>1, <1>3 DEF IInv, TypeOK
<1>5. TypeOK'
  BY <1>1, <1>4 DEF IInv, TypeOK
<1>6. RolesFound'
  BY <1>1 DEF IInv, RolesFound
<1>7. AdmittedIsAllowed'
  BY <1>3, <1>4 DEF IInv, AdmittedIsAllowed, Handling
<1>8. ReadyIsServed'
  <2>1. DefaultUsers' = DefaultUsers /\ Managing' = Managing
    BY <1>1 DEF DefaultUsers, Managing
  <2>2. u \in Process => DefaultUsers # {}
    BY <1>1 DEF DefaultUsers
  <2> QED BY <1>1, <2>1, <2>2 DEF IInv, ReadyIsServed, Served
<1>9. ASSUME ~entered', ~altered' PROVE NothingGiven'
  <2>1. ~entered /\ ~altered /\ u \in Customer
    BY <1>1, <1>9 DEF User
  <2>2. users[u] = None
    BY <1>1, <2>1 DEF IInv, NothingGiven
  <2> QED BY <1>1, <1>3, <1>4, <2>1, <2>2 DEF IInv, NothingGiven
<1> QED BY <1>5, <1>6, <1>7, <1>8, <1>9 DEF IInv

LEMMA ReadRolePreserves == ASSUME IInv, NEW c \in Client, ReadRole(c) PROVE IInv'
<1>1. PICK P \in {{}} \union {roles[r] : r \in DOMAIN roles \intersect {request[c].role}} :
          token' = [token EXCEPT ![c] = P]
  BY DEF ReadRole
<1>2. /\ UNCHANGED <<roles, users, roleSeeder, userSeeder, ready, taken, entered, altered>>
      /\ request' \in [Client -> Request \union {None}]
      /\ request'[c] = None
      /\ \A d \in Client : d # c => request'[d] = request[d]
      /\ AdmittedIsAllowed'
  BY AnswerFacts DEF ReadRole, seeders, tables, history
<1>3. P \in SUBSET Permission
  BY <1>1 DEF IInv, TypeOK
<1>4. /\ token' \in [Client -> (SUBSET Permission) \union {None}]
      /\ token'[c] = P
      /\ \A d \in Client : d # c => token'[d] = token[d]
  BY <1>1, <1>3 DEF IInv, TypeOK
<1>5. TypeOK'
  BY <1>2, <1>4 DEF IInv, TypeOK
<1>6. RolesFound' /\ ReadyIsServed'
  BY <1>2 DEF IInv, RolesFound, ReadyIsServed, Served, DefaultUsers, Managing
<1>7. ASSUME ~entered, ~altered PROVE NothingGiven'
  <2>1. request[c].role = None
    BY <1>7 DEF ReadRole, IInv, NothingGiven
  <2>2. None \notin DOMAIN roles
    BY DEF IInv, TypeOK
  <2>3. P = {}
    BY <1>1, <2>1, <2>2
  <2> QED BY <1>2, <1>4, <1>7, <2>3 DEF IInv, NothingGiven
<1> QED BY <1>2, <1>5, <1>6, <1>7 DEF IInv

LEMMA RefreshPreserves ==
    ASSUME IInv, NEW c \in Client, NEW P \in SUBSET Permission, Refresh(c, P)
    PROVE  IInv'
<1>1. /\ UNCHANGED <<roles, users, roleSeeder, userSeeder, ready, taken, entered>>
      /\ token' = [token EXCEPT ![c] = P]
      /\ altered' = (altered \/ P # token[c]) /\ token[c] # None
      /\ request' \in [Client -> Request \union {None}]
      /\ request'[c] = None
      /\ \A d \in Client : d # c => request'[d] = request[d]
      /\ AdmittedIsAllowed'
  BY AnswerFacts DEF Refresh, seeders, tables
<1>2. /\ token' \in [Client -> (SUBSET Permission) \union {None}]
      /\ token'[c] = P
      /\ \A d \in Client : d # c => token'[d] = token[d]
  BY <1>1 DEF IInv, TypeOK
<1>3. TypeOK'
  BY <1>1, <1>2 DEF IInv, TypeOK
<1>4. RolesFound' /\ ReadyIsServed'
  BY <1>1 DEF IInv, RolesFound, ReadyIsServed, Served, DefaultUsers, Managing
<1>5. ASSUME ~entered, ~altered' PROVE NothingGiven'
  <2>1. ~altered /\ P = token[c] /\ P = {}
    BY <1>1, <1>5 DEF IInv, NothingGiven
  <2> QED BY <1>1, <1>2, <1>5, <2>1 DEF IInv, NothingGiven
<1> QED BY <1>1, <1>3, <1>4, <1>5 DEF IInv

\* What creating a role and changing its permissions have in common.
LEMMA PutRole ==
    ASSUME IInv, NEW c \in Client, NEW r \in Role, NEW P \in Grants,
           Handling(c, "roles"), roles' = Put(roles, r, P), Answer(c),
           UNCHANGED <<seeders, users, taken, token, history>>
    PROVE  IInv'
<1>1. /\ UNCHANGED <<users, roleSeeder, userSeeder, ready, taken, token, entered, altered>>
      /\ request' \in [Client -> Request \union {None}]
      /\ AdmittedIsAllowed'
  BY AnswerFacts DEF seeders, history
<1>2. altered \/ (entered /\ DefaultUsers # {})
  BY HandlersAreEntered
<1>3. /\ DOMAIN roles' = DOMAIN roles \union {r} /\ roles'[r] = P
      /\ \A s \in DOMAIN roles : s # r => roles'[s] = roles[s]
  BY DEF Put
<1>4. TypeOK'
  <2>1. DOMAIN roles' \subseteq Role /\ \A s \in DOMAIN roles' : roles'[s] \in SUBSET Permission
    BY <1>3 DEF IInv, TypeOK
  <2>2. \A u \in DOMAIN users : users[u] \in DOMAIN roles' \union {None}
    BY <1>3 DEF IInv, TypeOK
  <2> QED BY <1>1, <2>1, <2>2 DEF IInv, TypeOK
<1>5. RolesFound'
  BY <1>1, <1>3 DEF IInv, RolesFound
<1>6. ReadyIsServed'
  <2>1. DefaultUsers' = DefaultUsers
    BY <1>1 DEF DefaultUsers
  <2> QED BY <1>1, <1>2, <2>1 DEF IInv, ReadyIsServed
<1> QED BY <1>1, <1>2, <1>4, <1>5, <1>6 DEF IInv

LEMMA CreateRolePreserves ==
    ASSUME IInv, NEW c \in Client, NEW n \in NewRole, NEW P \in Grants, CreateRole(c, n, P)
    PROVE  IInv'
BY PutRole DEF CreateRole, Role

LEMMA UpdateRolePreserves ==
    ASSUME IInv, NEW c \in Client, NEW r \in Role, NEW P \in Grants, UpdateRole(c, r, P)
    PROVE  IInv'
BY PutRole DEF UpdateRole

LEMMA UpdateUserRolePreserves ==
    ASSUME IInv, NEW c \in Client, NEW u \in User, NEW r \in Role \union {None},
           UpdateUserRole(c, u, r)
    PROVE  IInv'
<1>1. /\ UNCHANGED <<roles, roleSeeder, userSeeder, ready, taken, token, entered, altered>>
      /\ users' = Put(users, u, r) /\ u \in DOMAIN users /\ r \in DOMAIN roles \union {None}
      /\ request' \in [Client -> Request \union {None}]
      /\ AdmittedIsAllowed'
  BY AnswerFacts DEF UpdateUserRole, seeders, history
<1>2. altered \/ (entered /\ DefaultUsers # {})
  BY HandlersAreEntered DEF UpdateUserRole
<1>3. /\ DOMAIN users' = DOMAIN users /\ users'[u] = r
      /\ \A v \in DOMAIN users : v # u => users'[v] = users[v]
  BY <1>1 DEF Put
<1>4. TypeOK'
  <2>1. \A v \in DOMAIN users' : users'[v] \in DOMAIN roles \union {None}
    BY <1>1, <1>3 DEF IInv, TypeOK
  <2> QED BY <1>1, <1>3, <2>1 DEF IInv, TypeOK
<1>5. RolesFound'
  BY <1>1 DEF IInv, RolesFound
<1>6. ReadyIsServed'
  <2>1. DefaultUsers' = DefaultUsers
    BY <1>3 DEF DefaultUsers
  <2> QED BY <1>1, <1>2, <2>1 DEF IInv, ReadyIsServed
<1> QED BY <1>1, <1>2, <1>4, <1>5, <1>6 DEF IInv

-----------------------------------------------------------------------------

LEMMA StutterPreserves == ASSUME IInv, UNCHANGED vars PROVE IInv'
<1>1. /\ UNCHANGED <<roles, users, taken, roleSeeder, userSeeder, ready>>
      /\ UNCHANGED <<token, request, entered, altered>>
  BY DEF vars, seeders, tables, history
<1>2. TypeOK'
  BY <1>1 DEF IInv, TypeOK
<1> QED BY <1>1, <1>2 DEF IInv, RolesFound, AdmittedIsAllowed, Handling, NothingGiven,
                         ReadyIsServed, Served, DefaultUsers, Managing

LEMMA NextPreserves == IInv /\ [Next]_vars => IInv'
<1> SUFFICES ASSUME IInv, [Next]_vars PROVE IInv'
  OBVIOUS
<1>1. ASSUME Seeding PROVE IInv'
  <2>1. PICK p \in Process :
            \/ TestRoles(p) \/ SaveRole(p) \/ RoleSeederDies(p)
            \/ TestUsers(p) \/ FindRoles(p) \/ SaveUser(p) \/ UserSeederDies(p)
    BY <1>1 DEF Seeding
  <2> QED BY <2>1, TestRolesPreserves, SaveRolePreserves, RoleSeederDiesPreserves,
             TestUsersPreserves, FindRolesPreserves, SaveUserPreserves, UserSeederDiesPreserves
<1>2. ASSUME Serving PROVE IInv'
  <2> PICK c \in Client :
            \/ \E controller \in Controller : Arrive(c, controller)
            \/ ReadRole(c) \/ Fail(c) \/ Revoke(c)
            \/ \E P \in SUBSET Permission : Refresh(c, P)
            \/ \E u \in Customer, d \in Ident : SignUp(c, u, d)
            \/ \E u \in User : ReadUser(c, u)
            \/ \E n \in NewRole, P \in Grants : CreateRole(c, n, P)
            \/ \E r \in Role, P \in Grants : UpdateRole(c, r, P)
            \/ \E u \in User, r \in Role \union {None} : UpdateUserRole(c, u, r)
    BY <1>2 DEF Serving
  <2> QED BY ArrivePreserves, ReadRolePreserves, FailPreserves, RevokePreserves, SignUpPreserves,
             RefreshPreserves, ReadUserPreserves, CreateRolePreserves, UpdateRolePreserves,
             UpdateUserRolePreserves
<1> QED BY <1>1, <1>2, StutterPreserves DEF Next

\* The inductive invariant holds in every reachable state of the seeders, guards and handlers.
THEOREM Invariance == Spec => []IInv
BY InitIInv, NextPreserves, PTL DEF Spec

\* Every state that the seeders, the guards and the handlers reach is well typed; no user has
\* a role that is not in the roles table.
THEOREM TypeCorrect == Spec => []TypeOK
<1>1. IInv => TypeOK
  BY DEF IInv
<1> QED BY <1>1, Invariance, PTL

\* A process that starts when a "*" role is there and no user is, ends its user seeder with a
\* default user in the table, however many replicas start with it, unless a customer has
\* signed up with an identifier of its default user (or a refresh was given other permissions
\* than those signed).
THEOREM AdminIsSeeded == Spec => []AdminAfterRestart
<1>1. IInv => AdminAfterRestart
  BY DEF IInv, TypeOK, ReadyIsServed, Served, AdminAfterRestart
<1> QED BY <1>1, Invariance, PTL

\* A handler with required permissions works only for a token that holds one of them, or "*".
THEOREM AdmissionsAreAllowed == Spec => []AdmittedIsAllowed
<1>1. IInv => AdmittedIsAllowed
  BY DEF IInv
<1> QED BY <1>1, Invariance, PTL

\* Before a default user's first sign-in, no customer has a role and no role but the seeded ones
\* is there, for any number of clients, as long as those that refresh a token present the
\* permissions that were signed: refresh() copies them unverified.
THEOREM PermissionsHaveGivers == Spec => []PermissionsAreGiven
<1>1. IInv => PermissionsAreGiven
  BY DEF IInv, NothingGiven, PermissionsAreGiven
<1> QED BY <1>1, Invariance, PTL

=============================================================================
