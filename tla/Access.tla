--------------------------------- MODULE Access ---------------------------------
(***************************************************************************)
(* Who may do what: the default role and the default user that every       *)
(* process seeds when it starts, the roles administrators change, the      *)
(* permissions a sign-in copies into a token and a refresh copies from one *)
(* token into the next, and the guards every request passes on its way to  *)
(* the handler.                                                            *)
(*                                                                         *)
(* A process is a replica, or a replica that was started again: it runs    *)
(* the two seeders once, side by side.  The store of the tokens is the     *)
(* module JwtTokens; here a client has a token that passes verify(), or    *)
(* none.  A request that the throttler refuses changes nothing here.       *)
(***************************************************************************)
CONSTANTS
    Process,
    Ident,          \* emails and mobiles
    DefaultIdents,  \* DefaultIdents[p]: of the user that p seeds, configured or random
    Customer,       \* users that sign up
    NewRole,        \* roles that administrators create
    Grants,         \* the permission lists that administrators send
    Client,
    None

Permission == {"*", "write:roles", "write:users"}
Role == Process \union NewRole    \* the role p seeds is p
User == Process \union Customer   \* the user p seeds is p

ASSUME GrantsAssumption == Grants \subseteq SUBSET Permission
ASSUME IdentsAssumption == DefaultIdents \in [Process -> SUBSET Ident]
ASSUME NamesAssumption ==
    /\ Process \intersect (NewRole \union Customer) = {}
    /\ None \notin Role \union User

VARIABLES
    roles,       \* the roles table: role -> its permissions
    users,       \* the users table: user -> its role, or None
    taken,       \* the identifiers of the customers in it
    roleSeeder,  \* roleSeeder[p]: the next statement of p's DefaultRolesSeeder
    userSeeder,  \* userSeeder[p]: the next statement of p's DefaultUserSeeder
    token,       \* token[c]: the permissions claim of the client's access token, or None
    request,     \* request[c]: the client's request, or None
    ready,       \* history: the p's that found no user when a "*" role was there, and live
    entered,     \* history: whether a default user has begun to sign in
    altered      \* history: whether a refresh was given other permissions than those signed

seeders == <<roleSeeder, userSeeder, ready>>
tables == <<roles, users, taken>>
history == <<entered, altered>>
vars == <<seeders, tables, token, request, history>>

-----------------------------------------------------------------------------

\* The controllers and their decorators: authentication has the sign-ups and the sign-ins,
\* refresh is its one route that does without a captcha.
Controller == {"authentication", "refresh", "roles", "users"}
IgnoreAuthorization == {"authentication", "refresh"}
RequiredPermissions == [authentication |-> {}, refresh |-> {},
                        roles |-> {"write:roles"}, users |-> {"write:users"}]

\* A request is admitted to its handler with the user the authorization guard put into it, of
\* whom only the permissions matter here.  A sign-in has read its user's row, and next its role.
Admitted == [at: {"handler"}, controller: Controller, user: (SUBSET Permission) \union {None}]
Request == Admitted \union [at: {"role"}, role: Role \union {None}]

Put(f, x, v) == [y \in DOMAIN f \union {x} |-> IF y = x THEN v ELSE f[y]]

\* permissions @> ARRAY['*']
Managing == {r \in DOMAIN roles : "*" \in roles[r]}
DefaultUsers == DOMAIN users \intersect Process

Init ==
    /\ roles = <<>> /\ users = <<>> /\ taken = {}
    /\ roleSeeder = [p \in Process |-> "new"]
    /\ userSeeder = [p \in Process |-> [stage |-> "new", role |-> None]]
    /\ token = [c \in Client |-> None] /\ request = [c \in Client |-> None]
    /\ ready = {} /\ entered = FALSE /\ altered = FALSE

-----------------------------------------------------------------------------
\* The seeders.

TestRoles(p) ==
    /\ roleSeeder[p] = "new"
    /\ roleSeeder' = [roleSeeder EXCEPT ![p] = IF roles = <<>> THEN "save" ELSE "done"]
    /\ UNCHANGED <<userSeeder, ready, tables, token, request, history>>

SaveRole(p) ==
    /\ roleSeeder[p] = "save"
    /\ roles' = Put(roles, p, {"*"})
    /\ roleSeeder' = [roleSeeder EXCEPT ![p] = "done"]
    /\ UNCHANGED <<users, taken, userSeeder, ready, token, request, history>>

SeedUser(p, stage, role) ==
    /\ userSeeder' = [userSeeder EXCEPT ![p] = [stage |-> stage, role |-> role]]
    /\ UNCHANGED <<roleSeeder, roles, taken, token, request, history>>

TestUsers(p) ==
    /\ userSeeder[p].stage = "new"
    /\ SeedUser(p, IF users = <<>> THEN "roles" ELSE "done", None)
    /\ ready' = IF users = <<>> /\ Managing # {} THEN ready \union {p} ELSE ready
    /\ UNCHANGED users

\* Mutant of FindRoles: the role is looked for by the id that this process gave to its own.
FindOwnRole(p) ==
    /\ userSeeder[p].stage = "roles"
    /\ \/ p \notin Managing /\ SeedUser(p, "done", None)
       \/ p \in Managing /\ SeedUser(p, "save", p)
    /\ UNCHANGED <<ready, users>>

\* roles[0] of a query without an order is any of them.  Without one, run() ends.
FindRoles(p) ==
    /\ userSeeder[p].stage = "roles"
    /\ \/ Managing = {} /\ SeedUser(p, "done", None)
       \/ \E r \in Managing : SeedUser(p, "save", r)
    /\ UNCHANGED <<ready, users>>

\* Another user has the identifier d.
Taken(d) == d \in taken \/ \E q \in DefaultUsers : d \in DefaultIdents[q]

\* Mutant of SaveUser: the user is given the role of this process, saved or not.
SaveUserWithOwnRole(p) ==
    /\ userSeeder[p].stage = "save"
    /\ users' = IF \E d \in DefaultIdents[p] : Taken(d) THEN users ELSE Put(users, p, p)
    /\ SeedUser(p, "done", None)
    /\ UNCHANGED ready

\* The UNIQUE constraints on email and mobile refuse the user when another process has saved
\* its own or a customer signed up with the identifier.
SaveUser(p) ==
    /\ userSeeder[p].stage = "save"
    /\ users' = IF \E d \in DefaultIdents[p] : Taken(d) THEN users
                ELSE Put(users, p, userSeeder[p].role)
    /\ SeedUser(p, "done", None)
    /\ UNCHANGED ready

\* A statement of the seeder fails, which onApplicationBootstrap() logs, or the process dies.
RoleSeederDies(p) ==
    /\ roleSeeder[p] \in {"new", "save"}
    /\ roleSeeder' = [roleSeeder EXCEPT ![p] = "done"]
    /\ UNCHANGED <<userSeeder, ready, tables, token, request, history>>

UserSeederDies(p) ==
    /\ userSeeder[p].stage \in {"new", "roles", "save"}
    /\ SeedUser(p, "done", None)
    /\ ready' = ready \ {p}
    /\ UNCHANGED users

-----------------------------------------------------------------------------
\* The guards, in the order of configureSecurity().  Each returns the request for the next
\* one, or None when it refuses.

AuthorizationGuard(q, claim) ==
    IF q.controller \in IgnoreAuthorization THEN q
    ELSE IF claim = None THEN None ELSE [q EXCEPT !.user = claim]

\* What the captcha provider finds, when it is asked and when it is enabled.
Solved == BOOLEAN

\* All sign-ups and sign-ins need a captcha.
CaptchaGuard(q, solved) == IF q.controller = "authentication" /\ ~solved THEN None ELSE q

\* It lets a request without a user pass: the authorization guard has refused it.
CheckPermissionGuard(q) ==
    LET required == RequiredPermissions[q.controller]
    IN  IF q.user = None \/ "*" \in q.user \/ required = {} \/ required \intersect q.user # {}
        THEN q ELSE None

\* Mutant of Guarded: the permission guard is used before the authorization guard.
GuardedBackwards(q, claim, solved) ==
    IF CheckPermissionGuard(q) = None THEN None
    ELSE LET authorized == AuthorizationGuard(q, claim)
         IN  IF authorized = None THEN None ELSE CaptchaGuard(authorized, solved)

Guarded(q, claim, solved) ==
    LET authorized == AuthorizationGuard(q, claim)
        human == CaptchaGuard(authorized, solved)
    IN  IF authorized = None \/ human = None THEN None ELSE CheckPermissionGuard(human)

\* The guards read nothing that is shared but the token.
Arrive(c, controller) ==
    /\ request[c] = None
    /\ LET q == [at |-> "handler", controller |-> controller, user |-> None]
       IN  \E solved \in Solved : request' = [request EXCEPT ![c] = Guarded(q, token[c], solved)]
    /\ UNCHANGED <<seeders, tables, token, history>>

-----------------------------------------------------------------------------
\* The handlers.

Handling(c, controller) ==
    request[c] # None /\ request[c].at = "handler" /\ request[c].controller = controller
Answer(c) == request' = [request EXCEPT ![c] = None]

\* Mutant of SignUp: a new user is given a role.
SignUpWithRole(c, u, d) ==
    /\ Handling(c, "authentication") /\ u \notin DOMAIN users /\ ~Taken(d)
    /\ \E r \in DOMAIN roles : users' = Put(users, u, r)
    /\ taken' = taken \union {d}
    /\ Answer(c)
    /\ UNCHANGED <<seeders, roles, token, history>>

SignUp(c, u, d) ==
    /\ Handling(c, "authentication") /\ u \notin DOMAIN users /\ ~Taken(d)
    /\ users' = Put(users, u, None)
    /\ taken' = taken \union {d}
    /\ Answer(c)
    /\ UNCHANGED <<seeders, roles, token, history>>

\* A sign-in with the right credentials reads its user's row ...
ReadUser(c, u) ==
    /\ Handling(c, "authentication") /\ u \in DOMAIN users
    /\ request' = [request EXCEPT ![c] = [at |-> "role", role |-> users[u]]]
    /\ entered' = (entered \/ u \in Process)
    /\ UNCHANGED <<seeders, tables, token, altered>>

\* ... and then its role's: findUserPermissions() answers none when it cannot.
ReadRole(c) ==
    /\ request[c] # None /\ request[c].at = "role"
    /\ \E P \in {{}} \union {roles[r] : r \in DOMAIN roles \intersect {request[c].role}} :
           token' = [token EXCEPT ![c] = P]
    /\ Answer(c)
    /\ UNCHANGED <<seeders, tables, history>>

\* refresh() decodes the presented token and signs the claims it finds: the Redis key proves
\* the user and the jti (JwtTokens), and nothing the permissions P.
Refresh(c, P) ==
    /\ Handling(c, "refresh") /\ token[c] # None
    /\ token' = [token EXCEPT ![c] = P]
    /\ altered' = (altered \/ P # token[c])
    /\ Answer(c)
    /\ UNCHANGED <<seeders, tables, entered>>

CreateRole(c, n, P) ==
    /\ Handling(c, "roles") /\ n \notin DOMAIN roles
    /\ roles' = Put(roles, n, P)
    /\ Answer(c)
    /\ UNCHANGED <<seeders, users, taken, token, history>>

UpdateRole(c, r, P) ==
    /\ Handling(c, "roles") /\ r \in DOMAIN roles
    /\ roles' = Put(roles, r, P)
    /\ Answer(c)
    /\ UNCHANGED <<seeders, users, taken, token, history>>

\* PATCH users/:id/role.  None is an id that no role has: no foreign key refuses it.
UpdateUserRole(c, u, r) ==
    /\ Handling(c, "users") /\ u \in DOMAIN users /\ r \in DOMAIN roles \union {None}
    /\ users' = Put(users, u, r)
    /\ Answer(c)
    /\ UNCHANGED <<seeders, roles, taken, token, history>>

\* The credentials are wrong, the arguments are refused, or a statement fails.
Fail(c) ==
    /\ request[c] # None
    /\ Answer(c)
    /\ UNCHANGED <<seeders, tables, token, history>>

\* The pair of the token is gone from Redis.  (An access token that expired and is refreshed
\* later is one that lasts until then, and the client does not use meanwhile.)
Revoke(c) ==
    /\ token[c] # None
    /\ token' = [token EXCEPT ![c] = None]
    /\ UNCHANGED <<seeders, tables, request, history>>

-----------------------------------------------------------------------------

Seeding ==
    \E p \in Process :
        \/ TestRoles(p) \/ SaveRole(p) \/ RoleSeederDies(p)
        \/ TestUsers(p) \/ FindRoles(p) \/ SaveUser(p) \/ UserSeederDies(p)

Serving ==
    \E c \in Client :
        \/ \E controller \in Controller : Arrive(c, controller)
        \/ ReadRole(c) \/ Fail(c) \/ Revoke(c)
        \/ \E P \in SUBSET Permission : Refresh(c, P)
        \/ \E u \in Customer, d \in Ident : SignUp(c, u, d)
        \/ \E u \in User : ReadUser(c, u)
        \/ \E n \in NewRole, P \in Grants : CreateRole(c, n, P)
        \/ \E r \in Role, P \in Grants : UpdateRole(c, r, P)
        \/ \E u \in User, r \in Role \union {None} : UpdateUserRole(c, u, r)

Next == Seeding \/ Serving

Spec == Init /\ [][Next]_vars

-----------------------------------------------------------------------------

TypeOK ==
    /\ DOMAIN roles \subseteq Role /\ \A r \in DOMAIN roles : roles[r] \in SUBSET Permission
    /\ DOMAIN users \subseteq User
    /\ \A u \in DOMAIN users : users[u] \in DOMAIN roles \union {None}
    /\ roleSeeder \in [Process -> {"new", "save", "done"}]
    /\ userSeeder \in [Process -> [stage: {"new", "roles", "save", "done"},
                                   role: Role \union {None}]]
    /\ taken \subseteq Ident
    /\ token \in [Client -> (SUBSET Permission) \union {None}]
    /\ request \in [Client -> Request \union {None}]
    /\ ready \subseteq Process /\ entered \in BOOLEAN /\ altered \in BOOLEAN

\* A process that starts when a "*" role is there and no user is, as after a first start whose
\* user seeder came too early, does not end its seeder without a default user, however the
\* other processes interleave, unless a customer has signed up meanwhile with an identifier
\* configured for it.  (A client whose refresh was given other permissions than those signed
\* can change the roles under the seeder.)
AdminAfterRestart ==
    \A p \in ready : userSeeder[p].stage = "done" =>
        DefaultUsers # {} \/ DefaultIdents[p] \intersect taken # {} \/ altered

\* A request that a handler works on, of a controller with required permissions, belongs to a
\* user whose token holds one of them or "*": the permission guard, which lets requests
\* without a user pass, has seen the user that the authorization guard found.
AdmittedIsAllowed ==
    \A c \in Client : \A controller \in Controller \ IgnoreAuthorization :
        Handling(c, controller) =>
            /\ request[c].user # None
            /\ (RequiredPermissions[controller] \union {"*"}) \intersect request[c].user # {}

\* As long as no default user has signed in, the default users only have a role, and there
\* are the seeded roles only: permissions come from somebody who was given them.  It is said
\* for clients that present the claims they were answered: refresh() does not look.
PermissionsAreGiven ==
    ~entered /\ ~altered => /\ \A u \in DOMAIN users \intersect Customer : users[u] = None
                            /\ \A r \in DOMAIN roles : r \in Process /\ roles[r] = {"*"}

=============================================================================
