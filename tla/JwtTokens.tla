------------------------------ MODULE JwtTokens ------------------------------
(***************************************************************************)
(* The token pairs of JwtTokenService (jwt-token.service.ts): every pair   *)
(* has an id (the JWT's jti) and two Redis keys,                           *)
(*     jwt:{user}:refresh:{id}  and  jwt:{user}:access:{id}.               *)
(* The service holds no lock and uses no MULTI: a request is a sequence of *)
(* awaited Redis commands, and requests of any number of gateway instances *)
(* interleave between them.  Each action below is one Redis command with   *)
(* the synchronous code that follows it.                                   *)
(*                                                                         *)
(* A token is its id: the JWT decodes to its id and its user, and the 200  *)
(* random characters of a refresh token are those stored under one id,     *)
(* known to whom they were answered.  verify() checks the signature of a   *)
(* JWT, refresh() only decodes it: the user and the id in its payload are  *)
(* whatever the client says, until the Redis key they spell is found.  The *)
(* other claims, which nothing checks, are in Accounts and Access.         *)
(***************************************************************************)
CONSTANTS
    User,       \* the users
    TokenId,    \* randomUUID() values; finite, so it bounds the pairs generated
    Proc,       \* requests that can be in flight at once
    NoUser,
    NoId

ASSUME NoUserAssumption == NoUser \notin User
ASSUME NoIdAssumption == NoId \notin TokenId

VARIABLES
    refresh,      \* ids whose refresh key is in Redis
    access,       \* ids whose access key is in Redis
    subject,      \* subject[i]: the userId in the payload of JWT i, NoUser until signed
    returned,     \* ids of the pairs some client received
    req,          \* req[p]: the request p is serving
    \* History, read by the properties only:
    issued,       \* ids whose two keys were both written
    parent,       \* parent[n]: the pair that n replaced, NoId for a sign-in
    deadRefresh,  \* refresh keys that finished revocations were due to delete
    deadAccess    \* access keys that finished revocations were due to delete

keys == <<refresh, access>>
history == <<parent, deadRefresh, deadAccess>>
vars == <<refresh, access, subject, returned, req, issued, history>>

-----------------------------------------------------------------------------

RevokeType == {"access_token", "refresh_token", "both"}

Stage == {"idle", "setRefresh", "setAccess", "delRefresh", "delAccess", "reply",
          "delScannedAccess", "scanRefresh", "delScannedRefresh"}

\* A request: the user it acts for, the pair it exchanges (old) and the pair it
\* generates (new), and for a revocation its type, the ids SCAN found and the
\* ids it is due to delete.
Request == [pc: Stage, user: User \union {NoUser}, old: TokenId \union {NoId},
            new: TokenId \union {NoId}, kind: RevokeType \union {"none"},
            found: SUBSET TokenId, due: SUBSET TokenId]

Idle == [pc |-> "idle", user |-> NoUser, old |-> NoId, new |-> NoId,
         kind |-> "none", found |-> {}, due |-> {}]

\* generate() called for u with the fresh id n, to replace pair o (NoId: sign-in).
Generating(u, o, n) == [pc |-> "setRefresh", user |-> u, old |-> o, new |-> n,
                        kind |-> "none", found |-> {}, due |-> {}]

\* A revocation of the given type about to delete what a first SCAN found.
Revoking(u, k, ids) ==
    [pc |-> IF k = "refresh_token" THEN "delScannedRefresh" ELSE "delScannedAccess",
     user |-> u, old |-> NoId, new |-> NoId, kind |-> k, found |-> ids,
     due |-> {i \in returned : subject[i] = u}]

\* randomUUID(): an id no JWT carries yet.
UnusedIds == {i \in TokenId : subject[i] = NoUser}

\* Mutants of AccessKeysOf: a pattern that leaves out the user, and one that
\* scans the refresh family.
AccessKeysOfAnyone(u) == access
AccessKeysOfTheOtherFamily(u) == {i \in refresh : subject[i] = u}

\* The keys that match jwt:{u}:access:* and jwt:{u}:refresh:*.
AccessKeysOf(u) == {i \in access : subject[i] = u}
RefreshKeysOf(u) == {i \in refresh : subject[i] = u}

\* Request p goes on to its next command, or ends.
Advance(p, stage) == req' = [req EXCEPT ![p].pc = stage]
End(p) == req' = [req EXCEPT ![p] = Idle]

Init ==
    /\ refresh = {} /\ access = {}
    /\ subject = [i \in TokenId |-> NoUser]
    /\ returned = {} /\ issued = {}
    /\ req = [p \in Proc |-> Idle]
    /\ parent = [i \in TokenId |-> NoId]
    /\ deadRefresh = {} /\ deadAccess = {}

-----------------------------------------------------------------------------
\* generate(): a sign-in signs the JWT, writes the refresh key, then the access
\* key, and answers with the pair.

\* A sign-in use case authenticated u and calls generate(): the uuid and the
\* JWT are made before the first await.
SignIn(p, u) ==
    /\ req[p].pc = "idle"
    /\ \E n \in UnusedIds :
        /\ subject' = [subject EXCEPT ![n] = u]
        /\ req' = [req EXCEPT ![p] = Generating(u, NoId, n)]
    /\ UNCHANGED <<keys, returned, issued, history>>

SetRefreshKey(p) ==
    /\ req[p].pc = "setRefresh"
    /\ refresh' = refresh \union {req[p].new}
    /\ Advance(p, "setAccess")
    /\ UNCHANGED <<access, subject, returned, issued, history>>

\* The continuation of generate() is the caller's: a refresh still has to
\* delete the old pair, a sign-in answers.
SetAccessKey(p) ==
    /\ req[p].pc = "setAccess"
    /\ access' = access \union {req[p].new}
    /\ issued' = issued \union {req[p].new}
    /\ Advance(p, IF req[p].old = NoId THEN "reply" ELSE "delRefresh")
    /\ UNCHANGED <<refresh, subject, returned, history>>

\* The answer reaches the client.
Reply(p) ==
    /\ req[p].pc = "reply"
    /\ returned' = returned \union {req[p].new}
    /\ End(p)
    /\ UNCHANGED <<keys, subject, issued, history>>

-----------------------------------------------------------------------------
\* refresh(): check the refresh key, generate a new pair, delete the old one.

\* A client presents a JWT that says it is pair a of user u, and the refresh token of
\* pair r, one it was answered.  The JWT is decoded, without its signature or its expiry
\* being looked at; the key read is jwt:{u}:refresh:{a}, and r must be its value.
RefreshAccepted(u, a, r) == a \in refresh /\ subject[a] = u /\ r = a

\* Mutants of Refresh: the claims are built from the jti in place of the userId, the
\* refresh key is consumed by the lookup (GETDEL) in place of the last step, and the
\* new pair keeps the jti of the old one.
RefreshFromJti(p, u, a, r) ==
    /\ req[p].pc = "idle"
    /\ RefreshAccepted(u, a, r)
    /\ \E n \in UnusedIds :
        /\ subject' = [subject EXCEPT ![n] = a]
        /\ parent' = [parent EXCEPT ![n] = a]
        /\ req' = [req EXCEPT ![p] = Generating(a, a, n)]
    /\ UNCHANGED <<keys, returned, issued, deadRefresh, deadAccess>>

RefreshByGetDel(p, u, a, r) ==
    /\ req[p].pc = "idle"
    /\ RefreshAccepted(u, a, r)
    /\ refresh' = refresh \ {a}
    /\ \E n \in UnusedIds :
        /\ subject' = [subject EXCEPT ![n] = u]
        /\ parent' = [parent EXCEPT ![n] = a]
        /\ req' = [req EXCEPT ![p] = Generating(u, a, n)]
    /\ UNCHANGED <<access, returned, issued, deadRefresh, deadAccess>>

RefreshKeepsJti(p, u, a, r) ==
    /\ req[p].pc = "idle"
    /\ RefreshAccepted(u, a, r)
    /\ req' = [req EXCEPT ![p] = Generating(u, a, a)]
    /\ UNCHANGED <<keys, subject, returned, issued, history>>

\* The GET answers; the new JWT carries the claims decoded from the presented one.
\* A request that is not accepted throws InvalidTokenException and changes nothing.
Refresh(p, u, a, r) ==
    /\ req[p].pc = "idle"
    /\ RefreshAccepted(u, a, r)
    /\ \E n \in UnusedIds :
        /\ subject' = [subject EXCEPT ![n] = u]
        /\ parent' = [parent EXCEPT ![n] = a]
        /\ req' = [req EXCEPT ![p] = Generating(u, a, n)]
    /\ UNCHANGED <<keys, returned, issued, deadRefresh, deadAccess>>

\* Mutant of DelRefreshKey: the DEL names a key that does not exist.
DelNoRefreshKey(p) ==
    /\ req[p].pc = "delRefresh"
    /\ Advance(p, "delAccess")
    /\ UNCHANGED <<keys, subject, returned, issued, history>>

DelRefreshKey(p) ==
    /\ req[p].pc = "delRefresh"
    /\ refresh' = refresh \ {req[p].old}
    /\ Advance(p, "delAccess")
    /\ UNCHANGED <<access, subject, returned, issued, history>>

DelAccessKey(p) ==
    /\ req[p].pc = "delAccess"
    /\ access' = access \ {req[p].old}
    /\ Advance(p, "reply")
    /\ UNCHANGED <<refresh, subject, returned, issued, history>>

-----------------------------------------------------------------------------
\* revokeToken(): for each key family, SCAN then DEL; "both" takes the access
\* family first.  A SCAN returns every key that is there from its first call to
\* its last: the keys found.  The ids due are those of the pairs u's clients hold
\* when the call is made.

RevokeToken(p, u, kind) ==
    /\ req[p].pc = "idle"
    /\ req' = [req EXCEPT ![p] = Revoking(u, kind, IF kind = "refresh_token"
                                                    THEN RefreshKeysOf(u)
                                                    ELSE AccessKeysOf(u))]
    /\ UNCHANGED <<keys, subject, returned, issued, history>>

\* It may also have returned keys written meanwhile (more).  DEL of a key that
\* is gone is a no-op, as is the early return when nothing was found.
DelScannedAccess(p) ==
    /\ req[p].pc = "delScannedAccess"
    /\ \E more \in SUBSET AccessKeysOf(req[p].user) :
        access' = access \ (req[p].found \union more)
    /\ deadAccess' = deadAccess \union req[p].due
    /\ IF req[p].kind = "both" THEN Advance(p, "scanRefresh") ELSE End(p)
    /\ UNCHANGED <<refresh, subject, returned, issued, parent, deadRefresh>>

ScanRefresh(p) ==
    /\ req[p].pc = "scanRefresh"
    /\ req' = [req EXCEPT ![p] = [@ EXCEPT !.pc = "delScannedRefresh",
                                           !.found = RefreshKeysOf(req[p].user)]]
    /\ UNCHANGED <<keys, subject, returned, issued, history>>

DelScannedRefresh(p) ==
    /\ req[p].pc = "delScannedRefresh"
    /\ \E more \in SUBSET RefreshKeysOf(req[p].user) :
        refresh' = refresh \ (req[p].found \union more)
    /\ deadRefresh' = deadRefresh \union req[p].due
    /\ End(p)
    /\ UNCHANGED <<access, subject, returned, issued, parent, deadAccess>>

-----------------------------------------------------------------------------

\* The request ends without an answer the client can use, at any await: Redis
\* failed the next command (every catch block throws and undoes nothing), the
\* answer was lost, or the process died.  A command that was applied although
\* its reply failed is the command's action followed by this one.
Fail(p) ==
    /\ req[p].pc # "idle"
    /\ End(p)
    /\ UNCHANGED <<keys, subject, returned, issued, history>>

\* The TTL of SETEX.  The JWT is signed before its access key is written, with
\* the same TTL, so its exp passes no later than the key's: from then on
\* verify() refuses it, which the removal of the key stands for.
ExpireAccess(i) ==
    /\ i \in access
    /\ access' = access \ {i}
    /\ UNCHANGED <<refresh, subject, returned, req, issued, history>>

ExpireRefresh(i) ==
    /\ i \in refresh
    /\ refresh' = refresh \ {i}
    /\ UNCHANGED <<access, subject, returned, req, issued, history>>

Step(p) ==
    \/ SetRefreshKey(p) \/ SetAccessKey(p) \/ Reply(p)
    \/ DelRefreshKey(p) \/ DelAccessKey(p)
    \/ DelScannedAccess(p) \/ ScanRefresh(p) \/ DelScannedRefresh(p)
    \/ Fail(p)

Next ==
    \/ \E p \in Proc, u \in User : SignIn(p, u)
    \/ \E p \in Proc, u \in User, a \in TokenId, r \in returned : Refresh(p, u, a, r)
    \/ \E p \in Proc, u \in User, kind \in RevokeType : RevokeToken(p, u, kind)
    \/ \E p \in Proc : Step(p)
    \/ \E i \in TokenId : ExpireAccess(i) \/ ExpireRefresh(i)

Spec == Init /\ [][Next]_vars

-----------------------------------------------------------------------------

TypeOK ==
    /\ refresh \subseteq TokenId /\ access \subseteq TokenId
    /\ subject \in [TokenId -> User \union {NoUser}]
    /\ returned \subseteq TokenId /\ issued \subseteq TokenId
    /\ req \in [Proc -> Request]
    /\ parent \in [TokenId -> TokenId \union {NoId}]
    /\ deadRefresh \subseteq TokenId /\ deadAccess \subseteq TokenId

\* verify(): the JWT is accepted while its access key is in Redis.
Verifies(i) == i \in access

\* A refresh token is exchanged once: from the moment a client receives the
\* successor of a pair, neither token of that pair is accepted again.  Refreshes
\* of one pair all succeed if every GET comes before the first DEL; this says
\* they cannot follow one another, however the requests interleave or fail.
ExchangedOnce ==
    \A n \in returned : parent[n] # NoId =>
        /\ ~RefreshAccepted(subject[parent[n]], parent[n], parent[n])
        /\ ~Verifies(parent[n])

\* What revokeToken promises when it returns: no token of the given type that a
\* client of the user held when it was called is ever accepted again, although
\* SCAN and DEL are separate commands that sign-ins and refreshes run between.
\* (Pairs in the course of being generated may survive it.)
RevokedStayGone ==
    /\ deadRefresh \intersect refresh = {}
    /\ \A i \in deadAccess : ~Verifies(i)

\* Whatever fails in between, a rotation never leaves a client with nothing in
\* the store: the refresh key of a pair whose two keys were written stays until
\* its TTL, until a revocation deletes it, or until a successor of the pair is
\* completely written.
KeepsUntilReplaced ==
    \A i \in issued \intersect (refresh \ refresh') :
        \/ ExpireRefresh(i)
        \/ \E p \in Proc : DelScannedRefresh(p)
        \/ \E n \in issued : parent[n] = i

NoStranding == [][KeepsUntilReplaced]_vars

\* A request removes keys of its own user only, although revokeToken deletes
\* whatever its pattern matched and refresh() takes the user from a payload it only decodes.
RemovesOwnKeys ==
    \A p \in Proc : req'[p] # req[p] =>
        \A i \in (refresh \ refresh') \union (access \ access') : subject[i] = req[p].user

OwnKeysOnly == [][RemovesOwnKeys]_vars

\* The key families whose keys the revocation of request q still has to delete.
FamiliesLeft(q) ==
    CASE q.pc = "delScannedAccess" /\ q.kind = "both" -> {"access", "refresh"}
      [] q.pc = "delScannedAccess" /\ q.kind # "both" -> {"access"}
      [] q.pc \in {"scanRefresh", "delScannedRefresh"} -> {"refresh"}
      [] OTHER -> {}

\* The promise to the clients, who see only the pairs they received.
Client == INSTANCE Sessions WITH
    held <- {[id |-> i, user |-> subject[i], parent |-> parent[i]] : i \in returned},
    open <- {"access"} \X (access \intersect returned)
              \union {"refresh"} \X (refresh \intersect returned),
    due  <- [p \in Proc |-> FamiliesLeft(req[p]) \X req[p].due]

\* The service implements it with two keys per pair and commands that interleave:
\* a refused token is refused for ever, a successor is delivered when its pair is
\* refused, a finished revocation leaves nothing of what it was due to close.
ImplementsSessions == Client!Spec

=============================================================================
