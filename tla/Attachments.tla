------------------------------ MODULE Attachments ------------------------------
(***************************************************************************)
(* Attachments: files in a store, their rows in the attachments table, and *)
(* who may read them: the uploader, the users in attachment_users, and     *)
(* whoever has the share token.                                            *)
(*                                                                         *)
(* One action is one SQL statement or one call of the store, with the code *)
(* that follows it.  The store is minio's; the local one refuses every     *)
(* upload, because it makes a directory of the path it then writes to.     *)
(* save() of the repository is two statements: a SELECT of the row, and an *)
(* UPDATE of the columns in which the entity differs from it.  So the      *)
(* share flag and the token may be written apart.  A name is made up for   *)
(* every file, so a file is its attachment.                                *)
(***************************************************************************)
EXTENDS Integers, FiniteSets, Functions

CONSTANTS
    Attachment,   \* the ids uploads will get ...
    uploader,     \* ... who makes them
    Private,      \* ... which of them are private
    Draft,        \* ... and which are drafts
    User,
    Lists,        \* the attachments a request may name together ...
    Audiences,    \* ... and the users
    Proc,         \* requests in flight at once
    MaxTokens     \* bounds the share tokens

ASSUME UploaderAssumption == uploader \in [Attachment -> User]
ASSUME SubsetsAssumption == Private \subseteq Attachment /\ Draft \subseteq Attachment
ASSUME ListsAssumption == Lists \subseteq SUBSET Attachment
ASSUME AudiencesAssumption == Audiences \subseteq SUBSET User
ASSUME MaxTokensAssumption == MaxTokens \in Nat

VARIABLES
    files,     \* the attachments whose file is in the store
    rows,      \* the attachments table
    grants,    \* the attachment_users table
    issued,    \* tokens made so far: 1..issued
    deleted,   \* history: attachments whose file a delete removed
    req        \* req[p]: a request between two of its awaits

vars == <<files, rows, grants, issued, deleted, req>>

-----------------------------------------------------------------------------

NoToken == 0

Column == {"draft", "shared", "token"}
Row == [draft: BOOLEAN, shared: BOOLEAN, token: Nat]
NewRow(a) == [draft |-> a \in Draft, shared |-> FALSE, token |-> NoToken]
Saved == DOMAIN rows

Idle == [kind |-> "none"]

UploadRequest == [kind: {"upload"}, id: Attachment]
DeleteRequest == [kind: {"delete"}, id: Attachment]
\* The entities it has read and not saved yet, by their draft flags: it gives them the
\* other columns itself.
Entities == UNION {[S -> BOOLEAN] : S \in SUBSET Attachment}
ShareRequest == [kind: {"share"}, read: Entities, shared: BOOLEAN]
\* ... and in save(): the entity of id differs from its row in these columns.
SaveRequest == [kind: {"save"}, read: Entities, shared: BOOLEAN, id: Attachment,
                columns: SUBSET Column]
GrantRequest == [kind: {"grant"}, ids: SUBSET Attachment, users: SUBSET User,
                 todo: SUBSET (Attachment \X User)]
RevokeRequest == [kind: {"revoke"}, id: Attachment, users: SUBSET User]
\* The holder of a share link is nobody the code knows.
Anyone == "anyone"
\* allowed: history, the user could read the attachment, or the link opened it, at some
\* moment since it was found.
DownloadRequest == [kind: {"download"}, stage: {"check", "fetch"}, id: Attachment,
                    user: User \union {Anyone}, allowed: BOOLEAN]

Request == UploadRequest \union DeleteRequest \union ShareRequest \union SaveRequest
             \union GrantRequest \union RevokeRequest \union DownloadRequest \union {Idle}

Init ==
    /\ files = {} /\ rows = <<>> /\ grants = {}
    /\ issued = 0 /\ deleted = {}
    /\ req = [p \in Proc |-> Idle]

Begin(p, r) == req[p] = Idle /\ req' = [req EXCEPT ![p] = r]
Continue(p, r) == req' = [req EXCEPT ![p] = r]
Finish(p) == req' = [req EXCEPT ![p] = Idle]

-----------------------------------------------------------------------------
\* Files and their rows.

\* Mutant of UploadFile: the row is saved before the file is stored.
UploadRow(p, a) ==
    /\ a \notin Saved /\ \A q \in Proc : ~(req[q].kind = "upload" /\ req[q].id = a)
    /\ Begin(p, [kind |-> "upload", id |-> a])
    /\ rows' = [b \in Saved \union {a} |-> IF b = a THEN NewRow(a) ELSE rows[b]]
    /\ UNCHANGED <<files, grants, issued, deleted>>

\* upload(): the file is stored ...
UploadFile(p, a) ==
    /\ a \notin files \union Saved
    /\ Begin(p, [kind |-> "upload", id |-> a])
    /\ files' = files \union {a}
    /\ UNCHANGED <<rows, grants, issued, deleted>>

\* ... and then has a row.
SaveUploaded(p) ==
    /\ req[p].kind = "upload"
    /\ LET a == req[p].id
       IN  rows' = [b \in Saved \union {a} |-> IF b = a THEN NewRow(a) ELSE rows[b]]
    /\ Finish(p)
    /\ UNCHANGED <<files, grants, issued, deleted>>

FindToDelete(p, a) ==
    /\ a \in Saved
    /\ Begin(p, [kind |-> "delete", id |-> a])
    /\ UNCHANGED <<files, rows, grants, issued, deleted>>

\* delete(): the file goes; the row stays, because softDelete() throws on an entity with
\* no column decorated as DeleteDateColumn.
DeleteFile(p) ==
    /\ req[p].kind = "delete"
    /\ files' = files \ {req[p].id}
    /\ deleted' = deleted \union {req[p].id}
    /\ Finish(p)
    /\ UNCHANGED <<rows, grants, issued>>

-----------------------------------------------------------------------------
\* The share flag and the draft flag.

\* updateSharedFlag(): all entities are read ...
FindToShare(p, ids, shared) ==
    /\ ids \intersect Saved # {}
    /\ Begin(p, [kind |-> "share", shared |-> shared,
                 read |-> [a \in ids \intersect Saved |-> rows[a].draft]])
    /\ UNCHANGED <<files, rows, grants, issued, deleted>>

\* Request p is done with the entity of a.
Done(p, a) ==
    IF DOMAIN req[p].read = {a} THEN Finish(p)
    ELSE Continue(p, [kind |-> "share", shared |-> req[p].shared,
                      read |-> Restrict(req[p].read, DOMAIN req[p].read \ {a})])

\* ... and saved one by one, the shared ones with a new token: save() selects the row ...
Differing(r, a) == {c \in Column :
    \/ c = "draft" /\ r.read[a] # rows[a].draft
    \/ c = "shared" /\ r.shared # rows[a].shared
    \/ c = "token" /\ (r.shared \/ rows[a].token # NoToken)}

SelectAgain(p, a) ==
    /\ req[p].kind = "share" /\ a \in DOMAIN req[p].read
    /\ LET columns == Differing(req[p], a)
       IN  IF columns = {} THEN Done(p, a)
           ELSE Continue(p, [kind |-> "save", read |-> req[p].read, shared |-> req[p].shared,
                             id |-> a, columns |-> columns])
    /\ UNCHANGED <<files, rows, grants, issued, deleted>>

\* The row of a, if request r writes these columns and makes this token.
Updated(r, a, token) ==
    [draft |-> IF "draft" \in r.columns THEN r.read[a] ELSE rows[a].draft,
     shared |-> IF "shared" \in r.columns THEN r.shared ELSE rows[a].shared,
     token |-> IF "token" \in r.columns THEN (IF r.shared THEN token ELSE NoToken)
               ELSE rows[a].token]

\* Mutant of SaveShared: the token is made of the id alone.
SaveSharedUnderId(p) ==
    /\ req[p].kind = "save"
    /\ LET a == req[p].id
           ofId == CHOOSE f \in [Attachment -> 1..MaxTokens] : IsInjective(f)
       IN  rows' = [rows EXCEPT ![a] = Updated(req[p], a, ofId[a])] /\ Done(p, a)
    /\ issued' = IF req[p].shared THEN MaxTokens ELSE issued
    /\ UNCHANGED <<files, grants, deleted>>

\* Mutant of SaveShared: one token is made for the whole list.
SaveSharedTogether(p) ==
    /\ req[p].kind = "save"
    /\ IF req[p].shared THEN issued < MaxTokens /\ issued' = issued + 1 ELSE UNCHANGED issued
    /\ rows' = [b \in Saved |-> IF b \in DOMAIN req[p].read THEN Updated(req[p], b, issued')
                               ELSE rows[b]]
    /\ Finish(p)
    /\ UNCHANGED <<files, grants, deleted>>

\* ... and writes what differed then, if anything did.  A new token is made before, but
\* nobody has it before it is in the row: the tokens are numbered as they are written.
SaveShared(p) ==
    /\ req[p].kind = "save"
    /\ IF req[p].shared THEN issued < MaxTokens /\ issued' = issued + 1 ELSE UNCHANGED issued
    /\ rows' = [rows EXCEPT ![req[p].id] = Updated(req[p], req[p].id, issued')]
    /\ Done(p, req[p].id)
    /\ UNCHANGED <<files, grants, deleted>>

Published(ids) == [a \in Saved |-> IF a \in ids THEN [rows[a] EXCEPT !.draft = FALSE] ELSE rows[a]]

RemoveDraftFlag(ids) ==
    /\ rows' = Published(ids)
    /\ UNCHANGED <<files, grants, issued, deleted, req>>

-----------------------------------------------------------------------------
\* Access.

\* History: downloads in flight that the grant allows.
Allow(r, a, u) ==
    IF r.kind = "download" /\ r.id = a /\ r.user = u THEN [r EXCEPT !.allowed = TRUE] ELSE r

\* Mutant of SaveGrant: the arguments are swapped.
SaveGrantSwapped(p, r, a, u) ==
    /\ <<a, u>> \in r.todo
    /\ grants' = grants \union {<<u, a>>}
    /\ req' = [q \in Proc |-> IF q = p THEN [r EXCEPT !.todo = @ \ {<<a, u>>}]
                                      ELSE Allow(req[q], a, u)]
    /\ UNCHANGED <<files, rows, issued, deleted>>

\* An upsert of grantAttachmentAccess(), which takes all users of an attachment before
\* the next attachment.
SaveGrant(p, r, a, u) ==
    /\ <<a, u>> \in r.todo
    /\ \A b \in r.ids \ {a} : ({b} \X r.users) \intersect r.todo \in {{}, {b} \X r.users}
    /\ grants' = grants \union {<<a, u>>}
    /\ req' = [q \in Proc |-> IF q = p THEN [r EXCEPT !.todo = @ \ {<<a, u>>}]
                                      ELSE Allow(req[q], a, u)]
    /\ UNCHANGED <<files, rows, issued, deleted>>

GrantAccess(p, ids, users) ==
    /\ req[p] = Idle
    /\ \E a \in ids, u \in users :
        SaveGrant(p, [kind |-> "grant", ids |-> ids, users |-> users, todo |-> ids \X users], a, u)

GrantNext(p) ==
    /\ req[p].kind = "grant"
    /\ \E a \in Attachment, u \in User : SaveGrant(p, req[p], a, u)

\* What is granted is no draft.
FinishGrant(p) ==
    /\ req[p].kind = "grant" /\ req[p].todo = {}
    /\ rows' = Published(req[p].ids)
    /\ Finish(p)
    /\ UNCHANGED <<files, grants, issued, deleted>>

\* A DELETE of revokeAttachmentAccess(), which takes the users one by one ...
DeleteGrant(p, a, users, u) ==
    /\ grants' = grants \ {<<a, u>>}
    /\ IF users = {u} THEN Finish(p)
       ELSE Continue(p, [kind |-> "revoke", id |-> a, users |-> users \ {u}])
    /\ UNCHANGED <<files, rows, issued, deleted>>

RevokeAccess(p, a, users) ==
    /\ req[p] = Idle
    /\ \E u \in users : DeleteGrant(p, a, users, u)

RevokeNext(p) ==
    /\ req[p].kind = "revoke"
    /\ \E u \in req[p].users : DeleteGrant(p, req[p].id, req[p].users, u)

\* ... or from all at once.
RevokeAll(a) ==
    /\ grants' = grants \ ({a} \X User)
    /\ UNCHANGED <<files, rows, issued, deleted, req>>

CanRead(a, u) == a \notin Private \/ uploader[a] = u \/ <<a, u>> \in grants

\* download() of a user: the row is found, and a public attachment or an own one fetched;
\* for the others the table of grants is asked first.
FindToDownload(p, a, u) ==
    /\ a \in Saved
    /\ Begin(p, [kind |-> "download", id |-> a, user |-> u, allowed |-> CanRead(a, u),
                 stage |-> IF a \notin Private \/ uploader[a] = u THEN "fetch" ELSE "check"])
    /\ UNCHANGED <<files, rows, grants, issued, deleted>>

\* download() of nobody in particular: whoever names the token of a shared attachment, or
\* its id, is asked nothing else.
FindShared(p, a) ==
    /\ a \in Saved /\ rows[a].shared
    /\ Begin(p, [kind |-> "download", id |-> a, user |-> Anyone, allowed |-> TRUE,
                 stage |-> "fetch"])
    /\ UNCHANGED <<files, rows, grants, issued, deleted>>

\* Mutant of CheckGrant: it asks for a grant of the attachment, whoever has it.
CheckAnyGrant(p) ==
    /\ req[p].kind = "download" /\ req[p].stage = "check"
    /\ \E u \in User : <<req[p].id, u>> \in grants
    /\ Continue(p, [req[p] EXCEPT !.stage = "fetch"])
    /\ UNCHANGED <<files, rows, grants, issued, deleted>>

CheckGrant(p) ==
    /\ req[p].kind = "download" /\ req[p].stage = "check"
    /\ IF <<req[p].id, req[p].user>> \in grants
       THEN Continue(p, [req[p] EXCEPT !.stage = "fetch"])
       ELSE Finish(p)
    /\ UNCHANGED <<files, rows, grants, issued, deleted>>

Fetch(p) ==
    /\ req[p].kind = "download" /\ req[p].stage = "fetch"
    /\ Finish(p)
    /\ UNCHANGED <<files, rows, grants, issued, deleted>>

\* A statement or the store fails, or the process dies.
Fail(p) ==
    /\ req[p] # Idle
    /\ Finish(p)
    /\ UNCHANGED <<files, rows, grants, issued, deleted>>

-----------------------------------------------------------------------------

Storing ==
    \E p \in Proc :
        \/ \E a \in Attachment : UploadFile(p, a) \/ FindToDelete(p, a)
        \/ SaveUploaded(p) \/ DeleteFile(p)

Flagging ==
    \/ \E p \in Proc :
        \/ \E ids \in Lists, shared \in BOOLEAN : FindToShare(p, ids, shared)
        \/ \E a \in Attachment : SelectAgain(p, a)
        \/ SaveShared(p)
    \/ \E ids \in Lists : RemoveDraftFlag(ids)

Granting ==
    \/ \E p \in Proc :
        \/ \E ids \in Lists, users \in Audiences : GrantAccess(p, ids, users)
        \/ GrantNext(p) \/ FinishGrant(p)
        \/ \E a \in Attachment, users \in Audiences : RevokeAccess(p, a, users)
        \/ RevokeNext(p)
    \/ \E a \in Attachment : RevokeAll(a)

Downloading ==
    \E p \in Proc :
        \/ \E a \in Attachment, u \in User : FindToDownload(p, a, u)
        \/ \E a \in Attachment : FindShared(p, a)
        \/ CheckGrant(p) \/ Fetch(p)

Next == Storing \/ Flagging \/ Granting \/ Downloading \/ \E p \in Proc : Fail(p)

Spec == Init /\ [][Next]_vars

-----------------------------------------------------------------------------

TypeOK ==
    /\ files \subseteq Attachment /\ deleted \subseteq Attachment
    /\ Saved \subseteq Attachment /\ rows \in [Saved -> Row]
    /\ \A a \in Saved : rows[a].token <= issued
    /\ grants \subseteq Attachment \X User
    /\ issued \in 0..MaxTokens
    /\ req \in [Proc -> Request]

\* Whatever fails half-way, a row that is found has its file, unless a delete was asked
\* for: a file is stored before its row is saved.
RowsHaveFiles == Saved \subseteq files \union deleted

\* A token opens one attachment, though several are shared by one request and several
\* requests share the same ones.
OneTokenOneAttachment ==
    \A a, b \in Saved : rows[a].token = rows[b].token => a = b \/ rows[a].token = NoToken

\* A link whose token was replaced or withdrawn never opens its attachment again, although
\* entities read while it was valid are saved later, and of a shared one perhaps not all
\* columns: what opens a row changes to a new token or to none.
Opening(row) == IF row.shared THEN row.token ELSE NoToken
NewTokens ==
    \A a \in Saved :
        \/ Opening(rows'[a]) \in {Opening(rows[a]), NoToken}
        \/ Opening(rows'[a]) > issued
DeadTokensStayDead == [][NewTokens]_vars

\* A file is fetched for a user only if there was a moment since the download began when
\* the user could read it: a grant that was revoked before does not count.
DownloadsWereAllowed ==
    \A p \in Proc : req[p].kind = "download" /\ req[p].stage = "fetch" => req[p].allowed

=============================================================================
