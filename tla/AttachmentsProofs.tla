--------------------------- MODULE AttachmentsProofs ---------------------------
(***************************************************************************)
(* Theorems about Attachments for any attachments, users and requests.     *)
(***************************************************************************)
EXTENDS Attachments, TLAPS

\* What a request in flight has done so far: an upload stored its file, a request about
\* saved attachments read them from the table, a save that shares makes a token, and a
\* download past the check, or about to pass it, was allowed.
GoodRequest(r) ==
    /\ r.kind = "upload" => r.id \in files \union deleted
    /\ r.kind \in {"share", "save"} => DOMAIN r.read \subseteq Saved
    /\ r.kind = "save" => r.id \in DOMAIN r.read /\ (r.shared => "token" \in r.columns)
    /\ r.kind = "download" /\ (r.stage = "fetch" \/ <<r.id, r.user>> \in grants) => r.allowed

IInv ==
    /\ TypeOK
    /\ \A p \in Proc : GoodRequest(req[p])
    /\ RowsHaveFiles
    /\ OneTokenOneAttachment

USE UploaderAssumption, SubsetsAssumption, ListsAssumption, AudiencesAssumption,
    MaxTokensAssumption

\* The state without the requests.
Tables == <<files, rows, grants, issued, deleted>>

-----------------------------------------------------------------------------
LEMMA FlagMaps ==
    ASSUME NEW S \in SUBSET Attachment, NEW f \in [S -> BOOLEAN]
    PROVE  f \in Entities
<1>1. [S -> BOOLEAN] \in {[T -> BOOLEAN] : T \in SUBSET Attachment}
  OBVIOUS
<1> QED BY <1>1 DEF Entities

\* A step that begins, continues or ends one request.

LEMMA OneRequest ==
    ASSUME TypeOK, NEW p \in Proc, NEW r \in Request, req' = [req EXCEPT ![p] = r]
    PROVE  /\ req' \in [Proc -> Request] /\ req'[p] = r
           /\ \A q \in Proc : q # p => req'[q] = req[q]
BY DEF TypeOK

LEMMA IdleIsGood == Idle \in Request /\ GoodRequest(Idle)'
BY DEF Request, Idle, GoodRequest

\* If the tables stay, only the new request has to be looked at.
LEMMA TablesStay ==
    ASSUME IInv, UNCHANGED Tables, NEW p \in Proc, NEW r \in Request,
           req' = [req EXCEPT ![p] = r], GoodRequest(r)
    PROVE  IInv'
<1>1. /\ req' \in [Proc -> Request] /\ req'[p] = r
      /\ \A q \in Proc : q # p => req'[q] = req[q]
  BY OneRequest DEF IInv
<1>2. TypeOK'
  BY <1>1 DEF IInv, TypeOK, Tables, Saved
<1>3. ASSUME NEW q \in Proc PROVE GoodRequest(req[q])'
  <2>1. GoodRequest(req'[q])
    BY <1>1 DEF IInv
  <2> QED BY <2>1 DEF GoodRequest, Tables, Saved
<1>4. RowsHaveFiles' /\ OneTokenOneAttachment'
  BY DEF IInv, RowsHaveFiles, OneTokenOneAttachment, Tables, Saved
<1> QED BY <1>2, <1>3, <1>4 DEF IInv

\* Unless the tables lose a file that was stored or a row, or win a grant, the other
\* requests stay good.
LEMMA OthersStay ==
    ASSUME IInv, NEW q \in Proc, req'[q] = req[q], Saved \subseteq Saved',
           files \union deleted \subseteq files' \union deleted', grants' \subseteq grants
    PROVE  GoodRequest(req[q])'
BY DEF IInv, GoodRequest

LEMMA FinishKeeps ==
    ASSUME IInv, NEW p \in Proc, Finish(p), Saved \subseteq Saved',
           files \union deleted \subseteq files' \union deleted', grants' \subseteq grants
    PROVE  req' \in [Proc -> Request] /\ \A q \in Proc : GoodRequest(req[q])'
<1>1. /\ req' \in [Proc -> Request] /\ req'[p] = Idle
      /\ \A q \in Proc : q # p => req'[q] = req[q]
  BY OneRequest, IdleIsGood DEF IInv, Finish
<1>2. GoodRequest(req[p])'
  BY <1>1 DEF GoodRequest, Idle
<1>3. ASSUME NEW q \in Proc, q # p PROVE GoodRequest(req[q])'
  BY <1>1, <1>3, OthersStay
<1> QED BY <1>1, <1>2, <1>3

\* What publishing does to the rows.
LEMMA PublishedRows ==
    ASSUME TypeOK, NEW ids, rows' = Published(ids)
    PROVE  /\ Saved' = Saved /\ rows' \in [Saved' -> Row]
           /\ \A a \in Saved :
                 rows'[a].token = rows[a].token /\ rows'[a].shared = rows[a].shared
BY DEF TypeOK, Published, Saved, Row

-----------------------------------------------------------------------------
\* One lemma per action: it preserves the inductive invariant.

LEMMA InitIInv == Init => IInv
<1> SUFFICES ASSUME Init
             PROVE  IInv
  OBVIOUS
<1>1. Saved = {} /\ rows \in [Saved -> Row]
  BY DEF Init, Saved
<1>2. TypeOK
  BY <1>1, IdleIsGood DEF Init, TypeOK
<1>3. \A p \in Proc : GoodRequest(req[p])
  BY DEF Init, GoodRequest, Idle
<1> QED BY <1>1, <1>2, <1>3 DEF IInv, RowsHaveFiles, OneTokenOneAttachment

LEMMA UploadFilePreserves ==
    ASSUME IInv, NEW p \in Proc, NEW a \in Attachment, UploadFile(p, a) PROVE IInv'
<1> DEFINE r == [kind |-> "upload", id |-> a]
<1>1. /\ r \in Request /\ req' = [req EXCEPT ![p] = r] /\ files' = files \union {a}
      /\ UNCHANGED <<rows, grants, issued, deleted>> /\ Saved' = Saved
  BY DEF UploadFile, Begin, Request, UploadRequest, Saved
<1>2. /\ req' \in [Proc -> Request] /\ req'[p] = r
      /\ \A q \in Proc : q # p => req'[q] = req[q]
  BY <1>1, OneRequest DEF IInv
<1>3. TypeOK'
  BY <1>1, <1>2 DEF IInv, TypeOK
<1>4. GoodRequest(req[p])'
  BY <1>1, <1>2 DEF GoodRequest
<1>5. ASSUME NEW q \in Proc, q # p PROVE GoodRequest(req[q])'
  BY <1>1, <1>2, <1>5, OthersStay
<1>6. RowsHaveFiles' /\ OneTokenOneAttachment'
  BY <1>1 DEF IInv, RowsHaveFiles, OneTokenOneAttachment
<1> QED BY <1>3, <1>4, <1>5, <1>6 DEF IInv

LEMMA SaveUploadedPreserves == ASSUME IInv, NEW p \in Proc, SaveUploaded(p) PROVE IInv'
<1> DEFINE a == req[p].id
           new == NewRow(a)
<1>1. /\ a \in Attachment /\ a \in files \union deleted /\ Finish(p) /\ TypeOK
      /\ UNCHANGED <<files, grants, issued, deleted>>
      /\ rows' = [b \in Saved \union {a} |-> IF b = a THEN new ELSE rows[b]]
  BY DEF SaveUploaded, IInv, TypeOK, GoodRequest, Request, UploadRequest, DeleteRequest,
     ShareRequest, SaveRequest, GrantRequest, RevokeRequest, DownloadRequest, Idle
<1>2. Saved' = Saved \union {a}
  BY <1>1 DEF Saved
<1>3. new \in Row /\ new.token = NoToken /\ NoToken <= issued /\ NoToken \in Nat
  BY <1>1 DEF NewRow, Row, NoToken, TypeOK
<1>4. /\ rows'[a].token = NoToken
      /\ \A b \in Saved : b # a => rows'[b] = rows[b]
  BY <1>1 DEF NewRow
<1>5. rows' \in [Saved' -> Row] /\ \A b \in Saved' : rows'[b].token <= issued'
  BY <1>1, <1>2, <1>3, <1>4 DEF TypeOK
<1>6. req' \in [Proc -> Request] /\ \A q \in Proc : GoodRequest(req[q])'
  BY <1>1, <1>2, FinishKeeps
<1>7. TypeOK'
  BY <1>1, <1>2, <1>5, <1>6 DEF TypeOK
<1>8. RowsHaveFiles' /\ OneTokenOneAttachment'
  BY <1>1, <1>2, <1>4 DEF IInv, RowsHaveFiles, OneTokenOneAttachment
<1> QED BY <1>6, <1>7, <1>8 DEF IInv

LEMMA DeleteFilePreserves == ASSUME IInv, NEW p \in Proc, DeleteFile(p) PROVE IInv'
<1>1. /\ req[p].id \in Attachment /\ Finish(p) /\ TypeOK
      /\ files' = files \ {req[p].id} /\ deleted' = deleted \union {req[p].id}
      /\ UNCHANGED <<rows, grants, issued>> /\ Saved' = Saved
  BY DEF DeleteFile, IInv, TypeOK, Request, UploadRequest, DeleteRequest, ShareRequest,
     SaveRequest, GrantRequest, RevokeRequest, DownloadRequest, Idle, Saved
<1>2. req' \in [Proc -> Request] /\ \A q \in Proc : GoodRequest(req[q])'
  BY <1>1, FinishKeeps
<1>3. TypeOK'
  BY <1>1, <1>2 DEF TypeOK
<1>4. RowsHaveFiles' /\ OneTokenOneAttachment'
  BY <1>1 DEF IInv, RowsHaveFiles, OneTokenOneAttachment
<1> QED BY <1>2, <1>3, <1>4 DEF IInv

LEMMA FindToDeletePreserves ==
    ASSUME IInv, NEW p \in Proc, NEW a \in Attachment, FindToDelete(p, a) PROVE IInv'
<1> DEFINE r == [kind |-> "delete", id |-> a]
<1>1. r \in Request /\ req' = [req EXCEPT ![p] = r] /\ GoodRequest(r) /\ UNCHANGED Tables
  BY DEF FindToDelete, Begin, Request, DeleteRequest, GoodRequest, Tables
<1> QED BY <1>1, TablesStay

LEMMA FindToSharePreserves ==
    ASSUME IInv, NEW p \in Proc, NEW ids \in Lists, NEW shared \in BOOLEAN,
           FindToShare(p, ids, shared)
    PROVE  IInv'
<1> DEFINE S == ids \intersect Saved
           found == [a \in S |-> rows[a].draft]
           r == [kind |-> "share", shared |-> shared, read |-> found]
<1>1. S \in SUBSET Attachment /\ S \subseteq Saved /\ found \in [S -> BOOLEAN] /\ DOMAIN found = S
  BY DEF IInv, TypeOK, Row
<1>6. req' = [req EXCEPT ![p] = r] /\ UNCHANGED Tables
  BY DEF FindToShare, Begin, Tables
<1> HIDE DEF S, found
<1>2. found \in Entities
  BY <1>1, FlagMaps
<1>3. r \in Request
  BY <1>2 DEF Request, ShareRequest
<1>4. GoodRequest(r)
  BY <1>1 DEF GoodRequest
<1> QED BY <1>3, <1>4, <1>6, TablesStay

\* The kind of a request tells its record.
LEMMA ShareKind ==
    ASSUME NEW r \in Request
    PROVE  /\ r.kind = "share" => r \in ShareRequest
           /\ r.kind = "save" => r \in SaveRequest
<1>1. CASE r \in UploadRequest \union DeleteRequest
  BY <1>1 DEF UploadRequest, DeleteRequest
<1>2. CASE r \in GrantRequest \union RevokeRequest
  BY <1>2 DEF GrantRequest, RevokeRequest
<1>3. CASE r \in DownloadRequest \union {Idle}
  BY <1>3 DEF DownloadRequest, Idle
<1>4. CASE r \in ShareRequest
  BY <1>4 DEF ShareRequest
<1>5. CASE r \in SaveRequest
  BY <1>5 DEF SaveRequest
<1> QED BY <1>1, <1>2, <1>3, <1>4, <1>5 DEF Request

\* What is left of a share request when an entity is done with.
LEMMA DoneKeeps ==
    ASSUME IInv, NEW p \in Proc, req[p].kind \in {"share", "save"}, NEW a \in DOMAIN req[p].read,
           Done(p, a), Saved' = Saved, UNCHANGED <<files, grants, deleted>>
    PROVE  req' \in [Proc -> Request] /\ \A q \in Proc : GoodRequest(req[q])'
<1>1. CASE Finish(p)
  BY <1>1, FinishKeeps
<1>2. CASE ~Finish(p)
  <2> DEFINE rest == Restrict(req[p].read, DOMAIN req[p].read \ {a})
             r == [kind |-> "share", shared |-> req[p].shared, read |-> rest]
  <2>1. /\ req[p].read \in Entities /\ req[p].shared \in BOOLEAN
        /\ DOMAIN req[p].read \subseteq Saved
    <3>1. req[p] \in Request /\ GoodRequest(req[p])
      BY DEF IInv, TypeOK
    <3>2. req[p] \in ShareRequest \/ req[p] \in SaveRequest
      BY <3>1, ShareKind
    <3> QED BY <3>1, <3>2 DEF GoodRequest, ShareRequest, SaveRequest
  <2>2. PICK S \in SUBSET Attachment : req[p].read \in [S -> BOOLEAN]
    BY <2>1 DEF Entities
  <2>3. rest \in [S \ {a} -> BOOLEAN] /\ DOMAIN rest = S \ {a}
    BY <2>2 DEF Restrict
  <2> DEFINE T == S \ {a}
  <2>4. rest \in Entities
    <3>1. T \in SUBSET Attachment /\ rest \in [T -> BOOLEAN]
      BY <2>2, <2>3
    <3> HIDE DEF T, rest
    <3> QED BY <3>1, FlagMaps
  <2>5. req' = [req EXCEPT ![p] = r]
    BY <1>2 DEF Done, Continue
  <2> HIDE DEF rest
  <2>6. r \in Request /\ r.kind = "share" /\ r.read = rest
    BY <2>1, <2>4 DEF Request, ShareRequest
  <2> HIDE DEF r
  <2>7. /\ req' \in [Proc -> Request] /\ req'[p] = r
        /\ \A q \in Proc : q # p => req'[q] = req[q]
    BY <2>5, <2>6, OneRequest DEF IInv
  <2>8. GoodRequest(req[p])'
    BY <2>1, <2>2, <2>3, <2>6, <2>7 DEF GoodRequest
  <2>9. ASSUME NEW q \in Proc, q # p PROVE GoodRequest(req[q])'
    BY <2>7, <2>9, OthersStay
  <2> QED BY <2>7, <2>8, <2>9
<1> QED BY <1>1, <1>2

LEMMA SelectAgainPreserves ==
    ASSUME IInv, NEW p \in Proc, NEW a \in Attachment, SelectAgain(p, a) PROVE IInv'
<1>1. /\ req[p] \in ShareRequest /\ req[p].kind = "share" /\ a \in DOMAIN req[p].read
      /\ DOMAIN req[p].read \subseteq Saved /\ UNCHANGED Tables /\ Saved' = Saved
  BY ShareKind DEF SelectAgain, IInv, TypeOK, GoodRequest, Tables, Saved
<1>2. CASE Done(p, a)
  <2>1. req' \in [Proc -> Request] /\ \A q \in Proc : GoodRequest(req[q])'
    BY <1>1, <1>2, DoneKeeps DEF Tables
  <2>2. TypeOK' /\ RowsHaveFiles' /\ OneTokenOneAttachment'
    BY <1>1, <2>1 DEF IInv, TypeOK, RowsHaveFiles, OneTokenOneAttachment, Tables
  <2> QED BY <2>1, <2>2 DEF IInv
<1>3. CASE ~Done(p, a)
  <2>1. PICK columns : columns = Differing(req[p], a)
    OBVIOUS
  <2>2. columns \subseteq Column /\ (req[p].shared => "token" \in columns)
    BY <2>1 DEF Differing, Column
  <2> DEFINE r == [kind |-> "save", read |-> req[p].read, shared |-> req[p].shared, id |-> a,
                   columns |-> columns]
  <2>3. req' = [req EXCEPT ![p] = r]
    BY <1>3, <2>1 DEF SelectAgain, Continue
  <2>4. r \in Request
    BY <1>1, <2>2 DEF Request, ShareRequest, SaveRequest
  <2>5. GoodRequest(r)
    BY <1>1, <2>2 DEF GoodRequest
  <2> HIDE DEF r
  <2> QED BY <1>1, <2>3, <2>4, <2>5, TablesStay
<1> QED BY <1>2, <1>3

\* What a save writes: the columns it found to differ, the token among them if the
\* attachment is shared.
LEMMA SavedRow ==
    ASSUME IInv, NEW p \in Proc, SaveShared(p), NEW a, a = req[p].id
    PROVE  /\ a \in Saved /\ a \in DOMAIN req[p].read /\ Saved' = Saved
           /\ issued' \in 0..MaxTokens /\ issued <= issued' /\ issued \in Nat
           /\ rows' \in [Saved -> Row] /\ \A b \in Saved : b # a => rows'[b] = rows[b]
           /\ \/ rows'[a].token = issued + 1 /\ issued' = issued + 1
              \/ /\ rows'[a].token \in {NoToken, rows[a].token}
                 /\ (rows'[a].shared => rows[a].shared)
<1> DEFINE r == req[p]
           new == Updated(r, a, issued')
<1>1. /\ r \in SaveRequest /\ a \in Saved /\ a \in DOMAIN r.read
      /\ r.shared => "token" \in r.columns
      /\ issued \in Nat /\ issued \in 0..MaxTokens /\ rows \in [Saved -> Row]
  <2>1. r \in Request /\ GoodRequest(r) /\ r.kind = "save" /\ TypeOK
    BY DEF SaveShared, IInv, TypeOK
  <2>2. r \in SaveRequest
    BY <2>1, ShareKind
  <2> QED BY <2>1, <2>2 DEF GoodRequest, TypeOK
<1>2. /\ issued' \in 0..MaxTokens /\ issued <= issued'
      /\ r.shared => issued' = issued + 1
  BY <1>1 DEF SaveShared
<1>3. r.read[a] \in BOOLEAN /\ r.shared \in BOOLEAN /\ rows[a] \in Row /\ NoToken \in Nat
  BY <1>1 DEF SaveRequest, Entities, NoToken
<1>4. issued' \in Nat
  BY <1>2
<1>5. new.draft \in BOOLEAN /\ new.shared \in BOOLEAN /\ new.token \in Nat
  BY <1>3, <1>4 DEF Updated, Row
<1>6. new = [draft |-> new.draft, shared |-> new.shared, token |-> new.token]
  BY DEF Updated
<1>7. new \in Row
  BY <1>5, <1>6 DEF Row
<1>8. \/ new.token = issued + 1 /\ issued' = issued + 1
      \/ new.token \in {NoToken, rows[a].token} /\ (new.shared => rows[a].shared)
  BY <1>1, <1>2, <1>3 DEF Updated
<1>9. rows' = [rows EXCEPT ![a] = new]
  BY DEF SaveShared
<1> HIDE DEF new
<1>10. /\ Saved' = Saved /\ rows' \in [Saved -> Row] /\ rows'[a] = new
       /\ \A b \in Saved : b # a => rows'[b] = rows[b]
  BY <1>1, <1>7, <1>9 DEF Saved
<1> QED BY <1>1, <1>2, <1>8, <1>10

LEMMA SaveSharedPreserves == ASSUME IInv, NEW p \in Proc, SaveShared(p) PROVE IInv'
<1>1. PICK a : a = req[p].id
  OBVIOUS
<1>2. /\ a \in Saved /\ a \in DOMAIN req[p].read /\ Saved' = Saved
      /\ issued' \in 0..MaxTokens /\ issued <= issued' /\ issued \in Nat
      /\ rows' \in [Saved -> Row] /\ \A b \in Saved : b # a => rows'[b] = rows[b]
  BY <1>1, SavedRow
<1>3. \/ rows'[a].token = issued + 1 /\ issued' = issued + 1
      \/ rows'[a].token \in {NoToken, rows[a].token}
  BY <1>1, SavedRow
<1>4. TypeOK /\ Done(p, a) /\ UNCHANGED <<files, grants, deleted>> /\ req[p].kind = "save"
  BY <1>1 DEF IInv, SaveShared
<1>5. \A b \in Saved : rows[b].token \in Nat /\ rows[b].token <= issued
  BY <1>4 DEF TypeOK, Row
<1>6. NoToken = 0 /\ MaxTokens \in Nat
  BY DEF NoToken
<1>7. \A b \in Saved' : rows'[b].token <= issued'
  BY <1>2, <1>3, <1>5, <1>6
<1>8. req' \in [Proc -> Request] /\ \A q \in Proc : GoodRequest(req[q])'
  BY <1>2, <1>4, DoneKeeps
<1>9. TypeOK'
  BY <1>2, <1>4, <1>7, <1>8 DEF TypeOK
<1>10. RowsHaveFiles'
  BY <1>2, <1>4 DEF IInv, RowsHaveFiles
<1>11. OneTokenOneAttachment'
  <2>1. OneTokenOneAttachment
    BY DEF IInv
  <2>2. \A b \in Saved : b # a => rows'[b].token # rows'[a].token \/ rows'[a].token = NoToken
    BY <1>2, <1>3, <1>5, <2>1 DEF OneTokenOneAttachment
  <2> QED BY <1>2, <2>1, <2>2 DEF OneTokenOneAttachment
<1> QED BY <1>8, <1>9, <1>10, <1>11 DEF IInv

LEMMA RemoveDraftFlagPreserves ==
    ASSUME IInv, NEW ids \in Lists, RemoveDraftFlag(ids) PROVE IInv'
<1>1. UNCHANGED <<files, grants, issued, deleted, req>> /\ TypeOK
  BY DEF RemoveDraftFlag, IInv
<1>2. /\ Saved' = Saved /\ rows' \in [Saved' -> Row]
      /\ \A a \in Saved : rows'[a].token = rows[a].token
  BY <1>1, PublishedRows DEF RemoveDraftFlag
<1>3. TypeOK'
  BY <1>1, <1>2 DEF TypeOK
<1>4. ASSUME NEW q \in Proc PROVE GoodRequest(req[q])'
  BY <1>1, <1>2, OthersStay
<1>5. RowsHaveFiles' /\ OneTokenOneAttachment'
  BY <1>1, <1>2 DEF IInv, RowsHaveFiles, OneTokenOneAttachment
<1> QED BY <1>3, <1>4, <1>5 DEF IInv

LEMMA FinishGrantPreserves == ASSUME IInv, NEW p \in Proc, FinishGrant(p) PROVE IInv'
<1>1. UNCHANGED <<files, grants, issued, deleted>> /\ TypeOK /\ Finish(p)
  BY DEF FinishGrant, IInv
<1>2. /\ Saved' = Saved /\ rows' \in [Saved' -> Row]
      /\ \A a \in Saved : rows'[a].token = rows[a].token
  BY <1>1, PublishedRows DEF FinishGrant
<1>3. req' \in [Proc -> Request] /\ \A q \in Proc : GoodRequest(req[q])'
  BY <1>1, <1>2, FinishKeeps
<1>4. TypeOK'
  BY <1>1, <1>2, <1>3 DEF TypeOK
<1>5. RowsHaveFiles' /\ OneTokenOneAttachment'
  BY <1>1, <1>2 DEF IInv, RowsHaveFiles, OneTokenOneAttachment
<1> QED BY <1>3, <1>4, <1>5 DEF IInv

\* A grant can only allow more downloads.
LEMMA SaveGrantPreserves ==
    ASSUME IInv, NEW p \in Proc, NEW a \in Attachment, NEW u \in User,
           NEW r \in GrantRequest, SaveGrant(p, r, a, u)
    PROVE  IInv'
<1> DEFINE s == [r EXCEPT !.todo = @ \ {<<a, u>>}]
<1>1. /\ UNCHANGED <<files, rows, issued, deleted>> /\ grants' = grants \union {<<a, u>>}
      /\ req' = [q \in Proc |-> IF q = p THEN s ELSE Allow(req[q], a, u)] /\ Saved' = Saved
  BY DEF SaveGrant, Saved
<1>2. s \in Request /\ s.kind = "grant"
  BY DEF Request, GrantRequest
<1>3. ASSUME NEW q \in Proc
      PROVE  /\ Allow(req[q], a, u) \in Request
             /\ req'[q] = Allow(req[q], a, u) => GoodRequest(req[q])'
  <2>1. req[q] \in Request /\ GoodRequest(req[q])
    BY DEF IInv, TypeOK
  <2>2. CASE req[q].kind = "download"
    <3>1. req[q] \in DownloadRequest
      BY <2>1, <2>2 DEF Request, UploadRequest, DeleteRequest, ShareRequest, SaveRequest, GrantRequest,
         RevokeRequest, Idle
    <3>2. [req[q] EXCEPT !.allowed = TRUE] \in DownloadRequest
      BY <3>1 DEF DownloadRequest
    <3>3. CASE req[q].id = a /\ req[q].user = u
      <4>1. Allow(req[q], a, u) = [req[q] EXCEPT !.allowed = TRUE]
        BY <2>2, <3>3 DEF Allow
      <4> QED BY <1>1, <3>1, <3>2, <4>1 DEF GoodRequest, DownloadRequest, Request
    <3>4. CASE ~(req[q].id = a /\ req[q].user = u)
      <4>1. Allow(req[q], a, u) = req[q]
        BY <3>4 DEF Allow
      <4>2. <<req[q].id, req[q].user>> \in grants' => <<req[q].id, req[q].user>> \in grants
        BY <1>1, <3>4
      <4> QED BY <1>1, <2>1, <2>2, <4>1, <4>2 DEF GoodRequest
    <3> QED BY <3>3, <3>4
  <2>3. CASE req[q].kind # "download"
    <3>1. Allow(req[q], a, u) = req[q]
      BY <2>3 DEF Allow
    <3> QED BY <1>1, <2>1, <2>3, <3>1 DEF GoodRequest
  <2> QED BY <2>2, <2>3
<1>4. req' \in [Proc -> Request]
  BY <1>1, <1>2, <1>3
<1>5. TypeOK'
  <2>1. grants' \subseteq Attachment \X User
    BY <1>1 DEF IInv, TypeOK
  <2> QED BY <1>1, <1>4, <2>1 DEF IInv, TypeOK
<1>6. ASSUME NEW q \in Proc PROVE GoodRequest(req[q])'
  <2>1. CASE q = p
    BY <1>1, <1>2, <2>1 DEF GoodRequest
  <2>2. CASE q # p
    BY <1>1, <1>3, <2>2
  <2> QED BY <2>1, <2>2
<1>7. RowsHaveFiles' /\ OneTokenOneAttachment'
  BY <1>1 DEF IInv, RowsHaveFiles, OneTokenOneAttachment
<1> QED BY <1>5, <1>6, <1>7 DEF IInv

LEMMA GrantAccessPreserves ==
    ASSUME IInv, NEW p \in Proc, NEW ids \in Lists, NEW users \in Audiences,
           GrantAccess(p, ids, users)
    PROVE  IInv'
<1> DEFINE r == [kind |-> "grant", ids |-> ids, users |-> users, todo |-> ids \X users]
<1>1. ids \subseteq Attachment /\ users \subseteq User
  OBVIOUS
<1>2. r \in GrantRequest
  BY <1>1 DEF GrantRequest
<1>3. PICK a \in ids, u \in users : SaveGrant(p, r, a, u)
  BY DEF GrantAccess
<1> HIDE DEF r
<1> QED BY <1>1, <1>2, <1>3, SaveGrantPreserves

LEMMA GrantNextPreserves == ASSUME IInv, NEW p \in Proc, GrantNext(p) PROVE IInv'
<1>1. req[p] \in GrantRequest
  BY DEF GrantNext, IInv, TypeOK, Request, UploadRequest, DeleteRequest, ShareRequest,
     SaveRequest, RevokeRequest, DownloadRequest, Idle
<1> QED BY <1>1, SaveGrantPreserves DEF GrantNext

LEMMA DeleteGrantPreserves ==
    ASSUME IInv, NEW p \in Proc, NEW a \in Attachment, NEW users \in SUBSET User, NEW u \in users,
           DeleteGrant(p, a, users, u)
    PROVE  IInv'
<1> DEFINE r == [kind |-> "revoke", id |-> a, users |-> users \ {u}]
<1>1. /\ UNCHANGED <<files, rows, issued, deleted>> /\ grants' \subseteq grants /\ Saved' = Saved
  BY DEF DeleteGrant, Saved
<1>2. req' \in [Proc -> Request] /\ \A q \in Proc : GoodRequest(req[q])'
  <2>1. CASE Finish(p)
    BY <1>1, <2>1, FinishKeeps
  <2>2. CASE ~Finish(p)
    <3>1. req' = [req EXCEPT ![p] = r]
      BY <2>2 DEF DeleteGrant, Continue
    <3>2. r \in Request
      BY DEF Request, RevokeRequest
    <3>3. /\ req' \in [Proc -> Request] /\ req'[p] = r
          /\ \A q \in Proc : q # p => req'[q] = req[q]
      BY <3>1, <3>2, OneRequest DEF IInv
    <3>4. GoodRequest(req[p])'
      BY <3>3 DEF GoodRequest
    <3>5. ASSUME NEW q \in Proc, q # p PROVE GoodRequest(req[q])'
      BY <1>1, <3>3, <3>5, OthersStay
    <3> QED BY <3>3, <3>4, <3>5
  <2> QED BY <2>1, <2>2
<1>3. TypeOK'
  BY <1>1, <1>2 DEF IInv, TypeOK
<1>4. RowsHaveFiles' /\ OneTokenOneAttachment'
  BY <1>1 DEF IInv, RowsHaveFiles, OneTokenOneAttachment
<1> QED BY <1>2, <1>3, <1>4 DEF IInv

LEMMA RevokeAccessPreserves ==
    ASSUME IInv, NEW p \in Proc, NEW a \in Attachment, NEW users \in Audiences,
           RevokeAccess(p, a, users)
    PROVE  IInv'
BY DeleteGrantPreserves DEF RevokeAccess

LEMMA RevokeNextPreserves == ASSUME IInv, NEW p \in Proc, RevokeNext(p) PROVE IInv'
<1>1. req[p].id \in Attachment /\ req[p].users \in SUBSET User
  BY DEF RevokeNext, IInv, TypeOK, Request, UploadRequest, DeleteRequest, ShareRequest,
     SaveRequest, GrantRequest, RevokeRequest, DownloadRequest, Idle
<1> QED BY <1>1, DeleteGrantPreserves DEF RevokeNext

LEMMA RevokeAllPreserves == ASSUME IInv, NEW a \in Attachment, RevokeAll(a) PROVE IInv'
<1>1. UNCHANGED <<files, rows, issued, deleted, req>> /\ grants' \subseteq grants /\ Saved' = Saved
  BY DEF RevokeAll, Saved
<1>2. TypeOK'
  BY <1>1 DEF IInv, TypeOK
<1>3. ASSUME NEW q \in Proc PROVE GoodRequest(req[q])'
  BY <1>1, OthersStay
<1>4. RowsHaveFiles' /\ OneTokenOneAttachment'
  BY <1>1 DEF IInv, RowsHaveFiles, OneTokenOneAttachment
<1> QED BY <1>2, <1>3, <1>4 DEF IInv

LEMMA FindToDownloadPreserves ==
    ASSUME IInv, NEW p \in Proc, NEW a \in Attachment, NEW u \in User, FindToDownload(p, a, u)
    PROVE  IInv'
<1> DEFINE r == [kind |-> "download", id |-> a, user |-> u, allowed |-> CanRead(a, u),
                 stage |-> IF a \notin Private \/ uploader[a] = u THEN "fetch" ELSE "check"]
<1>1. CanRead(a, u) \in BOOLEAN
  BY DEF CanRead
<1>2. r \in Request
  BY <1>1 DEF Request, DownloadRequest
<1>3. GoodRequest(r)
  BY DEF GoodRequest, CanRead
<1>4. req' = [req EXCEPT ![p] = r] /\ UNCHANGED Tables
  BY DEF FindToDownload, Begin, Tables
<1> QED BY <1>2, <1>3, <1>4, TablesStay

LEMMA FindSharedPreserves ==
    ASSUME IInv, NEW p \in Proc, NEW a \in Attachment, FindShared(p, a) PROVE IInv'
<1> DEFINE r == [kind |-> "download", id |-> a, user |-> Anyone, allowed |-> TRUE,
                 stage |-> "fetch"]
<1>1. r \in Request /\ GoodRequest(r) /\ req' = [req EXCEPT ![p] = r] /\ UNCHANGED Tables
  BY DEF FindShared, Begin, Tables, Request, DownloadRequest, GoodRequest
<1> QED BY <1>1, TablesStay

LEMMA FinishPreserves == ASSUME IInv, NEW p \in Proc, Finish(p), UNCHANGED Tables PROVE IInv'
<1>1. GoodRequest(Idle)
  BY DEF GoodRequest, Idle
<1> QED BY <1>1, IdleIsGood, TablesStay DEF Finish

\* A grant that is found was recorded, or allowed the download from the start.
LEMMA CheckGrantPreserves == ASSUME IInv, NEW p \in Proc, CheckGrant(p) PROVE IInv'
<1>1. UNCHANGED Tables
  BY DEF CheckGrant, Tables
<1>2. CASE Finish(p)
  BY <1>1, <1>2, FinishPreserves
<1>3. CASE ~Finish(p)
  <2> DEFINE r == [req[p] EXCEPT !.stage = "fetch"]
  <2>1. /\ req[p] \in DownloadRequest /\ GoodRequest(req[p]) /\ req[p].kind = "download"
        /\ <<req[p].id, req[p].user>> \in grants /\ req' = [req EXCEPT ![p] = r]
    BY <1>3 DEF CheckGrant, Continue, IInv, TypeOK, Request, UploadRequest, DeleteRequest,
       ShareRequest, SaveRequest, GrantRequest, RevokeRequest, Idle
  <2>2. r \in Request
    BY <2>1 DEF Request, DownloadRequest
  <2>3. GoodRequest(r)
    BY <2>1 DEF GoodRequest, DownloadRequest
  <2> QED BY <1>1, <2>1, <2>2, <2>3, TablesStay
<1> QED BY <1>2, <1>3

LEMMA StutterPreserves == ASSUME IInv, UNCHANGED vars PROVE IInv'
BY DEF IInv, vars, TypeOK, Saved, GoodRequest, RowsHaveFiles, OneTokenOneAttachment

LEMMA NextPreserves == IInv /\ [Next]_vars => IInv'
<1> SUFFICES ASSUME IInv, [Next]_vars
             PROVE  IInv'
  OBVIOUS
<1>1. CASE Storing
  BY <1>1, UploadFilePreserves, FindToDeletePreserves, SaveUploadedPreserves, DeleteFilePreserves
     DEF Storing
<1>2. CASE Flagging
  BY <1>2, FindToSharePreserves, SelectAgainPreserves, SaveSharedPreserves,
     RemoveDraftFlagPreserves DEF Flagging
<1>3. CASE Granting
  BY <1>3, GrantAccessPreserves, GrantNextPreserves, FinishGrantPreserves, RevokeAccessPreserves,
     RevokeNextPreserves, RevokeAllPreserves DEF Granting
<1>4. CASE Downloading
  BY <1>4, FindToDownloadPreserves, FindSharedPreserves, CheckGrantPreserves, FinishPreserves
     DEF Downloading, Fetch, Tables
<1>5. CASE \E p \in Proc : Fail(p)
  BY <1>5, FinishPreserves DEF Fail, Tables
<1>6. CASE UNCHANGED vars
  BY <1>6, StutterPreserves
<1> QED BY <1>1, <1>2, <1>3, <1>4, <1>5, <1>6 DEF Next

\* The inductive invariant holds in every behaviour.
THEOREM Invariance == Spec => []IInv
BY InitIInv, NextPreserves, PTL DEF Spec

-----------------------------------------------------------------------------
\* What follows from it.

\* The tables and the requests keep their types.
THEOREM TypeCorrect == Spec => []TypeOK
<1>1. IInv => TypeOK
  BY DEF IInv
<1> QED BY <1>1, Invariance, PTL

\* A row has its file, unless a delete was asked for.
THEOREM FilesAreThere == Spec => []RowsHaveFiles
<1>1. IInv => RowsHaveFiles
  BY DEF IInv
<1> QED BY <1>1, Invariance, PTL

\* A share token opens one attachment.
THEOREM TokensIdentify == Spec => []OneTokenOneAttachment
<1>1. IInv => OneTokenOneAttachment
  BY DEF IInv
<1> QED BY <1>1, Invariance, PTL

\* Files are fetched for users who could read them at some moment of the download.
THEOREM OnlyReadersDownload == Spec => []DownloadsWereAllowed
<1>1. IInv => DownloadsWereAllowed
  BY DEF IInv, GoodRequest, DownloadsWereAllowed
<1> QED BY <1>1, Invariance, PTL

\* A link that was replaced or withdrawn stays dead: what opens a row changes to a new
\* token or to none.
THEOREM TokensStayDead == Spec => DeadTokensStayDead
<1>1. IInv /\ [Next]_vars => [NewTokens]_vars
  <2> SUFFICES ASSUME IInv, Next PROVE NewTokens
    OBVIOUS
  <2>1. CASE UNCHANGED rows
    BY <2>1 DEF NewTokens, Opening
  <2>2. ASSUME NEW p \in Proc, SaveUploaded(p) PROVE NewTokens
    <3>1. ASSUME NEW a \in Saved
          PROVE  rows'[a] = rows[a] \/ rows'[a] = NewRow(a)
      BY <2>2 DEF SaveUploaded
    <3>2. \A a \in Saved : Opening(NewRow(a)) = NoToken
      BY DEF Opening, NewRow
    <3>3. \A a \in Saved : Opening(rows'[a]) \in {Opening(rows[a]), NoToken}
      BY <3>1, <3>2
    <3> QED BY <3>3 DEF NewTokens
  <2>3. ASSUME NEW p \in Proc, SaveShared(p) PROVE NewTokens
    <3>1. PICK a : a = req[p].id
      OBVIOUS
    <3>2. /\ a \in Saved /\ issued \in Nat /\ \A b \in Saved : b # a => rows'[b] = rows[b]
          /\ \/ rows'[a].token = issued + 1
             \/ /\ rows'[a].token \in {NoToken, rows[a].token}
                /\ (rows'[a].shared => rows[a].shared)
      BY <2>3, <3>1, SavedRow
    <3>3. PICK old, new : old = rows[a] /\ new = rows'[a]
      OBVIOUS
    <3>4. \/ new.token = issued + 1
          \/ new.token \in {NoToken, old.token} /\ (new.shared => old.shared)
      BY <3>2, <3>3
    <3>5. Opening(new) \in {Opening(old), NoToken, issued + 1} /\ issued + 1 > issued
      <4>1. CASE new.shared
        <5>1. Opening(new) = new.token
          BY <4>1 DEF Opening
        <5>2. old.shared => Opening(old) = old.token
          BY DEF Opening
        <5> QED BY <3>2, <3>4, <4>1, <5>1, <5>2
      <4>2. CASE ~new.shared
        BY <3>2, <4>2 DEF Opening
      <4> QED BY <4>1, <4>2
    <3>6. \A b \in Saved : b # a => Opening(rows'[b]) = Opening(rows[b])
      BY <3>2
    <3> QED BY <3>2, <3>3, <3>5, <3>6 DEF NewTokens
  <2>4. ASSUME NEW ids, rows' = Published(ids) PROVE NewTokens
    <3>1. \A a \in Saved : rows'[a].token = rows[a].token /\ rows'[a].shared = rows[a].shared
      BY <2>4, PublishedRows DEF IInv
    <3> QED BY <3>1 DEF NewTokens, Opening
  <2>5. CASE Storing
    BY <2>1, <2>2, <2>5 DEF Storing, UploadFile, FindToDelete, DeleteFile
  <2>6. CASE Flagging
    BY <2>1, <2>3, <2>4, <2>6 DEF Flagging, FindToShare, SelectAgain, RemoveDraftFlag
  <2>7. CASE Granting
    <3>1. ASSUME NEW p \in Proc, NEW a, NEW u, NEW r, SaveGrant(p, r, a, u) PROVE NewTokens
      BY <2>1, <3>1 DEF SaveGrant
    <3>2. ASSUME NEW p \in Proc, NEW a, NEW u, NEW users, DeleteGrant(p, a, users, u)
          PROVE  NewTokens
      BY <2>1, <3>2 DEF DeleteGrant
    <3>3. ASSUME NEW p \in Proc, FinishGrant(p) PROVE NewTokens
      BY <2>4, <3>3 DEF FinishGrant
    <3>4. ASSUME NEW a, RevokeAll(a) PROVE NewTokens
      BY <2>1, <3>4 DEF RevokeAll
    <3> HIDE DEF NewTokens
    <3> QED BY <2>7, <3>1, <3>2, <3>3, <3>4 DEF Granting, GrantAccess, GrantNext, RevokeAccess,
          RevokeNext
  <2>8. CASE Downloading
    BY <2>1, <2>8 DEF Downloading, FindToDownload, FindShared, CheckGrant, Fetch
  <2>9. CASE \E p \in Proc : Fail(p)
    BY <2>1, <2>9 DEF Fail
  <2> QED BY <2>5, <2>6, <2>7, <2>8, <2>9 DEF Next
<1> QED BY <1>1, Invariance, PTL DEF Spec, DeadTokensStayDead

=============================================================================
