CONSTANTS
    a1 = a1
    a2 = a2
    u1 = u1
    u2 = u2
    Attachment <- MCAttachment
    uploader <- MCUploader
    Private = {a1}
    Draft = {a1}
    User <- MCUser
    Lists = {{a1, a2}}
    Audiences = {{u1, u2}}
    Proc = {p1, p2}
    MaxTokens = 2

SPECIFICATION Spec

SYMMETRY Symmetry

INVARIANTS
    TypeOK
    RowsHaveFiles
    OneTokenOneAttachment
    DownloadsWereAllowed

PROPERTIES
    DeadTokensStayDead
