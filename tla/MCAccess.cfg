SPECIFICATION Spec
CONSTANTS
    p1 = p1
    p2 = p2
    None = None
    Process <- MCProcess
    Ident <- MCIdent
    DefaultIdents <- MCDefaultIdents
    Customer = {u1}
    NewRole = {r1}
    Grants <- MCGrants
    Client = {c1}
INVARIANTS
    TypeOK
    AdminAfterRestart
    AdmittedIsAllowed
    PermissionsAreGiven
