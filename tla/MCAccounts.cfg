CONSTANTS
    email1 = email1
    email2 = email2
    mobile1 = mobile1
    User = {admin, u1}
    Admin = admin
    Email <- MCEmail
    Mobile <- MCMobile
    AdminIdent <- MCAdminIdent
    Password = {pw1}
    Role = {}
    Attachment = {a1}
    Proc = {p1}
    None = None
    AllowUnverifiedSignin = FALSE
    AllowImpersonation = TRUE

SPECIFICATION Spec

INVARIANTS
    TypeOK
    VerifiedIsProven
    PasswordNeedsProof

PROPERTIES
    VerifiedStays
    AvatarStaysWhole
