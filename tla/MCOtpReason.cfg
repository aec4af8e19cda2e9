CONSTANTS
    u1 = u1
    u2 = u2
    email1 = email1
    email2 = email2
    User <- MCUser
    Dest <- MCDest
    Owner <- MCOwner
    Seeded <- MCSeeded
    OtpId = {o1, o2}
    Code = {c1, c2}
    Proc = {p1, p2}
    NoDest = NoDest
    NoOtp = NoOtp

SPECIFICATION Spec
SYMMETRY Symmetry

INVARIANTS
    ReasonRespected
