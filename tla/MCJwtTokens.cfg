CONSTANTS
    User = {u1}
    TokenId = {t1, t2, t3}
    Proc = {p1, p2}
    NoUser = NoUser
    NoId = NoId

SPECIFICATION Spec
SYMMETRY Symmetry

INVARIANTS
    TypeOK
    ExchangedOnce
    RevokedStayGone

PROPERTIES
    NoStranding
