CONSTANTS
    User = {u1, u2}
    TokenId = {t1, t2}
    Proc = {p1, p2}
    NoUser = NoUser
    NoId = NoId

SPECIFICATION Spec
SYMMETRY Symmetry

PROPERTIES
    OwnKeysOnly
    ImplementsSessions
