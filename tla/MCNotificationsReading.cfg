CONSTANTS
    u1 = u1
    r1 = r1
    r2 = r2
    h1 = h1
    h2 = h2
    h3 = h3
    NEvent = 2
    payload <- MCPayload
    User <- MCUser
    Replica = {r1}
    Handler = {h1}
    replica <- MCreplicaReading
    Proc = {p1, p2}
    PageSize = 1
    MaxFails <- MCMaxFailsReading
    MaxDowns = 0
    None = None

SPECIFICATION Spec
SYMMETRY SymmetryReading

INVARIANT
    SeenWasListed

PROPERTY
    ReadStaysRead
