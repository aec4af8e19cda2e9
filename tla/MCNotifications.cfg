CONSTANTS
    u1 = u1
    r1 = r1
    r2 = r2
    h1 = h1
    h2 = h2
    h3 = h3
    NEvent = 2
    payload <- MCPayload
    User <- MCUser
    Replica = {r1, r2}
    Handler = {h1, h2, h3}
    replica <- MCreplica
    Proc = {}
    PageSize = 1
    MaxFails <- MCMaxFails
    MaxDowns = 2
    None = None

SPECIFICATION FairSpec

INVARIANTS
    TypeOK
    DuplicatesNeedFailures

PROPERTIES
    SettledWasNotified
    EventuallySettled
