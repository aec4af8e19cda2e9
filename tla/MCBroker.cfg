CONSTANTS
    Gateway = {g1, g2}
    NEvent = 3
    Prefetch = 2
    Poison <- MCPoison
    MaxDowns = 2

SPECIFICATION FairSpec

INVARIANTS
    TypeOK
    Conserved
    StartupLossBounded

PROPERTIES
    DeliversAtLeastOnce
    EventuallySettled

CHECK_DEADLOCK FALSE
