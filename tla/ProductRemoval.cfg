SPECIFICATION FairSpec
CONSTANTS
    Product = {p1}
    Removal = {r1, r2}
    UserAdd = {k1, k2}
    GuestAdd = {g1}
    MaxFaults = 2
INVARIANTS
    IInv
    OnlyRacersRemain
    PurgeHasCulprit
PROPERTIES
    EveryRemovalEnds
CHECK_DEADLOCK FALSE
