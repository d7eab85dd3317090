SPECIFICATION Spec
CONSTANTS
    User = {u1}
    Request = {r1, r2}
    Cart = {c1, c2}
    Line = {l1}
    Visit = {v1, v2}
    NoCart = NoCart
    NoUser = NoUser
    PoolSize = 3
    MaxCrashes = 1
SYMMETRY Symmetry
INVARIANTS
    AnsweredMeansComplete
    NoTransactionLeftOpen
    CommittedOrderRetiresCart
    LostCartHasCulprit
    IInv
PROPERTIES
    CommitIsFinal
    NoResale
    KeepsPromise
CHECK_DEADLOCK FALSE
