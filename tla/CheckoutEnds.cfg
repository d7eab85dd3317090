SPECIFICATION FairSpec
CONSTANTS
    User = {u1}
    Request = {r1, r2}
    Cart = {c1, c2}
    Line = {l1}
    Visit = {v1}
    NoCart = NoCart
    NoUser = NoUser
    PoolSize = 3
    MaxCrashes = 0
PROPERTIES
    EveryCheckoutEnds
CHECK_DEADLOCK FALSE
