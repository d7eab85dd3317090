SPECIFICATION Spec
CONSTANTS
    p1 = p1
    Call = {k1, k2}
    User = {u1, u2}
    Product = {p1}
    MaxCarts = 2
    Guest = {}
    MaxTempCarts = 0
    MaxTempItems = 0
    MaxItems = 2
    MaxQuantity = 2
    Price <- OnePrice
    NewPrice <- OnePromo
    Concurrency = 1
    MaxFaults = 0
    MaxReprices = 0
    MaxWithdrawals = 0
    MaxRemovals = 0
    MaxCheckouts = 0
    MaxEvents = 2
SYMMETRY Symmetry
PROPERTIES
    AddedToOwnCart
CHECK_DEADLOCK FALSE
