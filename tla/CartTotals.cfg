SPECIFICATION HistorySpec
CONSTANTS
    p1 = p1
    Call = {k1, k2, k3}
    User = {u1, u2}
    Product = {p1}
    MaxCarts = 2
    Guest = {}
    MaxTempCarts = 0
    MaxTempItems = 0
    MaxItems = 2
    MaxQuantity = 1
    Price <- OnePrice
    NewPrice <- OnePromo
    Concurrency = 2
    MaxFaults = 1
    MaxReprices = 1
    MaxWithdrawals = 1
    MaxRemovals = 1
    MaxCheckouts = 1
    MaxEvents = 1
SYMMETRY Symmetry
INVARIANTS
    HistoryInv
    TotalsAgree
    OneRowPerProduct
CHECK_DEADLOCK FALSE
