SPECIFICATION Spec
CONSTANTS
    p1 = p1
    Call = {k1, k2, k3}
    User = {u1, u2}
    Product = {p1}
    MaxCarts = 2
    Guest = {g1}
    MaxTempCarts = 2
    MaxTempItems = 2
    MaxItems = 3
    MaxQuantity = 1
    Price <- OnePrice
    NewPrice <- OnePromo
    Concurrency = 2
    MaxFaults = 1
    MaxReprices = 1
    MaxWithdrawals = 0
    MaxRemovals = 1
    MaxCheckouts = 1
    MaxEvents = 2
SYMMETRY Symmetry
INVARIANTS
    IInv
    AddedOnce
    OneCartPerGuest
PROPERTIES
    RowsStayPut
CHECK_DEADLOCK FALSE
