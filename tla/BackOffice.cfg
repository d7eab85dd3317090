SPECIFICATION Spec
CONSTANTS
    p1 = p1
    a1 = a1
    c1 = c1
    c2 = c2
    m1 = m1
    None = None
    Product = {p1}
    Author = {a1}
    Category = {c1, c2}
    Promotion = {m1}
    Stocked = {a1}
    Order = {o1}
    Status = {"PENDING", "SHIPPING"}
    Tab = {t1, t2}
    MaxPages = 2
    MaxChanges = 1
SYMMETRY Symmetry
INVARIANTS
    IInv
    ReferencesResolve
    ListingIsSubtree
PROPERTIES
    EditsKeepTheRest
    PaidStaysPaid
CHECK_DEADLOCK FALSE
