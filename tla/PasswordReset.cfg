SPECIFICATION Spec
CONSTANTS
    User = {u1, u2}
    Browser = {b1, b2}
    Forgot = {f1, f2, f3}
    Reset = {r1, r2}
    None = None
    MaxFaults = 1
INVARIANTS
    IInv
    TokensAreSpent
    NewestLinkWorks
SYMMETRY Symmetry
CHECK_DEADLOCK FALSE
