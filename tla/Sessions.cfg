SPECIFICATION FairSpec
CONSTANTS
    Load = {l1, l2}
    Refresh = {r1, r2}
    Call = {c1}
    Admin = FALSE
    Life = 1
    Grace = 0
    None = None
    MaxNow = 2
INVARIANTS
    IInv
    WhoSignedInIsSignedIn
    RefreshOnlyAcrossASecond
PROPERTIES
    EveryCallIsAnswered
CHECK_DEADLOCK FALSE
