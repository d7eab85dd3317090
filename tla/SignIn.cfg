SPECIFICATION Spec
CONSTANTS
    User = {u1, u2}
    GoogleUser = {u2}
    Login = {l1, l2}
    Exchange = {x1, x2}
    Enable = {e1, e2}
    None = None
    MaxFaults = 1
INVARIANTS
    IInv
    PasswordAloneIsNotEnough
    OneSessionPerCode
    LastSecretWorks
SYMMETRY Symmetry
CHECK_DEADLOCK FALSE
