SPECIFICATION Spec
CONSTANTS
    User = {u1}
    Inactive = {}
    Request = {p1, p2}
    MaxTime = 2
    RefreshLife = 2
    LinkLife = 2
    MaxCrashes = 1
    None = None
SYMMETRY SessionsSymmetry
CHECK_DEADLOCK FALSE
INVARIANTS TypeOK DeadTokensStayDead SpentLinksStaySpent LinkIsMailed SessionIsHeld EveryAccountHasAWayIn
