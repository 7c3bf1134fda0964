SPECIFICATION Spec
CONSTANTS
    Role = {staff}
    SystemRole = {staff}
    User = {u1}
    Grant = {g1, g2}
    Seed <- AllSeeded
    Body <- PlainBody
    Called = {u1}
    Request = {p1}
    Ops = {"grantRole", "ask"}
    NoRole = NoRole
    None = None
SYMMETRY AccessSymmetry
CHECK_DEADLOCK FALSE
INVARIANT GuardIsCurrent
