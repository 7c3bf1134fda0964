SPECIFICATION Spec
CONSTANTS
    Role = {staff, editor}
    SystemRole = {staff}
    User = {u1}
    Grant = {g1, g2}
    Seed <- AllSeeded
    Body <- ShortBody
    Called = {u1}
    Request = {p1, p2}
    Ops = {"createRole", "removeRole", "grantRole", "assignRole"}
    NoRole = NoRole
    None = None
SYMMETRY AccessSymmetry
CHECK_DEADLOCK FALSE
INVARIANT RolesExist
PROPERTY RoleGetsRequest
