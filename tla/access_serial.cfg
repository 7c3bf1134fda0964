SPECIFICATION Spec
CONSTANTS
    Role = {staff, editor}
    SystemRole = {staff}
    User = {u1, u2}
    Grant = {g1}
    Seed <- AllSeeded
    Body <- AnyBody
    Called = {u1}
    Request = {p1}
    Ops = {"createRole", "removeRole", "grantRole", "grantUser", "assignRole", "ask"}
    NoRole = NoRole
    None = None
SYMMETRY AccessSymmetry
CHECK_DEADLOCK FALSE
INVARIANTS TypeOK CachesAreFresh
PROPERTIES UserGetsRequest
