SPECIFICATION Spec
CONSTANTS
    User = {u1}
    File = {f1, f2, f3}
    Default = Default
    Name = {n1, n2}
    Request = {p1, p2}
    MaxCrashes = 1
    None = None
SYMMETRY ProfilesSymmetry
CHECK_DEADLOCK FALSE
INVARIANTS TypeOK AvatarExists NoLeftovers CachesAreFresh
