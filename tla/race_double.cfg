SPECIFICATION Spec
CONSTANTS
    Booking = {b1, b2}
    Room = {r1}
    User = {admin, staff}
    Approvers = {admin}
    Confirmers = {admin}
    MaxTime = 1
    KeepTime = 1
    NoRoom = NoRoom
    NoUser = NoUser
    Keep = Keep
    Request = {p1, p2}
    Ops = {"create", "confirm", "createRoom"}
    Body <- NoBody
    Cron = {}
    MaxCrashes = 0
    None = None
SYMMETRY ServiceSymmetry
CHECK_DEADLOCK FALSE
INVARIANT NoDoubleBooking
