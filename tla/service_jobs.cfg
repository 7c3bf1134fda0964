SPECIFICATION JobsSpec
CONSTANTS
    Booking = {b1, b2}
    Room = {r1}
    User = {admin, staff}
    Approvers = {admin}
    Confirmers = {admin}
    MaxTime = 2
    KeepTime = 1
    NoRoom = NoRoom
    NoUser = NoUser
    Keep = Keep
    Request = {p1}
    Ops = {"create", "confirm", "cancel", "createRoom"}
    Body <- NoBody
    Cron = {"rejectExpired"}
    MaxCrashes = 0
    None = None
SYMMETRY ServiceSymmetry
CHECK_DEADLOCK FALSE
INVARIANTS NoDoubleBooking ApprovedSlotIsClear
