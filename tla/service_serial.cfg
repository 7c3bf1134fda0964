SPECIFICATION SerialSpec
CONSTANTS
    Booking = {b1, b2}
    Room = {r1}
    User = {admin, staff}
    Approvers = {admin}
    Confirmers = {admin}
    MaxTime = 1
    KeepTime = 1
    NoRoom = NoRoom
    NoUser = NoUser
    Keep = Keep
    Request = {p1}
    Ops = {"create", "update", "confirm", "cancel", "createRoom", "updateRoom", "removeRoom"}
    Body <- RoomBody
    Cron = {"rejectExpired", "deleteOld"}
    MaxCrashes = 0
    None = None
SYMMETRY ServiceSymmetry
CHECK_DEADLOCK FALSE
INVARIANT CachesAreFresh
PROPERTY ImplementsLedger
