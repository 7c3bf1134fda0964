SPECIFICATION FairSpec
CONSTANTS
    Booking = {b1}
    Room = {r1}
    User = {admin, staff}
    Approvers = {admin}
    Confirmers = {admin}
    MaxTime = 1
    KeepTime = 1
    NoRoom = NoRoom
    NoUser = NoUser
    Keep = Keep
    Request = {p1}
    Ops = {"create", "confirm", "cancel", "createRoom", "updateRoom"}
    Body <- NoBody
    Cron = {"rejectExpired", "deleteOld"}
    MaxCrashes = 1
    None = None
CHECK_DEADLOCK FALSE
PROPERTIES PendingIsDecided OldAreDeleted
