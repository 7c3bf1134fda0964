SPECIFICATION Spec
CONSTANTS
    Booking = {b1, b2}
    Room = {r1, r2}
    User = {admin, staff}
    Approvers = {admin}
    Confirmers = {admin}
    MaxTime = 2
    KeepTime = 1
    NoRoom = NoRoom
    NoUser = NoUser
    Keep = Keep
    MaxRows = 5
    DayLength = 2
SYMMETRY BookingSymmetry
CHECK_DEADLOCK FALSE
INVARIANTS TypeOK NoDoubleBooking ApprovedSlotIsClear RoomsExist MailTellsStatus PagesCoverTable CalendarIsWhole
PROPERTIES DecisionsAreFinal ApprovalStands OnlyClashesLose
