---------------------------- MODULE BookingLedger ----------------------------
(***************************************************************************)
(* What the booking API promises when requests do not overlap in time:     *)
(* every handler of BookingsService, the two cron jobs and the room        *)
(* handlers of RoomsService, each with the listener it triggers, as one    *)
(* step over the Booking and Room tables.  BookingService splits these     *)
(* steps at every await and implements this module when one request is     *)
(* served at a time.                                                       *)
(***************************************************************************)
EXTENDS BookingRules

VARIABLES
    now,    \* the clock the handlers and the validators read
    room,   \* the Room table
    rows,   \* the Booking table
    mail    \* the last result mail sent about each booking to its creator

vars == <<now, room, rows, mail>>

TypeOK ==
    /\ now \in Time
    /\ room \in [Room -> RoomState]
    /\ rows \in [Booking -> Row]
    /\ mail \in [Booking -> Mail]

-----------------------------------------------------------------------------
(* Every booking of B is rejected by that administrator.                   *)
RejectAll(rs, B, admin, t) ==
    [b \in Booking |-> IF b \in B THEN Decided(rs[b], "reject", admin, t)
                                  ELSE rs[b]]

(* What the two cron jobs look for.                                        *)
Expired(b) == rows[b].status = "pending" /\ rows[b].end <= now

Outdated(b) == /\ rows[b].status \in {"reject", "cancel"}
               /\ rows[b].updatedAt + KeepTime <= now

(* Mutants of the actions below.                                           *)

CreateUnchecked(b, u, r, s, e) ==
    /\ rows[b].status = "unborn"
    /\ now <= s /\ s < e
    /\ room[r] = "enabled"
    /\ rows' = [rows EXCEPT ![b] = NewRow(u, r, s, e, now)]
    /\ UNCHANGED <<now, room, mail>>

UserUpdateOldRoom(b, u, p) ==
    /\ rows[b].status = "pending"
    /\ rows[b].creator = u
    /\ ValidPatch(p, now)
    /\ p.room \in Room => room[p.room] = "enabled"
    /\ AsksForSlot(p) =>
          Overlapping(rows, "approved", rows[b].room,
                      Given(p.start, rows[b].start),
                      Given(p.end, rows[b].end)) = {}
    /\ rows' = [rows EXCEPT ![b] = Patched(rows[b], p, now)]
    /\ UNCHANGED <<now, room, mail>>

ConfirmAgain(b, u, decision) ==
    /\ rows[b].status \in {"pending", "cancel"}
    /\ LET losers == IF decision = "approved"
                     THEN Overlapping(rows, "pending", rows[b].room,
                                      rows[b].start, rows[b].end) \ {b}
                     ELSE {}
           decided == [rows EXCEPT ![b] = Decided(@, decision, u, now)]
       IN  /\ rows' = RejectAll(decided, losers, u, now)
           /\ mail' = Sent(Sent(mail, {b}, decision), losers, "reject")
    /\ UNCHANGED <<now, room>>

CancelStarted(b, u) ==
    /\ rows[b].status \in {"pending", "approved"}
    /\ rows[b].creator = u \/ u \in Approvers
    /\ rows' = [rows EXCEPT ![b] = Cancelled(@, u, now)]
    /\ mail' = IF rows[b].creator = u THEN mail ELSE Sent(mail, {b}, "cancel")
    /\ UNCHANGED <<now, room>>

RejectExpiredSilently ==
    LET expired == {b \in Booking : Expired(b)}
    IN  /\ expired # {}
        /\ rows' = [b \in Booking |-> IF b \in expired
                                      THEN Moved(rows[b], "reject", now)
                                      ELSE rows[b]]
        /\ UNCHANGED <<now, room, mail>>

RemoveBookedRoom(r) ==
    /\ RoomExists(room[r])
    /\ room' = [room EXCEPT ![r] = "deleted"]
    /\ UNCHANGED <<now, rows, mail>>

-----------------------------------------------------------------------------
(* POST /bookings.                                                         *)
CreateBooking(b, u, r, s, e) ==
    /\ rows[b].status = "unborn"
    /\ now <= s /\ s < e
    /\ room[r] = "enabled"
    /\ Overlapping(rows, "approved", r, s, e) = {}
    /\ LET losers == IF u \in Approvers
                     THEN Overlapping(rows, "pending", r, s, e)
                     ELSE {}
           created == [rows EXCEPT ![b] = NewRow(u, r, s, e, now)]
       IN  /\ rows' = RejectAll(created, losers, u, now)
           /\ mail' = Sent(mail, losers, "reject")
    /\ UNCHANGED <<now, room>>

(* PATCH /bookings/:id.                                                    *)
UserUpdate(b, u, p) ==
    /\ rows[b].status = "pending"
    /\ rows[b].creator = u
    /\ ValidPatch(p, now)
    /\ p.room \in Room => room[p.room] = "enabled"
    /\ AsksForSlot(p) =>
          Overlapping(rows, "approved", AskedRoom(p, rows[b]),
                      Given(p.start, rows[b].start),
                      Given(p.end, rows[b].end)) = {}
    /\ rows' = [rows EXCEPT ![b] = Patched(rows[b], p, now)]
    /\ UNCHANGED <<now, room, mail>>

(* PATCH /bookings/:id/status.  Neither the slot nor the room is looked at *)
(* again: an approval relies on what earlier requests left behind.         *)
Confirm(b, u, decision) ==
    /\ rows[b].status = "pending"
    /\ LET decided == [rows EXCEPT ![b] = Decided(@, decision, u, now)]
           losers  == IF decision = "approved"
                      THEN Overlapping(decided, "pending", rows[b].room,
                                       rows[b].start, rows[b].end)
                      ELSE {}
       IN  /\ rows' = RejectAll(decided, losers, u, now)
           /\ mail' = Sent(Sent(mail, {b}, decision), losers, "reject")
    /\ UNCHANGED <<now, room>>

(* PATCH /bookings/:id/cancel.                                             *)
Cancel(b, u) ==
    /\ rows[b].status \in {"pending", "approved"}
    /\ now <= rows[b].start
    /\ rows[b].creator = u \/ u \in Approvers
    /\ rows' = [rows EXCEPT ![b] = Cancelled(@, u, now)]
    /\ mail' = IF rows[b].creator = u THEN mail ELSE Sent(mail, {b}, "cancel")
    /\ UNCHANGED <<now, room>>

(* The ten-minute cron job.                                                *)
RejectExpired ==
    LET expired == {b \in Booking : Expired(b)}
    IN  /\ expired # {}
        /\ rows' = [b \in Booking |-> IF b \in expired
                                      THEN Moved(rows[b], "reject", now)
                                      ELSE rows[b]]
        /\ mail' = Sent(mail, expired, "reject")
        /\ UNCHANGED <<now, room>>

(* The midnight cron job.                                                  *)
DeleteOld ==
    LET old == {b \in Booking : Outdated(b)}
    IN  /\ old # {}
        /\ rows' = [b \in Booking |-> IF b \in old THEN NoRow("deleted")
                                                   ELSE rows[b]]
        /\ UNCHANGED <<now, room, mail>>

(* POST /rooms and PATCH /rooms/:id {isEnable: true}.                      *)
CreateRoom(r, state) ==
    /\ room[r] = "unborn"
    /\ room' = [room EXCEPT ![r] = state]
    /\ UNCHANGED <<now, rows, mail>>

EnableRoom(r) ==
    /\ RoomExists(room[r])
    /\ room' = [room EXCEPT ![r] = "enabled"]
    /\ UNCHANGED <<now, rows, mail>>

(* PATCH /rooms/:id {isEnable: false}: bookings that have not started go   *)
(* back to pending, and are not looked at again when the room is enabled.  *)
DisableRoom(r) ==
    /\ RoomExists(room[r])
    /\ room' = [room EXCEPT ![r] = "disabled"]
    /\ LET moved == {b \in Booking : /\ rows[b].status = "approved"
                                     /\ rows[b].room = r
                                     /\ now <= rows[b].start}
       IN  /\ rows' = [b \in Booking |-> IF b \in moved
                                         THEN Moved(rows[b], "pending", now)
                                         ELSE rows[b]]
           /\ mail' = Sent(mail, moved, "pending")
    /\ UNCHANGED now

(* DELETE /rooms/:id.                                                      *)
RemoveRoom(r) ==
    /\ RoomExists(room[r])
    /\ \A b \in Booking : rows[b].room # r
    /\ room' = [room EXCEPT ![r] = "deleted"]
    /\ UNCHANGED <<now, rows, mail>>

Tick ==
    /\ now < MaxTime
    /\ now' = now + 1
    /\ UNCHANGED <<room, rows, mail>>

-----------------------------------------------------------------------------
Init ==
    /\ now = 0
    /\ room = [r \in Room |-> "unborn"]
    /\ rows = [b \in Booking |-> NoRow("unborn")]
    /\ mail = [b \in Booking |-> "none"]

Next ==
    \/ \E b \in Booking, u \in User, r \in Room, s, e \in Time :
          CreateBooking(b, u, r, s, e)
    \/ \E b \in Booking, u \in User, p \in Patch : UserUpdate(b, u, p)
    \/ \E b \in Booking, u \in Confirmers, d \in {"approved", "reject"} :
          Confirm(b, u, d)
    \/ \E b \in Booking, u \in User : Cancel(b, u)
    \/ RejectExpired
    \/ DeleteOld
    \/ \E r \in Room, state \in {"enabled", "disabled"} : CreateRoom(r, state)
    \/ \E r \in Room : EnableRoom(r)
    \/ \E r \in Room : DisableRoom(r)
    \/ \E r \in Room : RemoveRoom(r)
    \/ Tick

Spec == Init /\ [][Next]_vars

-----------------------------------------------------------------------------
(* Two approved bookings of one room never share an instant.               *)
NoDoubleBooking ==
    \A a, b \in Booking :
        /\ a # b
        /\ rows[a].status = "approved" /\ rows[b].status = "approved"
        /\ rows[a].room = rows[b].room /\ rows[a].room \in Room
        => ~ Clash(rows[a], rows[b])

(* No request that clashes with an approved booking is left pending.  This *)
(* is what lets adminConfirmBooking approve without an overlap query.      *)
ApprovedSlotIsClear ==
    \A a, b \in Booking :
        /\ rows[a].status = "approved" /\ rows[b].status = "pending"
        /\ rows[a].room = rows[b].room /\ rows[a].room \in Room
        => ~ Clash(rows[a], rows[b])

(* A booking points to a row of the Room table or to none: removeRoom only *)
(* deletes a room no booking of any status points to.                      *)
RoomsExist ==
    \A b \in Booking : rows[b].room \in Room => RoomExists(room[rows[b].room])

(* What the creator was last told agrees with the status.  An approved     *)
(* booking without a mail was approved as its creator created it, and a    *)
(* creator is not written to about a cancellation of their own.            *)
MailTellsStatus ==
    \A b \in Booking :
        CASE rows[b].status = "reject"   -> mail[b] = "reject"
          [] rows[b].status = "approved" ->
                \/ mail[b] = "approved"
                \/ mail[b] = "none" /\ rows[b].modifiedBy = rows[b].creator
          [] rows[b].status = "pending"  -> mail[b] \in {"none", "pending"}
          [] rows[b].status = "cancel"   -> mail[b] # "reject"
          [] rows[b].status = "unborn"   -> mail[b] = "none"
          [] OTHER                       -> TRUE

(* A rejected or cancelled booking is never written to again: the next     *)
(* thing that happens to its row is the deletion.                          *)
DecisionsAreFinal ==
    [][\A b \in Booking :
          rows[b].status \in {"reject", "cancel"} =>
             \/ rows'[b] = rows[b]
             \/ rows'[b].status = "deleted"
                /\ rows[b].updatedAt + KeepTime <= now]_vars

(* Once an approved booking has started nothing changes its row, and       *)
(* before that it is only cancelled or, when its room is disabled, sent    *)
(* back to pending: its slot is never moved while it is approved.          *)
ApprovalStands ==
    [][\A b \in Booking :
          rows[b].status = "approved" /\ rows'[b] # rows[b] =>
             /\ now <= rows[b].start
             /\ \/ rows'[b].status = "cancel"
                \/ /\ rows'[b].status = "pending"
                   /\ rows[b].room \in Room
                   /\ room'[rows[b].room] = "disabled"
             /\ rows'[b].room = rows[b].room
             /\ rows'[b].start = rows[b].start
             /\ rows'[b].end = rows[b].end]_vars

(* An approval turns down the requests for its own slot only: each booking *)
(* rejected in the step that approves a is in its room and shares an       *)
(* instant with it, unless a start moved past its end left one of the two  *)
(* without any instant.                                                    *)
OnlyClashesLose ==
    [][\A a, b \in Booking :
          /\ rows[a].status # "approved" /\ rows'[a].status = "approved"
          /\ rows[b].status = "pending"  /\ rows'[b].status = "reject"
          => /\ rows'[a].room = rows[b].room
             /\ \/ Clash(rows'[a], rows[b])
                \/ rows'[a].end <= rows'[a].start
                \/ rows[b].end <= rows[b].start]_vars

=============================================================================
