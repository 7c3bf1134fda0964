---------------------------- MODULE BookingRules ----------------------------
(***************************************************************************)
(* The data of the booking system and the pure functions every handler is  *)
(* built from: the rows of the Booking table, the overlap query, and what  *)
(* each kind of write does to one row.  BookingLedger (one handler at a    *)
(* time) and BookingService (handlers interleaved at every await) share it.*)
(***************************************************************************)
EXTENDS Integers

CONSTANTS
    Booking,    \* booking ids; the table hands each of them out at most once
    Room,       \* room ids
    User,       \* registered users, all of whom may request bookings
    Approvers,  \* users whose ROLE holds booking_request/update
    Confirmers, \* users the permission GUARD lets through for the same right
    MaxTime,    \* bound on the clock
    KeepTime,   \* RejectedBookingRequestDeletedLimit, in clock units
    NoRoom,     \* the null roomId
    NoUser,     \* the null modifiedByAdminId
    Keep        \* a field that is absent from the body of a PATCH

ASSUME RulesAssumption ==
    /\ Approvers \subseteq User
    /\ Confirmers \subseteq User
    /\ MaxTime \in Nat
    /\ KeepTime \in Nat
    /\ NoRoom \notin Room
    /\ NoUser \notin User
    /\ Keep \notin Room \cup {NoRoom} \cup (0..MaxTime)

Time == 0..MaxTime

Status == {"pending", "approved", "reject", "cancel"}

(* "unborn" and "deleted" say that the table has no row for the id: not    *)
(* yet, or not any more.                                                   *)
Row == [status     : Status \cup {"unborn", "deleted"},
        room       : Room \cup {NoRoom},
        start      : Time,
        end        : Time,
        creator    : User \cup {NoUser},
        modifiedBy : User \cup {NoUser},
        updatedAt  : Time]

NoRow(status) ==
    [status |-> status, room |-> NoRoom, start |-> 0, end |-> 0,
     creator |-> NoUser, modifiedBy |-> NoUser, updatedAt |-> 0]

Live(row) == row.status \in Status

(* What a room id stands for: the Room table's isEnable, or no such row.   *)
RoomState == {"unborn", "enabled", "disabled", "deleted"}

RoomExists(state) == state \in {"enabled", "disabled"}

(* The template of the last result mail the creator of a booking got.      *)
Mail == {"none", "pending", "approved", "reject", "cancel"}

-----------------------------------------------------------------------------
(* A mutant: the end of the slot counts as part of it.                     *)

InSlotInclusive(row, s, e) ==
    \/ row.start <= s /\ row.end >= e
    \/ row.start >= s /\ row.start <= e
    \/ row.end > s /\ row.end <= e

-----------------------------------------------------------------------------
(* The OR of the overlap query: the row covers [s, e), starts inside it,   *)
(* or ends inside it.                                                      *)
InSlot(row, s, e) ==
    \/ row.start <= s /\ row.end >= e
    \/ row.start >= s /\ row.start < e
    \/ row.end > s /\ row.end <= e

(* existBookingOverlap: the ids of the rows of that status in that room    *)
(* that the query finds for [s, e).                                        *)
Overlapping(rs, status, r, s, e) ==
    {b \in Booking : /\ rs[b].status = status
                     /\ rs[b].room = r
                     /\ InSlot(rs[b], s, e)}

(* What the query is meant to decide: some instant belongs to both.        *)
Clash(x, y) == /\ x.start < x.end
               /\ y.start < y.end
               /\ x.start < y.end
               /\ y.start < x.end

-----------------------------------------------------------------------------
(* The writes to one row.                                                  *)

(* create: approved at once when the creator's role may approve.           *)
NewRow(u, r, s, e, t) ==
    [status     |-> IF u \in Approvers THEN "approved" ELSE "pending",
     room       |-> r,
     start      |-> s,
     end        |-> e,
     creator    |-> u,
     modifiedBy |-> IF u \in Approvers THEN u ELSE NoUser,
     updatedAt  |-> t]

(* A decision that records who took it.                                    *)
Decided(row, status, admin, t) ==
    [row EXCEPT !.status = status, !.modifiedBy = admin, !.updatedAt = t]

(* A change of status that leaves modifiedByAdminId alone.                 *)
Moved(row, status, t) ==
    [row EXCEPT !.status = status, !.updatedAt = t]

(* The bodies of PATCH /bookings/:id: UserUpdateBookingDto makes every     *)
(* field of CreateBookingDto optional, and null is let through as well,    *)
(* which only roomId can be set to.                                        *)
Patch == [room  : Room \cup {NoRoom, Keep},
          start : Time \cup {Keep},
          end   : Time \cup {Keep}]

(* MinDate on startTime, GreaterThan('startTime') on endTime: an endTime   *)
(* is compared with the startTime of the SAME body, so that it is refused  *)
(* alone, and a startTime alone is compared with nothing but the clock.    *)
ValidPatch(p, t) ==
    /\ p.start # Keep => t <= p.start
    /\ p.end # Keep => p.start # Keep /\ p.start < p.end

Given(value, old) == IF value = Keep THEN old ELSE value

PatchedBlindly(row, p, t) ==
    [row EXCEPT !.room = p.room, !.start = p.start, !.end = p.end,
                !.updatedAt = t]

Patched(row, p, t) ==
    [row EXCEPT !.room      = Given(p.room, row.room),
                !.start     = Given(p.start, row.start),
                !.end       = Given(p.end, row.end),
                !.updatedAt = t]

(* userUpdateBooking asks for the slot again only when the body names a    *)
(* time or a room, and falls back (??) on the row it read for the rest.    *)
AsksForSlot(p) == p.start # Keep \/ p.end # Keep \/ p.room \in Room

AskedRoom(p, row) == IF p.room \in Room THEN p.room ELSE row.room

(* cancelBooking: the creator's own cancel names no administrator.         *)
Cancelled(row, u, t) ==
    IF row.creator = u THEN Moved(row, "cancel", t)
                       ELSE Decided(row, "cancel", u, t)

(* The creators of the bookings of B are sent that template.               *)
Sent(ml, B, template) ==
    [b \in Booking |-> IF b \in B THEN template ELSE ml[b]]

=============================================================================
