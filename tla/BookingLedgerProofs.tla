------------------------- MODULE BookingLedgerProofs -------------------------
(***************************************************************************)
(* What BookingLedger guarantees for every set of bookings, rooms and      *)
(* users and every bound on the clock, and what clients read of it with    *)
(* Listing, for every finite set of bookings.                              *)
(***************************************************************************)
EXTENDS Listing, BookingRulesProofs, SequenceTheorems, FiniteSetTheorems,
        WellFoundedInduction

(* Live slots: an approved booking shares no instant with another one of   *)
(* its room that is approved or may still be approved.  NoDoubleBooking    *)
(* alone is not inductive, because Confirm runs no overlap query.          *)
Open(row) == row.status \in {"approved", "pending"}

SlotsClear ==
    \A a, b \in Booking :
        /\ a # b
        /\ rows[a].status = "approved" /\ Open(rows[b])
        /\ rows[a].room = rows[b].room /\ rows[a].room \in Room
        => ~ Clash(rows[a], rows[b])

-----------------------------------------------------------------------------
(* A table in which the bookings of a set were rejected.                   *)
LEMMA RejectAllIsTable ==
    ASSUME NEW rs \in [Booking -> Row], NEW B, NEW u \in User, NEW t \in Time
    PROVE  LET after == RejectAll(rs, B, u, t)
           IN  /\ after \in [Booking -> Row]
               /\ \A x \in Booking : x \notin B => after[x] = rs[x]
               /\ \A x \in Booking : x \in B =>
                     after[x] = Decided(rs[x], "reject", u, t)
  <1>1. "reject" \in Status
    BY DEF Status
  <1>2. \A x \in Booking : Decided(rs[x], "reject", u, t) \in Row
    BY <1>1, DecidedIsRow
  <1> QED  BY <1>2 DEF RejectAll

(* rejectBookingOverlap rejects what it was given and nothing else.        *)
LEMMA RejectAllRejects ==
    ASSUME NEW rs \in [Booking -> Row], NEW B, NEW u \in User, NEW t \in Time,
           NEW x \in Booking
    PROVE  LET after == RejectAll(rs, B, u, t)
           IN  /\ x \notin B => after[x] = rs[x]
               /\ x \in B => after[x].status = "reject"
  <1>1. "reject" \in Status /\ rs[x] \in Row
    BY DEF Status
  <1>2. Decided(rs[x], "reject", u, t).status = "reject"
    BY <1>1, DecidedIsRow
  <1> QED  BY <1>2, RejectAllIsTable

-----------------------------------------------------------------------------
(* The tables, the clock and the mails keep their types.                   *)
THEOREM TypeCorrect == Spec => []TypeOK
  <1>1. Init => TypeOK
    BY RulesAssumption, NoRowIsRow DEF Init, TypeOK, Time, RoomState, Mail
  <1>2. TypeOK /\ [Next]_vars => TypeOK'
    <2> SUFFICES ASSUME TypeOK, [Next]_vars
                 PROVE  TypeOK'
      OBVIOUS
    <2> USE DEF TypeOK
    <2>a. /\ "reject" \in Status /\ "pending" \in Status
          /\ "reject" \in Mail /\ "pending" \in Mail /\ "cancel" \in Mail
      BY DEF Status, Mail
    <2>1. CASE \E b \in Booking, u \in User, r \in Room, s, e \in Time :
                  CreateBooking(b, u, r, s, e)
      <3> PICK b \in Booking, u \in User, r \in Room, s \in Time, e \in Time :
                  CreateBooking(b, u, r, s, e)
        BY <2>1
      <3>1. [rows EXCEPT ![b] = NewRow(u, r, s, e, now)] \in [Booking -> Row]
        BY NewRowIsRow
      <3>2. rows' \in [Booking -> Row]
        BY <3>1, RejectAllIsTable DEF CreateBooking
      <3>3. mail' \in [Booking -> Mail]
        BY <2>a, SentIsMail DEF CreateBooking
      <3> QED  BY <3>2, <3>3 DEF CreateBooking
    <2>2. CASE \E b \in Booking, u \in User, p \in Patch : UserUpdate(b, u, p)
      <3> PICK b \in Booking, u \in User, p \in Patch : UserUpdate(b, u, p)
        BY <2>2
      <3>1. Patched(rows[b], p, now) \in Row
        BY PatchedIsRow
      <3> QED  BY <3>1 DEF UserUpdate
    <2>3. CASE \E b \in Booking, u \in Confirmers, d \in {"approved", "reject"} :
                  Confirm(b, u, d)
      <3> PICK b \in Booking, u \in Confirmers, d \in {"approved", "reject"} :
                  Confirm(b, u, d)
        BY <2>3
      <3>0. u \in User /\ d \in Status /\ d \in Mail
        BY RulesAssumption DEF Status, Mail
      <3>1. [rows EXCEPT ![b] = Decided(@, d, u, now)] \in [Booking -> Row]
        BY <3>0, DecidedIsRow
      <3>2. rows' \in [Booking -> Row]
        BY <3>0, <3>1, RejectAllIsTable DEF Confirm
      <3>3. mail' \in [Booking -> Mail]
        BY <2>a, <3>0, SentIsMail DEF Confirm
      <3> QED  BY <3>2, <3>3 DEF Confirm
    <2>4. CASE \E b \in Booking, u \in User : Cancel(b, u)
      <3> PICK b \in Booking, u \in User : Cancel(b, u)
        BY <2>4
      <3>1. Cancelled(rows[b], u, now) \in Row
        BY CancelledIsRow
      <3>2. mail' \in [Booking -> Mail]
        BY <2>a, SentIsMail DEF Cancel
      <3> QED  BY <3>1, <3>2 DEF Cancel
    <2>5. CASE RejectExpired
      <3>1. \A x \in Booking : Moved(rows[x], "reject", now) \in Row
        BY <2>a, MovedIsRow
      <3>2. mail' \in [Booking -> Mail]
        BY <2>5, <2>a, SentIsMail DEF RejectExpired
      <3> QED  BY <2>5, <3>1, <3>2 DEF RejectExpired
    <2>6. CASE DeleteOld
      BY <2>6, NoRowIsRow DEF DeleteOld
    <2>7. CASE \E r \in Room, state \in {"enabled", "disabled"} :
                  CreateRoom(r, state)
      BY <2>7 DEF CreateRoom, RoomState
    <2>8. CASE \E r \in Room : EnableRoom(r)
      BY <2>8 DEF EnableRoom, RoomState
    <2>9. CASE \E r \in Room : DisableRoom(r)
      <3> PICK r \in Room : DisableRoom(r)
        BY <2>9
      <3>1. \A x \in Booking : Moved(rows[x], "pending", now) \in Row
        BY <2>a, MovedIsRow
      <3>2. mail' \in [Booking -> Mail]
        BY <2>a, SentIsMail DEF DisableRoom
      <3>3. room' \in [Room -> RoomState]
        BY DEF DisableRoom, RoomState
      <3> QED  BY <3>1, <3>2, <3>3 DEF DisableRoom
    <2>10. CASE \E r \in Room : RemoveRoom(r)
      BY <2>10 DEF RemoveRoom, RoomState
    <2>11. CASE Tick
      BY <2>11, RulesAssumption DEF Tick, Time
    <2>12. CASE UNCHANGED vars
      BY <2>12 DEF vars
    <2> QED  BY <2>1, <2>2, <2>3, <2>4, <2>5, <2>6, <2>7, <2>8, <2>9, <2>10,
                <2>11, <2>12 DEF Next
  <1> QED  BY <1>1, <1>2, PTL DEF Spec

-----------------------------------------------------------------------------
(* Steps that approve nothing, reopen nothing and move no open booking     *)
(* keep the slots clear.                                                   *)
LEMMA ClosingKeepsSlotsClear ==
    ASSUME SlotsClear,
           \A x \in Booking :
              /\ rows'[x].status = "approved" => rows[x].status = "approved"
              /\ Open(rows'[x]) =>
                    /\ Open(rows[x])
                    /\ rows'[x].room \in Room => rows'[x].room = rows[x].room
                    /\ rows'[x].start = rows[x].start
                    /\ rows'[x].end = rows[x].end
    PROVE  SlotsClear'
  <1> SUFFICES ASSUME NEW a \in Booking, NEW b \in Booking, a # b,
                      rows'[a].status = "approved", Open(rows'[b]),
                      rows'[a].room = rows'[b].room, rows'[a].room \in Room
               PROVE  ~ Clash(rows'[a], rows'[b])
    BY DEF SlotsClear, Open
  <1>1. Open(rows'[a])
    BY DEF Open
  <1>2. ~ Clash(rows[a], rows[b])
    BY <1>1 DEF SlotsClear
  <1> QED  BY <1>1, <1>2, ClashOfSlots

(* A booking that enters or changes its slot as a pending one keeps the    *)
(* slots clear if no approved booking of its room shares an instant with   *)
(* it.                                                                     *)
LEMMA ClearRequestKeepsSlotsClear ==
    ASSUME SlotsClear, NEW b \in Booking,
           rows'[b].status # "approved",
           \A x \in Booking \ {b} : rows'[x] = rows[x],
           \A a \in Booking \ {b} :
              /\ rows[a].status = "approved"
              /\ rows[a].room = rows'[b].room /\ rows[a].room \in Room
              => ~ Clash(rows[a], rows'[b])
    PROVE  SlotsClear'
  <1> SUFFICES ASSUME NEW x \in Booking, NEW y \in Booking, x # y,
                      rows'[x].status = "approved", Open(rows'[y]),
                      rows'[x].room = rows'[y].room, rows'[x].room \in Room
               PROVE  ~ Clash(rows'[x], rows'[y])
    BY DEF SlotsClear, Open
  <1>1. x # b /\ rows'[x] = rows[x]
    OBVIOUS
  <1>2. CASE y = b
    BY <1>1, <1>2
  <1>3. CASE y # b
    BY <1>1, <1>3 DEF SlotsClear
  <1> QED  BY <1>2, <1>3

(* A booking that becomes approved, while the pending bookings the query   *)
(* finds for its slot are rejected and nothing else changes, keeps the     *)
(* slots clear if no approved booking of its room shares an instant with   *)
(* it.                                                                     *)
LEMMA ApprovalKeepsSlotsClear ==
    ASSUME SlotsClear, TypeOK, TypeOK', NEW b \in Booking, NEW L,
           rows'[b].status = "approved",
           \A x \in Booking \ {b} : x \notin L => rows'[x] = rows[x],
           \A x \in Booking \ {b} : x \in L => ~ Open(rows'[x]),
           \A x \in Booking \ {b} :
              /\ rows[x].status = "pending" /\ rows[x].room = rows'[b].room
              /\ InSlot(rows[x], rows'[b].start, rows'[b].end)
              => x \in L,
           \A a \in Booking \ {b} :
              /\ rows[a].status = "approved"
              /\ rows[a].room = rows'[b].room /\ rows[a].room \in Room
              => ~ Clash(rows[a], rows'[b])
    PROVE  SlotsClear'
  <1> SUFFICES ASSUME NEW x \in Booking, NEW y \in Booking, x # y,
                      rows'[x].status = "approved", Open(rows'[y]),
                      rows'[x].room = rows'[y].room, rows'[x].room \in Room
               PROVE  ~ Clash(rows'[x], rows'[y])
    BY DEF SlotsClear, Open
  <1>0. \A z \in Booking : rows[z] \in Row /\ rows'[z] \in Row
    BY DEF TypeOK
  <1>1. \A z \in Booking \ {b} : Open(rows'[z]) => rows'[z] = rows[z]
    OBVIOUS
  <1>2. Open(rows'[x])
    BY DEF Open
  <1>3. CASE x = b
    <2>1. y # b /\ rows'[y] = rows[y] /\ y \notin L
      BY <1>1, <1>3
    <2>2. CASE rows[y].status = "approved"
      <3>1. ~ Clash(rows[y], rows'[b])
        BY <1>3, <2>1, <2>2
      <3> QED  BY <1>3, <2>1, <3>1, ClashIsSymmetric
    <2>3. CASE rows[y].status = "pending"
      <3>1. ~ InSlot(rows[y], rows'[b].start, rows'[b].end)
        BY <1>3, <2>1, <2>3
      <3>2. ~ Clash(rows[y], rows'[b])
        BY <1>0, <3>1, QueryFindsClashes
      <3> QED  BY <1>3, <2>1, <3>2, ClashIsSymmetric
    <2> QED  BY <2>1, <2>2, <2>3 DEF Open
  <1>4. CASE y = b
    <2>1. x # b /\ rows'[x] = rows[x]
      BY <1>1, <1>2, <1>4
    <2> QED  BY <1>4, <2>1
  <1>5. CASE x # b /\ y # b
    <2>1. rows'[x] = rows[x] /\ rows'[y] = rows[y]
      BY <1>1, <1>2, <1>5
    <2> QED  BY <2>1 DEF SlotsClear
  <1> QED  BY <1>3, <1>4, <1>5

(* No approved booking of the room is found for a slot, so none shares an  *)
(* instant with it.                                                        *)
LEMMA NothingFoundNothingClashes ==
    ASSUME TypeOK, NEW r \in Room, NEW y \in Row,
           Overlapping(rows, "approved", r, y.start, y.end) = {}
    PROVE  \A a \in Booking : rows[a].status = "approved" /\ rows[a].room = r
                                 => ~ Clash(rows[a], y)
  <1> SUFFICES ASSUME NEW a \in Booking, rows[a].status = "approved",
                      rows[a].room = r
               PROVE  ~ Clash(rows[a], y)
    OBVIOUS
  <1>1. ~ InSlot(rows[a], y.start, y.end)
    BY DEF Overlapping
  <1>2. rows[a] \in Row
    BY DEF TypeOK
  <1> QED  BY <1>1, <1>2, QueryFindsClashes

-----------------------------------------------------------------------------
(* The requests of the API keep the slots clear: a creation by what it     *)
(* queries and rejects, an edit by what it queries, a confirmation by what *)
(* the invariant says of pending bookings and by what it rejects.          *)

LEMMA CreateKeepsSlotsClear ==
    ASSUME TypeOK, TypeOK', SlotsClear,
           NEW b \in Booking, NEW u \in User, NEW r \in Room,
           NEW s \in Time, NEW e \in Time, CreateBooking(b, u, r, s, e)
    PROVE  SlotsClear'
  <1> DEFINE new     == NewRow(u, r, s, e, now)
             created == [rows EXCEPT ![b] = new]
             losers  == IF u \in Approvers
                        THEN Overlapping(rows, "pending", r, s, e) ELSE {}
  <1>1. /\ new \in Row /\ new.room = r /\ new.start = s /\ new.end = e
        /\ new.status = IF u \in Approvers THEN "approved" ELSE "pending"
    BY NewRowIsRow DEF TypeOK
  <1>2. created \in [Booking -> Row] /\ rows \in [Booking -> Row]
    BY <1>1 DEF TypeOK
  <1>3. rows' = RejectAll(created, losers, u, now)
    BY DEF CreateBooking
  <1>4. rows[b].status = "unborn" /\ b \notin losers
    BY DEF CreateBooking, Overlapping
  <1>5. /\ \A x \in Booking : x \notin losers => rows'[x] = created[x]
        /\ \A x \in Booking : x \in losers =>
              rows'[x] = Decided(created[x], "reject", u, now)
    <2>1. now \in Time
      BY DEF TypeOK
    <2> HIDE DEF created, losers
    <2> QED  BY <1>2, <1>3, <2>1, RejectAllIsTable
  <1>6. rows'[b] = new
    BY <1>2, <1>4, <1>5
  <1>7. \A a \in Booking : rows[a].status = "approved" /\ rows[a].room = r
                              => ~ Clash(rows[a], new)
    BY <1>1, NothingFoundNothingClashes DEF CreateBooking
  <1> HIDE DEF new, created
  <1>8. \A x \in Booking \ {b} : x \notin losers => rows'[x] = rows[x]
    BY <1>5 DEF created, TypeOK
  <1>9. CASE u \in Approvers
    <2>1. \A x \in Booking \ {b} : x \in losers => ~ Open(rows'[x])
      <3>1. "reject" \in Status
        BY DEF Status
      <3> QED  BY <1>2, <1>5, <3>1, DecidedIsRow DEF Open, TypeOK
    <2>2. \A x \in Booking \ {b} :
             /\ rows[x].status = "pending" /\ rows[x].room = new.room
             /\ InSlot(rows[x], new.start, new.end)
             => x \in losers
      BY <1>1, <1>9 DEF Overlapping
    <2> HIDE DEF losers
    <2>3. new.status = "approved"
      BY <1>1, <1>9
    <2> QED  BY <1>1, <1>6, <1>7, <1>8, <2>1, <2>2, <2>3,
                ApprovalKeepsSlotsClear
  <1>10. CASE u \notin Approvers
    <2>1. new.status # "approved"
      BY <1>1, <1>10
    <2>2. \A x \in Booking \ {b} : rows'[x] = rows[x]
      BY <1>8, <1>10
    <2> QED  BY <1>1, <1>6, <1>7, <2>1, <2>2, ClearRequestKeepsSlotsClear
  <1> QED  BY <1>9, <1>10

LEMMA UpdateKeepsSlotsClear ==
    ASSUME TypeOK, SlotsClear,
           NEW b \in Booking, NEW u \in User, NEW p \in Patch,
           UserUpdate(b, u, p)
    PROVE  SlotsClear'
  <1> DEFINE new == Patched(rows[b], p, now)
  <1>1. /\ new \in Row /\ new.status = rows[b].status
        /\ new.room = Given(p.room, rows[b].room)
        /\ new.start = Given(p.start, rows[b].start)
        /\ new.end = Given(p.end, rows[b].end)
    BY PatchedIsRow DEF TypeOK
  <1>2. /\ rows[b].status = "pending"
        /\ rows' = [rows EXCEPT ![b] = new]
        /\ AsksForSlot(p) => Overlapping(rows, "approved", AskedRoom(p, rows[b]),
                                         new.start, new.end) = {}
    BY <1>1 DEF UserUpdate
  <1> HIDE DEF new
  <1>3. rows'[b] = new /\ \A x \in Booking \ {b} : rows'[x] = rows[x]
    BY <1>2 DEF TypeOK
  <1>4. ASSUME NEW a \in Booking \ {b}, rows[a].status = "approved",
               rows[a].room = new.room, rows[a].room \in Room
        PROVE  ~ Clash(rows[a], new)
    <2>1. new.room = AskedRoom(p, rows[b])
      BY <1>1, <1>4, RulesAssumption DEF Given, AskedRoom, Patch
    <2>2. CASE AsksForSlot(p)
      BY <1>1, <1>2, <1>4, <2>1, <2>2, NothingFoundNothingClashes
    <2>3. CASE ~ AsksForSlot(p)
      <3>1. new.start = rows[b].start /\ new.end = rows[b].end
        BY <1>1, <2>3 DEF AsksForSlot, Given
      <3>2. new.room = rows[b].room
        BY <2>1, <2>3 DEF AsksForSlot, AskedRoom
      <3>3. ~ Clash(rows[a], rows[b])
        BY <1>2, <1>4, <3>2 DEF SlotsClear, Open
      <3> QED  BY <3>1, <3>3, ClashOfSlots
    <2> QED  BY <2>2, <2>3
  <1> QED  BY <1>1, <1>2, <1>3, <1>4, ClearRequestKeepsSlotsClear

LEMMA ConfirmKeepsSlotsClear ==
    ASSUME TypeOK, TypeOK', SlotsClear, NEW b \in Booking, NEW u \in Confirmers,
           NEW d \in {"approved", "reject"}, Confirm(b, u, d)
    PROVE  SlotsClear'
  <1> DEFINE new     == Decided(rows[b], d, u, now)
             decided == [rows EXCEPT ![b] = new]
             losers  == IF d = "approved"
                        THEN Overlapping(decided, "pending", rows[b].room,
                                         rows[b].start, rows[b].end)
                        ELSE {}
  <1>0. u \in User /\ d \in Status /\ "reject" \in Status
    BY RulesAssumption DEF Status
  <1>1. /\ new \in Row /\ new.status = d /\ new.room = rows[b].room
        /\ new.start = rows[b].start /\ new.end = rows[b].end
    BY <1>0, DecidedIsRow DEF TypeOK
  <1>2. decided \in [Booking -> Row] /\ rows \in [Booking -> Row]
    BY <1>1 DEF TypeOK
  <1>3. rows' = RejectAll(decided, losers, u, now) /\ rows[b].status = "pending"
    BY DEF Confirm
  <1> HIDE DEF new
  <1>4. b \notin losers
    BY <1>1, <1>2 DEF Overlapping
  <1>5. /\ \A x \in Booking : x \notin losers => rows'[x] = decided[x]
        /\ \A x \in Booking : x \in losers =>
              rows'[x] = Decided(decided[x], "reject", u, now)
    <2>1. now \in Time
      BY DEF TypeOK
    <2> HIDE DEF decided, losers
    <2> QED  BY <1>0, <1>2, <1>3, <2>1, RejectAllIsTable
  <1>6. rows'[b] = new
    BY <1>2, <1>4, <1>5
  <1>7. \A x \in Booking \ {b} : x \notin losers => rows'[x] = rows[x]
    BY <1>2, <1>5
  <1>8. CASE d = "approved"
    <2>1. \A x \in Booking \ {b} : x \in losers => ~ Open(rows'[x])
      BY <1>0, <1>2, <1>5, DecidedIsRow DEF Open, TypeOK
    <2>2. \A x \in Booking \ {b} :
             /\ rows[x].status = "pending" /\ rows[x].room = new.room
             /\ InSlot(rows[x], new.start, new.end)
             => x \in losers
      BY <1>1, <1>2, <1>8 DEF Overlapping
    <2>3. \A a \in Booking \ {b} :
             /\ rows[a].status = "approved"
             /\ rows[a].room = new.room /\ rows[a].room \in Room
             => ~ Clash(rows[a], new)
      BY <1>1, <1>3, ClashOfSlots DEF SlotsClear, Open
    <2> HIDE DEF losers
    <2> QED  BY <1>1, <1>6, <1>7, <1>8, <2>1, <2>2, <2>3,
                ApprovalKeepsSlotsClear
  <1>9. CASE d = "reject"
    <2>1. ~ Open(new)
      BY <1>1, <1>9 DEF Open
    <2>2. \A x \in Booking \ {b} : rows'[x] = rows[x]
      BY <1>7, <1>9
    <2> QED  BY <1>6, <2>1, <2>2, ClosingKeepsSlotsClear DEF Open
  <1> QED  BY <1>8, <1>9

(* No interleaving of whole handlers, listeners and jobs lets an approved  *)
(* booking share an instant with another open booking of its room.         *)
THEOREM SlotsStayClear == Spec => []SlotsClear
  <1>1. Init => SlotsClear
    BY NoRowIsRow DEF Init, SlotsClear, Open
  <1>2. TypeOK /\ TypeOK' /\ SlotsClear /\ [Next]_vars => SlotsClear'
    <2> SUFFICES ASSUME TypeOK, TypeOK', SlotsClear, [Next]_vars
                 PROVE  SlotsClear'
      OBVIOUS
    <2>a. "reject" \in Status /\ "pending" \in Status
      BY DEF Status
    <2>1. ASSUME NEW b \in Booking, NEW u \in User, NEW r \in Room,
                 NEW s \in Time, NEW e \in Time, CreateBooking(b, u, r, s, e)
          PROVE  SlotsClear'
      BY <2>1, CreateKeepsSlotsClear
    <2>2. ASSUME NEW b \in Booking, NEW u \in User, NEW p \in Patch,
                 UserUpdate(b, u, p)
          PROVE  SlotsClear'
      BY <2>2, UpdateKeepsSlotsClear
    <2>3. ASSUME NEW b \in Booking, NEW u \in Confirmers,
                 NEW d \in {"approved", "reject"}, Confirm(b, u, d)
          PROVE  SlotsClear'
      BY <2>3, ConfirmKeepsSlotsClear
    <2>4. ASSUME NEW b \in Booking, NEW u \in User, Cancel(b, u)
          PROVE  SlotsClear'
      <3>1. ~ Open(Cancelled(rows[b], u, now))
        BY CancelledIsRow DEF TypeOK, Open
      <3>2. /\ \A x \in Booking \ {b} : rows'[x] = rows[x]
            /\ ~ Open(rows'[b])
        BY <2>4, <3>1 DEF Cancel, TypeOK
      <3> QED  BY <3>2, ClosingKeepsSlotsClear DEF Open
    <2>5. CASE RejectExpired
      <3>1. \A x \in Booking : ~ Open(Moved(rows[x], "reject", now))
        BY <2>a, MovedIsRow DEF TypeOK, Open
      <3>2. \A x \in Booking : rows'[x] = rows[x] \/ ~ Open(rows'[x])
        BY <2>5, <3>1 DEF RejectExpired
      <3> QED  BY <3>2, ClosingKeepsSlotsClear DEF Open
    <2>6. CASE DeleteOld
      <3>1. \A x \in Booking : rows'[x] = rows[x] \/ ~ Open(rows'[x])
        BY <2>6, NoRowIsRow DEF DeleteOld, Open
      <3> QED  BY <3>1, ClosingKeepsSlotsClear DEF Open
    <2>7. ASSUME NEW r \in Room, DisableRoom(r)
          PROVE  SlotsClear'
      <3>1. \A x \in Booking :
               LET y == Moved(rows[x], "pending", now)
               IN  /\ y.status = "pending" /\ y.room = rows[x].room
                   /\ y.start = rows[x].start /\ y.end = rows[x].end
        BY <2>a, MovedIsRow DEF TypeOK
      <3>2. \A x \in Booking :
               \/ rows'[x] = rows[x]
               \/ /\ rows[x].status = "approved"
                  /\ rows'[x] = Moved(rows[x], "pending", now)
        BY <2>7 DEF DisableRoom
      <3> QED  BY <3>1, <3>2, ClosingKeepsSlotsClear DEF Open
    <2>8. CASE rows' = rows
      BY <2>8 DEF SlotsClear, Open
    <2> QED  BY <2>1, <2>2, <2>3, <2>4, <2>5, <2>6, <2>7, <2>8
             DEF Next, CreateRoom, EnableRoom, RemoveRoom, Tick, vars
  <1> QED  BY <1>1, <1>2, TypeCorrect, PTL DEF Spec

(* There is no double booking.                                             *)
THEOREM NeverDoubleBooked == Spec => []NoDoubleBooking
  <1>1. SlotsClear => NoDoubleBooking
    BY DEF SlotsClear, NoDoubleBooking, Open
  <1> QED  BY <1>1, SlotsStayClear, PTL

(* The pending bookings that adminConfirmBooking approves without a query  *)
(* are clear of the approved ones: the rejections its listener and the one *)
(* of create make are all the check that a confirmation needs.             *)
THEOREM ConfirmationsNeedNoCheck == Spec => []ApprovedSlotIsClear
  <1>1. SlotsClear => ApprovedSlotIsClear
    BY DEF SlotsClear, ApprovedSlotIsClear, Open
  <1> QED  BY <1>1, SlotsStayClear, PTL

-----------------------------------------------------------------------------
(* What each step does to one booking, whoever it belongs to: the case     *)
(* analysis the remaining theorems share.                                  *)
Change(b) ==
    \/ rows'[b] = rows[b] /\ mail'[b] = mail[b]
    \/ \E u \in User, r \in Room, s, e \in Time :
          /\ rows[b].status = "unborn" /\ room[r] = "enabled"
          /\ rows'[b] = NewRow(u, r, s, e, now)
          /\ mail'[b] = mail[b]
    \/ \E p \in Patch :
          /\ rows[b].status = "pending"
          /\ p.room \in Room => room[p.room] = "enabled"
          /\ rows'[b] = Patched(rows[b], p, now)
          /\ mail'[b] = mail[b]
    \/ \E u \in User, d \in {"approved", "reject"} :
          /\ rows[b].status = "pending"
          /\ rows'[b] = Decided(rows[b], d, u, now)
          /\ mail'[b] = d
    \/ \E u \in User :
          /\ rows[b].status \in {"pending", "approved"} /\ now <= rows[b].start
          /\ rows'[b] = Cancelled(rows[b], u, now)
          /\ mail'[b] \in {mail[b], "cancel"}
    \/ /\ rows[b].status = "pending"
       /\ rows'[b] = Moved(rows[b], "reject", now)
       /\ mail'[b] = "reject"
    \/ /\ rows[b].status = "approved" /\ now <= rows[b].start
       /\ rows[b].room \in Room /\ room'[rows[b].room] = "disabled"
       /\ rows'[b] = Moved(rows[b], "pending", now)
       /\ mail'[b] = "pending"
    \/ /\ Outdated(b)
       /\ rows'[b] = NoRow("deleted")
       /\ mail'[b] = mail[b]

LEMMA NextChanges ==
    ASSUME TypeOK, [Next]_vars, NEW b \in Booking
    PROVE  Change(b)
  <1> USE DEF TypeOK
  <1>1. ASSUME NEW c \in Booking, NEW u \in User, NEW r \in Room,
               NEW s \in Time, NEW e \in Time, CreateBooking(c, u, r, s, e)
        PROVE  Change(b)
    <2> DEFINE created == [rows EXCEPT ![c] = NewRow(u, r, s, e, now)]
               losers  == IF u \in Approvers
                          THEN Overlapping(rows, "pending", r, s, e) ELSE {}
    <2>1. created \in [Booking -> Row] /\ "reject" \in Mail
      BY NewRowIsRow DEF Mail
    <2>2. /\ rows' = RejectAll(created, losers, u, now)
          /\ mail' = Sent(mail, losers, "reject")
          /\ rows[c].status = "unborn" /\ room[r] = "enabled"
          /\ \A x \in losers : rows[x].status = "pending"
      BY <1>1 DEF CreateBooking, Overlapping
    <2>3. /\ created[b] = IF b = c THEN NewRow(u, r, s, e, now) ELSE rows[b]
      OBVIOUS
    <2> HIDE DEF created, losers
    <2>4. /\ rows'[b] = IF b \in losers
                        THEN Decided(created[b], "reject", u, now)
                        ELSE created[b]
          /\ mail'[b] = IF b \in losers THEN "reject" ELSE mail[b]
      BY <2>1, <2>2, RejectAllIsTable, SentIsMail
    <2>5. CASE b \in losers
      BY <2>2, <2>3, <2>4, <2>5 DEF Change
    <2>6. CASE b \notin losers
      BY <2>2, <2>3, <2>4, <2>6 DEF Change
    <2> QED  BY <2>5, <2>6
  <1>2. ASSUME NEW c \in Booking, NEW u \in User, NEW p \in Patch,
               UserUpdate(c, u, p)
        PROVE  Change(b)
    BY <1>2 DEF UserUpdate, Change
  <1>3. ASSUME NEW c \in Booking, NEW u \in Confirmers,
               NEW d \in {"approved", "reject"}, Confirm(c, u, d)
        PROVE  Change(b)
    <2> DEFINE decided == [rows EXCEPT ![c] = Decided(@, d, u, now)]
               losers  == IF d = "approved"
                          THEN Overlapping(decided, "pending", rows[c].room,
                                           rows[c].start, rows[c].end)
                          ELSE {}
    <2>0. u \in User /\ d \in Status /\ d \in Mail /\ "reject" \in Mail
      BY RulesAssumption DEF Status, Mail
    <2>a. Decided(rows[c], d, u, now) \in Row
          /\ Decided(rows[c], d, u, now).status = d
      BY <2>0, DecidedIsRow
    <2>1. decided \in [Booking -> Row] /\ Sent(mail, {c}, d) \in [Booking -> Mail]
      BY <2>0, <2>a, SentIsMail
    <2>2. /\ rows' = RejectAll(decided, losers, u, now)
          /\ mail' = Sent(Sent(mail, {c}, d), losers, "reject")
          /\ rows[c].status = "pending"
      BY <1>3 DEF Confirm
    <2>3. decided[b] = IF b = c THEN Decided(rows[b], d, u, now) ELSE rows[b]
      OBVIOUS
    <2>4. \A x \in losers : x # c /\ decided[x].status = "pending"
      BY <2>a DEF Overlapping
    <2> HIDE DEF decided, losers
    <2>5. /\ rows'[b] = IF b \in losers
                        THEN Decided(decided[b], "reject", u, now)
                        ELSE decided[b]
          /\ mail'[b] = IF b \in losers THEN "reject"
                        ELSE IF b = c THEN d ELSE mail[b]
      <3>1. \A x \in Booking : Sent(mail, {c}, d)[x] = IF x = c THEN d ELSE mail[x]
        BY <2>0, SentIsMail
      <3> QED  BY <2>0, <2>1, <2>2, <3>1, RejectAllIsTable, SentIsMail
    <2>6. CASE b \in losers
      BY <2>0, <2>3, <2>4, <2>5, <2>6 DEF Change
    <2>7. CASE b \notin losers
      BY <2>0, <2>2, <2>3, <2>5, <2>7 DEF Change
    <2> QED  BY <2>6, <2>7
  <1>4. ASSUME NEW c \in Booking, NEW u \in User, Cancel(c, u)
        PROVE  Change(b)
    <2>1. "cancel" \in Mail
      BY DEF Mail
    <2>2. mail'[b] = mail[b] \/ (b = c /\ mail'[b] = "cancel")
      BY <1>4, <2>1, SentIsMail DEF Cancel
    <2> QED  BY <1>4, <2>2 DEF Cancel, Change
  <1>5. CASE RejectExpired
    BY <1>5 DEF RejectExpired, Expired, Sent, Change
  <1>6. CASE DeleteOld
    BY <1>6 DEF DeleteOld, Change
  <1>7. ASSUME NEW r \in Room, DisableRoom(r)
        PROVE  Change(b)
    BY <1>7 DEF DisableRoom, Sent, Change
  <1>8. CASE rows' = rows /\ mail' = mail
    BY <1>8 DEF Change
  <1> QED  BY <1>1, <1>2, <1>3, <1>4, <1>5, <1>6, <1>7, <1>8
           DEF Next, CreateRoom, EnableRoom, RemoveRoom, Tick, vars

LEMMA ChangesOfType ==
    ASSUME TypeOK, NEW b \in Booking
    PROVE  /\ \A u \in User, r \in Room, s, e \in Time :
                 LET x == NewRow(u, r, s, e, now)
                 IN  /\ x.status \in {"approved", "pending"} /\ x.room = r
                     /\ x.creator = u
                     /\ x.status = "approved" => x.modifiedBy = u
           /\ \A p \in Patch :
                 LET x == Patched(rows[b], p, now)
                 IN  /\ x.status = rows[b].status
                     /\ x.room = Given(p.room, rows[b].room)
           /\ \A u \in User, d \in {"approved", "reject"} :
                 LET x == Decided(rows[b], d, u, now)
                 IN  x.status = d /\ x.room = rows[b].room
           /\ \A u \in User :
                 LET x == Cancelled(rows[b], u, now)
                 IN  /\ x.status = "cancel" /\ x.room = rows[b].room
                     /\ x.start = rows[b].start /\ x.end = rows[b].end
           /\ \A d \in {"reject", "pending"} :
                 LET x == Moved(rows[b], d, now)
                 IN  /\ x.status = d /\ x.room = rows[b].room
                     /\ x.start = rows[b].start /\ x.end = rows[b].end
           /\ NoRow("deleted").status = "deleted"
           /\ NoRow("deleted").room = NoRoom
  <1>1. rows[b] \in Row /\ now \in Time
    BY DEF TypeOK
  <1>2. {"approved", "reject", "pending"} \subseteq Status
    BY DEF Status
  <1>3. \A u \in User, r \in Room, s, e \in Time :
           LET x == NewRow(u, r, s, e, now)
           IN  /\ x.status \in {"approved", "pending"} /\ x.room = r
               /\ x.creator = u
               /\ x.status = "approved" => x.modifiedBy = u
    BY <1>1, NewRowIsRow
  <1>4. \A p \in Patch :
           LET x == Patched(rows[b], p, now)
           IN  x.status = rows[b].status /\ x.room = Given(p.room, rows[b].room)
    BY <1>1, PatchedIsRow
  <1>5. \A u \in User, d \in {"approved", "reject"} :
           LET x == Decided(rows[b], d, u, now)
           IN  x.status = d /\ x.room = rows[b].room
    BY <1>1, <1>2, DecidedIsRow
  <1>6. \A u \in User :
           LET x == Cancelled(rows[b], u, now)
           IN  /\ x.status = "cancel" /\ x.room = rows[b].room
               /\ x.start = rows[b].start /\ x.end = rows[b].end
    BY <1>1, CancelledIsRow
  <1>7. \A d \in {"reject", "pending"} :
           LET x == Moved(rows[b], d, now)
           IN  /\ x.status = d /\ x.room = rows[b].room
               /\ x.start = rows[b].start /\ x.end = rows[b].end
    BY <1>1, <1>2, MovedIsRow
  <1>8. NoRow("deleted").status = "deleted" /\ NoRow("deleted").room = NoRoom
    BY DEF NoRow
  <1> QED  BY <1>3, <1>4, <1>5, <1>6, <1>7, <1>8

(* A rejected or cancelled booking is only ever deleted, and only when it  *)
(* is old enough.                                                          *)
THEOREM DecisionsStayFinal == Spec => DecisionsAreFinal
  <1> DEFINE Final == \A b \in Booking :
                        rows[b].status \in {"reject", "cancel"} =>
                           \/ rows'[b] = rows[b]
                           \/ rows'[b].status = "deleted"
                              /\ rows[b].updatedAt + KeepTime <= now
  <1>1. TypeOK /\ [Next]_vars => Final
    <2> SUFFICES ASSUME TypeOK, [Next]_vars, NEW b \in Booking,
                        rows[b].status \in {"reject", "cancel"}
                 PROVE  \/ rows'[b] = rows[b]
                        \/ rows'[b].status = "deleted"
                           /\ rows[b].updatedAt + KeepTime <= now
      OBVIOUS
    <2>1. Change(b)
      BY NextChanges
    <2>2. rows'[b] = rows[b] \/ (Outdated(b) /\ rows'[b] = NoRow("deleted"))
      BY <2>1 DEF Change
    <2> QED  BY <2>2, ChangesOfType DEF Outdated
  <1> HIDE DEF Final
  <1>2. Spec => [][Final]_vars
    BY <1>1, TypeCorrect, PTL DEF Spec
  <1> QED  BY <1>2 DEF DecisionsAreFinal, Final

(* An approved booking keeps its slot, and once it has started nothing     *)
(* touches it any more.                                                    *)
THEOREM ApprovalsStand == Spec => ApprovalStands
  <1> DEFINE Stands == \A b \in Booking :
                rows[b].status = "approved" /\ rows'[b] # rows[b] =>
                   /\ now <= rows[b].start
                   /\ \/ rows'[b].status = "cancel"
                      \/ /\ rows'[b].status = "pending"
                         /\ rows[b].room \in Room
                         /\ room'[rows[b].room] = "disabled"
                   /\ rows'[b].room = rows[b].room
                   /\ rows'[b].start = rows[b].start
                   /\ rows'[b].end = rows[b].end
  <1>1. TypeOK /\ [Next]_vars => Stands
    <2> SUFFICES ASSUME TypeOK, [Next]_vars, NEW b \in Booking,
                        rows[b].status = "approved", rows'[b] # rows[b]
                 PROVE  /\ now <= rows[b].start
                        /\ \/ rows'[b].status = "cancel"
                           \/ /\ rows'[b].status = "pending"
                              /\ rows[b].room \in Room
                              /\ room'[rows[b].room] = "disabled"
                        /\ rows'[b].room = rows[b].room
                        /\ rows'[b].start = rows[b].start
                        /\ rows'[b].end = rows[b].end
      OBVIOUS
    <2>1. Change(b)
      BY NextChanges
    <2>2. /\ now <= rows[b].start
          /\ \/ \E u \in User : rows'[b] = Cancelled(rows[b], u, now)
             \/ /\ rows'[b] = Moved(rows[b], "pending", now)
                /\ rows[b].room \in Room /\ room'[rows[b].room] = "disabled"
      BY <2>1 DEF Change, Outdated
    <2> QED  BY <2>2, ChangesOfType
  <1> HIDE DEF Stands
  <1>2. Spec => [][Stands]_vars
    BY <1>1, TypeCorrect, PTL DEF Spec
  <1> QED  BY <1>2 DEF ApprovalStands, Stands

(* The creator's last mail agrees with the status of the booking.          *)
THEOREM MailsTellStatus == Spec => []MailTellsStatus
  <1> DEFINE Tells(m, row) ==
          /\ row.status = "reject"   => m = "reject"
          /\ row.status = "approved" =>
                m = "approved" \/ (m = "none" /\ row.modifiedBy = row.creator)
          /\ row.status = "pending"  => m \in {"none", "pending"}
          /\ row.status = "cancel"   => m # "reject"
          /\ row.status = "unborn"   => m = "none"
  <1>1. MailTellsStatus <=> \A b \in Booking : Tells(mail[b], rows[b])
    BY DEF MailTellsStatus
  <1>2. Init => MailTellsStatus
    BY <1>1, NoRowIsRow DEF Init
  <1>3. TypeOK /\ MailTellsStatus /\ [Next]_vars => MailTellsStatus'
    <2> SUFFICES ASSUME TypeOK, \A b \in Booking : Tells(mail[b], rows[b]),
                        [Next]_vars, NEW b \in Booking
                 PROVE  Tells(mail'[b], rows'[b])
      BY DEF MailTellsStatus
    <2>1. Change(b) /\ Tells(mail[b], rows[b])
      BY NextChanges
    <2>2. CASE rows'[b] = rows[b] /\ mail'[b] = mail[b]
      BY <2>1, <2>2
    <2>3. CASE rows[b].status = "unborn"
      BY <2>1, <2>3, ChangesOfType DEF Change, Outdated
    <2>4. CASE rows[b].status = "pending"
      BY <2>1, <2>4, ChangesOfType DEF Change, Outdated
    <2>5. CASE rows[b].status = "approved"
      BY <2>1, <2>5, ChangesOfType DEF Change, Outdated
    <2>6. CASE rows[b].status \in {"reject", "cancel"}
      BY <2>1, <2>6, ChangesOfType DEF Change
    <2> QED  BY <2>1, <2>2, <2>3, <2>4, <2>5, <2>6 DEF Change, Outdated
  <1> QED  BY <1>2, <1>3, TypeCorrect, PTL DEF Spec

(* A booking points to an existing room or to none.                        *)
THEOREM RoomsStayForBookings == Spec => []RoomsExist
  <1>1. Init => RoomsExist
    BY RulesAssumption DEF Init, RoomsExist, NoRow
  <1>2. TypeOK /\ RoomsExist /\ [Next]_vars => RoomsExist'
    <2> SUFFICES ASSUME TypeOK, RoomsExist, [Next]_vars, NEW b \in Booking,
                        rows'[b].room \in Room
                 PROVE  RoomExists(room'[rows'[b].room])
      BY DEF RoomsExist
    <2>1. ASSUME NEW r \in Room, NEW state \in {"enabled", "disabled"},
                 CreateRoom(r, state)
          PROVE  RoomExists(room'[rows'[b].room])
      BY <2>1 DEF CreateRoom, RoomsExist, RoomExists, TypeOK
    <2>2. ASSUME NEW r \in Room, RemoveRoom(r)
          PROVE  RoomExists(room'[rows'[b].room])
      BY <2>2 DEF RemoveRoom, RoomsExist, RoomExists, TypeOK
    <2>3. CASE \A r \in Room : \/ room'[r] = room[r]
                               \/ room'[r] \in {"enabled", "disabled"}
      <3>1. rows'[b].room = rows[b].room \/ room[rows'[b].room] = "enabled"
        <4>1. Change(b)
          BY NextChanges
        <4> QED  BY <4>1, RulesAssumption, ChangesOfType DEF Change, Given, Patch
      <3>2. RoomExists(room[rows'[b].room])
        BY <3>1 DEF RoomsExist, RoomExists
      <3> QED  BY <2>3, <3>2 DEF RoomExists
    <2>4. (\E r \in Room, state \in {"enabled", "disabled"} : CreateRoom(r, state))
          \/ (\E r \in Room : RemoveRoom(r))
          \/ (\A r \in Room : \/ room'[r] = room[r]
                              \/ room'[r] \in {"enabled", "disabled"})
      BY DEF Next, vars, CreateBooking, UserUpdate, Confirm, Cancel,
             RejectExpired, DeleteOld, EnableRoom, DisableRoom, Tick, TypeOK
    <2> QED  BY <2>1, <2>2, <2>3, <2>4
  <1> QED  BY <1>1, <1>2, TypeCorrect, PTL DEF Spec

-----------------------------------------------------------------------------
(* The query finds nothing else, when both rows have an instant at all.    *)
LEMMA QueryFindsOnlyClashes ==
    ASSUME NEW x \in Row, NEW y \in Row, InSlot(x, y.start, y.end),
           x.start < x.end, y.start < y.end
    PROVE  Clash(y, x)
  <1>1. /\ x.start \in Int /\ x.end \in Int
        /\ y.start \in Int /\ y.end \in Int
    BY RulesAssumption DEF Row, Time
  <1> QED  BY <1>1 DEF Clash, InSlot

(* An approval turns down nothing but the requests for its own slot.       *)
THEOREM OnlyClashesAreRejected == Spec => OnlyClashesLose
  <1> DEFINE Lost(x, y) == /\ x.room = y.room
                           /\ Clash(x, y) \/ x.end <= x.start \/ y.end <= y.start
             Fair ==
                \A a, b \in Booking :
                  /\ rows[a].status # "approved" /\ rows'[a].status = "approved"
                  /\ rows[b].status = "pending"  /\ rows'[b].status = "reject"
                  => /\ rows'[a].room = rows[b].room
                     /\ \/ Clash(rows'[a], rows[b])
                        \/ rows'[a].end <= rows'[a].start
                        \/ rows[b].end <= rows[b].start
  <1>1. TypeOK /\ TypeOK' /\ [Next]_vars => Fair
    <2> SUFFICES ASSUME TypeOK, TypeOK', [Next]_vars,
                        NEW a \in Booking, NEW b \in Booking,
                        rows[a].status # "approved", rows'[a].status = "approved",
                        rows[b].status = "pending", rows'[b].status = "reject"
                 PROVE  Lost(rows'[a], rows[b])
      OBVIOUS
    <2>0. /\ rows \in [Booking -> Row] /\ now \in Time
          /\ rows'[a] \in Row /\ rows[b] \in Row
          /\ "reject" \in Status /\ "approved" \in Status
      BY DEF TypeOK, Status
    <2>1. ASSUME rows'[a].room = rows[b].room,
                 InSlot(rows[b], rows'[a].start, rows'[a].end)
          PROVE  Lost(rows'[a], rows[b])
      <3>1. CASE rows[b].start < rows[b].end /\ rows'[a].start < rows'[a].end
        BY <2>0, <2>1, <3>1, QueryFindsOnlyClashes
      <3>2. CASE ~ (rows[b].start < rows[b].end /\ rows'[a].start < rows'[a].end)
        BY <2>0, <2>1, <3>2, RulesAssumption DEF Row, Time
      <3> QED  BY <3>1, <3>2
    <2> HIDE DEF Lost
    <2>2. ASSUME NEW c \in Booking, NEW u \in User, NEW r \in Room,
                 NEW s \in Time, NEW e \in Time, CreateBooking(c, u, r, s, e)
          PROVE  Lost(rows'[a], rows[b])
      <3> DEFINE new     == NewRow(u, r, s, e, now)
                 created == [rows EXCEPT ![c] = new]
                 losers  == IF u \in Approvers
                            THEN Overlapping(rows, "pending", r, s, e) ELSE {}
      <3>1. /\ new \in Row /\ new.room = r /\ new.start = s /\ new.end = e
            /\ new.status \in {"approved", "pending"}
        BY <2>0, NewRowIsRow
      <3> HIDE DEF new
      <3>2. created \in [Booking -> Row]
        BY <2>0, <3>1
      <3>3. rows' = RejectAll(created, losers, u, now)
        BY <2>2 DEF CreateBooking, new
      <3>4. \A x \in Booking :
               /\ x \notin losers => rows'[x] = created[x]
               /\ x \in losers => rows'[x].status = "reject"
        <4> HIDE DEF created, losers
        <4> QED  BY <2>0, <3>2, <3>3, RejectAllRejects
      <3>5. a = c /\ rows'[a] = new
        BY <2>0, <3>4
      <3>6. b \in losers
        BY <2>0, <3>1, <3>4
      <3>7. rows[b].room = r /\ InSlot(rows[b], s, e)
        BY <3>6 DEF Overlapping
      <3> QED  BY <2>1, <3>1, <3>5, <3>7
    <2>3. ASSUME NEW c \in Booking, NEW u \in Confirmers,
                 NEW d \in {"approved", "reject"}, Confirm(c, u, d)
          PROVE  Lost(rows'[a], rows[b])
      <3> DEFINE new     == Decided(rows[c], d, u, now)
                 decided == [rows EXCEPT ![c] = new]
                 losers  == IF d = "approved"
                            THEN Overlapping(decided, "pending", rows[c].room,
                                             rows[c].start, rows[c].end)
                            ELSE {}
      <3>0. u \in User /\ d \in Status
        BY RulesAssumption DEF Status
      <3>1. /\ new \in Row /\ new.status = d /\ new.room = rows[c].room
            /\ new.start = rows[c].start /\ new.end = rows[c].end
        BY <2>0, <3>0, DecidedIsRow
      <3>3. rows' = RejectAll(decided, losers, u, now)
        BY <2>3 DEF Confirm
      <3> HIDE DEF new
      <3>2. decided \in [Booking -> Row]
        BY <2>0, <3>1
      <3>4. \A x \in Booking :
               /\ x \notin losers => rows'[x] = decided[x]
               /\ x \in losers => rows'[x].status = "reject"
        <4> HIDE DEF decided, losers
        <4> QED  BY <2>0, <3>0, <3>2, <3>3, RejectAllRejects
      <3>5. a = c /\ rows'[a] = new /\ d = "approved"
        BY <2>0, <3>1, <3>4
      <3>6. b # c /\ b \in losers
        BY <2>0, <3>1, <3>4, <3>5
      <3>7. rows[b].room = rows[c].room
            /\ InSlot(rows[b], rows[c].start, rows[c].end)
        BY <2>0, <3>5, <3>6 DEF Overlapping
      <3> QED  BY <2>1, <3>1, <3>5, <3>7
    <2>4. CASE \A x \in Booking :
                  rows'[x].status = "approved" => rows[x].status = "approved"
      BY <2>4
    <2>5. \/ \E c \in Booking, u \in User, r \in Room, s, e \in Time :
                CreateBooking(c, u, r, s, e)
          \/ \E c \in Booking, u \in Confirmers, d \in {"approved", "reject"} :
                Confirm(c, u, d)
          \/ \A x \in Booking :
                rows'[x].status = "approved" => rows[x].status = "approved"
      <3>1. ASSUME NEW c \in Booking, NEW u \in User, NEW p \in Patch,
                   UserUpdate(c, u, p), NEW x \in Booking
            PROVE  rows'[x].status = rows[x].status
        BY <2>0, <3>1, PatchedIsRow DEF UserUpdate
      <3>2. ASSUME NEW c \in Booking, NEW u \in User, Cancel(c, u),
                   NEW x \in Booking
            PROVE  rows'[x] = rows[x] \/ rows'[x].status = "cancel"
        BY <2>0, <3>2, CancelledIsRow DEF Cancel
      <3>3. ASSUME RejectExpired, NEW x \in Booking
            PROVE  rows'[x] = rows[x] \/ rows'[x].status = "reject"
        BY <2>0, <3>3, MovedIsRow DEF RejectExpired
      <3>4. ASSUME DeleteOld, NEW x \in Booking
            PROVE  rows'[x] = rows[x] \/ rows'[x].status = "deleted"
        BY <2>0, <3>4, NoRowIsRow DEF DeleteOld
      <3>5. ASSUME NEW r \in Room, DisableRoom(r), NEW x \in Booking
            PROVE  rows'[x] = rows[x] \/ rows'[x].status = "pending"
        <4>1. "pending" \in Status
          BY DEF Status
        <4> QED  BY <2>0, <3>5, <4>1, MovedIsRow DEF DisableRoom
      <3> QED  BY <3>1, <3>2, <3>3, <3>4, <3>5
               DEF Next, CreateRoom, EnableRoom, RemoveRoom, Tick, vars
    <2> QED  BY <2>2, <2>3, <2>4, <2>5
  <1> HIDE DEF Fair
  <1>2. Spec => [][Fair]_vars
    BY <1>1, TypeCorrect, PTL DEF Spec
  <1> QED  BY <1>2 DEF OnlyClashesLose, Fair

-----------------------------------------------------------------------------
(* What clients read of the table.  The sums and the walks of Listing are   *)
(* recursive functions, and what they compute is shown by induction: a set *)
(* of natural numbers has a least element.                                 *)
LEMMA LeastNatural ==
    ASSUME NEW T \in SUBSET Nat, T # {}
    PROVE  \E m \in T : \A k \in T : m <= k
  <1> DEFINE R == OpToRel(<, Nat)
  <1>1. IsWellFoundedOn(R, Nat)
    BY NatLessThanWellFounded
  <1>2. \A i, j \in Nat : <<i, j>> \in R <=> i < j
    BY DEF OpToRel
  <1> HIDE DEF R
  <1>3. PICK m \in T : \A k \in T : ~ (<<k, m>> \in R)
    BY <1>1, WFMin
  <1>4. ASSUME NEW k \in T
        PROVE  m <= k
    <2>1. m \in Nat /\ k \in Nat /\ ~ (k < m)
      BY <1>2, <1>3
    <2> QED  BY <2>1
  <1> QED  BY <1>4

(* Induction over the subsets of a finite set.                             *)
LEMMA SubsetInduction ==
    ASSUME NEW S, IsFiniteSet(S), NEW P \in SUBSET (SUBSET S), {} \in P,
           \A s \in SUBSET S : s # {} /\ (\A x \in s : s \ {x} \in P) => s \in P
    PROVE  S \in P
  <1> DEFINE T == {Cardinality(s) : s \in (SUBSET S) \ P}
  <1>1. T \in SUBSET Nat
    BY FS_Subset, FS_CardinalityType
  <1> SUFFICES ASSUME T # {} PROVE FALSE
    BY DEF T
  <1>2. PICK m \in T : \A k \in T : m <= k
    <2> HIDE DEF T
    <2> QED  BY <1>1, LeastNatural
  <1>3. PICK s \in (SUBSET S) \ P : m = Cardinality(s)
    BY <1>2
  <1>4. s # {} /\ s \in SUBSET S
    BY <1>3
  <1>6. IsFiniteSet(s)
    BY <1>4, FS_Subset
  <1>5. ASSUME NEW x \in s
        PROVE  s \ {x} \in P
    <2>1. s \ {x} \in SUBSET S /\ Cardinality(s \ {x}) = m - 1
      BY <1>3, <1>4, <1>6, FS_RemoveElement
    <2>2. s \ {x} \notin P => m - 1 \in T
      BY <2>1
    <2> QED  BY <1>1, <1>2, <2>1, <2>2
  <1>7. \A x \in s : s \ {x} \in P
    BY <1>5
  <1> QED  BY <1>3, <1>4, <1>7

-----------------------------------------------------------------------------
(* MapThenSumSet: the sum of f over a finite set.                          *)

First(s) == CHOOSE x \in s : TRUE

(* it is the function by which the sum is defined.                         *)
Sums(it, f, S) ==
    it = [s \in SUBSET S |-> IF s = {} THEN 0 ELSE f[First(s)] + it[s \ {First(s)}]]

Total(f, S) == (CHOOSE it : Sums(it, f, S))[S]

(* The cases of that function.                                            *)
LEMMA SumsAt ==
    ASSUME NEW it, NEW f, NEW S, Sums(it, f, S), NEW s \in SUBSET S
    PROVE  /\ s = {} => it[s] = 0
           /\ s # {} => /\ First(s) \in s
                        /\ it[s] = f[First(s)] + it[s \ {First(s)}]
  BY DEF Sums, First

(* There is only one.                                                      *)
LEMMA SumsAgree ==
    ASSUME NEW f, NEW S, IsFiniteSet(S), NEW A, NEW B, S \subseteq A, S \subseteq B,
           NEW i, Sums(i, f, A), NEW j, Sums(j, f, B)
    PROVE  i[S] = j[S]
  <1> DEFINE P == {s \in SUBSET S : i[s] = j[s]}
  <1>1. P \in SUBSET (SUBSET S) /\ {} \in P
    BY SumsAt
  <1>2. ASSUME NEW s \in SUBSET S, s # {}, \A x \in s : s \ {x} \in P
        PROVE  s \in P
    <2>1. s \in SUBSET A /\ s \in SUBSET B
      OBVIOUS
    <2>2. /\ First(s) \in s
          /\ i[s] = f[First(s)] + i[s \ {First(s)}]
      BY <1>2, <2>1, SumsAt
    <2>3. j[s] = f[First(s)] + j[s \ {First(s)}]
      BY <1>2, <2>1, SumsAt
    <2>4. i[s \ {First(s)}] = j[s \ {First(s)}]
      BY <1>2, <2>2
    <2> QED  BY <2>2, <2>3, <2>4
  <1> HIDE DEF P
  <1>3. S \in P
    BY <1>1, <1>2, SubsetInduction
  <1> QED  BY <1>3 DEF P

(* It is the sum of every part of the set, too.                            *)
LEMMA SumsBelow ==
    ASSUME NEW it, NEW f, NEW S, Sums(it, f, S), NEW s \in SUBSET S
    PROVE  Sums([t \in SUBSET s |-> it[t]], f, s)
  <1> DEFINE j == [t \in SUBSET s |-> it[t]]
  <1>1. ASSUME NEW t \in SUBSET s
        PROVE  j[t] = IF t = {} THEN 0 ELSE f[First(t)] + j[t \ {First(t)}]
    BY SumsAt
  <1> QED  BY <1>1 DEF Sums

LEMMA TotalIsSum ==
    ASSUME NEW it, NEW f, NEW S, IsFiniteSet(S), Sums(it, f, S)
    PROVE  \A s \in SUBSET S : it[s] = Total(f, s)
  <1> SUFFICES ASSUME NEW s \in SUBSET S PROVE it[s] = Total(f, s)
    OBVIOUS
  <1> DEFINE j == CHOOSE j : Sums(j, f, s)
  <1>1. \E j1 : Sums(j1, f, s)
    BY SumsBelow
  <1>2. Sums(j, f, s)
    BY <1>1
  <1>3. IsFiniteSet(s)
    BY FS_Subset
  <1> HIDE DEF j
  <1>4. it[s] = j[s]
    <2>1. s \subseteq S /\ s \subseteq s
      OBVIOUS
    <2> QED  BY <1>2, <1>3, <2>1, SumsAgree
  <1> QED  BY <1>4 DEF j, Total

(* There is such a function, by induction over the parts of the set.       *)
LEMMA SumsExist ==
    ASSUME NEW f, NEW S, IsFiniteSet(S)
    PROVE  \E it : Sums(it, f, S)
  <1> DEFINE P == {s \in SUBSET S : \E it : Sums(it, f, s)}
  <1>1. {} \in P
    <2> DEFINE it == [s \in SUBSET {} |-> 0]
    <2>1. Sums(it, f, {})
      <3>1. \A s \in SUBSET {} : s = {}
        OBVIOUS
      <3> QED  BY <3>1 DEF Sums
    <2> HIDE DEF it
    <2> QED  BY <2>1
  <1>2. ASSUME NEW s \in SUBSET S, s # {}, \A x \in s : s \ {x} \in P
        PROVE  s \in P
    <2> DEFINE c == First(s)
               it == [t \in SUBSET s |-> IF t = s THEN f[c] + Total(f, s \ {c})
                                                  ELSE Total(f, t)]
    <2>1. c \in s
      BY <1>2 DEF First
    <2>2. ASSUME NEW t \in SUBSET s, t # s
          PROVE  /\ t = {} => Total(f, t) = 0
                 /\ t # {} => /\ First(t) \in t
                              /\ Total(f, t) = f[First(t)] + Total(f, t \ {First(t)})
      <3>1. PICK x \in s : x \notin t
        BY <2>2
      <3>2. PICK i : Sums(i, f, s \ {x})
        BY <1>2
      <3>3. t \in SUBSET (s \ {x}) /\ t \ {First(t)} \in SUBSET (s \ {x})
        BY <3>1
      <3>4. IsFiniteSet(s \ {x})
        BY FS_Subset
      <3>5. i[t] = Total(f, t) /\ i[t \ {First(t)}] = Total(f, t \ {First(t)})
        BY <3>2, <3>3, <3>4, TotalIsSum
      <3> QED  BY <3>2, <3>3, <3>5, SumsAt
    <2>3. ASSUME NEW t \in SUBSET s
          PROVE  it[t] = IF t = {} THEN 0 ELSE f[First(t)] + it[t \ {First(t)}]
      <3>1. CASE t = s
        BY <1>2, <2>1, <3>1
      <3>2. CASE t # s
        BY <2>2, <3>2
      <3> QED  BY <3>1, <3>2
    <2>4. Sums(it, f, s)
      BY <2>3 DEF Sums
    <2> HIDE DEF it
    <2> QED  BY <2>4
  <1>3. P \in SUBSET (SUBSET S)
    OBVIOUS
  <1> HIDE DEF P
  <1>4. S \in P
    BY <1>1, <1>2, <1>3, SubsetInduction
  <1> QED  BY <1>4 DEF P

LEMMA TotalSteps ==
    ASSUME NEW f, NEW S, IsFiniteSet(S)
    PROVE  /\ S = {} => Total(f, S) = 0
           /\ S # {} => /\ First(S) \in S
                        /\ Total(f, S) = f[First(S)] + Total(f, S \ {First(S)})
  <1>1. PICK it : Sums(it, f, S)
    BY SumsExist
  <1>2. S \in SUBSET S /\ S \ {First(S)} \in SUBSET S
    OBVIOUS
  <1>3. it[S] = Total(f, S) /\ it[S \ {First(S)}] = Total(f, S \ {First(S)})
    BY <1>1, <1>2, TotalIsSum
  <1> QED  BY <1>1, <1>2, <1>3, SumsAt

(* A sum of integers is an integer.                                        *)
LEMMA TotalIsInt ==
    ASSUME NEW f, NEW S, IsFiniteSet(S), \A x \in S : f[x] \in Int
    PROVE  Total(f, S) \in Int
  <1> DEFINE P == {s \in SUBSET S : Total(f, s) \in Int}
  <1>1. P \in SUBSET (SUBSET S) /\ {} \in P
    <2>1. Total(f, {}) = 0
      BY TotalSteps, FS_EmptySet
    <2> QED  BY <2>1
  <1>2. ASSUME NEW s \in SUBSET S, s # {}, \A x \in s : s \ {x} \in P
        PROVE  s \in P
    <2>1. IsFiniteSet(s)
      BY FS_Subset
    <2>2. First(s) \in s /\ Total(f, s) = f[First(s)] + Total(f, s \ {First(s)})
      BY <1>2, <2>1, TotalSteps
    <2>3. Total(f, s \ {First(s)}) \in Int /\ f[First(s)] \in Int
      BY <1>2, <2>2
    <2> QED  BY <2>2, <2>3
  <1> HIDE DEF P
  <1>3. S \in P
    BY <1>1, <1>2, SubsetInduction
  <1> QED  BY <1>3 DEF P

(* It does not matter which element is taken first.                        *)
LEMMA TotalWithout ==
    ASSUME NEW f, NEW S, IsFiniteSet(S), \A x \in S : f[x] \in Int
    PROVE  \A x \in S : Total(f, S) = f[x] + Total(f, S \ {x})
  <1> DEFINE P == {s \in SUBSET S :
                     \A x \in s : Total(f, s) = f[x] + Total(f, s \ {x})}
  <1>1. P \in SUBSET (SUBSET S) /\ {} \in P
    OBVIOUS
  <1>2. ASSUME NEW s \in SUBSET S, s # {}, \A x \in s : s \ {x} \in P
        PROVE  s \in P
    <2> SUFFICES ASSUME NEW x \in s
                 PROVE  Total(f, s) = f[x] + Total(f, s \ {x})
      OBVIOUS
    <2> DEFINE c == First(s)
    <2>1. IsFiniteSet(s)
      BY FS_Subset
    <2>2. c \in s /\ Total(f, s) = f[c] + Total(f, s \ {c})
      BY <1>2, <2>1, TotalSteps
    <2> HIDE DEF c
    <2>3. CASE x = c
      BY <2>2, <2>3
    <2>4. CASE x # c
      <3>1. s \ {c} \in P /\ s \ {x} \in P /\ x \in s \ {c} /\ c \in s \ {x}
        BY <1>2, <2>2, <2>4
      <3>2. (s \ {c}) \ {x} = s \ {c, x} /\ (s \ {x}) \ {c} = s \ {c, x}
        OBVIOUS
      <3>3. /\ Total(f, s \ {c}) = f[x] + Total(f, s \ {c, x})
            /\ Total(f, s \ {x}) = f[c] + Total(f, s \ {c, x})
        BY <3>1, <3>2
      <3>4. f[x] \in Int /\ f[c] \in Int
        BY <2>2
      <3>5. Total(f, s \ {c, x}) \in Int
        <4>1. IsFiniteSet(s \ {c, x})
          BY FS_Subset
        <4> QED  BY <4>1, TotalIsInt
      <3> QED  BY <2>2, <3>3, <3>4, <3>5
    <2> QED  BY <2>3, <2>4
  <1> HIDE DEF P
  <1>3. S \in P
    BY <1>1, <1>2, SubsetInduction
  <1> QED  BY <1>3 DEF P

(* The sum over two sets without a common element.                         *)
LEMMA TotalOfUnion ==
    ASSUME NEW f, NEW S, NEW T, IsFiniteSet(S), IsFiniteSet(T), S \cap T = {},
           \A x \in S \cup T : f[x] \in Int
    PROVE  Total(f, S \cup T) = Total(f, S) + Total(f, T)
  <1> DEFINE P == {s \in SUBSET T : Total(f, S \cup s) = Total(f, S) + Total(f, s)}
  <1>1. {} \in P
    <2>1. Total(f, {}) = 0 /\ Total(f, S) \in Int /\ S \cup {} = S
      BY TotalSteps, TotalIsInt, FS_EmptySet
    <2> QED  BY <2>1
  <1>2. ASSUME NEW s \in SUBSET T, s # {}, \A x \in s : s \ {x} \in P
        PROVE  s \in P
    <2>1. PICK x \in s : TRUE
      BY <1>2
    <2>2. IsFiniteSet(s) /\ IsFiniteSet(S \cup s) /\ IsFiniteSet(s \ {x})
      BY FS_Subset, FS_Union
    <2>3. (S \cup s) \ {x} = S \cup (s \ {x}) /\ x \in S \cup s
      OBVIOUS
    <2>4. Total(f, S \cup s) = f[x] + Total(f, S \cup (s \ {x}))
      BY <2>2, <2>3, TotalWithout
    <2>5. Total(f, s) = f[x] + Total(f, s \ {x})
      BY <2>2, TotalWithout
    <2>6. Total(f, S \cup (s \ {x})) = Total(f, S) + Total(f, s \ {x})
      BY <1>2
    <2>7. f[x] \in Int /\ Total(f, S) \in Int /\ Total(f, s \ {x}) \in Int
      BY <2>2, TotalIsInt
    <2> QED  BY <2>4, <2>5, <2>6, <2>7
  <1>3. P \in SUBSET (SUBSET T)
    OBVIOUS
  <1> HIDE DEF P
  <1>4. T \in P
    BY <1>1, <1>2, <1>3, SubsetInduction
  <1> QED  BY <1>4 DEF P

-----------------------------------------------------------------------------
(* The calendar: the days it shows, what is shown on them and their hours. *)

Length == [b \in Booking |-> rows[b].end - rows[b].start]

(* The two sums of Listing are sums in this sense.                         *)
LEMMA HoursAreTotal ==
    ASSUME NEW B \in SUBSET Booking, IsFiniteSet(B)
    PROVE  Hours(B) = Total(Length, B)
  <1> DEFINE Defines(it) ==
                it = [s \in SUBSET B |->
                        IF s = {} THEN 0
                        ELSE LET x == CHOOSE x \in s : TRUE
                             IN  (rows[x].end - rows[x].start) + it[s \ {x}]]
             h == CHOOSE it : Defines(it)
  <1>1. Hours(B) = h[B]
    BY DEF Hours, MapThenSumSet, MapThenFoldSet
  <1>2. ASSUME NEW it
        PROVE  Defines(it) <=> Sums(it, Length, B)
    <2>1. ASSUME NEW s \in SUBSET B, s # {}
          PROVE  LET x == CHOOSE x \in s : TRUE
                 IN  (rows[x].end - rows[x].start) + it[s \ {x}]
                        = Length[First(s)] + it[s \ {First(s)}]
      BY <2>1 DEF First, Length
    <2> QED  BY <2>1 DEF Sums, First
  <1> HIDE DEF Defines
  <1>3. \E it : Defines(it)
    BY <1>2, SumsExist
  <1>4. Sums(h, Length, B)
    BY <1>2, <1>3
  <1> HIDE DEF h
  <1> QED  BY <1>1, <1>4, TotalIsSum

LEMMA DaysAreTotal ==
    ASSUME NEW f, NEW S, IsFiniteSet(S)
    PROVE  MapThenSumSet(LAMBDA d : f[d].bookedHours, S)
              = Total([d \in S |-> f[d].bookedHours], S)
  <1> DEFINE g == [d \in S |-> f[d].bookedHours]
             Defines(it) ==
                it = [s \in SUBSET S |->
                        IF s = {} THEN 0
                        ELSE LET x == CHOOSE x \in s : TRUE
                             IN  f[x].bookedHours + it[s \ {x}]]
             h == CHOOSE it : Defines(it)
  <1>1. MapThenSumSet(LAMBDA d : f[d].bookedHours, S) = h[S]
    BY DEF MapThenSumSet, MapThenFoldSet
  <1>2. ASSUME NEW it
        PROVE  Defines(it) <=> Sums(it, g, S)
    <2>1. ASSUME NEW s \in SUBSET S, s # {}
          PROVE  LET x == CHOOSE x \in s : TRUE
                 IN  f[x].bookedHours + it[s \ {x}] = g[First(s)] + it[s \ {First(s)}]
      BY <2>1 DEF First
    <2> QED  BY <2>1 DEF Sums, First
  <1> HIDE DEF Defines
  <1>3. \E it : Defines(it)
    BY <1>2, SumsExist
  <1>4. Sums(h, g, S)
    BY <1>2, <1>3
  <1> HIDE DEF h, g
  <1> QED  BY <1>1, <1>4, TotalIsSum DEF g

(* The day of an instant, and the days of a query.                         *)
LEMMA DayOf ==
    ASSUME NEW t \in Nat, NEW d \in Nat
    PROVE  Day(t) = d <=> d * DayLength <= t /\ t <= (d + 1) * DayLength - 1
  <1>1. DayLength \in Nat \ {0}
    BY ListingAssumption
  <1>2. t \div DayLength = d <=> d * DayLength <= t /\ t < d * DayLength + DayLength
    BY <1>1, SMT
  <1>3. (d + 1) * DayLength = d * DayLength + DayLength /\ d * DayLength \in Nat
    BY <1>1
  <1> QED  BY <1>1, <1>2, <1>3 DEF Day

LEMMA DaysAsAsked ==
    ASSUME NEW first \in Nat, NEW last \in Nat, first <= last
    PROVE  Days(first, last) = first..last
  <1>1. DayLength \in Nat \ {0}
    BY ListingAssumption
  <1>2. EndDate(last) - StartDate(first) = (last - first) * DayLength + DayLength - 1
    BY <1>1 DEF EndDate, StartDate
  <1>3. PICK n \in Nat : n = last - first
    OBVIOUS
  <1>4. EndDate(last) - StartDate(first) = n * DayLength + DayLength - 1
    BY <1>2, <1>3
  <1>5. n * DayLength + DayLength - 1 \in Nat
    BY <1>1
  <1>6. (n * DayLength + DayLength - 1) \div DayLength = n
    BY <1>1, SMT
  <1> QED  BY <1>3, <1>4, <1>6 DEF Days

(* Every booking that is found is an item of one day, the day it starts.   *)
LEMMA ItemsOfDays ==
    ASSUME TypeOK, NEW first \in Nat, NEW last \in Nat, first <= last
    PROVE  /\ \A b \in Booking, d \in first..last :
                 b \in Items(d, first, last) <=>
                     /\ Live(rows[b])
                     /\ rows[b].start \in d * DayLength..(d + 1) * DayLength - 1
                     /\ rows[b].start # (last + 1) * DayLength - 1
           /\ {b \in Booking : InDates(b, first, last)}
                 = UNION {Items(d, first, last) : d \in first..last}
  <1>1. DayLength \in Nat \ {0}
    BY ListingAssumption
  <1>2. ASSUME NEW b \in Booking
        PROVE  /\ rows[b].start \in Nat
               /\ InDates(b, first, last) <=>
                     /\ Live(rows[b]) /\ first * DayLength <= rows[b].start
                     /\ rows[b].start < (last + 1) * DayLength - 1
    <2>1. rows[b].start \in Nat
      BY RulesAssumption DEF TypeOK, Row, Time
    <2>2. last * DayLength + DayLength - 1 = (last + 1) * DayLength - 1
      BY <1>1
    <2> QED  BY <2>1, <2>2 DEF InDates, StartDate, EndDate
  <1>3. \A n, m \in Nat : n <= m => n * DayLength <= m * DayLength
    BY <1>1
  <1>4. ASSUME NEW b \in Booking, NEW d \in first..last
        PROVE  b \in Items(d, first, last) <=>
                  /\ Live(rows[b])
                  /\ rows[b].start \in d * DayLength..(d + 1) * DayLength - 1
                  /\ rows[b].start # (last + 1) * DayLength - 1
    <2> DEFINE t == rows[b].start
    <2>1. t \in Nat /\ d \in Nat /\ d + 1 <= last + 1 /\ first <= d
      BY <1>2
    <2>2. Day(t) = d <=> d * DayLength <= t /\ t <= (d + 1) * DayLength - 1
      BY <2>1, DayOf
    <2>3. /\ first * DayLength <= d * DayLength
          /\ (d + 1) * DayLength <= (last + 1) * DayLength
      BY <1>3, <2>1
    <2>4. /\ first * DayLength \in Nat /\ d * DayLength \in Nat
          /\ (d + 1) * DayLength \in Nat /\ (last + 1) * DayLength \in Nat
      BY <1>1, <2>1
    <2>5. b \in Items(d, first, last) <=>
             /\ Live(rows[b]) /\ first * DayLength <= t
             /\ t < (last + 1) * DayLength - 1
             /\ d * DayLength <= t /\ t <= (d + 1) * DayLength - 1
      BY <1>2, <2>2 DEF Items
    <2> HIDE DEF t
    <2>6. b \in Items(d, first, last) <=>
             /\ Live(rows[b]) /\ t \in d * DayLength..(d + 1) * DayLength - 1
             /\ t # (last + 1) * DayLength - 1
      BY <2>1, <2>3, <2>4, <2>5
    <2> QED  BY <2>6 DEF t
  <1>5. ASSUME NEW b \in Booking, InDates(b, first, last)
        PROVE  \E d \in first..last : b \in Items(d, first, last)
    <2> DEFINE t == rows[b].start
               d == Day(t)
    <2>1. /\ t \in Nat /\ first * DayLength <= t /\ t < (last + 1) * DayLength - 1
      BY <1>2, <1>5
    <2>2. d \in Nat
      BY <1>1, <2>1, SMT DEF Day
    <2>3. d * DayLength <= t /\ t <= (d + 1) * DayLength - 1
      BY <2>1, <2>2, DayOf
    <2> HIDE DEF t, d
    <2>4. d <= last
      <3> SUFFICES ASSUME last + 1 <= d PROVE FALSE
        BY <2>2
      <3>1. (last + 1) * DayLength <= d * DayLength
        BY <1>3, <2>2
      <3>2. (last + 1) * DayLength \in Nat /\ d * DayLength \in Nat
        BY <1>1, <2>2
      <3> QED  BY <2>1, <2>3, <3>1, <3>2
    <2>5. first <= d
      <3> SUFFICES ASSUME d + 1 <= first PROVE FALSE
        BY <2>2
      <3>1. (d + 1) * DayLength <= first * DayLength
        BY <1>3, <2>2
      <3>2. (d + 1) * DayLength \in Nat /\ first * DayLength \in Nat
        BY <1>1, <2>2
      <3> QED  BY <2>1, <2>3, <3>1, <3>2
    <2>6. b \in Items(d, first, last)
      BY <1>5 DEF d, t, Items
    <2> QED  BY <2>2, <2>4, <2>5, <2>6
  <1>6. {b \in Booking : InDates(b, first, last)}
           = UNION {Items(d, first, last) : d \in first..last}
    BY <1>5 DEF Items
  <1> QED  BY <1>4, <1>6

(* The hours of the days up to n are those of the items of these days.     *)
LEMMA HoursAdd ==
    ASSUME TypeOK, IsFiniteSet(Booking), NEW first \in Nat, NEW last \in Nat,
           first <= last, NEW f, NEW D, D = first..last,
           \A d \in D : f[d] = Hours(Items(d, first, last))
    PROVE  Total(f, D) = Hours(UNION {Items(d, first, last) : d \in D})
  <1> DEFINE I(d) == Items(d, first, last)
             U(s) == UNION {I(d) : d \in s}
             P == {s \in SUBSET D : Total(f, s) = Hours(U(s))}
  <1>0. IsFiniteSet(D)
    BY FS_Interval
  <1>1. \A s \in SUBSET D : U(s) \in SUBSET Booking /\ IsFiniteSet(U(s))
    <2>1. \A s \in SUBSET D : U(s) \in SUBSET Booking
      BY DEF Items
    <2> QED  BY <2>1, FS_Subset
  <1>2. \A b \in Booking : Length[b] \in Int
    BY RulesAssumption DEF Length, TypeOK, Row, Time
  <1>3. {} \in P
    <2>1. Total(f, {}) = 0 /\ Total(Length, {}) = 0
      BY FS_EmptySet, TotalSteps
    <2>2. Hours({}) = Total(Length, {})
      BY FS_EmptySet, HoursAreTotal
    <2> QED  BY <2>1, <2>2
  <1>4. \A d \in D : I(d) \in SUBSET Booking /\ IsFiniteSet(I(d))
    <2>1. \A d \in D : I(d) \in SUBSET Booking
      BY DEF Items
    <2> QED  BY <2>1, FS_Subset
  <1>5. \A d \in D : f[d] \in Int
    <2>1. \A d \in D : Hours(I(d)) = Total(Length, I(d))
      BY <1>4, HoursAreTotal
    <2>2. \A d \in D : Total(Length, I(d)) \in Int
      BY <1>2, <1>4, TotalIsInt
    <2> QED  BY <2>1, <2>2
  <1>6. ASSUME NEW s \in SUBSET D, s # {}, \A x \in s : s \ {x} \in P
        PROVE  s \in P
    <2>1. PICK d \in s : TRUE
      BY <1>6
    <2>2. U(s) = U(s \ {d}) \cup I(d)
      OBVIOUS
    <2>3. U(s \ {d}) \cap I(d) = {}
      BY DEF Items
    <2>4. s \ {d} \in SUBSET D /\ d \in D
      OBVIOUS
    <2>5. Total(f, s) = f[d] + Total(f, s \ {d})
      <3>1. IsFiniteSet(s)
        BY <1>0, FS_Subset
      <3>2. \A x \in s : f[x] \in Int
        BY <1>5
      <3> QED  BY <3>1, <3>2, TotalWithout, ZenonT(60)
    <2>6. Total(f, s \ {d}) = Hours(U(s \ {d}))
      BY <1>6
    <2> HIDE DEF U, I
    <2>7. /\ Hours(U(s)) = Total(Length, U(s))
          /\ Hours(U(s \ {d})) = Total(Length, U(s \ {d}))
          /\ Hours(I(d)) = Total(Length, I(d))
      BY <1>1, <1>4, <2>4, HoursAreTotal
    <2>8. Total(Length, U(s)) = Total(Length, U(s \ {d})) + Total(Length, I(d))
      <3>1. /\ U(s \ {d}) \in SUBSET Booking /\ IsFiniteSet(U(s \ {d}))
            /\ I(d) \in SUBSET Booking /\ IsFiniteSet(I(d))
        BY <1>1, <1>4, <2>4
      <3>2. \A x \in U(s \ {d}) \cup I(d) : Length[x] \in Int
        BY <1>2, <3>1
      <3> QED  BY <2>2, <2>3, <3>1, <3>2, TotalOfUnion
    <2>9. /\ Total(Length, U(s \ {d})) \in Int /\ Total(Length, I(d)) \in Int
      <3>1. /\ U(s \ {d}) \in SUBSET Booking /\ IsFiniteSet(U(s \ {d}))
            /\ I(d) \in SUBSET Booking /\ IsFiniteSet(I(d))
        BY <1>1, <1>4, <2>4
      <3> QED  BY <1>2, <3>1, TotalIsInt
    <2>10. f[d] = Hours(I(d))
      BY <2>4 DEF I
    <2>11. Total(f, s) = Hours(U(s))
      BY <2>5, <2>6, <2>7, <2>8, <2>9, <2>10
    <2> QED  BY <2>11 DEF U, I
  <1>7. P \in SUBSET (SUBSET D)
    OBVIOUS
  <1> HIDE DEF P
  <1>8. D \in P
    BY <1>0, <1>3, <1>6, <1>7, SubsetInduction
  <1> QED  BY <1>8 DEF P

(* One query of the calendar.                                              *)
LEMMA CalendarIsRight ==
    ASSUME TypeOK, IsFiniteSet(Booking), NEW first \in Nat, NEW last \in Nat,
           first <= last
    PROVE  LET shown == Calendar(first, last)
               found == {b \in Booking : InDates(b, first, last)}
           IN  /\ DOMAIN shown = first..last
               /\ \A b \in Booking, d \in first..last :
                     b \in shown[d].items <=>
                         /\ Live(rows[b])
                         /\ rows[b].start \in d * DayLength..(d + 1) * DayLength - 1
                         /\ rows[b].start # (last + 1) * DayLength - 1
               /\ found = UNION {shown[d].items : d \in first..last}
               /\ Hours(found) =
                     MapThenSumSet(LAMBDA d : shown[d].bookedHours, first..last)
  <1> DEFINE shown == Calendar(first, last)
             found == {b \in Booking : InDates(b, first, last)}
             D == first..last
             g == [d \in D |-> shown[d].bookedHours]
  <1>1. Days(first, last) = D
    BY DaysAsAsked
  <1>2. /\ DOMAIN shown = D
        /\ \A d \in D : /\ shown[d].items = Items(d, first, last)
                        /\ shown[d].bookedHours = Hours(Items(d, first, last))
    BY <1>1 DEF Calendar
  <1>3. /\ \A b \in Booking, d \in D :
              b \in Items(d, first, last) <=>
                  /\ Live(rows[b])
                  /\ rows[b].start \in d * DayLength..(d + 1) * DayLength - 1
                  /\ rows[b].start # (last + 1) * DayLength - 1
        /\ found = UNION {Items(d, first, last) : d \in D}
    BY ItemsOfDays
  <1>4. IsFiniteSet(D)
    BY FS_Interval
  <1> HIDE DEF shown
  <1>5. MapThenSumSet(LAMBDA d : shown[d].bookedHours, D) = Total(g, D)
    <2> HIDE DEF D
    <2> QED  BY <1>4, DaysAreTotal
  <1>6. Total(g, D) = Hours(UNION {Items(d, first, last) : d \in D})
    <2>1. \A d \in D : g[d] = Hours(Items(d, first, last))
      BY <1>2
    <2> HIDE DEF g
    <2> QED  BY <2>1, HoursAdd
  <1>7. UNION {shown[d].items : d \in D} = UNION {Items(d, first, last) : d \in D}
    BY <1>2
  <1> HIDE DEF g, D
  <1>8. Hours(found) = MapThenSumSet(LAMBDA d : shown[d].bookedHours, D)
    BY <1>3, <1>5, <1>6
  <1>9. \A b \in Booking, d \in D :
              b \in shown[d].items <=>
                  /\ Live(rows[b])
                  /\ rows[b].start \in d * DayLength..(d + 1) * DayLength - 1
                  /\ rows[b].start # (last + 1) * DayLength - 1
    BY <1>2, <1>3
  <1>10. found = UNION {shown[d].items : d \in D}
    BY <1>3, <1>7
  <1> QED  BY <1>2, <1>8, <1>9, <1>10 DEF shown, D

(* getCalendarBooking shows every booking that starts on one of the days,  *)
(* but for the last second, on the day it starts and no other, finds none  *)
(* that it does not show, and the hours of the days add up to those of     *)
(* what is shown: for every table, number of days and length of a day.     *)
THEOREM CalendarShowsAll ==
    ASSUME IsFiniteSet(Booking)
    PROVE  Spec => []CalendarIsWhole
  <1>1. TypeOK => CalendarIsWhole
    <2> SUFFICES ASSUME TypeOK, NEW last \in 0..Day(MaxTime), NEW first \in 0..last
                 PROVE  LET shown == Calendar(first, last)
                            found == {b \in Booking : InDates(b, first, last)}
                        IN  /\ DOMAIN shown = first..last
                            /\ \A b \in Booking, d \in first..last :
                                  b \in shown[d].items <=>
                                      /\ Live(rows[b])
                                      /\ rows[b].start
                                            \in d * DayLength..(d + 1) * DayLength - 1
                                      /\ rows[b].start # (last + 1) * DayLength - 1
                            /\ found = UNION {shown[d].items : d \in first..last}
                            /\ Hours(found) =
                                  MapThenSumSet(LAMBDA d : shown[d].bookedHours,
                                                first..last)
      BY DEF CalendarIsWhole
    <2>1. first \in Nat /\ last \in Nat /\ first <= last
      OBVIOUS
    <2> QED  BY <2>1, CalendarIsRight
  <1> QED  BY <1>1, TypeCorrect, PTL

-----------------------------------------------------------------------------
(* The pages of getList.                                                   *)

(* When the page is the last one.                                          *)
LEMMA LastPage ==
    ASSUME NEW n \in Nat, NEW size \in Nat \ {0}, NEW page \in Nat \ {0}
    PROVE  page + 1 > Pages(n, size) <=> n <= page * size
  <1> DEFINE q == Pages(n, size)
  <1>1. q \in Nat /\ q * size <= n + size - 1 /\ n + size - 1 < q * size + size
    <2>1. PICK m \in Nat : m = n + size - 1
      OBVIOUS
    <2>2. m \div size \in Nat
      BY SMT
    <2>3. ASSUME NEW d \in Nat
          PROVE  m \div size = d <=> d * size <= m /\ m < d * size + size
      BY SMT
    <2>4. q = m \div size
      BY <2>1 DEF Pages
    <2> QED  BY <2>1, <2>2, <2>3, <2>4
  <1> HIDE DEF q
  <1>2. ASSUME page >= q
        PROVE  n <= page * size
    <2>1. page * size >= q * size /\ q * size \in Nat /\ page * size \in Nat
      BY <1>1, <1>2
    <2> QED  BY <1>1, <2>1
  <1>3. ASSUME n <= page * size
        PROVE  page >= q
    <2> SUFFICES ASSUME q >= page + 1 PROVE FALSE
      BY <1>1
    <2>1. q * size >= (page + 1) * size /\ q * size \in Nat
      BY <1>1
    <2>2. (page + 1) * size = page * size + size /\ page * size \in Nat
      OBVIOUS
    <2> QED  BY <1>1, <1>3, <2>1, <2>2
  <1> QED  BY <1>1, <1>2, <1>3 DEF q

(* The rows after the first skip ones, and the next size ones of them.     *)
After(list, skip) == SubSeq(list, skip + 1, Len(list))

Taken(list, skip, size) ==
    SubSeq(list, skip + 1, IF skip + size < Len(list) THEN skip + size ELSE Len(list))

(* What is left is the next page and what is left after it.                *)
LEMMA AfterSplits ==
    ASSUME NEW S, NEW list \in Seq(S), NEW skip \in Nat, NEW size \in Nat \ {0}
    PROVE  /\ After(list, skip) = Taken(list, skip, size) \o After(list, skip + size)
           /\ Len(list) <= skip + size => After(list, skip + size) = <<>>
  <1> DEFINE n == Len(list)
             end == IF skip + size < n THEN skip + size ELSE n
  <1>1. n \in Nat
    OBVIOUS
  <1>2. ASSUME n <= skip + size
        PROVE  SubSeq(list, skip + size + 1, n) = <<>>
    BY <1>1, <1>2, SubSeqEmpty
  <1>3. ASSUME n <= skip + size
        PROVE  SubSeq(list, skip + 1, n)
                 = SubSeq(list, skip + 1, end) \o SubSeq(list, skip + size + 1, n)
    <2>1. SubSeq(list, skip + 1, n) \in Seq(S)
      <3>1. \A i \in skip + 1..n : list[i] \in S
        BY <1>1
      <3>2. skip + 1 \in Int /\ n \in Int
        BY <1>1
      <3> QED  BY <3>1, <3>2, SubSeqProperties
    <2>2. SubSeq(list, skip + 1, n) \o <<>> = SubSeq(list, skip + 1, n)
      BY <2>1, ConcatEmptySeq
    <2>3. end = n
      BY <1>1, <1>3
    <2> HIDE DEF end, n
    <2> QED  BY <1>2, <1>3, <2>2, <2>3, Zenon
  <1>4. ASSUME skip + size < n
        PROVE  SubSeq(list, skip + 1, n)
                 = SubSeq(list, skip + 1, end) \o SubSeq(list, skip + size + 1, n)
    <2>1. /\ skip + 1 \in 1..Len(list) + 1
          /\ skip + size \in (skip + 1) - 1..Len(list)
          /\ n \in skip + size..Len(list)
          /\ end = skip + size
      BY <1>1, <1>4
    <2> HIDE DEF end, n
    <2>2. SubSeq(list, skip + 1, skip + size) \o SubSeq(list, (skip + size) + 1, n)
             = SubSeq(list, skip + 1, n)
      BY <2>1, ConcatAdjacentSubSeq, Zenon
    <2> QED  BY <2>1, <2>2, Zenon
  <1>5. n <= skip + size \/ skip + size < n
    BY <1>1
  <1>6. /\ After(list, skip) = SubSeq(list, skip + 1, n)
        /\ After(list, skip + size) = SubSeq(list, skip + size + 1, n)
        /\ Taken(list, skip, size) = SubSeq(list, skip + 1, end)
    BY Zenon DEF After, Taken
  <1> HIDE DEF end
  <1> QED  BY <1>2, <1>3, <1>4, <1>5, <1>6, Zenon

(* What a client sees from a page on: the table without the pages before.  *)
LEMMA PageAndRest ==
    ASSUME NEW S, NEW list \in Seq(S), NEW size \in Nat \ {0},
           NEW page \in 1..Len(list) + 1
    PROVE  LET next == NextPage(Len(list), page, size)
           IN  /\ next # Null => next = page + 1 /\ next \in 1..Len(list) + 1
               /\ After(list, (page - 1) * size)
                     = Page(list, page, size)
                          \o (IF next = Null THEN <<>>
                              ELSE After(list, (next - 1) * size))
  <1> DEFINE n == Len(list)
             skip == (page - 1) * size
             next == NextPage(n, page, size)
  <1>1. n \in Nat /\ page \in Nat \ {0} /\ page <= n + 1
    OBVIOUS
  <1>2. skip \in Nat /\ page * size = skip + size /\ page - 1 <= skip
    <2>1. \A a \in Nat : /\ a * size \in Nat /\ a <= a * size
                        /\ (a + 1) * size = a * size + size
      OBVIOUS
    <2>2. page - 1 \in Nat /\ (page - 1) + 1 = page
      BY <1>1
    <2> QED  BY <2>1, <2>2
  <1>3. next = IF n <= skip + size THEN Null ELSE page + 1
    <2>1. page + 1 > Pages(n, size) <=> n <= skip + size
      BY <1>1, <1>2, LastPage
    <2> QED  BY <2>1 DEF NextPage
  <1>4. Page(list, page, size) = Taken(list, skip, size)
    BY Zenon DEF Page, Taken
  <1>5. next # Null => (next - 1) * size = skip + size
    <2>1. page + 1 - 1 = page
      BY <1>1
    <2> QED  BY <1>2, <1>3, <2>1
  <1>6. /\ After(list, skip) = Taken(list, skip, size) \o After(list, skip + size)
        /\ n <= skip + size => After(list, skip + size) = <<>>
    BY <1>2, AfterSplits
  <1> HIDE DEF skip, n, next
  <1>7. next # Null => next = page + 1 /\ next \in 1..n + 1
    BY <1>1, <1>2, <1>3
  <1>8. next = Null <=> n <= skip + size
    BY <1>1, <1>3 DEF Null
  <1>9. After(list, skip)
           = Page(list, page, size)
                \o (IF next = Null THEN <<>> ELSE After(list, (next - 1) * size))
    BY <1>4, <1>5, <1>6, <1>8, Zenon
  <1> QED  BY <1>7, <1>9, Zenon DEF skip, n, next

(* from is what a client sees from every page on, as Walk defines it.      *)
Walks(from, list, size) ==
    from = [page \in 1..Len(list) + 1 |->
               LET next == NextPage(Len(list), page, size)
               IN  Page(list, page, size)
                       \o (IF next = Null THEN <<>> ELSE from[next])]

(* There is one way to follow the pages, and it leads through all rows.    *)
LEMMA WalksAgree ==
    ASSUME NEW S, NEW list \in Seq(S), NEW size \in Nat \ {0},
           NEW from, Walks(from, list, size)
    PROVE  \A page \in 1..Len(list) + 1 : from[page] = After(list, (page - 1) * size)
  <1> DEFINE n == Len(list)
             Right(page) == from[page] = After(list, (page - 1) * size)
             Bad == {m \in 0..n : ~ Right(n + 1 - m)}
  <1>0. n \in Nat
    OBVIOUS
  <1> HIDE DEF n, Right
  <1>1. Bad = {}
    <2> SUFFICES ASSUME Bad # {} PROVE FALSE
      OBVIOUS
    <2>1. PICK m \in Bad : \A k \in Bad : m <= k
      <3>1. Bad \in SUBSET Nat
        BY <1>0
      <3> HIDE DEF Bad
      <3> QED  BY <3>1, LeastNatural
    <2> DEFINE page == n + 1 - m
               next == NextPage(n, page, size)
    <2>2. m \in 0..n /\ ~ Right(page)
      BY <2>1
    <2>3. page \in 1..n + 1
      BY <1>0, <2>2
    <2>4. from[page] = Page(list, page, size)
                          \o (IF next = Null THEN <<>> ELSE from[next])
      <3> HIDE DEF page
      <3> QED  BY <2>3, Zenon DEF Walks, n
    <2>5. /\ next # Null => next = page + 1 /\ next \in 1..n + 1
          /\ After(list, (page - 1) * size)
                = Page(list, page, size)
                     \o (IF next = Null THEN <<>> ELSE After(list, (next - 1) * size))
      <3> HIDE DEF page
      <3> QED  BY <2>3, PageAndRest, Zenon DEF n
    <2>6. ASSUME next # Null
          PROVE  Right(next)
      <3>1. next = page + 1 /\ next \in 1..n + 1
        BY <2>5, <2>6, Zenon
      <3> HIDE DEF next
      <3>2. next = n + 1 - (m - 1) /\ m - 1 \in 0..n
        BY <1>0, <2>2, <3>1
      <3>3. m - 1 \notin Bad
        BY <1>0, <2>1, <2>2
      <3> QED  BY <3>2, <3>3, Zenon DEF Bad
    <2> HIDE DEF page, next
    <2> QED  BY <2>2, <2>4, <2>5, <2>6, Zenon DEF Right
  <1>2. ASSUME NEW page \in 1..n + 1
        PROVE  Right(page)
    <2>1. n + 1 - page \in 0..n /\ n + 1 - (n + 1 - page) = page
      BY <1>0
    <2>2. n + 1 - page \notin Bad
      BY <1>1
    <2> QED  BY <2>1, <2>2
  <1> QED  BY <1>2, Zenon DEF Right, n

(* Whatever its rows, a client reads the whole table.                      *)
LEMMA WalkCovers ==
    ASSUME NEW S, NEW list \in Seq(S), NEW size \in Nat \ {0}
    PROVE  Walk(list, size) = list
  <1> DEFINE f == CHOOSE from : Walks(from, list, size)
             rest == [page \in 1..Len(list) + 1 |-> After(list, (page - 1) * size)]
  <1>1. Walks(rest, list, size)
    <2>1. ASSUME NEW page \in 1..Len(list) + 1
          PROVE  LET next == NextPage(Len(list), page, size)
                 IN  After(list, (page - 1) * size)
                       = Page(list, page, size)
                            \o (IF next = Null THEN <<>> ELSE rest[next])
      <3> DEFINE next == NextPage(Len(list), page, size)
      <3>1. /\ next # Null => next \in 1..Len(list) + 1
            /\ After(list, (page - 1) * size)
                  = Page(list, page, size)
                       \o (IF next = Null THEN <<>>
                           ELSE After(list, (next - 1) * size))
        BY PageAndRest, Zenon
      <3> HIDE DEF next
      <3>2. next # Null => rest[next] = After(list, (next - 1) * size)
        BY <3>1
      <3> HIDE DEF rest
      <3> QED  BY <3>1, <3>2, Zenon DEF next
    <2> QED  BY <2>1, Zenon DEF Walks
  <1>2. Walks(f, list, size)
    <2> HIDE DEF rest
    <2> QED  BY <1>1
  <1>3. Walk(list, size) = f[1]
    BY DEF Walk, Walks
  <1> HIDE DEF f
  <1>4. f[1] = After(list, (1 - 1) * size)
    <2>1. 1 \in 1..Len(list) + 1
      OBVIOUS
    <2> QED  BY <1>2, <2>1, WalksAgree, Zenon
  <1>5. After(list, (1 - 1) * size) = SubSeq(list, 1, Len(list))
    <2>1. (1 - 1) * size + 1 = 1
      OBVIOUS
    <2> QED  BY <2>1, Zenon DEF After
  <1> QED  BY <1>3, <1>4, <1>5, SubSeqFull, Zenon

(* A client of getList that follows nextPage from the first page sees      *)
(* every row once and stops, and prevPage leads back, whatever the number  *)
(* of rows, the order asked for and the size of a page.                    *)
THEOREM PagesShowAll ==
    ASSUME IsFiniteSet(Booking)
    PROVE  Spec => []PagesCoverTable
  <1>1. ASSUME NEW n \in 0..MaxRows
        PROVE  Covered[n]
    <2> SUFFICES ASSUME NEW size \in 1..MaxRows + 1
                 PROVE  LET list == [i \in 1..n |-> i]
                        IN  /\ Walk(list, size) = list
                            /\ \A page \in 1..Pages(n, size) :
                                  LET next == NextPage(n, page, size)
                                  IN  next # Null => PrevPage(next) = page
      BY DEF Covered
    <2> DEFINE list == [i \in 1..n |-> i]
    <2>1. n \in Nat /\ size \in Nat \ {0}
      BY ListingAssumption
    <2>2. list \in Seq(Nat)
      BY <2>1
    <2>3. Walk(list, size) = list
      <3> HIDE DEF list
      <3> QED  BY <2>1, <2>2, WalkCovers
    <2>4. \A page \in 1..Pages(n, size) :
              LET next == NextPage(n, page, size)
              IN  next # Null => PrevPage(next) = page
      BY DEF NextPage, PrevPage, Null
    <2> QED  BY <2>3, <2>4
  <1>2. PagesCoverTable
    <2>1. Cardinality({b \in Booking : Live(rows[b])}) \in Nat
      BY FS_Subset, FS_CardinalityType
    <2>2. \A n \in Cardinality({b \in Booking : Live(rows[b])})..MaxRows :
              n \in 0..MaxRows
      BY <2>1, ListingAssumption
    <2> QED  BY <1>1, <2>2 DEF PagesCoverTable
  <1> QED  BY <1>2, PTL

=============================================================================
