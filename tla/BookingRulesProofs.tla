------------------------- MODULE BookingRulesProofs -------------------------
(***************************************************************************)
(* Lemmas about the operators of BookingRules that the proofs about the    *)
(* handlers share, whether these run one at a time or interleaved.         *)
(***************************************************************************)
EXTENDS BookingRules, TLAPS

-----------------------------------------------------------------------------
(* The overlap query finds every row that shares an instant with the slot. *)
LEMMA QueryFindsClashes ==
    ASSUME NEW x \in Row, NEW y \in Row, Clash(x, y)
    PROVE  InSlot(x, y.start, y.end)
  <1>1. /\ x.start \in Int /\ x.end \in Int
        /\ y.start \in Int /\ y.end \in Int
    BY RulesAssumption DEF Row, Time
  <1> QED  BY <1>1 DEF Clash, InSlot

LEMMA ClashIsSymmetric ==
    ASSUME NEW x, NEW y, Clash(x, y)
    PROVE  Clash(y, x)
  BY DEF Clash

(* Only the slot of a row counts for a clash.                              *)
LEMMA ClashOfSlots ==
    ASSUME NEW x, NEW y, NEW x1, NEW y1,
           x1.start = x.start, x1.end = x.end,
           y1.start = y.start, y1.end = y.end
    PROVE  Clash(x1, y1) <=> Clash(x, y)
  BY DEF Clash

-----------------------------------------------------------------------------
(* What each kind of write does to a row.                                  *)

LEMMA NoRowIsRow ==
    ASSUME NEW s \in {"unborn", "deleted"}
    PROVE  NoRow(s) \in Row /\ NoRow(s).status = s
  BY RulesAssumption DEF NoRow, Row, Time

LEMMA NewRowIsRow ==
    ASSUME NEW u \in User, NEW r \in Room, NEW s \in Time, NEW e \in Time,
           NEW t \in Time
    PROVE  LET x == NewRow(u, r, s, e, t)
           IN  /\ x \in Row
               /\ x.status = IF u \in Approvers THEN "approved" ELSE "pending"
               /\ x.room = r /\ x.start = s /\ x.end = e
               /\ x.creator = u
               /\ u \in Approvers => x.modifiedBy = u
  BY DEF NewRow, Row, Status

LEMMA DecidedIsRow ==
    ASSUME NEW row \in Row, NEW s \in Status, NEW u \in User, NEW t \in Time
    PROVE  LET x == Decided(row, s, u, t)
           IN  /\ x \in Row
               /\ x.status = s /\ x.modifiedBy = u
               /\ x.room = row.room /\ x.start = row.start /\ x.end = row.end
               /\ x.creator = row.creator
  BY DEF Decided, Row

LEMMA MovedIsRow ==
    ASSUME NEW row \in Row, NEW s \in Status, NEW t \in Time
    PROVE  LET x == Moved(row, s, t)
           IN  /\ x \in Row
               /\ x.status = s /\ x.modifiedBy = row.modifiedBy
               /\ x.room = row.room /\ x.start = row.start /\ x.end = row.end
               /\ x.creator = row.creator
  BY DEF Moved, Row

LEMMA CancelledIsRow ==
    ASSUME NEW row \in Row, NEW u \in User, NEW t \in Time
    PROVE  LET x == Cancelled(row, u, t)
           IN  /\ x \in Row
               /\ x.status = "cancel"
               /\ x.room = row.room /\ x.start = row.start /\ x.end = row.end
  <1>1. "cancel" \in Status
    BY DEF Status
  <1> QED  BY <1>1, MovedIsRow, DecidedIsRow DEF Cancelled

LEMMA PatchedIsRow ==
    ASSUME NEW row \in Row, NEW p \in Patch, NEW t \in Time
    PROVE  LET x == Patched(row, p, t)
           IN  /\ x \in Row
               /\ x.status = row.status /\ x.modifiedBy = row.modifiedBy
               /\ x.creator = row.creator
               /\ x.room = Given(p.room, row.room)
               /\ x.start = Given(p.start, row.start)
               /\ x.end = Given(p.end, row.end)
  <1>1. /\ Given(p.room, row.room) \in Room \cup {NoRoom}
        /\ Given(p.start, row.start) \in Time
        /\ Given(p.end, row.end) \in Time
    BY DEF Given, Patch, Row
  <1> HIDE DEF Given
  <1> QED  BY <1>1 DEF Patched, Row

(* Mails that were sent to the creators of a set of bookings.              *)
LEMMA SentIsMail ==
    ASSUME NEW ml \in [Booking -> Mail], NEW B, NEW m \in Mail
    PROVE  LET after == Sent(ml, B, m)
           IN  /\ after \in [Booking -> Mail]
               /\ \A x \in Booking :
                     after[x] = IF x \in B THEN m ELSE ml[x]
  BY DEF Sent

=============================================================================
