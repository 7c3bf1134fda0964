--------------------------- MODULE BookingLedgerMC ---------------------------
(***************************************************************************)
(* A small instance of BookingLedger, and of what clients read, for TLC.   *)
(***************************************************************************)
EXTENDS Listing, TLC

(* Bookings differ only in their rows, rooms only in their state.          *)
BookingSymmetry == Permutations(Booking) \cup Permutations(Room)

=============================================================================
