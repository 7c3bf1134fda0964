--------------------------- MODULE BookingSerialMC ---------------------------
(***************************************************************************)
(* A small instance of BookingSerial for TLC.                              *)
(***************************************************************************)
EXTENDS BookingSerial, TLC

(* No body, and the bodies that move a booking to another room or to none. *)
NoBody   == {}
RoomBody == {p \in Patch : p.room # Keep /\ p.start = Keep /\ p.end = Keep}

ServiceSymmetry == Permutations(Booking) \cup Permutations(Room)

=============================================================================
