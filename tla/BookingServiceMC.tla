-------------------------- MODULE BookingServiceMC --------------------------
(***************************************************************************)
(* A small instance of BookingService for TLC.                             *)
(***************************************************************************)
EXTENDS BookingService, TLC

(* No body, the bodies that name only the room, and one that moves the     *)
(* start as well, which alone can make a slot that ends where it starts.   *)
NoBody   == {}
RoomBody == {p \in Patch : p.room # Keep /\ p.start = Keep /\ p.end = Keep}
MoveBody == RoomBody \cup
            {p \in Patch : p.room \in Room /\ p.start = MaxTime /\ p.end = Keep}

ServiceSymmetry ==
    Permutations(Booking) \cup Permutations(Room) \cup Permutations(Request)

=============================================================================
