-------------------------- MODULE MCRoomAssignment --------------------------
(* Model checking RoomAssignment and RoomCheckIn: one stay of two nights that *)
(* overlaps both of two stays of one night; rooms and workers are symmetric.  *)
EXTENDS RoomCheckIn, TLC

CONSTANTS b1, b2, b3

Dates(from, to) == [check_in |-> from, check_out |-> to]

SomeStays ==
  [b \in Bookings |-> CASE b = b1 -> Dates(1, 3) [] b = b2 -> Dates(1, 2) [] b = b3 -> Dates(2, 3)]

RoomSymmetry == Permutations(Rooms) \cup Permutations(Workers)

=============================================================================
