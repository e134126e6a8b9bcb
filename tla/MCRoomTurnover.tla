---------------------------- MODULE MCRoomTurnover ----------------------------
(* Model checking RoomTurnover: bookings and workers are interchangeable. *)
EXTENDS RoomTurnover, TLC

TurnoverSymmetry == Permutations(Bookings) \cup Permutations(Workers)

\* Nothing is claimed of a room once the inventory form has written it, and a
\* form that is out of date does nothing else.
BeforeTheForm ==
  /\ ~edited
  /\ \A w \in Workers : desk[w] # Idle /\ desk[w].saves = "form" => desk[w].fresh

=============================================================================
