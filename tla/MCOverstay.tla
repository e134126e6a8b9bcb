------------------------------ MODULE MCOverstay ------------------------------
(* A guest who may be late with one request or two, another whose form is   *)
(* open, and the booking that has the room of the first one next.          *)
EXTENDS Overstay, TLC

CONSTANTS late, formal, next, room, other, c2

MCCheckIn == late :> 0 @@ formal :> 0 @@ next :> 3
MCCheckOut == late :> 1 @@ formal :> 2 @@ next :> 4
MCRoomOf == late :> room @@ formal :> other @@ next :> room
MCTotal == [b \in Bookings |-> 12]
MCExtensions == late :> 2 @@ formal :> 1 @@ next :> 0
MCDismissed == late :> 1 @@ formal :> 0 @@ next :> 0

\* They are in different rooms, so either the requests are about one, or one
\* request and the form about the other; a second request extends the late stay.
OneAtATime ==
  /\ \/ form[formal] = Blank /\ booking[formal].status = "CONFIRMED"
     \/ booking[late].status = "CONFIRMED"
  /\ desk[c2] = Idle \/ IsExtending(c2, late)

=============================================================================
