---------------------------- MODULE RoomCheckIn ----------------------------
(***************************************************************************)
(* RoomAssignment with guests who arrive: BookingCheckInView reads the     *)
(* booking and its room, validates what it read, and only then opens a     *)
(* transaction, in which it saves the whole row that it has in memory.     *)
(***************************************************************************)
EXTENDS RoomAssignment

-----------------------------------------------------------------------------
(* BookingCheckInView *)

\* validate_checkin, on rows read without a lock; a guest who was checked in
\* before passes, if the room is ready or occupied.
CheckInReads(w, b) ==
  LET r == booking[b].assigned_room
  IN  /\ r # NoRoom
      /\ \/ /\ booking[b].status = "CONFIRMED"
            /\ room[r].room_status = "READY_FOR_GUEST"
         \/ /\ booking[b].checked_in_at
            /\ room[r].room_status # "CHECKOUT_DIRTY"
      /\ BeginsWith(w, "check_in", "booking", b, r, room[r].room_status = "READY_FOR_GUEST")

CheckInLocksBooking(w) ==
  /\ txn[w].op = "check_in" /\ txn[w].at = "booking"
  /\ Locks(w, txn[w].booking)
  /\ txn' = [txn EXCEPT ![w].at = "room"]

CheckInLocksRoom(w) ==
  /\ txn[w].op = "check_in" /\ txn[w].at = "room"
  /\ Locks(w, txn[w].room)
  /\ txn' = [txn EXCEPT ![w].at = "saves"]

\* Every column of the booking is saved as it was read; the status of the room
\* is left alone if it was OCCUPIED already.
CheckInSaves(w) ==
  LET b == txn[w].booking
      r == txn[w].room
  IN  /\ txn[w].op = "check_in" /\ txn[w].at = "saves"
      /\ booking' = [booking EXCEPT ![b] = [txn[w].read EXCEPT !.checked_in_at = TRUE]]
      /\ guest' = [guest EXCEPT ![b] = r]
      /\ room' = [room EXCEPT ![r].is_occupied = TRUE,
                              ![r].room_status = IF txn[w].seen THEN "OCCUPIED" ELSE @]
      /\ Ends(w)

-----------------------------------------------------------------------------
(* Specification *)

CheckInNext ==
  \/ Next
  \/ \E w \in Workers :
       \/ \E b \in Bookings : CheckInReads(w, b)
       \/ CheckInLocksBooking(w) \/ CheckInLocksRoom(w) \/ CheckInSaves(w)

CheckInSpec == Init /\ [][CheckInNext]_vars

=============================================================================
