---------------------------- MODULE RoomCalendar ----------------------------
(***************************************************************************)
(* What room assignment promises: a room is given to one booking at a      *)
(* time, at a moment at which it is ready for a guest and kept for nobody  *)
(* else during the stay.                                                   *)
(***************************************************************************)
CONSTANTS Bookings, Rooms, NoRoom, Overlaps(_, _)

VARIABLES
  kept,   \* the room that is kept for each booking
  fit     \* the rooms that are ready for a guest

vars == <<kept, fit>>

Free(b, r) == \A c \in Bookings \ {b} : kept[c] = r => ~Overlaps(b, c)

Init ==
  /\ kept \in [Bookings -> Rooms \cup {NoRoom}]
  /\ \A b \in Bookings : kept[b] # NoRoom => Free(b, kept[b])
  /\ fit \in SUBSET Rooms

Takes(b, r) ==
  /\ r \in fit /\ Free(b, r)
  /\ kept' = [kept EXCEPT ![b] = r]
  /\ fit' \subseteq fit

Gives(b) ==
  /\ kept' = [kept EXCEPT ![b] = NoRoom]
  /\ fit' \subseteq fit

\* Rooms are cleaned, and found unfit.
Turnover == fit' \in SUBSET Rooms /\ UNCHANGED kept

Next ==
  \/ \E b \in Bookings, r \in Rooms : Takes(b, r)
  \/ \E b \in Bookings : Gives(b)
  \/ Turnover

Spec == Init /\ [][Next]_vars

=============================================================================
