SPECIFICATION CheckInSpec
CONSTANTS
  b1 = b1
  b2 = b2
  b3 = b3
  Bookings = {b1, b2, b3}
  Rooms = {r1, r2}
  Workers = {w1, w2}
  Operations = {"assign", "unassign", "check_in"}
  NoRoom = none
  NoWorker = nobody
  Stay <- SomeStays
SYMMETRY RoomSymmetry
INVARIANTS
  NoDoubleBooking
\* Every booking may be cancelled or completed and every room clean.
CHECK_DEADLOCK FALSE
