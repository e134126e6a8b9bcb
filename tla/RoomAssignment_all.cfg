SPECIFICATION Spec
CONSTANTS
  b1 = b1
  b2 = b2
  b3 = b3
  Bookings = {b1, b2}
  Rooms = {r1, r2}
  Workers = {w1, w2}
  Operations = {"assign", "unassign", "move", "check_out", "cancel", "clean"}
  NoRoom = none
  NoWorker = nobody
  Stay <- SomeStays
SYMMETRY RoomSymmetry
INVARIANTS
  TypeOK
  NoDoubleBooking
PROPERTIES
  ImplementsCalendar
\* Every booking may be cancelled or completed and every room clean.
CHECK_DEADLOCK FALSE
