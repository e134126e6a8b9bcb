SPECIFICATION Spec
CONSTANTS
  Bookings = {b1}
  Workers = {w1, w2}
  Idle = idle
CONSTRAINT BeforeTheForm
SYMMETRY TurnoverSymmetry
INVARIANTS
  TypeOK
  ReadyRoomsNeedNoMaintenance
  
PROPERTIES
  GuestsComeIntoSoundRooms
  StatusFollowsTheStateMachine
