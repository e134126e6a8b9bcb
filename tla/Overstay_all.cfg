SPECIFICATION Spec
CONSTANTS
  late = late  formal = formal  next = next  room = room  other = other  c2 = c2
  Bookings = {late, formal, next}
  CheckIn <- MCCheckIn
  CheckOut <- MCCheckOut
  RoomOf <- MCRoomOf
  TotalAmount <- MCTotal
  Arrived = {late, formal}
  Forms = {formal}
  Clerks = {c1, c2}
  Keys = {k1}
  NoKey = NoKey
  Nights = {1}
  LaterBy = {2}
  MaxExtensions <- MCExtensions
  MaxDismissed <- MCDismissed
  DayLength = 2
  CheckOutHour = 1
  LastHour = 7
  Idle = Idle  Blank = Blank  Sent = Sent
INVARIANTS TypeOK DepartureIsExplained KeysExtendOnce FlaggedStaysAreLate NextGuestKeepsTheRoom
PROPERTY OverstaysAreFlagged
CONSTRAINT OneAtATime
CHECK_DEADLOCK FALSE
