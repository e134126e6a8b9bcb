SPECIFICATION Spec
CONSTANTS
  Bookings = {b1}
  Sessions = {s1}
  Requests = {p1, p2}
  Operations = {"pay", "cancel_bmt", "confirm", "check_out", "precheckin"}
  NoSession = none
  Price = 3
  RefundOffers = {1, 2}
  ForgetfulStripe = FALSE
CONSTRAINT CheckOutMeetsForms
SYMMETRY RequestSymmetry
INVARIANTS
  DeclinedIsRefunded
  RecordedRefundsAreReal
  CancellationRefundsOnce
  IntentIsCaptured
\* Every session of the bounded set may be used up: the instance then stops.
CHECK_DEADLOCK FALSE
