SPECIFICATION Spec
CONSTANTS
  Bookings = {b1}
  Sessions = {s1}
  Requests = {p1}
  Operations = {"pay", "cancel_bmt"}
  NoSession = none
  Price = 1
  RefundOffers = {1}
  ForgetfulStripe = FALSE
INVARIANTS
  CancelledIsRefunded
\* Every session of the bounded set may be used up: the instance then stops.
CHECK_DEADLOCK FALSE
