SPECIFICATION FairSpec
CONSTANTS
  Bookings = {b1}
  Sessions = {s1, s2}
  Requests = {p1}
  Operations = {"pay", "cancel_gbt", "cancel_bmt", "staff_cancel",
                "check_in", "precheckin"}
  NoSession = none
  Price = 1
  RefundOffers = {1}
  ForgetfulStripe = TRUE
INVARIANTS
  TypeOK
  PendingApprovalCanBeExpired
PROPERTIES
  NobodyWaitsForEver
  ImplementsLedger
\* Every session of the bounded set may be used up: the instance then stops.
CHECK_DEADLOCK FALSE
