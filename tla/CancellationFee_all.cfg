SPECIFICATION Spec
CONSTANTS
  Total = 105
  Nights = 2
  MaxHours = 4
  Policies <- SomePolicies
INVARIANTS
  TypeOK
  BooksBalance
PROPERTIES
  WaitingIsNeverCheaper
\* A booking cancelled and at its check-in time is at its end.
CHECK_DEADLOCK FALSE
