SPECIFICATION Spec
CONSTANTS
  Clerks = {c1}
  Browsers = {g1}
  MaxLinks = 2
  Idle = Idle
PROPERTY ResponsesAreKept
CHECK_DEADLOCK FALSE
