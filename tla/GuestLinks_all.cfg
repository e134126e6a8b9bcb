SPECIFICATION Spec
CONSTANTS
  Clerks = {c1, c2}
  Browsers = {g1, g2}
  MaxLinks = 3
  Idle = Idle
INVARIANTS TypeOK LinksWorkOnce
PROPERTY ClosedLinksStayClosed
CHECK_DEADLOCK FALSE
SYMMETRY Alike
CONSTRAINT TwoOfAKind
