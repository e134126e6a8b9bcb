SPECIFICATION Spec
CONSTANTS
  Periods <- TwoPeriods
  Counted <- FirstPeriod
  Workers = {w1, w2}
  Records = {r1}
  Kinds = {"dozen", "juice"}
  Uom = 2
  BottlesPerCase = 2
  ServingsPerBottle = 2
  Counts <- SmallCounts
  MaxMoves = 1
  MaxPosted = 1
  Elsewhere = elsewhere
  Idle = idle
  NoLine = noline
  NoSnapshot = nosnapshot
CONSTRAINT WhileRegular
SYMMETRY StocktakeSymmetry
INVARIANTS
  TypeOK
  AdjustmentsExplainTheCount
  MergedIsMoved
  ClosedPeriodsAreApproved
PROPERTIES
  NextOpensWithTheCount
  ApprovedLinesStay
