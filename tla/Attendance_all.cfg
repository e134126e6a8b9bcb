SPECIFICATION Spec
CONSTANTS
  Staff = {s1}
  Workers = {w1, w2}
  Alerts = alerts
  Closer = closer
  LastDay = 2
  MaxLogs = 2
  Periods = {p1}
  DaysOf <- FirstDay
  Idle = idle
  NoLog = nolog
CONSTRAINT Bounds
CHECK_DEADLOCK FALSE
INVARIANTS
  TypeOK
  OneSessionADay
  DutyFollowsTheLogs
  FinalPeriodsAreResolved
PROPERTIES
  FinalVerdictsStay
  LongSessionsEnd
