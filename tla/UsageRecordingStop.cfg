\* Is anything lost when a process is stopped while Convex is reachable?
SPECIFICATION Spec
CONSTANTS
  a = a  b = b  k1 = k1  deleted = deleted
  Workers = {a}
  Stoppable = {a}
  Keys = {k1}
  KnownKeys = {k1}
  BatchSize = 2
  MaxPending = 2
  MaxRecordAge = 1
  MaxClockSkew = 1
  ClockAhead = 1
  DayLength = 2
  MaxRecords = 2
  MaxFailures = 0
  MaxTime = 1
INVARIANTS EveryRequestIsRecorded
CHECK_DEADLOCK FALSE
