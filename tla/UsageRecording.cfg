\* Two processes, one of them stopped and restarted; calls that fail, arrive late or twice.
SPECIFICATION Spec
CONSTANTS
  a = a  b = b  k1 = k1  deleted = deleted
  Workers = {a, b}
  Stoppable = {b}
  Keys = {k1}
  KnownKeys = {k1}
  BatchSize = 2
  MaxPending = 2
  MaxRecordAge = 1
  MaxClockSkew = 1
  ClockAhead = 1
  DayLength = 2
  MaxRecords = 3
  MaxFailures = 1
  MaxTime = 2
INVARIANTS TypeOK KeptInOrder RollupsAgree LastUsedIsLatest
CHECK_DEADLOCK FALSE
