\* Liveness of the half-open state when a request's deadline cancels it.
SPECIFICATION FairSpec
CONSTANTS
  a = a  b = b  c = c
  Tasks = {a, b}
  Cancellable = {a}
  FailureThreshold = 1
  RecoveryTime = 1
  MaxRetries = 0
  MaxConcurrency = 1
PROPERTIES HalfOpenResolves
