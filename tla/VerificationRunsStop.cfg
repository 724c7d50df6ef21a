SPECIFICATION Spec
CONSTANTS
  o1 = o1
  Owners = {o1}
  MaxRuns = 1
  MaxConcurrentRuns = 2
INVARIANT StopTerminatesRuns
CHECK_DEADLOCK FALSE
