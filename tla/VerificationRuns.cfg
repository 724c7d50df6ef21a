SPECIFICATION FairSpec
CONSTANTS
  o1 = o1
  Owners = {o1, o2}
  MaxRuns = 2
  MaxConcurrentRuns = 1
ACTION_CONSTRAINT FirstRunIsOfFirst
INVARIANTS RunsAreReserved OutcomeIsEvidence RemovedLeaveNothing
PROPERTIES OneOutcome EveryRunEnds
CHECK_DEADLOCK FALSE
