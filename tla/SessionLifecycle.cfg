SPECIFICATION FairSpec
CONSTANTS
  Ids = {i1, i2}
  MaxCloses = 2
  MaxReads = 1
INVARIANTS ClosedHasEnded NoLateUpdate
PROPERTY ForcedCloseEnds
CHECK_DEADLOCK FALSE
