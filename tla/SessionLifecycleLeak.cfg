SPECIFICATION Spec
CONSTANTS
  Ids = {i1}
  MaxCloses = 2
  MaxReads = 0
INVARIANT NoLeakedProcess
CHECK_DEADLOCK FALSE
