SPECIFICATION Spec
CONSTANTS
  Sessions = {s1, s2}
  None = None
  MaxChunks = 3
  PendingLimit = 3
  BufferLimit = 9
  MaxSelects = 3
  MaxLosses = 0
INVARIANT ReselectedViewComplete
CHECK_DEADLOCK FALSE
