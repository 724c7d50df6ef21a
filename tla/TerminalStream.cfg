SPECIFICATION FairSpec
CONSTANTS
  Sessions = {s1, s2}
  None = None
  MaxChunks = 2
  PendingLimit = 1
  BufferLimit = 1
  MaxSelects = 2
  MaxLosses = 1
INVARIANTS TypeOK ScreenInOrder ScreenComplete NothingSkipped
PROPERTY EventuallyCurrent
CHECK_DEADLOCK FALSE
