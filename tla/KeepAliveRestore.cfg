CONSTANTS
  a1 = a1
  a2 = a2
  Launches = {a1, a2}
  MaxManifests = 2
  MaxRestored = 2
  MaxCreated = 4
  MaxTmux = 1
SPECIFICATION KeepSpec
INVARIANT RestoredIsExact
CHECK_DEADLOCK FALSE
