CONSTANTS
  s1 = s1
  q1 = q1
  q2 = q2
  c1 = c1
  Sources = {s1}
  Requests = {q1, q2}
  Clients = {c1}
  MaxVersions = 2
  MaxConfigs = 2
  MaxStarts = 2
  a1 = a1
  a2 = a2
  Launches = {a1, a2}
  MaxManifests = 2
  MaxRestored = 2
  MaxCreated = 4
  MaxTmux = 1
  r1 = r1
  r2 = r2
  n1 = n1
  n2 = n2
  NoName = NoName
  Callers = {r1, r2}
  Names = {n1, n2}
  Environments <- MCEnvironments
  MaxClients = 2
SPECIFICATION StartupSpec
INVARIANTS
  ShownWhenQuiet NoUpdateLeaks
  TargetsRecoverable RestoredOnce OneMetaClient RemoteIsRecorded
PROPERTIES NeverBack ManifestsAreKept
SYMMETRY Symmetry
CHECK_DEADLOCK FALSE
