CONSTANTS
  c1 = c1
  c2 = c2
  w1 = w1
  w2 = w2
  Clients = {c1, c2}
  Workspaces = {w1, w2}
  MaxRevision = 2
  MaxCrashes = 1
  p1 = p1
  p2 = p2
  ProviderSessions = {p1, p2}
  Subjects = {1, 2}
  ActivityLimit = 3
  FingerprintLimit = 4
  ClaudeMethods = {"Stop", "status"}
  CodexMethods = {"thread/started", "message"}
  b1 = b1
  b2 = b2
  Bridges = {b1, b2}
  ViewSets = {{"diff", "verification"}, {"config", "tmux"}}
  MaxRequests = 3
  MaxVersion = 2
  i1 = i1
  Items = {i1}
  yes = yes
  Intents = {yes}
  Undecided = Undecided
  MaxDecisions = 1
  q1 = q1
  q2 = q2
  Callers = {q1, q2}
  Labels = {"applied"}
  MaxAttemptIds = 1
  MaxRestarts = 0
SPECIFICATION ServicesSpec
INVARIANTS
  ClaudeNeverThrows OneRuntime
PROPERTIES
  ImplementsRegister EveryCallReturns EveryChildEnds
  ViewsNeverGoBack EveryViewSettles EveryDeliveryReturns
CHECK_DEADLOCK FALSE
