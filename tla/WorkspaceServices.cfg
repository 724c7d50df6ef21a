SPECIFICATION WorkspaceSpec
CONSTANTS
  Items = {q1, q2}
  Intents = {yes, no}
  Undecided = Undecided
  MaxDecisions = 1
  Labels = {"confirmed_not_delivered", "applied"}
  Callers = {c1, c2}
  MaxAttemptIds = 3
  MaxRestarts = 1
  Paths = {1, 2}
  Backslashed = {2}
  Codes <- MCCodes
  MaxFiles = 1
  MaxPatch = 1
  MaxCommits = 2
  MaxHistory = 1
  MaxMoves = 1
  MaxDuration = 0
  MaxBytes = 2
  Ticks = {1}
  MaxChanges = 2
  SourceSets = {{"objective"}}
  Decisions <- MCDecisions
  Delivered = 1
  MaxRecent = 1
  Directories = {"a", "b"}
  Leaves = {"x"}
  DataHome = "b"
  VerificationHome = "b"
  VerificationFile <- MCVerificationFile
  Drafts <- MCDrafts
  Sessions = {"t"}
  LaunchPresets = {"codex"}
  MaxEvents = 3
  Null = Null
SYMMETRY Symmetry
INVARIANTS ChecksSuffice IntentBeforeEffect SentAtMostTwice
  OutcomeIsEvidence
  ObservationsAreValid EvidenceIsCurrent ContextIsWhole
  DefinitionStaysReadable
PROPERTIES HistoryIsKept AnswersAreTrue
CHECK_DEADLOCK FALSE
