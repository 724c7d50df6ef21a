SPECIFICATION Spec
CONSTANTS
  Items = {q1}
  Intents = {yes}
  Undecided = Undecided
  MaxDecisions = 1
  Labels = {"confirmed_not_delivered"}
  Callers = {c1, c2}
  MaxAttemptIds = 2
  MaxRestarts = 0
INVARIANT ActiveNotConfirmed
CHECK_DEADLOCK FALSE
