SPECIFICATION Spec
CONSTANTS
  Enrollments = {1}
  MaxSteps = 2
  Generators = {g1}
  Dispatchers = {d1}
  Reviewers = {r1}
  Signals = {}
  Limit = 1
  MaxDelivered = 2
  MaxUndone = 1
  DirectSend = TRUE
  RequireContact = TRUE
  ModeMatches = TRUE
  FromProposal = FALSE
  Failures = {"crash"}
INVARIANT AtMostOnce
CHECK_DEADLOCK FALSE
