SPECIFICATION Spec
CONSTANTS
  Enrollments = {1, 2}
  MaxSteps = 2
  Generators = {g1, g2}
  Dispatchers = {d1}
  Reviewers = {r1}
  Signals = {"suppressed"}
  Limit = 2
  MaxDelivered = 2
  MaxUndone = 1
  DirectSend = FALSE
  RequireContact = TRUE
  ModeMatches = TRUE
  FromProposal = FALSE
  Failures = {"crash", "error"}
INVARIANTS TypeOK StepMatchesTouchLog NoSendAfterStop
PROPERTIES DecisionsFinal FollowsSequence
SYMMETRY Workers
CHECK_DEADLOCK FALSE
