SPECIFICATION FairSpec
CONSTANTS
  Enrollments = {1, 2}
  MaxSteps = 2
  Generators = {g1}
  Dispatchers = {d1}
  Reviewers = {r1}
  Signals = {"cooldown"}
  Limit = 1
  MaxDelivered = 2
  MaxUndone = 1
  DirectSend = TRUE
  RequireContact = TRUE
  ModeMatches = TRUE
  FromProposal = FALSE
  Failures = {}
PROPERTY EveryEnrollmentSettles
CHECK_DEADLOCK FALSE
