SPECIFICATION Spec
CONSTANTS
  Enrollments = {1}
  MaxSteps = 2
  Generators = {g1, g2}
  Dispatchers = {d1, d2}
  Reviewers = {r1, r2}
  Signals = {"no_visible_history"}
  Limit = 1
  MaxDelivered = 2
  MaxUndone = 1
  DirectSend = TRUE
  RequireContact = TRUE
  ModeMatches = TRUE
  FromProposal = FALSE
  Failures = {}
INVARIANTS TouchesInOrder OnlyApprovedDelivered CompletedWasTouched
SYMMETRY Workers
CHECK_DEADLOCK FALSE
PROPERTY KeepsPromise
