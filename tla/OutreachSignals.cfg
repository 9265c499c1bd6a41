SPECIFICATION Spec
CONSTANTS
  Enrollments = {1}
  MaxSteps = 2
  Generators = {g1}
  Dispatchers = {d1}
  Reviewers = {r1}
  Signals = {"suppressed_bounce", "suppressed", "opted_out", "no_deliverable_contact",
             "bounce", "replied", "reengaged", "moved_to_active", "no_visible_history",
             "angle_held", "cooldown"}
  Limit = 1
  MaxDelivered = 3
  MaxUndone = 2
  DirectSend = FALSE
  RequireContact = TRUE
  ModeMatches = TRUE
  FromProposal = TRUE
  Failures = {"crash", "error", "ack_lost"}
INVARIANTS UntouchedStatuses CopiesAreUndoneSends
CHECK_DEADLOCK FALSE
