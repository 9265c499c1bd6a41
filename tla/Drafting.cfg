SPECIFICATION FairSpec
CONSTANTS
  Enrollments = {1}
  Batches = {b1, b2}
  Generators = {g1}
  Submitters = {s1}
  Instantiators = {i1}
  Ingesters = {tick, manual}
  Manual = {manual}
  Nobody = Nobody
INVARIANTS AcceptedHasMessage PendingItemAwaited OneDraftPerTouch
PROPERTIES ApprovedDraftKept EndedIsIngested
CHECK_DEADLOCK FALSE
