SPECIFICATION Spec
CONSTANTS
  Writers = {w1, w2}
  Reviewers = {r1, r2}
  MaxMessages = 4
  SampleAll = FALSE
  SampleEvery = 2
  SampleCap = 2
INVARIANTS TypeOK RestRidesOnReadSample SlotsContiguous
PROPERTIES SlotsTakenOnce ApprovedStays
SYMMETRY Parties
CHECK_DEADLOCK FALSE
