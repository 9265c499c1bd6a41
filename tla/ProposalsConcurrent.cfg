SPECIFICATION Spec
CONSTANTS
  Proposals = {p1, p2}
  ActsAlone = {p2}
  DoNothing = {}
  Runs = {r1, r2}
  Requests = {q1, q2}
  Workers = {w1}
  MaxCampaigns = 2
  None = None
INVARIANTS TypeOK CampaignWasApproved StartedHasItsCampaign StopPausesACampaign
SYMMETRY Parties
CHECK_DEADLOCK FALSE
