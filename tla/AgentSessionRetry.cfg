SPECIFICATION ApproveSpec
CONSTANTS
  h1 = h1
  Handlers = {h1}
  MaxRoundTrips = 2
  MaxResearch = 3
  MaxFaults = 1
  Serial = TRUE
  Comments = {"none", "approved", "revise", "reject"}
PROPERTY ApproveReachesOutcome
