SPECIFICATION Spec
CONSTANTS
  h1 = h1
  h2 = h2
  Handlers = {h1, h2}
  MaxRoundTrips = 2
  MaxResearch = 2
  MaxFaults = 1
  Serial = FALSE
  Comments = {"none", "approved", "revise", "reject", "promote"}
SYMMETRY HandlerSymmetry
VIEW BehaviourView
INVARIANTS
  RoundTripBound
  OnePullRequest
  PublishedWasReviewed
