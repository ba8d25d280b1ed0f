SPECIFICATION ReviseSpec
CONSTANTS
  h1 = h1
  Handlers = {h1}
  MaxRoundTrips = 4
  MaxResearch = 7
  MaxFaults = 2
  Serial = TRUE
  Comments = {"none", "approved", "revise", "reject", "promote", "research", "use_as_context", "dismiss"}
INVARIANTS
  TypeOK
  ResearchWithinBudget
  PullRequestIsLatest
  PendingGateIsLive
PROPERTIES
  ImplementsLifecycle
  GateDecidedOnce
  ReviseReachesOutcome
