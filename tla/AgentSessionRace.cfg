SPECIFICATION Spec
CONSTANTS
  h1 = h1
  h2 = h2
  Handlers = {h1, h2}
  MaxRoundTrips = 4
  MaxResearch = 2
  MaxFaults = 0
  Serial = FALSE
  Comments = {"research", "dismiss"}
PROPERTY NoResearchAfterClose
