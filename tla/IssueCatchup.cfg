SPECIFICATION FairSpec
CONSTANTS
  i1 = i1
  i2 = i2
  i3 = i3
  j1 = j1
  Numbers = {i1, i2, i3}
  PullRequests = {i3}
  Jobs = {j1}
  Limit = 2
  PageSize = 1
  MaxChanges = 4
  MaxFaults = 2
PROPERTIES
  CatchupRevertsOnlyByOverlap
  MissedIssuesRecovered
