SPECIFICATION Spec
CONSTANTS
  Graphs <- MCGraphs
  Answers <- MCAnswers
  Targets = {40}
  Texts <- MCTexts
  Numbers <- MCNumbers
  Upstream = {"#1", "#2"}
  Hints = {"#2"}
INVARIANTS
  ClustersAreComponents
  BoostNeverSetsBack
  RewriteIsIdempotent
CHECK_DEADLOCK FALSE
