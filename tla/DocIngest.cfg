SPECIFICATION FairSpec
CONSTANTS
  h1 = h1
  h2 = h2
  f1 = f1
  f2 = f2
  Handlers = {h1, h2}
  Files = {f1, f2}
  Jsons <- MCJsons
  Commits <- MCCommits
  NoFile = NoFile
  TTL = 1
  MaxPushes = 2
  MaxEdits = 1
  MaxHour = 2
  MaxFaults = 1
INVARIANTS
  TypeOK
  StaleDocHasCause
  DocHasItsReferences
PROPERTIES
  ConfigTakesEffect
  PushesEnd
CHECK_DEADLOCK FALSE
