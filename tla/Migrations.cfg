SPECIFICATION FairSpec
CONSTANTS
  p1 = p1
  p2 = p2
  p3 = p3
  s1 = s1
  s2 = s2
  s3 = s3
  Procs = {p1, p2, p3}
  Known <- MCKnown
  Sessions = {s1, s2, s3}
  Own <- MCOwn
  Poolers = {TRUE, FALSE}
  MaxCrashes = 2
INVARIANTS
  TypeOK
  AppliedOnceInOrder
  ServesMigrated
PROPERTIES
  StartsServing
CHECK_DEADLOCK FALSE
