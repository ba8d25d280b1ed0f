SPECIFICATION FairSpec
CONSTANTS
  c1 = c1
  c2 = c2
  Callers = {c1, c2}
  Limits <- TwoLimits
  MaxRetries = 3
  MaxInt = 5
  MaxDay = 2
INVARIANTS
  TypeOK
  DayWithinLimit
  RefusedOnlyWhenSpent
PROPERTIES
  CallsReturn
  CounterFollowsClock
