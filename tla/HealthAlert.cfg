SPECIFICATION FairSpec
CONSTANTS
  r1 = r1
  r2 = r2
  Requests = {r1, r2}
  Readings <- MCReadings
  Attempts = 2
  MaxChanges = 2
  MaxEarly = 1
  MaxFaults = 2
INVARIANTS
  TypeOK
  OneAlertPerMetric
PROPERTIES
  AlertIsRaised
