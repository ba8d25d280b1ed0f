SPECIFICATION Spec
CONSTANTS
  MaxDeliveries = 2
  MaxRequests = 3
  MaxDeploys = 1
INVARIANTS
  TypeOK
  JournaledOnce
  PauseHonoured
PROPERTY RowNeverReverts
