SPECIFICATION Spec
CONSTANTS
  NumMessages = 2
  ReadCount = 2
  ClaimCount = 2
  MaxAttempts = 2
  MaxDeliveries = 2
  StreamMaxLen = 1
  MaxFaults = 2
  MaxCrashes = 1
INVARIANTS TypeOK NoSilentLoss HandleBudget
PROPERTIES TriedInOrder PendingSettles DeliverySpec
CHECK_DEADLOCK FALSE
