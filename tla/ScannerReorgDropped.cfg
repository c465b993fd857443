SPECIFICATION Spec
CONSTANTS
  Activations = {1}
  BatchSize = 2
  StartBlock = 0
  MaxPending = 2
  MaxHeight = 3
  MaxReorgs = 1
  MaxHeads = 3
  MaxFaults = 0
  MaxCrashes = 0
INVARIANT ReorgReprocessed
CHECK_DEADLOCK FALSE
