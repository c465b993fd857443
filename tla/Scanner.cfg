SPECIFICATION Spec
CONSTANTS
  Activations = {1, 2}
  BatchSize = 2
  StartBlock = 0
  MaxPending = 2
  MaxHeight = 3
  MaxReorgs = 1
  MaxHeads = 3
  MaxFaults = 1
  MaxCrashes = 1
INVARIANTS TypeOK HolesAccounted CheckpointHeld HeadersLinked
PROPERTIES AdvanceAfterPublish WorkEnds
CHECK_DEADLOCK FALSE
