SPECIFICATION Spec
CONSTANTS
  Groups = {"trade"}
  BatchSize = 2
  ReplayDepth = 1
  StreamMaxLen = 2
  Quiet = {2}
  MaxHeight = 3
  MaxReorgs = 1
  MaxFaults = 2
INVARIANTS TypeOK OrphansTraceable ReplayReachesAll
CHECK_DEADLOCK FALSE
