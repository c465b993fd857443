SPECIFICATION Spec
CONSTANTS
  Groups = {"trade", "candle"}
  BatchSize = 2
  ReplayDepth = 1
  StreamMaxLen = 2
  Quiet = {2}
  MaxHeight = 3
  MaxReorgs = 1
  MaxFaults = 0
INVARIANT CandlesRolledBack
CHECK_DEADLOCK FALSE
