SPECIFICATION Spec
CONSTANTS
  t1 = t1
  t2 = t2
  t3 = t3
  Main = main
  Tokens = {t1, t2, t3}
  Chains <- MCChains
  Activations = {a1, a2}
  BatchSize = 2
  MaxManagers = 2
  MaxRecent = 1
  MaxFaults = 1
INVARIANT TransfersOfNew
CHECK_DEADLOCK FALSE
