SPECIFICATION Spec
CONSTANTS
  Resolutions <- MCResolutions
  Seconds <- MCSeconds
  Prices = {0, 1, 2}
  Volumes = {4}
  Times = {0, 1}
  SigDigits = 1
  MaxAttempts = 2
  MaxSwaps = 3
  MaxFaults = 2
  MaxCrashes = 1
INVARIANTS TypeOK PricesExact CacheCovers VolumeExact
CHECK_DEADLOCK FALSE
