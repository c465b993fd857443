SPECIFICATION BufferSpec
CONSTANTS
  Pools = {p1, p2}
  None = None
  Timers = {timer}
  Handler = handler
  MaxBuffer = 1
  MaxEvents = 3
  Unpriced = {1}
  MaxBufferFaults = 1
INVARIANTS BufferTypeOK PoolKnown
PROPERTY BufferDrains
CHECK_DEADLOCK FALSE
