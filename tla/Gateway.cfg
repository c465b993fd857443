SPECIFICATION Spec
CONSTANTS
  Sockets = {s1, s2}
  Updates = {u1}
  Tokens = {t1, t2}
  Listed = {t1}
  None = None
  TokenMetaMax = 1
  SparkMax = 1
  MaxEvents = 2
  MaxBreaks = 1
INVARIANTS TypeOK ClosesKept
PROPERTIES ListsInOrder SocketsTracked
CHECK_DEADLOCK FALSE
