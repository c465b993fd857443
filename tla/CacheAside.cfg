SPECIFICATION Spec
CONSTANTS
  Requests = {r1, r2}
  None = None
  MaxWrites = 2
  MaxFaults = 2
INVARIANTS TypeOK LockedAlone FreshUnlessLate
PROPERTIES FillsInOrder RequestsEnd
CHECK_DEADLOCK FALSE
