SPECIFICATION Spec
CONSTANTS
  p1 = p1
  p2 = p2
  r1 = r1
  Pages = {p1}
  Readers = {r1}
  RetryLimit = 0
  MaxMoves = 1
  MaxHydrates = 0
  MaxAdminOps = 1
  MaxWaiting = 1
  MaxFaults = 0
PROPERTY DisabledNeverPicked
CHECK_DEADLOCK FALSE
