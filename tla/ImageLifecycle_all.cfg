SPECIFICATION FairSpec
CONSTANTS
  p1 = p1
  p2 = p2
  r1 = r1
  Pages <- TwoPages
  Readers = {r1}
  RetryLimit = 1
  MaxMoves = 1
  MaxHydrates = 1
  MaxAdminOps = 1
  MaxWaiting = 1
  MaxFaults = 1
INVARIANTS TypeOK BrokenAccounted OffUntilRevoked
PROPERTY UrlsRecover
CHECK_DEADLOCK FALSE
