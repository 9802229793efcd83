SPECIFICATION FairSpec
CONSTANTS
  w1 = w1  w2 = w2  a1 = a1  a2 = a2
  Illusts <- ThreeIllusts
  BatchSize = 1
  MaxBatches = 2
  RetryLimit = 0
  Workers <- OneWorker
  Admins <- OneAdmin
  EnqueueErrors <- NoErrors
  MaxFaults = 0
  MaxAdminOps = 0
PROPERTIES RunsToTheEnd
CHECK_DEADLOCK FALSE
