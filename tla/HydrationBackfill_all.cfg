SPECIFICATION FairSpec
CONSTANTS
  w1 = w1
  w2 = w2
  a1 = a1
  a2 = a2
  Illusts <- TwoIllusts
  BatchSize = 1
  MaxBatches = 1
  RetryLimit = 0
  Workers <- TwoWorkers
  Admins <- OneAdmin
  EnqueueErrors <- AllErrors
  MaxFaults = 1
  MaxAdminOps = 1
INVARIANTS NoSilentStall NoSkippedIllust CountersAgree
PROPERTIES EndsOrIsStranded
CHECK_DEADLOCK FALSE
