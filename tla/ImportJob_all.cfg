SPECIFICATION FairSpec
CONSTANTS
  Imports = {1, 2}
  Images = {"x", "y"}
  Existing = {"x"}
  Items <- SharedItems
  Rejected <- OneRejected
  Bulk = {2}
  Requests = {"r"}
  Processes = 2
  HydrateOnImport = "on"
  RetryLimit = 1
  MaxFaults = 2
INVARIANTS ForeignRowsSurvive RolledBackStaysOff PendingExplained ReportTrue
PROPERTY JobsEnd
CHECK_DEADLOCK FALSE
