SPECIFICATION FairSpec
CONSTANTS
  Foci <- ThreeFoci
  Requests <- ThreeRequests
  Limiters <- Gates
  Plan <- TwoProxied
  MaxInFlight <- OneEach
  Interval <- Pauses
  Retries = 1
  Clients <- TwoClients
  Tokens <- TwoTokens
  EnvTokens = {}
  Strategies <- RoundRobin
  Weights <- FirstOff
  MaxFailures = 1
  MaxEdits = 0
  MaxOutages = 1
  MaxGen = 2
  Addresses <- OneAddress
  Exported <- OneAddress
  Admins <- TwoAdmins
  EnvUrl = TRUE
  MaxAdmin = 2
  Illusts <- TwoIllusts
  Calls <- TwoCalls
  Ttl = 3
  Window = 2
  MaxPerWindow = 1
  MaxTracked = 1
  Latency = 1
  RetryLimit = 0
  MaxToggles = 1
  MaxFaults = 1
INVARIANTS SlotsAccounted RollbackSticks
PROPERTIES EveryCallEnds EveryCallReturns RefreshTracks
CHECK_DEADLOCK FALSE
