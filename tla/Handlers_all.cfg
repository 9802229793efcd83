SPECIFICATION Spec
CONSTANTS
  Tokens <- TwoTokens
  Proxies <- TwoProxies
  Score <- OneLikesOne
  Others = {"other"}
  MaxToggles = 1
  SpreadTokens <- ThreeTokens
  Scores <- AllScores
  Caps = {1}
  Works = {"h", "p"}
  Home <- HomeOf
  ActionQueues = {"admin_proxy_endpoint_probe"}
  DeadOnes = {"hydrate_metadata", "heal_url"}
  FirstDead = "hydrate_metadata"
  PageLimit = 2
  Endpoints = {1, 2}
  Secrets = {3}
  Cutoff = 0
  MaxTime = 1
  MaxEvents = 2
  Lines <- SomeLines
  Image <- ImageOf
  Size <- SizeOf
  Texts <- SomeTexts
  Batches = {1, 3}
  ServerLines = 2
  ServerBytes = 4
  MaxSubmits = 2
  Workers = {"w1", "w2"}
  Pages = {0, 1}
  Names = {"a", "A", "b"}
  Fold <- FoldOf
  Details <- SomeDetails
  Ids <- ThreeIds
  Metadata <- SomeMetadata
  Asks <- SomeAsks
  NamedTags = {2}
  Strict = FALSE
  Cooldown = TRUE
  MaxEdits = 2
  Callers = {c1, c2}
  Pools = {1, 5}
  ProxySwitches = 1
  TokenSwitches = 1
  Retries = 1
  Volume = 2
  MaxCalls = 2
  MaxPosts = 2
  MaxJobs = 3
  MaxFaults = 1
INVARIANTS
  TypesOK ChoiceSticks SpreadRight WorkAccounted ReportsTrue SubmitTrue
  HydrationKept DetailsRight AnswersMeant NoHotRetry WalkListsAll
SYMMETRY CallersAlike
CHECK_DEADLOCK FALSE
