SPECIFICATION FairSpec
CONSTANTS
  Proxies <- ThreeProxies
  MaxProxySwitches = 1
  MaxTokenSwitches = 1
  WindowSize = 2
  MinSuccess = 60
  MaxEvents = 2
INVARIANTS GivesUpLast
PROPERTIES ListCurrent HealthTracks
CHECK_DEADLOCK FALSE
