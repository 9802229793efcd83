SPECIFICATION Spec
CONSTANTS
  c1 = c1
  c2 = c2
  Callers <- TwoCallers
  Tokens <- TwoTokens
  EnvTokens = {}
  Strategies <- AnyChoice
  Weights <- FirstOff
  MaxFailures = 1
  MaxEdits = 1
  MaxOutages = 0
  MaxGen = 2
SYMMETRY CallerSymmetry
INVARIANTS OneRefreshPerEntry
PROPERTIES GivesUpLast
CHECK_DEADLOCK FALSE
