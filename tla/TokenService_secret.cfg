SPECIFICATION Spec
CONSTANTS
  c1 = c1
  c2 = c2
  Callers = {c1}
  Tokens <- TwoTokens
  EnvTokens = {}
  Strategies <- RoundRobin
  Weights <- FirstOff
  MaxFailures = 1
  MaxEdits = 1
  MaxOutages = 0
  MaxGen = 2
PROPERTIES EditedSecretUsed
CHECK_DEADLOCK FALSE
