SPECIFICATION FairSpec
CONSTANTS
  Processes = {"p1", "p2"}
  Callers = {"c1", "c2"}
  At <- TwoInOne
  MaxEdits = 2
  MaxFaults = 1
PROPERTIES ReadsAreFresh NeverBackInTime EventuallyCurrent
CHECK_DEADLOCK FALSE
