SPECIFICATION FairSpec
CONSTANTS
  Callers = {p1, p2}
  MaxActions = 2
  CountMod = 8
  ShortWrites = TRUE
  Timeouts = TRUE
  Spurious = TRUE
  p1 = p1  p2 = p2
PROPERTY CallReturns
CHECK_DEADLOCK FALSE
