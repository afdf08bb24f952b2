SPECIFICATION FairSpec
CONSTANTS
  Atps = {a1, a2}
  MaxRecs = 4
  MaxQueue = 2
  MaxFds = 2
  MaxFails = 2
  MaxLosses = 1
  a1 = a1  a2 = a2
INVARIANTS TypeOK OneConnection Settled LoginIsSafe CallIsSafe
PROPERTY Reconnects
CHECK_DEADLOCK FALSE
