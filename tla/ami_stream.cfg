SPECIFICATION FairSpec
CONSTANTS
  Scripts <- MCScripts
  Buffer = 12
  MinLogin = 4
  Atps = {t1, t2}
  t1 = t1  t2 = t2
INVARIANT TextFits
PROPERTIES FeedsTheEvents LoginIsNoticed EventsReachHandlers
CHECK_DEADLOCK FALSE
