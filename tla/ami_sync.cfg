SPECIFICATION Spec
CONSTANTS
  Callers = {p1, p2}
  MaxActions = 3
  CountMod = 8
  ShortWrites = TRUE
  Timeouts = TRUE
  Spurious = TRUE
  p1 = p1  p2 = p2
SYMMETRY Sym
INVARIANTS TypeOK OwnReply NoReplyLost NoStaleAccess CountBalanced
PROPERTY WireOrder
CHECK_DEADLOCK FALSE
