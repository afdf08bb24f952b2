SPECIFICATION FairSpec
CONSTANTS
  Workers = {w1}
  MsgLen = 3
  SndBuf = 4
  CountMod = 8
  MaxLines = 1
  MaxCalls = 1
  w1 = w1
INVARIANTS TypeOK InOrder ToldWhenSent
PROPERTIES LeftMessageIsSent OutputIsWithdrawn
CHECK_DEADLOCK FALSE
