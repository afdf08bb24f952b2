CONSTANTS
    Scripts <- MCScripts
    Buffer = 14
    MaxFrame = 18
    SplitHeaders = FALSE
    Garbage <- MCGarbage
SPECIFICATION FairSpec
CHECK_DEADLOCK FALSE
INVARIANTS TypeOK  NoSteal
PROPERTY ServesTheStream
