CONSTANTS
    Scripts <- SplitScripts
    Buffer = 14
    MaxFrame = 18
    SplitHeaders = TRUE
    Garbage <- MCGarbage
SPECIFICATION Spec
CHECK_DEADLOCK FALSE
INVARIANT HandlersGetWholeMessages
