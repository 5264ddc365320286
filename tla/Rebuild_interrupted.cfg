\* A start that rebuilds an old index is cut short.
SPECIFICATION Spec
CONSTANTS
    Resolution = 1
    Server = server
    Tool = tool
    Together = FALSE
    Keys = {k1}
    Texts = {1, 2}
    ReadBack <- MCReadBack
    Starts = {0, 2}
    OldLogs <- MCOldLogs
    MayFail = TRUE
    Moments = {1, 2, 3, 4}
    MaxTick = 4
    MaxLog = 3
INVARIANTS RebuiltAtStart
CHECK_DEADLOCK FALSE
