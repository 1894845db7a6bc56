SPECIFICATION FairSpec
CONSTANTS
    Caller = {"t1", "t2"}
    Fallbacks = 0
    MaxAttempts = 1
    ToolCounts <- MCToolCounts
    MaxTurns = 1
    Structured = {FALSE}
    Threaded = TRUE
INVARIANT NoMessageTwice
PROPERTY TurnsEnd
