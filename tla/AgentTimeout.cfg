SPECIFICATION LoopFairSpec
CONSTANTS
    Loop = "loop"
    Caller <- MCCaller
    Fallbacks = 0
    MaxAttempts = 1
    ToolCounts <- MCToolCounts
    MaxRounds = 1
    ContinueOnToolError = {TRUE}
    MaxExecutions = 1
PROPERTY TimeoutEndsTool
