SPECIFICATION Spec
CONSTANTS
    Loop = "loop"
    Caller <- MCCaller
    Fallbacks = 1
    MaxAttempts = 1
    ToolCounts <- MCToolCounts
    MaxRounds = 1
    ContinueOnToolError = {TRUE}
    MaxExecutions = 1
INVARIANT AskedToolsRun
