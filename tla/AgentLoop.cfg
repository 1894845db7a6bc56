SPECIFICATION FairSpec
CONSTANTS
    Loop = "loop"
    Caller <- MCCaller
    Fallbacks = 1
    MaxAttempts = 2
    ToolCounts <- MCToolCounts
    MaxRounds = 2
    ContinueOnToolError = {TRUE, FALSE}
    MaxExecutions = 2
INVARIANTS
    ToolCallsAnswered
    ResultAddsUp
PROPERTIES
    ErrorStopsLoop
    ExecutionEnds
