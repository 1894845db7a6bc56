SPECIFICATION FairSpec
CONSTANTS
    Caller = {"t1"}
    Fallbacks = 1
    MaxAttempts = 2
    ToolCounts <- MCToolCounts
    MaxTurns = 2
    Structured = {TRUE, FALSE}
    Threaded = FALSE
INVARIANTS
    RequestContext
    ReplyFollowsPrompt
    UsageIsOwn
PROPERTY ImplementsLog
