SPECIFICATION FairSpec
CONSTANTS
    Node = {0, 1, 2}
    Name <- MCName
    Workflows <- MCWorkflows
    MaxConcurrency = 2
INVARIANTS
    TypeOK
    SemaphoreBound
    CallsFollowDependencies
    DecisionsStable
    CountsAddUp
PROPERTIES
    AbortStopsCalls
    Termination
    ImplementsContract
