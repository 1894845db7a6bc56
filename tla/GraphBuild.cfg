SPECIFICATION Spec
CONSTANTS
    NoName = NoName
    PromptLists <- MCPromptLists
INVARIANTS
    CyclesFound
    LevelsAreDepths
    ReadyDrains
