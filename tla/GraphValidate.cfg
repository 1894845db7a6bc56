SPECIFICATION Spec
CONSTANTS
    NoName = NoName
    PromptLists <- MCNumberedLists
INVARIANT ValidatedGraphsBuild
