SPECIFICATION FairSpec
CONSTANTS
    Model = {1, 2}
    MaxRecords = 2
    MaxUses = 2
    MaxEnds = 1
INVARIANTS
    EveryTurnSomewhere
    EntriesWhole
PROPERTIES
    SearchFailsOnlyMidAdd
    EveryTurnSettles
    ImplementsStore
CHECK_DEADLOCK FALSE
