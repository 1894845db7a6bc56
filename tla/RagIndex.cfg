SPECIFICATION Spec
CONSTANTS
    Source = {a, b}
    Version = {"long", "short"}
    Strategy = {"split", "whole"}
    Chunks <- MCChunks
    Call = {c1, c2}
    None = none
    MaxStarts = 3
    MaxEvents = 3
INVARIANTS
    SparseCountersExact
    WholeVersions
PROPERTIES
    SkipsOnlyCurrent
    IndexesAgree
SYMMETRY MCSymmetry
CHECK_DEADLOCK FALSE
