\* A family and a root through a ring that wraps, cancelled or not.
SPECIFICATION StagingSpec
CONSTANTS
    w1 = w1  w2 = w2  a = a  b = b  c = c  None = None
    Sessions = {a, b, c}
    Parent <- Family
    Workers = {w1, w2}
    Outcomes <- Mixed
    ArenaSize = 5
    MaxDrain = 2
    IndexRoom = 2
    MayCancel = TRUE
SYMMETRY Symmetry
INVARIANTS PayloadIntact NothingLost CapacityReturns
PROPERTY ParentFirst
