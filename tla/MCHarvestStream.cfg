\* The whole pipeline, cancelled or not, behind the first stages.
SPECIFICATION Spec
CONSTANTS
    w1 = w1  w2 = w2  p1 = p1  p2 = p2  a = a  b = b  c = c  None = None
    Sessions = {a, b}
    Parent <- Family
    Workers = {w1}
    Parsers = {p1, p2}
    Outcomes <- Half
    Weights = {0, 3}
    ArenaSize = 2
    MaxDrain = 2
    IndexCap = 1
    IndexRoom = 3
    ParsedCap = 1
    GateCap = 2
    BatchSessions = 2
    BatchBytes = 4
    DownCap = 1
    Wirings = {"stream", "drain"}
    Outside = {b}
    MayCancel = TRUE
INVARIANTS
    TypeOK
    GateBounded
    MetricsAccounted
PROPERTIES
    RunEnds
    ImplementsStaging
CHECK_DEADLOCK FALSE
