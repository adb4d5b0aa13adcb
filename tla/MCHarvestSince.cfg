\* A session in the --since window by the time of its file only.
SPECIFICATION Spec
CONSTANTS
    w1 = w1  w2 = w2  p1 = p1  p2 = p2  a = a  b = b  c = c  None = None
    Sessions = {a, b}
    Parent <- Family
    Workers = {w1}
    Parsers = {p1}
    Outcomes <- Half
    Weights = {0, 3}
    ArenaSize = 2
    MaxDrain = 2
    IndexCap = 1
    IndexRoom = 2
    ParsedCap = 1
    GateCap = 2
    BatchSessions = 2
    BatchBytes = 4
    DownCap = 1
    Wirings = {"drain"}
    Outside = {b}
    MayCancel = FALSE
INVARIANT
    SinceIsNotSilent
CHECK_DEADLOCK FALSE
