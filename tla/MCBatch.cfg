\* Two batches over two sessions, with a sweep, a failure or a broken
\* generation.
SPECIFICATION Spec
CONSTANTS
    b1 = b1  b2 = b2  w1 = w1  x = x  y = y  Bad = Bad  None = None
    Batchers = {b1, b2}
    Sweepers = {w1}
    Sessions = {1, 2}
    Contents = {x, y}
    MaxLen = 2
    Budgets <- OneOfEach
SYMMETRY Symmetry
INVARIANTS
    TypeOK
    WaitsAscend
    ResultsTellTheStore
    InstallsAreSerial
PROPERTIES
    SweepSeesStableAuthority
CHECK_DEADLOCK FALSE
