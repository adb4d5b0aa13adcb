\* Two pulls of one transcript: beside deaths, files that somebody edits and an
\* annotation refresh, and with a power loss that takes the last index commits
\* back.
SPECIFICATION Spec
CONSTANTS
    p1 = p1  p2 = p2  r1 = r1  b1 = b1  b2 = b2  t1 = t1  t2 = t2  ann = ann
    Anon = Anon  NoNote = NoNote  Garbage = Garbage  Torn = Torn  None = None
    Pullers = {p1, p2}
    Refreshers = {r1}
    Blobs = {b1, b2}
    Titles = {t1, t2}
    People = {}
    MaxInstalls = 2
    Budgets <- Races
    BulkListing = FALSE
    WalLoss = TRUE
INVARIANTS
    ForcedPullRepairs
    ForceGetsPastDamage
PROPERTIES
    CurrentRowStays
    EditedFilesNeedForce
    LockIsReleased
