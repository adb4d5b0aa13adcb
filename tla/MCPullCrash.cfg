\* One puller, killed or powered off anywhere, with a failing call and a changing
\* village.
SPECIFICATION Spec
CONSTANTS
    p1 = p1  p2 = p2  r1 = r1  b1 = b1  b2 = b2  t1 = t1  t2 = t2  ann = ann
    Anon = Anon  NoNote = NoNote  Garbage = Garbage  Torn = Torn  None = None
    Pullers = {p1}
    Refreshers = {}
    Blobs = {b1, b2}
    Titles = {t1, t2}
    People = {ann}
    MaxInstalls = 3
    Budgets <- Faults
    BulkListing = TRUE
    WalLoss = FALSE
SYMMETRY Symmetry
INVARIANTS
    IndexedCopyKept
    SettledIsIndexed
    OnlyOwnFailures
    SuccessIsCurrent
    SuccessLeavesNoDebris
PROPERTIES
    RefinesRetainedCopies
