\* Two pulls, one of them from a listing the village has left since.
SPECIFICATION Spec
CONSTANTS
    p1 = p1  p2 = p2  r1 = r1  b1 = b1  b2 = b2  t1 = t1  t2 = t2  ann = ann
    Anon = Anon  NoNote = NoNote  Garbage = Garbage  Torn = Torn  None = None
    Pullers = {p1, p2}
    Refreshers = {}
    Blobs = {b1, b2}
    Titles = {t1, t2}
    People = {}
    MaxInstalls = 2
    Budgets <- OneChange
    BulkListing = TRUE
    WalLoss = FALSE
PROPERTIES
    ListingIsSettled
