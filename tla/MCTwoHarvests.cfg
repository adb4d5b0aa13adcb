\* Two harvests of one session that were not built with the run lock (no
\* symmetry: the refinement is a temporal property).
SPECIFICATION Spec
CONSTANTS
    w1 = w1  w2 = w2  r1 = r1
    g1 = g1  g2 = g2  g3 = g3  g4 = g4
    c1 = c1  c2 = c2  c3 = c3
    b1 = b1  b2 = b2  x1 = x1  x2 = x2
    None = None
    Writers = {w1, w2}
    Reclaimers = {}
    GenIds = {g1, g2, g3}
    Contents = {c1, c2}
    Bodies = {b1, b2}
    Blobs = {x1, x2}
    ObjectsOf <- MCObjectsOf
    SourceRef <- MCSourceRef
    Outcomes <- MCOutcomes
    Leftover = {}
    SweepRows = 2
    RunLocked = FALSE
    AllowForce = TRUE
    AllowCrash = TRUE
    AllowRot = FALSE
INVARIANTS
    ProofMatchesActive
PROPERTIES
    InstalledInputIsCurrent
    AuthoritySpec
