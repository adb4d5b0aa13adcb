\* One page, two connections, and a server that is stopped at any moment.
SPECIFICATION Spec
CONSTANTS
    c1 = c1  c2 = c2  sessions = sessions
    annotations = annotations
    None = None
    Conns = {c1, c2}
    Topics = {sessions, annotations}
    Ticked = {sessions}
    Announcements <- BatchRequest
    Openings <- Either
    QueueCap = 2
    WriteCap = 2
    Budgets <- Scenarios
CHECK_DEADLOCK FALSE
INVARIANTS
    TypeOK
    StoreOutlivesTasks
PROPERTIES
    OnlyFullHubBlocks
    PageConverges
