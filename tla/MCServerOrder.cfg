\* A page that hides a topic and shows it again.
SPECIFICATION Spec
CONSTANTS
    c1 = c1  c2 = c2  sessions = sessions
    annotations = annotations
    None = None
    Conns = {c1}
    Topics = {sessions, annotations}
    Ticked = {sessions}
    Announcements <- BatchRequest
    Openings <- Either
    QueueCap = 2
    WriteCap = 2
    Budgets <- ShowAgain
CHECK_DEADLOCK FALSE
INVARIANT
    ShownIsSubscribed
