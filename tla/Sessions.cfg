SPECIFICATION Spec
CONSTANTS
    c1 = c1
    Sessions = {s1, s2}
    Connectors = {c1}
    ConnectorOf <- OfC1
    Messages = {"heartbeat", "publish", "unpublish", "health"}
    Reports = {"ACTIVE"}
    Sweeper = Sweeper
    Drains = {}
    NoSession = NoSession
SYMMETRY SameSessions
CHECK_DEADLOCK FALSE
INVARIANT ActiveIsCurrent
PROPERTY PurgeOwed
PROPERTY SuccessorKeepsInstance
