SPECIFICATION MCSpec
CONSTANTS
    c1 = c1
    Sessions = {s1}
    Connectors = {c1}
    ConnectorOf <- OfC1
    Messages = {"heartbeat"}
    Reports = {"ACTIVE", "DRAINING"}
    Sweeper = Sweeper
    Drains = {a1, a2}
    NoSession = NoSession
    Modes = {"optional"}
PROPERTIES
    DepartedSettles
    IntakeEnds
CHECK_DEADLOCK FALSE
