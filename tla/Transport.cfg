SPECIFICATION MCSpec
CONSTANTS
    Tunnels = {t1, t2}
    NoTunnel = NoTunnel
    Sides <- SomeSides
    Users = {u1, u2}
    Workers = {w1}
    Requests = {q1, q2}
    MaxIdle = 1
    QueueSize = 1
    Delta = 2
    Writes = {"w1", "w2", "w3"}
    Fragments <- MCFragments
    Priority <- MCPriority
    Bindings = {"tcp", "quic", "grpc"}
    Expiring = {"w1"}
    MaxInFlight = 1
SYMMETRY Interchangeable
INVARIANTS
    InOrder
    NoLostWrite
    NoMissedWakeup
    WellKept
CHECK_DEADLOCK FALSE
