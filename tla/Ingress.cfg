SPECIFICATION MCSpec
CONSTANTS
    Lookups = {"q1", "q2", "q3"}
    Traffics = {"t1", "t2"}
    Instances = {1, 2, 3}
    Sessions = {s1, s2}
    TrafficOf <- MCTrafficOf
    ServiceOf <- MCServiceOf
    Configs <- MCConfigs
    Capacity = 1
    TTL = 1
    None = None
    ProxyRequests = {"r1", "r2"}
    Targets = {"mail"}
    TargetOf <- MCTargetOf
    Fresh = 1
    Stale = 1
    Width = 2
    ProxyBounds <- MCProxyBounds
    OwnedTraffics = {"t1", "t2", "t3"}
    OwnerCapacity = 2
    OwnerTTL = 2
    OwnerBounds <- MCOwnerBounds
    Calls = {"c1"}
    Kinds <- MCKinds
    ResolveAttempts = 3
    ReadAttempts = 2
    MaxExtra = 1
INVARIANTS LatestOwnersKept OneAnswer
PROPERTIES NothingSkipped TrafficStays RefreshKept
SYMMETRY MCSymmetry
CHECK_DEADLOCK FALSE
