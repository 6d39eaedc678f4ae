SPECIFICATION FairSpec
CONSTANTS
    c1 = c1
    c2 = c2
    s1 = s1
    d2 = d2
    Tunnels = {t1}
    Dispatches = {d1, d2, d3}
    Connectors = {c1, c2}
    Sessions = {s1, s2}
    ConnectorOf <- S1OnC1
    Target <- D2ToC2
    MaxReuse = 2
    MaxAcquireRetry = 2
    Probed = {t1}
    NoTunnel = NoTunnel
INVARIANT NoLeak
PROPERTY ImplementsLease
PROPERTY DispatchEnds
PROPERTY LostLinksGo
