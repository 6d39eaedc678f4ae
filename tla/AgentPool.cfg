SPECIFICATION FairSpec
CONSTANTS
    Tunnels = {t1, t2}
    MinIdle = 1
    MaxIdle = 1
    NoTunnel = NoTunnel
PROPERTY PoolSettles
PROPERTY DeadTunnelGoes
INVARIANT ActiveIsServed
INVARIANT ClosedOnce
INVARIANT DrainedIsEmpty
