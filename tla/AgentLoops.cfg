SPECIFICATION MCSpec
CONSTANTS
    MaxReuse = 3
    MaxChunks = 2
    Drainers = {d}
    Reconnecters = {r}
    Capacity = 1
    MissLimit = 2
    FrameBuffer = 1
INVARIANTS
    NoMixing
    NeverRefused
PROPERTIES
    SerialSpec
    TrafficEnds
    LastCommandWins
    DeafIsNoticed
CHECK_DEADLOCK FALSE
