SPECIFICATION Spec
CONSTANTS
    a1 = a1
    a2 = a2
    s1 = s1
    s2 = s2
    n1 = n1
    n2 = n2
    i1 = i1
    i2 = i2
    i3 = i3
    r1 = r1
    None = None
    Connectors = {a1, a2}
    Sessions = {s1, s2}
    OwnerOf <- Each
    Names = {n1}
    Instances = {i1, i2, i3}
    Holders <- Own
    Wanted <- Exposed
    RouteIDs = {r1}
    Assigned <- ToName
    HealthValues = {"healthy"}
    Kinds <- Mixed
    Ending = {s1}
    Capacity = 1
    MaxVersion <- Bounds
    MaxServices = 2
CHECK_DEADLOCK FALSE
INVARIANT AcceptedHolds
PROPERTY NoRollback
