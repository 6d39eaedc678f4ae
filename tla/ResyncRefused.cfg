SPECIFICATION Spec
CONSTANTS
    a1 = a1
    a2 = a2
    b1 = b1
    r1 = r1
    Services = {1, 2}
    Adders = {a1, a2, b1}
    Removers = {r1}
    Subject <- MCSubject
    Scenarios <- MCScenarios
    MaxConnects = 2
    MaxBridges = 2
    None = None
    Loop = Loop
INVARIANT ResyncRestores
CHECK_DEADLOCK FALSE
