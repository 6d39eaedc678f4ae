SPECIFICATION FairDesktopSpec
CONSTANTS
    Procs = {1, 2, 3, 4, 5}
    None = None
    Commands = {"bootstrap", "start", "stop", "restart", "shutdown", "exit", "inject", "snapshot", "query"}
    MaxCommands = 2
    MaxFaults = 2
    Clients <- MCClients
    Known <- MCKnown
    MaxCalls = 2
    Buffer = 2
CHECK_DEADLOCK FALSE
INVARIANTS NoneForgotten InStep
PROPERTY Recovers
