SPECIFICATION MCSpec
CONSTANTS
    Channels = {c1, c2, c3}
    Sources = {"source"}
    Connectors = {"connector"}
    SourceOf <- MCSourceOf
    HelloWindow = 1
    HelloLimit <- MCHelloLimit
    FailureWindow = 1
    FailureLimit <- MCFailureLimit
    BanTime = 1
    TakeoverWindow = 1
    TakeoverLimit = 1
    ConnBudget = 2
    AuthBudget = 2
    Messages <- MCMessages
    MaxTime = 1
    NoChannel = NoChannel
    None = None
    Tokens = {"t1", "t2", "t3"}
    TokenConnectors = {"k"}
    Requests = {"r1", "r2"}
    InitialRecords <- TokenFiles
    TokenBounds <- MCTokenBounds
    CertSources <- MCCertSources
    BaseInterval = 5
    MinInterval = 2
    RetryInterval = 2
    ExternalInterval = 3
    CertBounds <- MCCertBounds
    Admins = {"a1", "a2"}
    Keys = {"log", "tls", "ca"}
    Values <- MCValues
    Odd = "odd"
    Setups <- ConfigSetups
    ConfigBounds <- MCConfigBounds
    ProviderConfigs <- MCProviders
    Workloads <- MCWorkloads
    SessionTTL = 1
    ExportTTL = 1
    ExportLimit = 1
    LogLimit = 2
    PageLimit = 1
    AdminBounds <- MCAdminBounds
INVARIANTS
    GuardsCount
    AnswersHold
    ServedIsFresh
    ShownIsSaved
PROPERTY UpdatesAreSeen
SYMMETRY MCSymmetry
CHECK_DEADLOCK FALSE
