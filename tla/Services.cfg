CONSTANTS
    Jobs = {p1, p2}
    RetryCount = 1
    MaxAdded = 2
    MaxJobs = 2
    Routers = {a, b}
    Readers = {p1, p2}
    MaxSwitches = 2
    MaxPackageJobs = 1
    Refs = {1, 2}
    Contents = {a, b}
    Runs = {p1, p2}
    Processes = {p1, p2}
    Keys = {k1, k2, k3}
    Configured = k0
    Types = {a, b}
    ApiKeys = {s}
    Handlers = {p1, p2}
    MaxReloads = 2
    Callers = {p1, p2}
    WindowSize = 3
    CompressAt = 4
    HistoryTokens = 3
    OldestTurns = 3
    MaxQuestions = 3
    MaxServices = 2
    TopK = 3
    MaxDocuments = 2
    MaxPerDocument = 2
    MaxPrompt = 6
    MaxPrompts = 2
    Visitors = {p1, p2}
    SessionTokens = {a, b}
    Lifetime = 1
    LastTime = 1
    Testers = {p1, p2}
    Samples = 4
    Cooldown = 1
    LastMoment = 3
    MaxResults = 3
    Makers = {p1, p2}
    MaxConfigs = 2
    LastBlock = 2
SPECIFICATION Spec
SYMMETRY Symmetry
INVARIANTS
    TypeOK
    QuietRouterIsSettled
    KeptAnswersAreCurrent
    
    AccessIsKept
    ProvidersAreCurrent
    ConversationIsKept
    
    PromptsAreGrounded
    

    
CHECK_DEADLOCK FALSE
