SPECIFICATION AgentsFairSpec
CONSTANTS
    AgentScenes = {"cycle", "stream", "llm", "memory", "limits", "execution"}
    Lanes = {1, 2}
    LiveLane = 1
    MaxRuns = 2
    MaxRetries = 1
    PipelinePlans = {{}, {"slow"}}
    FeedPlans = {{}, {"drop"}}
    MaxTime = 4
    MaxFlips = 2
    MaxDrops = 1
    MaxAttempts = 2
    MaxBuffer = 3
    Linger = 1
    RefillAfter = 1
    Symbols = {"BTC"}
    ChainPlans = {{}, {"anthropic", "time", "memory"}}
    Models = 2
    AnswerTtl = 2
    HistoryTtl = 1
    MaxAnswers = 2
    MaxAnalyses = 2
    MaxClock = 1
    MaxMoves = 1
    MaxTrades = 2
    MaxMail = 2
    EntryPrice = 10
    ExitPrices = {7, 12}
    Capital = 20
    Volatilities = {1, 2}
    MaxHistory = 2
    MaxSamples = 2
    MemoryPlans = {{}, {"trades"}}
    Fetchers = {f1, f2, f3}
    f3 = f3
    f1 = f1
    f2 = f2
    MaxRequests = 2
    Window = 2
    LimitPlans = {"fetch"}
    Tokens = {"t1"}
    Addresses = {"a1"}
    Limit = 2
    GcEvery = 6
    MaxExecutions = 1
    MaxMessages = 2
    FailureThreshold = 2
    FaultPlans = {{}, {"paper"}, {"patient", "paper"}}
PROPERTIES
    
    DemandIsStreamed
    
CHECK_DEADLOCK FALSE
