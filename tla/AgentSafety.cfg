SPECIFICATION AgentsSpec
CONSTANTS
    AgentScenes = {"cycle", "stream", "llm", "memory", "limits", "execution"}
    Lanes = {1, 2}
    LiveLane = 1
    MaxRuns = 2
    MaxRetries = 2
    PipelinePlans = {{}, {"slow"}, {"fast_reply"}, {"bus_down"}, {"bus_drop"}, {"agent_error"}, {"daemon"}, {"daemon", "slow"}}
    FeedPlans = {{}, {"drop"}, {"silence"}, {"drop", "outage"}, {"late"}, {"drop", "fetch_error"}}
    MaxTime = 5
    MaxFlips = 3
    MaxDrops = 2
    MaxAttempts = 2
    MaxBuffer = 4
    Linger = 1
    RefillAfter = 1
    Symbols = {"BTC", "ETH"}
    ChainPlans = {{}, {"anthropic", "time"}, {"anthropic", "moves"}, {"anthropic", "groq", "openrouter", "outage"}, {"openrouter", "openai", "agents", "outage"}, {"anthropic", "time", "memory"}, {"anthropic", "redis"}, {"openrouter", "groq", "outage"}}
    Models = 2
    AnswerTtl = 2
    HistoryTtl = 1
    MaxAnswers = 2
    MaxAnalyses = 3
    MaxClock = 2
    MaxMoves = 2
    MaxTrades = 3
    MaxMail = 2
    EntryPrice = 10
    ExitPrices = {7, 10, 12}
    Capital = 20
    Volatilities = {1, 2}
    MaxHistory = 6
    MaxSamples = 7
    MemoryPlans = {{}, {"trades"}, {"trades", "db_error", "bus_drop"}, {"trades", "no_embedding", "priceless"}, {"trades", "crash"}, {"trades", "repriced"}, {"regime", "crash"}, {"regime", "redis"}}
    Fetchers = {f1, f2, f3}
    f1 = f1
    f2 = f2
    f3 = f3
    MaxRequests = 2
    Window = 4
    LimitPlans = {"fetch", "api"}
    Tokens = {"t1"}
    Addresses = {"a1"}
    Limit = 2
    GcEvery = 6
    MaxExecutions = 2
    MaxMessages = 2
    FailureThreshold = 2
    FaultPlans = {{}, {"net_error"}, {"cancel_fails"}, {"ws_down"}, {"fast_fill"}, {"paper", "lost_reply"}, {"paper", "close_error", "net_error"}, {"patient", "paper", "net_error"}, {"patient", "paper", "cancel_fails"}}
INVARIANTS
    AgentsTypeOK
    ExecutedAsApproved
    FeedIsSound
    
    MemoryIsTrue
    BudgetsHold
PROPERTIES
    DeskIsSafe
CHECK_DEADLOCK FALSE
