SPECIFICATION PlaneFairSpec
CONSTANTS
    Scenes = {"recovery", "routes", "workers", "api", "switch"}
    s1 = s1
    c1 = c1
    c2 = c2
    x = x
    y = y
    MaxTrades = 1
    MaxSessions = 3
    Size = 2
    FaultPlans = {{}, {"crash"}, {"bus_drop"}, {"db_error"}, {"partial_exit"}, {"mode_change"}}
    Calls = {c1, c2}
    Exchanges = {"bingx", "delta_india"}
    DefaultExchange = "bingx"
    RoutePlans = {{}, {"execute", "approve", "close", "slow"}, {"settings", "billing_down"}, {"keys", "execute"}}
    PlanCap <- CapOfTier
    HardCap = 4
    MaxAsk = 5
    Scans = {s1}
    CostCap = 1
    CallCosts = {1}
    RequestCap = 1
    MaxRequests = 2
    MaxCycles = 2
    WorkerPlans = {{}, {"offline", "switch"}, {"db_error", "offline"}, {"no_key", "restart"}}
    Sockets = {c1, c2}
    Channels = {x, y}
    ApiPlans = {{"channels"}, {"channels", "send_fails"}, {"positions", "dies"}}
    MaxChannels = 1
    MaxConnects = 3
    MaxOps = 3
    MaxVersion = 1
    PollEvery = 2
    Memory = 7
    Tombstone = 8
    Durations = {1, 3}
    InitialBalance = 200000
    Leverage = 2
    MakerFee = 4
    TakerFee = 6
    Scale = 10000
    Slip = 1
    Better = 1
    Dust = 1
    Quotes = {8, 11}
    Lots = {3}
    Parts = {1, 3}
    MaxPlaced = 3
    SwitchPlans = {{}, {"evict_key", "evict_tombstone", "redis_restart"}}
PROPERTIES
    NobodyWaitsForGood
    IdleCostsNothing
    HealsEviction
CHECK_DEADLOCK FALSE
