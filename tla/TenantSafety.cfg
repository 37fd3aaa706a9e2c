SPECIFICATION PlaneSpec
CONSTANTS
    Scenes = {"recovery", "routes", "workers", "api", "switch", "paper", "account"}
    s1 = s1
    c1 = c1
    c2 = c2
    x = x
    y = y
    MaxTrades = 2
    MaxSessions = 3
    Size = 2
    FaultPlans = {{}, {"crash"}, {"bus_drop"}, {"db_error"}, {"early_command"}, {"fast_exit"}, {"partial_exit"}, {"mode_change"}}
    Calls = {c1, c2}
    Exchanges = {"bingx", "delta_india"}
    DefaultExchange = "bingx"
    RoutePlans = {{}, {"settings", "billing_down"}, {"prefs", "billing_down", "redeploy"}, {"prefs", "billing_down"}, {"execute", "approve", "close", "slow"}, {"keys", "execute", "approve", "close"}, {"settings", "keys", "fan", "billing_down"}, {"settings", "execute", "redeploy"}, {"settings", "approve", "flaky"}}
    PlanCap <- CapOfTier
    HardCap = 4
    MaxAsk = 5
    Scans = {s1}
    CostCap = 2
    CallCosts = {1, 2}
    RequestCap = 2
    MaxRequests = 3
    MaxCycles = 2
    WorkerPlans = {{}, {"offline", "switch"}, {"late_error"}, {"empty_reply"}, {"db_error", "offline"}, {"no_key", "restart"}, {"redis_down"}, {"expire_fails"}, {"midnight"}}
    Sockets = {c1, c2}
    Channels = {x, y}
    ApiPlans = {{"channels"}, {"channels", "overflow"}, {"channels", "send_fails"}, {"positions", "dies"}, {"positions", "cold"}}
    MaxChannels = 2
    MaxConnects = 3
    MaxOps = 4
    MaxVersion = 2
    PollEvery = 2
    Memory = 7
    Tombstone = 8
    Durations = {1, 3}
    InitialBalance = 200000
    Leverage = 2
    MakerFee = 4
    TakerFee = 6
    Scale = 10000
    Slip = 1
    Better = 1
    Dust = 1
    Quotes = {8, 11}
    Lots = {3}
    Parts = {1, 3}
    MaxPlaced = 3
    SwitchPlans = {{}, {"evict_key", "daemon_restart", "read_error"}, {"evict_key", "evict_tombstone", "redis_restart"}}
INVARIANTS
    TenantTypeOK
    RestartRestores
    SpendingIsAccounted
    SocketIsServed
    OwnerOffStays
    
PROPERTIES
    SettingsAreKept
    MoneyIsConserved
    LegsFillTheirOwn
CHECK_DEADLOCK FALSE
