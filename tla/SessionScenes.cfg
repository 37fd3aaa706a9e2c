SPECIFICATION ScenesSpec
CONSTANTS
    u1 = u1
    s1 = s1
    s2 = s2
    t1 = t1
    Users = {u1}
    Sessions = {s1, s2}
    Threads = {t1}
    DailyQuota = 2
    CostCap = 1
    Costs = {1}
    Reasons = {"user_ended", "trade_opened"}
    Asks = {0, 1}
    DayLength = 2
    MaxTime = 3
    MaxCost = 1
    MaxCrashes = 1
    MaxBacksteps = 1
INVARIANTS
    TypeOK
    MetersAreRight
    GrantsFitDailyQuota
    OneLivePerUser
PROPERTIES
    SettledTimeStays
    ImplementsLifecycle
CHECK_DEADLOCK FALSE
