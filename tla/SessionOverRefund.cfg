SPECIFICATION Spec
CONSTANTS
    u1 = u1
    u2 = u2
    s1 = s1
    s2 = s2
    t1 = t1
    t2 = t2
    Users = {u1}
    Sessions = {s1}
    Threads = {t1}
    DailyQuota = 2
    CostCap = 1
    Costs = {}
    Reasons = {"user_ended", "trade_opened"}
    Asks = {0, 1}
    DayLength = 3
    MaxTime = 4
    MaxCost = 1
    MaxCrashes = 0
    MaxBacksteps = 0
INVARIANTS
    RefundKeepsProvenTime
CHECK_DEADLOCK FALSE
