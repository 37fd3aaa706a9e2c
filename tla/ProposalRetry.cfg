SPECIFICATION Spec
CONSTANTS
    r1 = r1
    r2 = r2
    NumSessions = 1
    NumProposals = 2
    Requests = {r1}
    MaxQueue = 2
    MaxCrashes = 0
    FlowPlans = {{"slow_daemon"}}
INVARIANTS
    TradedNeverScans
CHECK_DEADLOCK FALSE
