SPECIFICATION FairSpec
CONSTANTS
    r1 = r1
    r2 = r2
    NumSessions = 1
    NumProposals = 2
    Requests = {r1}
    MaxQueue = 1
    MaxCrashes = 1
    FlowPlans = {{"lapse_in_flight", "slow_daemon"}, {"lapse_in_flight", "slow_calls", "slow_scan", "crash"}, {"lapse_in_flight", "end_in_flight", "daemon_error"}}
INVARIANTS
    BookedOnce
PROPERTIES
    SessionsMoveOn
CHECK_DEADLOCK FALSE
