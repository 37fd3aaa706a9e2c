SPECIFICATION Spec
CONSTANTS
    r1 = r1
    r2 = r2
    NumSessions = 2
    NumProposals = 3
    Requests = {r1}
    MaxQueue = 2
    MaxCrashes = 0
    FlowPlans = {{}}
INVARIANTS
    TypeOK
    SessionTradesOnce
PROPERTIES
    BookingsAreRightful
CHECK_DEADLOCK FALSE
