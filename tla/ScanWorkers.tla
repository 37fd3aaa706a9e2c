---------------------------- MODULE ScanWorkers ----------------------------
(***************************************************************************)
(* What a metered scan spends: the pool that keeps one SessionWorker per   *)
(* live session (core/session_worker.py), the worker's cycle up to the     *)
(* synthesis call and the booking of its cost (session_pipeline.py,        *)
(* synthesis.py, session_budget.py), the shared analysis cycle that runs   *)
(* on demand and fills the setup cache (multi_user_daemon.py), the daily   *)
(* request counter (llm_request_budget.py), and the two places that look   *)
(* at capacity: the start of a session and the tick loop (api/server.py).  *)
(*                                                                         *)
(* A session's clock and quota are SessionManager's; here a session may    *)
(* run out of time at any moment.  Money is counted in units of a cheap    *)
(* call.  MaxCycles bounds the cycles of a worker, MaxRequests the         *)
(* provider requests.                                                      *)
(***************************************************************************)
EXTENDS Naturals, FiniteSets

CONSTANTS
    Scans,          \* sessions
    CostCap,        \* llm_cost_cap_micros
    CallCosts,      \* what one synthesis call may cost: its tokens are limited
    RequestCap,     \* LLM_DAILY_REQUEST_CAP
    MaxRequests,
    MaxCycles,
    WorkerPlans     \* sets of faults; one is chosen in the initial state

ASSUME WorkersAssumption ==
    /\ CallCosts \subseteq Nat \ {0}
    /\ \E c \in CallCosts : \A d \in CallCosts : d <= c
    /\ CostCap \in Nat /\ RequestCap \in Nat
    /\ MaxRequests \in Nat /\ MaxCycles \in Nat

VARIABLES
    wplan,
    status,     \* the session row's status
    admitted,   \* POST /api/session/start has read an available capacity
    spent,      \* llm_cost_micros of the row
    billed,     \* what the provider has charged for the session's calls
    worker,     \* where the session's worker task is
    usage,      \* the cost its synthesis call reported, 0 for None
    ran,        \* cycles the worker began
    pending,    \* _pending of llm_request_budget
    flushing,   \* the delta flush() has drained and not yet stored
    counter,    \* llm:requests:<today> in Redis
    departed,   \* requests that have left
    switch,     \* the owner's engine switch is on
    connected,  \* sessions whose user has a socket open
    fresh,      \* SharedSetupCache holds a fresh setup
    analysis    \* the shared cycle: due, running, or paced by its interval

wvars == <<wplan, status, admitted, spent, billed, worker, usage, ran,
           pending, flushing, counter, departed, switch, connected, fresh,
           analysis>>

moneyVars == <<spent, billed>>
countVars == <<pending, flushing, counter, departed>>
sharedVars == <<switch, connected, fresh, analysis>>

LiveScan(s) == status[s] \in {"scanning", "proposed"}
WithWorker(s, pc) == worker' = [worker EXCEPT ![s] = pc]
WithStatus(s, st) == status' = [status EXCEPT ![s] = st]

\* exhausted(): the counter lags behind the requests that have left.
Exhausted == counter >= RequestCap

\* _analysis_capacity: the request budget, then the switch.
Capacity == ~Exhausted /\ switch

\* record_attempt, once per request that departs.
Departs(n) ==
    /\ departed + n <= MaxRequests
    /\ departed' = departed + n
    /\ pending' = pending + n
    /\ UNCHANGED <<flushing, counter>>

(***************************************************************************)
(* Sessions: start, the user's decisions, the tick loop.                   *)
(***************************************************************************)
ReadCapacity(s) ==
    /\ status[s] = "none" /\ s \notin admitted /\ Capacity
    /\ admitted' = admitted \cup {s}
    /\ UNCHANGED <<wplan, status, moneyVars, worker, usage, ran, countVars,
                   sharedVars>>

StartScan(s) ==
    /\ s \in admitted
    /\ admitted' = admitted \ {s}
    /\ WithStatus(s, "scanning")
    /\ UNCHANGED <<wplan, moneyVars, worker, usage, ran, countVars, sharedVars>>

\* A rejected proposal goes on scanning; an ended scan and an approved
\* proposal end the session.
Decide(s) ==
    /\ \/ LiveScan(s) /\ WithStatus(s, "ended")
       \/ status[s] = "proposed" /\ WithStatus(s, "scanning")
    /\ UNCHANGED <<wplan, admitted, moneyVars, worker, usage, ran, countVars,
                   sharedVars>>

\* tick(): a session at its cost cap ends.
Ticked(s, st, sp) ==
    IF st # "ended" /\ sp[s] >= CostCap THEN "ended" ELSE st

\* _session_tick_once: without capacity a scanning session ends with a
\* refund, any other is ticked.  Only users whose socket is open are served.
TickOnce(s) ==
    /\ s \in connected /\ LiveScan(s)
    /\ WithStatus(s, IF ~Capacity /\ status[s] = "scanning" THEN "ended"
                     ELSE Ticked(s, status[s], spent))
    /\ UNCHANGED <<wplan, admitted, moneyVars, worker, usage, ran, countVars,
                   sharedVars>>

Connection(s) ==
    /\ "offline" \in wplan
    /\ connected' = IF s \in connected THEN connected \ {s}
                                       ELSE connected \cup {s}
    /\ UNCHANGED <<wplan, status, admitted, moneyVars, worker, usage, ran,
                   countVars, switch, fresh, analysis>>

OwnerSwitches ==
    /\ "switch" \in wplan
    /\ switch' = ~switch
    /\ UNCHANGED <<wplan, status, admitted, moneyVars, worker, usage, ran,
                   countVars, connected, fresh, analysis>>

(***************************************************************************)
(* SessionWorkerPool and SessionWorker.                                    *)
(***************************************************************************)

\* discover_once reaps finished workers, then gives every live session
\* without one a worker.  The pool is built without a kill switch.
Discover ==
    /\ \E s \in Scans :
          \/ worker[s] = "done"
          \/ worker[s] = "none" /\ LiveScan(s)
    /\ worker' = [s \in Scans |->
           IF worker[s] \in {"none", "done"}
           THEN IF LiveScan(s) THEN "gate" ELSE "none"
           ELSE worker[s]]
    /\ UNCHANGED <<wplan, status, admitted, moneyVars, usage, ran, countVars,
                   sharedVars>>

\* Mutant: the worker goes on whatever can_spend and the status say.
GateUnchecked(s) ==
    /\ worker[s] = "gate" /\ ran[s] < MaxCycles
    /\ WithWorker(s, "read")
    /\ ran' = [ran EXCEPT ![s] = @ + 1]
    /\ UNCHANGED <<wplan, status, admitted, moneyVars, usage, countVars,
                   sharedVars>>

\* run: a worker returns when its session has ended, and sleeps through a
\* cycle in which a proposal waits for its user.
AfterGate(st) == CASE st = "ended" -> "done"
                   [] st = "scanning" -> "read"
                   [] OTHER -> "gate"

\* can_spend ticks the session before anything is spent.
Gate(s) ==
    LET st == Ticked(s, status[s], spent) IN
    /\ worker[s] = "gate"
    /\ st = "scanning" => ran[s] < MaxCycles
    /\ WithStatus(s, st)
    /\ WithWorker(s, AfterGate(st))
    /\ ran' = [ran EXCEPT ![s] = IF st = "scanning" THEN @ + 1 ELSE @]
    /\ UNCHANGED <<wplan, admitted, moneyVars, usage, countVars, sharedVars>>

\* _fresh_pulses: no pulse, or only stale ones, and the cycle is refused.
StalePlane(s) ==
    /\ worker[s] = "read"
    /\ WithWorker(s, "gate")
    /\ UNCHANGED <<wplan, status, admitted, moneyVars, usage, ran, countVars,
                   sharedVars>>

\* analyze: without a fresh setup there is nothing to synthesise, no usage.
ReadContext(s) ==
    /\ worker[s] = "read"
    /\ WithWorker(s, IF fresh THEN "call" ELSE "settle")
    /\ UNCHANGED <<wplan, status, admitted, moneyVars, usage, ran, countVars,
                   sharedVars>>

\* parse_choice: a declined cycle proposes nothing; a pick is proposed, and
\* for an unreadable reply the most confident candidate.
Verdicts == {"picked", "declined", "unreadable"}

AfterVerdict(v) == IF v = "declined" THEN "settle" ELSE "create"

Bills(s, c) == billed' = [billed EXCEPT ![s] = @ + c]

\* chat: a reply is billed; an error costs nothing; an empty completion is
\* billed and its usage dropped with it.
Chat(s) ==
    \/ \E c \in CallCosts, v \in Verdicts :
          /\ Bills(s, c) /\ usage' = [usage EXCEPT ![s] = c]
          /\ WithWorker(s, AfterVerdict(v))
    \/ /\ UNCHANGED <<billed, usage>>
       /\ WithWorker(s, "create")
    \/ /\ "empty_reply" \in wplan
       /\ \E c \in CallCosts : Bills(s, c)
       /\ WithWorker(s, "create")
       /\ UNCHANGED usage

Synthesize(s) ==
    /\ worker[s] = "call"
    /\ Departs(1)
    /\ Chat(s)
    /\ UNCHANGED <<wplan, status, admitted, spent, ran, sharedVars>>

\* No synthesizer configured: the deterministic pick, no request.
PickHighest(s) ==
    /\ worker[s] = "call"
    /\ "no_key" \in wplan
    /\ WithWorker(s, "create")
    /\ UNCHANGED <<wplan, status, admitted, moneyVars, usage, ran, countVars,
                   sharedVars>>

\* create stores the proposal and propose pauses the session, or the risk
\* gate rejects the candidate.
Propose(s) ==
    /\ worker[s] = "create" /\ status[s] = "scanning"
    /\ \/ WithStatus(s, "proposed")
       \/ UNCHANGED status
    /\ WithWorker(s, "settle")
    /\ UNCHANGED <<wplan, admitted, moneyVars, usage, ran, countVars, sharedVars>>

\* propose raises on a session that has ended meanwhile (IllegalTransition),
\* create may raise too: analyze_fn's result, and with it the usage, is lost.
AnalyzeRaises(s) ==
    /\ worker[s] = "create"
    /\ status[s] = "ended" \/ "late_error" \in wplan
    /\ WithWorker(s, "gate")
    /\ usage' = [usage EXCEPT ![s] = 0]
    /\ UNCHANGED <<wplan, status, admitted, moneyVars, ran, countVars,
                   sharedVars>>

\* record_response books the usage and ticks the session.
Settle(s) ==
    /\ worker[s] = "settle"
    /\ spent' = [spent EXCEPT ![s] = @ + usage[s]]
    /\ WithStatus(s, IF usage[s] > 0 THEN Ticked(s, status[s], spent')
                                     ELSE status[s])
    /\ usage' = [usage EXCEPT ![s] = 0]
    /\ WithWorker(s, "gate")
    /\ UNCHANGED <<wplan, admitted, billed, ran, countVars, sharedVars>>

\* A database error in the finally clause ends the worker's task; the pool
\* reaps it and starts another.
SettleRaises(s) ==
    /\ worker[s] = "settle" /\ "db_error" \in wplan
    /\ usage' = [usage EXCEPT ![s] = 0]
    /\ WithWorker(s, "done")
    /\ UNCHANGED <<wplan, status, admitted, moneyVars, ran, countVars,
                   sharedVars>>

(***************************************************************************)
(* The shared analysis cycle and the request budget.                       *)
(***************************************************************************)
\* Mutant: the switch decides about demand.
DemandBySwitch == switch /\ \E s \in Scans : LiveScan(s)

\* _has_scan_demand: any session that has not ended.
Demand == \E s \in Scans : LiveScan(s)

AnalysisStart ==
    /\ analysis = "due"
    /\ Demand /\ ~Exhausted
    /\ Departs(1)
    /\ analysis' = "running"
    /\ UNCHANGED <<wplan, status, admitted, moneyVars, worker, usage, ran,
                   switch, connected, fresh>>

\* Only a valid setup is published and put into the cache.
AnalysisEnd ==
    /\ analysis = "running"
    /\ analysis' = "paced"
    /\ fresh' \in {fresh, TRUE}
    /\ UNCHANGED <<wplan, status, admitted, moneyVars, worker, usage, ran,
                   countVars, switch, connected>>

TimePasses ==
    /\ \/ analysis = "paced" /\ analysis' = "due" /\ UNCHANGED fresh
       \/ fresh /\ fresh' = FALSE /\ UNCHANGED analysis
    /\ UNCHANGED <<wplan, status, admitted, moneyVars, worker, usage, ran,
                   countVars, switch, connected>>

\* flush() takes the pending count, then stores it.
Drain ==
    /\ pending > 0 /\ flushing = 0
    /\ flushing' = pending /\ pending' = 0
    /\ UNCHANGED <<wplan, status, admitted, moneyVars, worker, usage, ran,
                   counter, departed, sharedVars>>

\* A failed INCRBY gives the delta back.  A failed EXPIRE does too, although
\* the counter has been raised.
Store ==
    /\ flushing > 0 /\ flushing' = 0
    /\ \/ counter' = counter + flushing /\ UNCHANGED pending
       \/ /\ "redis_down" \in wplan
          /\ pending' = pending + flushing /\ UNCHANGED counter
       \/ /\ "expire_fails" \in wplan
          /\ counter' = counter + flushing
          /\ pending' = pending + flushing
          /\ counter' + pending' <= 2 * MaxRequests
    /\ UNCHANGED <<wplan, status, admitted, moneyVars, worker, usage, ran,
                   departed, sharedVars>>

\* The key carries the UTC date: a new day starts at zero.
DayRolls ==
    /\ "midnight" \in wplan /\ counter > 0
    /\ counter' = 0
    /\ UNCHANGED <<wplan, status, admitted, moneyVars, worker, usage, ran,
                   pending, flushing, departed, sharedVars>>

\* The daemon restarts: tasks, cache and the undrained count are gone.
DaemonRestarts ==
    /\ "restart" \in wplan
    /\ worker' = [s \in Scans |-> "none"] /\ usage' = [s \in Scans |-> 0]
    /\ pending' = 0 /\ flushing' = 0
    /\ fresh' = FALSE /\ analysis' = "due"
    /\ UNCHANGED <<wplan, status, admitted, moneyVars, ran, counter, departed,
                   switch, connected>>

WorkersInit ==
    /\ wplan \in WorkerPlans
    /\ status = [s \in Scans |-> "none"] /\ admitted = {}
    /\ spent = [s \in Scans |-> 0] /\ billed = [s \in Scans |-> 0]
    /\ worker = [s \in Scans |-> "none"] /\ usage = [s \in Scans |-> 0]
    /\ ran = [s \in Scans |-> 0]
    /\ pending = 0 /\ flushing = 0 /\ counter = 0 /\ departed = 0
    /\ switch = TRUE /\ connected = Scans
    /\ fresh = FALSE /\ analysis = "due"

WorkersNext ==
    \/ \E s \in Scans :
          \/ ReadCapacity(s) \/ StartScan(s) \/ Decide(s) \/ TickOnce(s)
          \/ Connection(s) \/ Gate(s) \/ StalePlane(s) \/ ReadContext(s)
          \/ Synthesize(s) \/ PickHighest(s) \/ Propose(s) \/ AnalyzeRaises(s)
          \/ Settle(s) \/ SettleRaises(s)
    \/ OwnerSwitches \/ Discover \/ AnalysisStart \/ AnalysisEnd
    \/ TimePasses \/ Drain \/ Store \/ DayRolls \/ DaemonRestarts

WorkersSpec == WorkersInit /\ [][WorkersNext]_wvars

\* The daemon's loops run: discovery, workers, analysis, flush and the API's
\* tick loop.  Users and the owner do as they like.
WorkersFairness ==
    /\ WF_wvars(Discover) /\ WF_wvars(AnalysisStart) /\ WF_wvars(AnalysisEnd)
    /\ WF_wvars(TimePasses) /\ WF_wvars(Drain) /\ WF_wvars(Store)
    /\ \A s \in Scans :
        /\ WF_wvars(TickOnce(s))
        /\ WF_wvars(Gate(s) \/ StalePlane(s) \/ ReadContext(s)
                    \/ Synthesize(s) \/ PickHighest(s) \/ Propose(s)
                    \/ AnalyzeRaises(s) \/ Settle(s))

WorkersFairSpec == WorkersSpec /\ WorkersFairness

(***************************************************************************)
(* Properties.                                                             *)
(***************************************************************************)
WorkersSpared(fs) == wplan \cap fs = {}
Dearest == CHOOSE c \in CallCosts : \A d \in CallCosts : d <= c
Idle(s) == worker[s] \in {"none", "done", "gate", "read"}

\* Types, and what a row is charged never exceeds what the provider billed.
WorkersTypeOK ==
    /\ status \in [Scans -> {"none", "scanning", "proposed", "ended"}]
    /\ worker \in [Scans -> {"none", "gate", "read", "call", "create",
                             "settle", "done"}]
    /\ usage \in [Scans -> {0} \cup CallCosts]
    /\ \A s \in Scans : spent[s] + usage[s] <= billed[s]
    /\ fresh \in BOOLEAN /\ admitted \subseteq Scans

\* can_spend: a session passes its cost cap by one call at most, also when
\* its worker is reaped and restarted or another loop ticks it.
OverrunIsOneCall ==
    \A s \in Scans : spent[s] <= CostCap + Dearest - 1

\* run_cycle: as long as analyze_fn fails for no other reason, what a session
\* was billed and never charged is one call, the one in flight at its end.
UnbookedIsOneCall ==
    WorkersSpared({"late_error", "empty_reply", "db_error", "restart"}) =>
        \A s \in Scans : billed[s] <= spent[s] + Dearest

\* record_attempt and flush: no request is counted twice or forgotten while
\* the store either fails or succeeds as a whole and the daemon stays up.
RequestsAreCounted ==
    WorkersSpared({"expire_fails", "midnight", "restart"}) =>
        counter + flushing + pending = departed

\* A scanning session has a worker, or gets one: the pool reaps what failed.
ScanIsServed ==
    \A s \in Scans :
        status[s] = "scanning" /\ worker[s] \in {"none", "done"} ~>
            worker[s] \notin {"none", "done"} \/ status[s] # "scanning"

\* While somebody scans and the request budget lasts, the shared analysis
\* runs, whatever the owner's switch says.
ScanGetsAnalysis ==
    (\E s \in Scans : LiveScan(s)) ~>
        \/ analysis = "running" \/ Exhausted \/ departed = MaxRequests
        \/ ~\E s \in Scans : LiveScan(s)

\* When capacity is lost, the tick loop ends the scans of connected users.
CapacityLossEnds ==
    \A s \in Scans :
        status[s] = "scanning" /\ ~Capacity /\ s \in connected ~>
            status[s] # "scanning" \/ Capacity \/ s \notin connected

\* The books of what scanning costs (session_worker.py, llm_request_budget.py):
\* per session by its charges, per day by the requests that left.
SpendingIsAccounted == OverrunIsOneCall /\ UnbookedIsOneCall /\ RequestsAreCounted

=============================================================================
