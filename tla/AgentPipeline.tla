--------------------------- MODULE AgentPipeline ---------------------------
(***************************************************************************)
(* The orchestrator's workflow (core/orchestrator.py) over the message bus *)
(* and the agents behind it: collect_data, analyze_market, detect_regime,  *)
(* generate_strategies, validate_risk, execute_trade and log_memory, each  *)
(* a request published on the agent's inbox channel, a subscription to its *)
(* response channel, and a bounded wait for the reply that carries the     *)
(* cycle's correlation id.  An agent takes its messages one at a time.     *)
(*                                                                         *)
(* A lane is one run of the workflow.  The single-user program has one     *)
(* (run_cycle); the multi-user daemon ("daemon") runs run_analysis_cycle   *)
(* for several symbols at once over the same agents and bus.               *)
(*                                                                         *)
(* Candles are known by the attempt that collected them; an analysis and a *)
(* setup by the attempt of the candles they rest on.  What an agent        *)
(* decides is a choice; positions are a count (ExecutionDesk has the       *)
(* engine).  The calls of run_cycle and run_analysis_cycle are bounded by  *)
(* MaxRuns.                                                                *)
(***************************************************************************)
EXTENDS Naturals, Sequences, FiniteSets

CONSTANTS
    Lanes,          \* workflows that may run at once
    LiveLane,           \* the lane that runs run_cycle
    MaxRuns,        \* run_cycle / run_analysis_cycle calls
    MaxRetries,     \* self.max_retries, 3 by default
    PipelinePlans   \* sets of faults; one is chosen in the initial state

ASSUME PipelineAssumption ==
    /\ LiveLane \in Lanes
    /\ MaxRuns \in Nat /\ MaxRetries \in Nat \ {0}

VARIABLES
    pplan,      \* the faults of this behaviour
    runs,       \* calls of run_cycle and run_analysis_cycle so far
    cycles,     \* self.current_cycle
    lane,       \* lane -> the run's TradingState and its pending request
    mailbox,      \* agent -> messages queued for its message loop
    active,     \* positions the execution agent holds
    approvals,  \* setups the risk agent has approved
    trades,     \* setups the execution agent has opened, in order
    refused,    \* the execution agent has refused a trade: one was open
    logged        \* trades the memory agent has stored

pvars == <<pplan, runs, cycles, lane, mailbox, active, approvals, trades,
           refused, logged>>

Agents == {"data", "analysis", "memory", "strategy", "risk", "execution"}

\* The agent a node of the workflow asks.
Asks ==
    [check |-> "execution", data |-> "data", analysis |-> "analysis",
     regime |-> "memory", strategy |-> "strategy", risk |-> "risk",
     execute |-> "execution", log |-> "memory"]

Nodes == DOMAIN Asks \cup {"idle"}
NoData == 0
NoSetupYet == [cycle |-> 0, basis |-> NoData]
Setups == [cycle : 0..MaxRuns, basis : 0..MaxRetries]

(***************************************************************************)
(* TradingState and the two steps of an exchange on the bus.               *)
(***************************************************************************)
InitialState ==
    [node |-> "idle", pc |-> "ask", cycle |-> 0, attempt |-> 1,
     candles |-> NoData, analysis |-> NoData, volatile |-> FALSE,
     setup |-> NoSetupYet, approved |-> FALSE, trade |-> 0, reply |-> <<>>]

\* get_status carries an id of its own, log_trade "log_" + cycle_id, every
\* other request the cycle id, whatever the attempt.
Correlation(s) ==
    IF s.node \in {"check", "log"} THEN <<s.node, s.cycle>>
                                   ELSE <<"cycle", s.cycle>>

Goto(s, n) == [s EXCEPT !.node = n, !.pc = "ask", !.reply = <<>>]
End(s) == Goto([InitialState EXCEPT !.cycle = s.cycle], "idle")

\* The request a node sends.
Request(s) ==
    [kind |-> s.node, cid |-> Correlation(s), cycle |-> s.cycle,
     basis |-> CASE s.node = "data" -> s.attempt
                 [] s.node = "analysis" -> s.candles
                 [] s.node = "strategy" -> s.analysis
                 [] OTHER -> NoData,
     setup |-> s.setup, trade |-> s.trade]

\* A reply reaches the handlers that are subscribed to the agent's response
\* channel; the handler ignores another correlation id.  A reply published
\* before the subscription reaches nobody.
Hears(s, a, r) ==
    /\ s.pc = "wait"
    /\ Asks[s.node] = a
    /\ Correlation(s) = r.cid

\* send_response may raise too: what the handler did stands, unheard.
Deliver(a, r) ==
    \/ lane' = [l \in Lanes |->
                   IF lane[l].node # "idle" /\ Hears(lane[l], a, r)
                   THEN [lane[l] EXCEPT !.reply = <<r>>] ELSE lane[l]]
    \/ "bus_down" \in pplan /\ UNCHANGED lane

(***************************************************************************)
(* The gates of the graph.                                                 *)
(***************************************************************************)
Daemon == "daemon" \in pplan

\* _handle_error_node, _should_retry: the errors are cleared and the
\* workflow starts over from the data; run_analysis_cycle just ends.
HandleError(s) ==
    IF ~Daemon /\ s.attempt < MaxRetries
    THEN Goto([s EXCEPT !.attempt = @ + 1], "data")
    ELSE End(s)

\* _error_gate after the data and the analysis.
ToData(s, r) ==
    IF r.ok THEN Goto([s EXCEPT !.candles = r.basis], "analysis")
            ELSE HandleError(s)

ToAnalysis(s, r) ==
    IF r.ok THEN Goto([s EXCEPT !.analysis = r.basis, !.volatile = r.flag],
                      "regime")
            ELSE HandleError(s)

\* The detector's regime, or the analysis agent's when it fails; a volatile
\* one ends the cycle.
ToRegime(s, r) ==
    IF (IF r.ok THEN r.flag ELSE s.volatile)
    THEN End(s) ELSE Goto(s, "strategy")

\* No reply or no setup: no opportunity, the cycle ends.  The daemon's run
\* returns the setups here and the execution half is not run.
ToStrategy(s, r) ==
    IF ~r.ok THEN End(s)
    ELSE IF Daemon THEN [End(s) EXCEPT !.setup = r.setup]
    ELSE Goto([s EXCEPT !.setup = r.setup], "risk")

\* A refusal, an error and no reply at all reject the setup.
ToRisk(s, r) ==
    IF r.ok /\ r.flag
    THEN Goto([s EXCEPT !.approved = TRUE], "execute")
    ELSE Goto(s, "log")

\* Mutant: a failed or unanswered execution is retried.
ToExecuteRetries(s, r) ==
    IF r.ok THEN Goto([s EXCEPT !.trade = r.trade], "log")
            ELSE HandleError(s)

ToExecute(s, r) ==
    Goto(IF r.ok THEN [s EXCEPT !.trade = r.trade] ELSE s, "log")

\* run_cycle: an open position skips the cycle; no answer does not.
ToCheck(s, r) ==
    IF r.ok /\ r.flag THEN End(s)
    ELSE Goto([InitialState EXCEPT !.cycle = s.cycle], "data")

Advance(s, r) ==
    CASE s.node = "check"    -> ToCheck(s, r)
      [] s.node = "data"     -> ToData(s, r)
      [] s.node = "analysis" -> ToAnalysis(s, r)
      [] s.node = "regime"   -> ToRegime(s, r)
      [] s.node = "strategy" -> ToStrategy(s, r)
      [] s.node = "risk"     -> ToRisk(s, r)
      [] s.node = "execute"  -> ToExecute(s, r)
      [] s.node = "log"      -> End(s)

\* What a node sees when nothing was heard, and when publish raises: only
\* the data, analysis and strategy nodes turn an exception into an error.
Silence == [ok |-> FALSE, flag |-> FALSE, basis |-> NoData,
            setup |-> NoSetupYet, trade |-> 0]

PublishFails(s) ==
    CASE s.node = "check"    -> End(s)
      [] s.node = "strategy" -> HandleError(s)
      [] OTHER               -> Advance(s, Silence)

(***************************************************************************)
(* The orchestrator's steps.                                               *)
(***************************************************************************)
\* run_cycle asks for the status first (after a five second wait for a
\* message nobody sends); the number of the cycle and of its check is kept
\* as one.
RunCycle(l) ==
    /\ lane[l].node = "idle" /\ runs < MaxRuns
    /\ ~Daemon /\ l = LiveLane
    /\ runs' = runs + 1
    /\ cycles' = cycles + 1
    /\ lane' = [lane EXCEPT ![l] =
                   Goto([InitialState EXCEPT !.cycle = cycles + 1], "check")]
    /\ UNCHANGED <<pplan, mailbox, active, approvals, trades, refused, logged>>

\* run_analysis_cycle: the first half of the workflow for one symbol.
RunAnalysisCycle(l) ==
    /\ lane[l].node = "idle" /\ runs < MaxRuns
    /\ Daemon
    /\ runs' = runs + 1
    /\ cycles' = cycles + 1
    /\ lane' = [lane EXCEPT ![l] =
                   Goto([InitialState EXCEPT !.cycle = cycles + 1], "data")]
    /\ UNCHANGED <<pplan, mailbox, active, approvals, trades, refused, logged>>

\* Nothing to store without a trade id and an approval.
NothingToLog(s) == s.node = "log" /\ ~(s.trade # 0 /\ s.approved)

\* The request reaches the agent's inbox unless its bus is disconnected.
Publish(l) ==
    LET s == lane[l] IN
    /\ s.node # "idle" /\ s.pc = "ask" /\ ~NothingToLog(s)
    /\ \/ mailbox' = [mailbox EXCEPT ![Asks[s.node]] = Append(@, Request(s))]
       \/ "bus_drop" \in pplan /\ UNCHANGED mailbox
    /\ lane' = [lane EXCEPT ![l].pc = "sent"]
    /\ UNCHANGED <<pplan, runs, cycles, active, approvals, trades, refused,
                   logged>>

PublishRaises(l) ==
    LET s == lane[l] IN
    /\ "bus_down" \in pplan
    /\ s.node # "idle" /\ s.pc = "ask" /\ ~NothingToLog(s)
    /\ lane' = [lane EXCEPT ![l] = PublishFails(s)]
    /\ UNCHANGED <<pplan, runs, cycles, mailbox, active, approvals, trades,
                   refused, logged>>

SkipLog(l) ==
    /\ NothingToLog(lane[l])
    /\ lane' = [lane EXCEPT ![l] = End(@)]
    /\ UNCHANGED <<pplan, runs, cycles, mailbox, active, approvals, trades,
                   refused, logged>>

\* _wait_for_response subscribes after the request has been published.
Subscribe(l) ==
    /\ lane[l].pc = "sent"
    /\ lane' = [lane EXCEPT ![l].pc = "wait"]
    /\ UNCHANGED <<pplan, runs, cycles, mailbox, active, approvals, trades,
                   refused, logged>>

SubscribeRaises(l) ==
    /\ "bus_down" \in pplan /\ lane[l].pc = "sent"
    /\ lane' = [lane EXCEPT ![l] = Advance(@, Silence)]
    /\ UNCHANGED <<pplan, runs, cycles, mailbox, active, approvals, trades,
                   refused, logged>>

Hear(l) ==
    LET s == lane[l] IN
    /\ s.pc = "wait" /\ s.reply # <<>>
    /\ lane' = [lane EXCEPT ![l] = Advance(s, s.reply[1])]
    /\ UNCHANGED <<pplan, runs, cycles, mailbox, active, approvals, trades,
                   refused, logged>>

\* The wait ends without a reply: at any time when agents may be slow, else
\* only once no answer can come any more.
AnswerMayCome(s) ==
    \E i \in 1..Len(mailbox[Asks[s.node]]) :
        /\ mailbox[Asks[s.node]][i].kind = s.node
        /\ mailbox[Asks[s.node]][i].cid = Correlation(s)

WaitTimesOut(l) ==
    LET s == lane[l] IN
    /\ s.pc = "wait" /\ s.reply = <<>>
    /\ "slow" \in pplan \/ ~AnswerMayCome(s)
    /\ lane' = [lane EXCEPT ![l] = Advance(s, Silence)]
    /\ UNCHANGED <<pplan, runs, cycles, mailbox, active, approvals, trades,
                   refused, logged>>

(***************************************************************************)
(* The agents: BaseAgent's message loop and one handler per request.       *)
(***************************************************************************)
\* The head of an inbox may be answered before its sender has subscribed
\* only under "fast_reply".
Ready(a) ==
    /\ mailbox[a] # <<>>
    /\ \/ "fast_reply" \in pplan
       \/ \A l \in Lanes : ~(/\ lane[l].pc = "sent"
                             /\ Asks[lane[l].node] = a
                             /\ Correlation(lane[l]) = mailbox[a][1].cid)

Takes(a) == mailbox' = [mailbox EXCEPT ![a] = Tail(@)]

\* The reply carries the request's correlation id.
Reply(a, ok, flag, basis, setup, trade) ==
    Deliver(a, [cid |-> mailbox[a][1].cid, ok |-> ok, flag |-> flag,
                basis |-> basis, setup |-> setup, trade |-> trade])

\* An untracked symbol and an exception both answer success = False.
GetMarketData(q) ==
    \E ok \in BOOLEAN :
        /\ Reply("data", ok, FALSE, q.basis, NoSetupYet, 0)
        /\ UNCHANGED <<active, approvals, trades, refused, logged>>

AnalyzeMarket(q) ==
    \E ok, volatile \in BOOLEAN :
        /\ Reply("analysis", ok, volatile, q.basis, NoSetupYet, 0)
        /\ UNCHANGED <<active, approvals, trades, refused, logged>>

GetRegime(q) ==
    \E ok, volatile \in BOOLEAN :
        /\ Reply("memory", ok, volatile, NoData, NoSetupYet, 0)
        /\ UNCHANGED <<active, approvals, trades, refused, logged>>

\* success only with a setup that names a symbol.
GenerateSetups(q) ==
    \E found \in BOOLEAN :
        /\ Reply("strategy", found, FALSE, NoData,
                 IF found THEN [cycle |-> q.cycle, basis |-> q.basis]
                          ELSE NoSetupYet, 0)
        /\ UNCHANGED <<active, approvals, trades, refused, logged>>

\* A setup without symbol or direction is answered with success = True and
\* approved = False.
ValidateTrade(q) ==
    \E approved \in BOOLEAN :
        /\ Reply("risk", TRUE, approved, NoData, NoSetupYet, 0)
        /\ approvals' = IF approved THEN approvals \cup {q.setup} ELSE approvals
        /\ UNCHANGED <<active, trades, refused, logged>>

GetStatus(q) ==
    /\ Reply("execution", TRUE, active > 0, NoData, NoSetupYet, 0)
    /\ UNCHANGED <<active, approvals, trades, refused, logged>>

\* The agent's own check refuses a second position; the order may fail.
ExecuteTrade(q) ==
    IF active > 0
    THEN /\ Reply("execution", FALSE, FALSE, NoData, NoSetupYet, 0)
         /\ refused' = TRUE
         /\ UNCHANGED <<active, approvals, trades, logged>>
    ELSE \/ /\ Reply("execution", TRUE, FALSE, NoData, NoSetupYet,
                     Len(trades) + 1)
            /\ trades' = Append(trades, q.setup)
            /\ active' = active + 1
            /\ UNCHANGED <<approvals, refused, logged>>
         \/ /\ Reply("execution", FALSE, FALSE, NoData, NoSetupYet, 0)
            /\ UNCHANGED <<active, approvals, trades, refused, logged>>

LogExecuted(q) ==
    /\ Reply("memory", TRUE, FALSE, NoData, NoSetupYet, 0)
    /\ logged' = logged \cup {q.trade}
    /\ UNCHANGED <<active, approvals, trades, refused>>

\* A failed store is answered with success = False, which the node only
\* reports.
LogTradeFails(q) ==
    /\ "agent_error" \in pplan
    /\ Reply("memory", FALSE, FALSE, NoData, NoSetupYet, 0)
    /\ UNCHANGED <<active, approvals, trades, refused, logged>>

HandleMessage(q) ==
    CASE q.kind = "data"     -> GetMarketData(q)
      [] q.kind = "analysis" -> AnalyzeMarket(q)
      [] q.kind = "regime"   -> GetRegime(q)
      [] q.kind = "strategy" -> GenerateSetups(q)
      [] q.kind = "risk"     -> ValidateTrade(q)
      [] q.kind = "check"    -> GetStatus(q)
      [] q.kind = "execute"  -> ExecuteTrade(q)
      [] q.kind = "log"      -> LogExecuted(q) \/ LogTradeFails(q)

Serve(a) ==
    /\ Ready(a)
    /\ Takes(a)
    /\ HandleMessage(mailbox[a][1])
    /\ UNCHANGED <<pplan, runs, cycles>>

\* The handler raises: _handle_error reports to orchestrator_inbox, which
\* nobody reads, and no reply is sent.
ServeRaises(a) ==
    /\ "agent_error" \in pplan
    /\ Ready(a)
    /\ Takes(a)
    /\ UNCHANGED <<pplan, runs, cycles, lane, active, approvals, trades,
                   refused, logged>>

\* A stop or a target closes the position.
PositionCloses ==
    /\ active > 0
    /\ active' = active - 1
    /\ UNCHANGED <<pplan, runs, cycles, lane, mailbox, approvals, trades,
                   refused, logged>>

PipelineInit ==
    /\ pplan \in PipelinePlans
    /\ runs = 0 /\ cycles = 0
    /\ lane = [l \in Lanes |-> InitialState]
    /\ mailbox = [a \in Agents |-> <<>>]
    /\ active = 0 /\ approvals = {} /\ trades = <<>>
    /\ refused = FALSE /\ logged = {}

PipelineNext ==
    \/ \E l \in Lanes : \/ RunCycle(l) \/ RunAnalysisCycle(l)
                        \/ Publish(l) \/ PublishRaises(l)
                        \/ SkipLog(l) \/ Subscribe(l) \/ SubscribeRaises(l)
                        \/ Hear(l) \/ WaitTimesOut(l)
    \/ \E a \in Agents : Serve(a) \/ ServeRaises(a)
    \/ PositionCloses

PipelineSpec == PipelineInit /\ [][PipelineNext]_pvars

\* asyncio runs every ready task: a cycle's next step and an agent's next
\* message come; nothing makes a new cycle start or a position close.
PipelineFairness ==
    /\ \A l \in Lanes :
        /\ WF_pvars(Publish(l)) /\ WF_pvars(SkipLog(l))
        /\ WF_pvars(Subscribe(l)) /\ WF_pvars(Hear(l))
        /\ WF_pvars(WaitTimesOut(l))
    /\ \A a \in Agents : WF_pvars(Serve(a))

PipelineFairSpec == PipelineSpec /\ PipelineFairness

(***************************************************************************)
(* Properties.                                                             *)
(***************************************************************************)
PipelineSpared(fs) == pplan \cap fs = {}

\* Types; a correlation id names one run: two lanes never share one, and an
\* attempt never exceeds the retries.
PipelineTypeOK ==
    /\ \A l \in Lanes :
        LET s == lane[l] IN
        /\ DOMAIN s = DOMAIN InitialState
        /\ s.node \in Nodes /\ s.pc \in {"ask", "sent", "wait"}
        /\ s.cycle \in 0..cycles /\ s.attempt \in 1..MaxRetries
        /\ {s.candles, s.analysis} \subseteq 0..s.attempt
        /\ s.setup \in Setups \cup {NoSetupYet} /\ s.trade \in 0..Len(trades)
        /\ {s.volatile, s.approved} \subseteq BOOLEAN /\ Len(s.reply) <= 1
    /\ \A k, l \in Lanes : k # l /\ lane[k].node # "idle" =>
                               lane[k].cycle # lane[l].cycle
    /\ active \in 0..1 /\ logged \subseteq 1..Len(trades)

\* _is_approved: what the execution agent opens was approved by the risk
\* agent, whatever replies came late, got lost or were retried.
ExecutedWasApproved == \A i \in 1..Len(trades) : trades[i] \in approvals

\* No retry and no late reply opens a second trade in one cycle: an
\* execution without answer is not asked for again.
OneExecutionPerCycle ==
    \A i, j \in 1..Len(trades) : trades[i].cycle = trades[j].cycle => i = j

\* response_handler: a lane acts only on replies to its own cycle, also when
\* another symbol's run or an earlier, timed-out cycle has replies in flight.
SetupOfThisCycle ==
    \A l \in Lanes : lane[l].setup # NoSetupYet =>
                         lane[l].setup.cycle = lane[l].cycle

\* While no reply comes after its wait, the setup put before the risk agent rests on
\* the candles of the last attempt: a retry collects them anew.
BasisIsFresh ==
    PipelineSpared({"slow", "bus_down"}) =>
        \A l \in Lanes : lane[l].node = "risk" =>
                             lane[l].setup.basis = lane[l].attempt

\* While the status answer arrives, run_cycle starts no cycle whose trade
\* the execution agent must refuse because a position is open.
NeverRefused ==
    PipelineSpared({"slow", "fast_reply", "agent_error", "bus_drop",
                    "bus_down"}) => ~refused

\* Every run ends, whatever is lost: each wait is bounded and the retries
\* are counted.
CycleEnds == \A l \in Lanes : lane[l].node # "idle" ~> lane[l].node = "idle"

\* While every reply is heard, a trade that was opened gets its row.
ExecutedIsLogged ==
    PipelineSpared({"slow", "fast_reply", "agent_error", "bus_down",
                    "bus_drop"}) =>
        \A i \in 1..MaxRuns : i <= Len(trades) ~> i \in logged

\* An execution of the cycle (orchestrator.py) is the execution of what this
\* cycle's agents said, and of nothing refused, late or repeated.
ExecutedAsApproved ==
    /\ ExecutedWasApproved /\ OneExecutionPerCycle /\ SetupOfThisCycle
    /\ BasisIsFresh /\ NeverRefused

=============================================================================
