-------------------------- MODULE AgentPlaneProofs --------------------------
(***************************************************************************)
(* Theorems about the agents.  AgentPipeline: what is executed is what the *)
(* cycle's own agents found and approved, for any number of lanes, cycles  *)
(* and retries and under every plan of faults.  LlmChains: the answers of  *)
(* the models, and the day's cost.  RateLimits: the two budgets.           *)
(* ExecutionDesk: what the single-user desk holds is protected.            *)
(* TradeMemory: what is remembered of trades and of volatility is true.    *)
(***************************************************************************)
EXTENDS AgentPipeline, LlmChains, RateLimits, ExecutionDesk, TradeMemory, SequenceTheorems,
        FiniteSetTheorems, WellFoundedInduction, TLAPS

-----------------------------------------------------------------------------
(* The inductive invariant: types.                                         *)

Kinds == {"check", "data", "analysis", "regime", "strategy", "risk", "execute", "log"}
SetupRecords == [cycle : Nat, basis : Nat]
Correlations == {"check", "log", "cycle"} \X Nat

Requests ==
    [kind : Kinds, cid : Correlations, cycle : Nat, basis : Nat,
     setup : SetupRecords, trade : Nat]

Replies ==
    [cid : Correlations, ok : BOOLEAN, flag : BOOLEAN, basis : Nat,
     setup : SetupRecords, trade : Nat]

States ==
    [node : Kinds \cup {"idle"}, pc : {"ask", "sent", "wait"}, cycle : Nat, attempt : Nat,
     candles : Nat, analysis : Nat, volatile : BOOLEAN, setup : SetupRecords,
     approved : BOOLEAN, trade : Nat, reply : Seq(Replies)]

PipelineTypes ==
    /\ pplan \in PipelinePlans
    /\ runs \in Nat /\ cycles = runs /\ runs <= MaxRuns
    /\ lane \in [Lanes -> States]
    /\ mailbox \in [Agents -> Seq(Requests)]
    /\ active \in 0..1
    /\ approvals \subseteq SetupRecords
    /\ trades \in Seq(SetupRecords)
    /\ refused \in BOOLEAN
    /\ logged \subseteq 1..Len(trades)

-----------------------------------------------------------------------------
(* ... the run of a lane, and what it was told.                            *)

\* How far a run has come, and what it knows there.
RunOk(s) ==
    /\ s.cycle <= cycles /\ s.attempt \in 1..MaxRetries
    /\ s.candles <= s.attempt /\ s.analysis <= s.attempt
    /\ s.setup = NoSetupYet \/ (s.setup.cycle = s.cycle /\ s.setup.basis <= MaxRetries)
    /\ s.trade <= Len(trades)
    /\ s.node # "idle" => s.cycle >= 1
    /\ s.node = "check" => s.attempt = 1
    /\ s.node \in {"risk", "execute", "log"} => s.setup # NoSetupYet
    /\ s.node = "execute" => s.setup \in approvals

\* A reply is to the request of the node that waits for it.
ReplyOk(s, r) ==
    /\ r.basis <= s.attempt
    /\ s.node = "strategy" /\ r.ok =>
          r.setup # NoSetupYet /\ r.setup.cycle = s.cycle /\ r.setup.basis <= MaxRetries
    /\ s.node = "risk" /\ r.ok /\ r.flag => s.setup \in approvals
    /\ s.node = "execute" /\ r.ok => r.trade \in 1..Len(trades)

LaneOk(l) ==
    /\ RunOk(lane[l]) /\ Len(lane[l].reply) <= 1
    /\ lane[l].pc # "ask" => lane[l].node # "idle" /\ ~NothingToLog(lane[l])
    /\ lane[l].reply # <<>> =>
          /\ lane[l].node # "idle" /\ lane[l].pc = "wait"
          /\ lane[l].reply[1].cid = Correlation(lane[l])
          /\ ReplyOk(lane[l], lane[l].reply[1])

LanesApart ==
    \A k, l \in Lanes : k # l /\ lane[k].node # "idle" => lane[k].cycle # lane[l].cycle

-----------------------------------------------------------------------------
(* ... the requests on their way, and the trades they led to.              *)

\* The run of this cycle has asked for its execution.
PastExecution(c) ==
    \A l \in Lanes : lane[l].cycle = c =>
        \/ lane[l].node \in {"log", "idle"}
        \/ lane[l].node = "execute" /\ lane[l].pc # "ask"

MessageOk(a, q) ==
    /\ Asks[q.kind] = a
    /\ q.cid = <<IF q.kind \in {"check", "log"} THEN q.kind ELSE "cycle", q.cycle>>
    /\ q.cycle \in 1..cycles /\ q.basis <= MaxRetries
    /\ \A l \in Lanes : lane[l].cycle = q.cycle /\ lane[l].node # "idle" =>
          q.basis <= lane[l].attempt
    /\ q.kind = "risk" =>
          \A l \in Lanes : lane[l].cycle = q.cycle =>
              \/ lane[l].node \in {"execute", "log", "idle"}
              \/ lane[l].node = "risk" /\ lane[l].pc # "ask" /\ lane[l].setup = q.setup
    /\ q.kind = "execute" =>
          /\ q.setup \in approvals /\ q.setup.cycle = q.cycle
          /\ PastExecution(q.cycle)
          /\ \A i \in 1..Len(trades) : trades[i].cycle # q.cycle
    /\ q.kind = "log" => q.trade \in 1..Len(trades)

MessagesOk ==
    /\ \A a \in Agents : \A i \in 1..Len(mailbox[a]) : MessageOk(a, mailbox[a][i])
    /\ \A i, j \in 1..Len(mailbox["execution"]) :
          /\ mailbox["execution"][i].kind = "execute"
          /\ mailbox["execution"][j].kind = "execute"
          /\ mailbox["execution"][i].cycle = mailbox["execution"][j].cycle
          => i = j

TradesOk ==
    /\ \A i \in 1..Len(trades) :
          /\ trades[i] \in approvals /\ trades[i].cycle \in 1..cycles
          /\ PastExecution(trades[i].cycle)
    /\ OneExecutionPerCycle

AnyPlan == PipelineTypes /\ (\A l \in Lanes : LaneOk(l)) /\ LanesApart /\ MessagesOk /\ TradesOk

-----------------------------------------------------------------------------
(* ... while no reply comes after its wait and the bus is up.              *)

\* A request is on its way only while its sender waits for the answer, once.
Awaits(s, q) ==
    /\ s.node # "idle" /\ s.pc # "ask" /\ s.reply = <<>>
    /\ q = Request(s)

RequestsAwaited ==
    \A a \in Agents : \A i \in 1..Len(mailbox[a]) :
        /\ \E l \in Lanes : Awaits(lane[l], mailbox[a][i])
        /\ \A j \in 1..Len(mailbox[a]) : mailbox[a][i] = mailbox[a][j] => i = j

\* What a run holds is of its last attempt.
RunFresh(s) ==
    /\ s.node \in {"analysis", "regime", "strategy"} => s.candles = s.attempt
    /\ s.node \in {"regime", "strategy"} => s.analysis = s.attempt
    /\ s.node = "risk" => s.setup.basis = s.attempt
    /\ s.reply # <<>> /\ s.reply[1].ok =>
          /\ s.node = "data" => s.reply[1].basis = s.attempt
          /\ s.node = "analysis" => s.reply[1].basis = s.candles
          /\ s.node = "strategy" => s.reply[1].setup.basis = s.analysis

Punctual == PipelineSpared({"slow", "bus_down"})
PunctualInv == RequestsAwaited /\ \A l \in Lanes : RunFresh(lane[l])

-----------------------------------------------------------------------------
(* ... while no message is lost either.                                    *)

\* A sender that has no answer yet will have one.
Answerable(s) ==
    s.node # "idle" /\ s.pc # "ask" /\ s.reply = <<>> =>
        \E i \in 1..Len(mailbox[Asks[s.node]]) : mailbox[Asks[s.node]][i] = Request(s)

\* An open position is one that a later cycle's check will see.
PositionSeen(s) ==
    /\ active > 0 /\ s.node # "idle" =>
          \/ s.node \in {"check", "log"}
          \/ s.node = "execute" /\ s.reply # <<>>
    /\ s.node = "check" /\ s.reply # <<>> =>
          s.reply[1].ok /\ (~s.reply[1].flag => active = 0)

Reliable == PipelineSpared({"slow", "fast_reply", "agent_error", "bus_drop", "bus_down"})
ReliableInv ==
    /\ \A l \in Lanes : Answerable(lane[l])
    /\ ~Daemon => PositionSeen(lane[LiveLane])
    /\ ~refused

\* run_cycle is of one lane; run_analysis_cycle executes nothing.
Programs ==
    /\ Daemon => \A l \in Lanes : lane[l].node \in {"idle", "data", "analysis", "regime", "strategy"}
    /\ ~Daemon => \A l \in Lanes \ {LiveLane} : lane[l].node = "idle"

PipelineInv ==
    /\ AnyPlan /\ Programs
    /\ Punctual => PunctualInv
    /\ Reliable => ReliableInv

-----------------------------------------------------------------------------
(* What a record of a run and a request are.                               *)

LEMMA MaxRetriesIsPositive == MaxRetries \in Nat /\ MaxRetries >= 1 /\ LiveLane \in Lanes
BY PipelineAssumption

\* Request: a node's request carries the kind, the id and the values of its run.
LEMMA RequestIs ==
    ASSUME NEW s \in States, s.node # "idle"
    PROVE  /\ Request(s) \in Requests
           /\ Request(s).kind = s.node /\ Request(s).cycle = s.cycle
           /\ Request(s).cid = Correlation(s)
           /\ Request(s).setup = s.setup /\ Request(s).trade = s.trade
           /\ s.node = "data" => Request(s).basis = s.attempt
           /\ s.node = "analysis" => Request(s).basis = s.candles
           /\ s.node = "strategy" => Request(s).basis = s.analysis
           /\ s.node \notin {"data", "analysis", "strategy"} => Request(s).basis = 0
<1>1. Correlation(s) \in Correlations
  BY DEF States, Kinds, Correlations, Correlation
<1>2. CASE s.node = "data"
  BY <1>1, <1>2 DEF Request, Requests, States, Kinds, NoData
<1>3. CASE s.node = "analysis"
  BY <1>1, <1>3 DEF Request, Requests, States, Kinds, NoData
<1>4. CASE s.node = "strategy"
  BY <1>1, <1>4 DEF Request, Requests, States, Kinds, NoData
<1>5. CASE s.node \notin {"data", "analysis", "strategy"}
  BY <1>1, <1>5 DEF Request, Requests, States, Kinds, NoData
<1> QED BY <1>2, <1>3, <1>4, <1>5

\* Request does not depend on how far the exchange has come.
LEMMA RequestOfExchange ==
    ASSUME NEW s, NEW t, t.node = s.node, t.cycle = s.cycle, t.attempt = s.attempt,
           t.candles = s.candles, t.analysis = s.analysis, t.setup = s.setup,
           t.trade = s.trade
    PROVE  Request(t) = Request(s) /\ Correlation(t) = Correlation(s)
BY DEF Request, Correlation

\* Goto, End, HandleError: what they keep of the run.
LEMMA GotoIs ==
    ASSUME NEW s \in States, NEW n \in Kinds \cup {"idle"}
    PROVE  /\ Goto(s, n) \in States
           /\ Goto(s, n).node = n /\ Goto(s, n).pc = "ask" /\ Goto(s, n).reply = <<>>
           /\ Goto(s, n).cycle = s.cycle /\ Goto(s, n).attempt = s.attempt
           /\ Goto(s, n).candles = s.candles /\ Goto(s, n).analysis = s.analysis
           /\ Goto(s, n).setup = s.setup /\ Goto(s, n).trade = s.trade
<1>1. <<>> \in Seq(Replies)
  OBVIOUS
<1>2. PICK empty : empty = <<>>
  OBVIOUS
<1>3. Goto(s, n) = [s EXCEPT !.node = n, !.pc = "ask", !.reply = empty]
  BY <1>2 DEF Goto
<1>4. empty \in Seq(Replies)
  BY <1>1, <1>2
<1> QED BY <1>2, <1>3, <1>4 DEF States

LEMMA InitialStateTyped == InitialState \in States
<1>1. NoSetupYet \in SetupRecords
  BY DEF NoSetupYet, SetupRecords, NoData
<1>2. <<>> \in Seq(Replies)
  OBVIOUS
<1>3. PICK empty : empty = <<>>
  OBVIOUS
<1>4. empty \in Seq(Replies)
  BY <1>2, <1>3
<1>5. InitialState =
          [node |-> "idle", pc |-> "ask", cycle |-> 0, attempt |-> 1,
           candles |-> NoData, analysis |-> NoData, volatile |-> FALSE,
           setup |-> NoSetupYet, approved |-> FALSE, trade |-> 0, reply |-> empty]
  BY <1>3, Zenon DEF InitialState
<1>6. NoData \in Nat
  BY DEF NoData
<1> QED BY <1>1, <1>4, <1>5, <1>6 DEF States, Kinds

LEMMA InitialStateIs ==
    ASSUME NEW c \in Nat
    PROVE  [InitialState EXCEPT !.cycle = c] \in States
BY InitialStateTyped DEF States

LEMMA EndIs ==
    ASSUME NEW s \in States
    PROVE  /\ End(s) \in States
           /\ End(s).node = "idle" /\ End(s).pc = "ask" /\ End(s).reply = <<>>
           /\ End(s).cycle = s.cycle /\ End(s).attempt = 1
           /\ End(s).candles = 0 /\ End(s).analysis = 0
           /\ End(s).setup = NoSetupYet /\ End(s).trade = 0
<1>1. s.cycle \in Nat
  BY DEF States
<1>2. [InitialState EXCEPT !.cycle = s.cycle] \in States
  BY <1>1, InitialStateIs
<1> QED BY <1>2, GotoIs DEF End, InitialState, NoData

-----------------------------------------------------------------------------
(* The orchestrator's moves.                                               *)

\* What every step of the workflow does to its run's record.
Onward(s, t) ==
    /\ t \in States /\ t.cycle = s.cycle /\ t.pc = "ask" /\ t.reply = <<>>
    /\ RunOk(t)
    /\ t.node # "idle" => t.attempt >= s.attempt
    /\ s.node = "risk" => t.node \in {"execute", "log", "idle"}
    /\ s.node \in {"execute", "log"} => t.node \in {"log", "idle"}
    /\ Daemon => t.node \in {"idle", "data", "analysis", "regime", "strategy"}

\* End: a run that ends holds nothing.
LEMMA EndGoesOn ==
    ASSUME PipelineTypes, NEW s \in States, RunOk(s)
    PROVE  Onward(s, End(s))
<1>1. 0 <= Len(trades)
  BY DEF PipelineTypes
<1> QED BY <1>1, EndIs, MaxRetriesIsPositive DEF Onward, RunOk, States

\* HandleError: a retry keeps the run's cycle and raises its attempt.
LEMMA ErrorGoesOn ==
    ASSUME PipelineTypes, NEW s \in States, RunOk(s),
           s.node \in {"data", "analysis", "strategy"}
    PROVE  /\ Onward(s, HandleError(s))
           /\ HandleError(s).node \in {"data", "idle"}
<1>1. CASE ~Daemon /\ s.attempt < MaxRetries
  <2> DEFINE u == [s EXCEPT !.attempt = s.attempt + 1]
  <2>1. u \in States
    BY DEF States
  <2>2. HandleError(s) = Goto(u, "data")
    BY <1>1 DEF HandleError
  <2>3. "data" \in Kinds \cup {"idle"}
    BY DEF Kinds
  <2>4. /\ u.cycle = s.cycle /\ u.attempt = s.attempt + 1 /\ u.candles = s.candles
        /\ u.analysis = s.analysis /\ u.setup = s.setup /\ u.trade = s.trade
    BY DEF States
  <2> HIDE DEF u
  <2> QED BY <1>1, <2>1, <2>2, <2>3, <2>4, GotoIs, MaxRetriesIsPositive
             DEF Onward, RunOk, States
<1>2. CASE ~(~Daemon /\ s.attempt < MaxRetries)
  BY <1>2, EndGoesOn, EndIs DEF HandleError
<1> QED BY <1>1, <1>2

\* What the workflow reads of a reply, and of no reply at all.
IsAnswer(r) ==
    /\ r.ok \in BOOLEAN /\ r.flag \in BOOLEAN /\ r.basis \in Nat
    /\ r.setup \in SetupRecords /\ r.trade \in Nat

\* Advance: the run that takes a reply to its request stays a sound run.
LEMMA AdvanceGoesOn ==
    ASSUME PipelineTypes, NEW s \in States, RunOk(s), s.node # "idle",
           Daemon => s.node \in {"idle", "data", "analysis", "regime", "strategy"},
           NEW r, IsAnswer(r), ReplyOk(s, r)
    PROVE  Onward(s, Advance(s, r))
<1> USE MaxRetriesIsPositive
<1>0. /\ \A n \in {"check", "data", "analysis", "regime", "strategy", "risk", "execute", "log"} :
            n \in Kinds \cup {"idle"}
      /\ 0 <= Len(trades)
  BY DEF Kinds, PipelineTypes
<1>1. CASE s.node = "check"
  <2>1. Advance(s, r) = ToCheck(s, r)
    BY <1>1 DEF Advance
  <2>2. CASE r.ok /\ r.flag
    BY <2>1, <2>2, EndGoesOn DEF ToCheck
  <2>3. CASE ~(r.ok /\ r.flag)
    <3> DEFINE u == [InitialState EXCEPT !.cycle = s.cycle]
    <3>1. u \in States
      BY InitialStateIs DEF States
    <3>2. /\ u.cycle = s.cycle /\ u.attempt = 1 /\ u.candles = 0 /\ u.analysis = 0
          /\ u.setup = NoSetupYet /\ u.trade = 0
      BY DEF InitialState, NoData
    <3>3. Advance(s, r) = Goto(u, "data")
      BY <2>1, <2>3 DEF ToCheck
    <3> HIDE DEF u
    <3> QED BY <1>0, <1>1, <3>1, <3>2, <3>3, GotoIs DEF Onward, RunOk, States
  <2> QED BY <2>2, <2>3
<1>2. CASE s.node = "data"
  <2>1. Advance(s, r) = ToData(s, r)
    BY <1>2 DEF Advance
  <2>2. CASE r.ok
    <3> DEFINE u == [s EXCEPT !.candles = r.basis]
    <3>1. u \in States
      BY DEF States, IsAnswer
    <3>2. /\ u.cycle = s.cycle /\ u.attempt = s.attempt /\ u.candles = r.basis
          /\ u.analysis = s.analysis /\ u.setup = s.setup /\ u.trade = s.trade
      BY DEF States
    <3>3. Advance(s, r) = Goto(u, "analysis")
      BY <2>1, <2>2 DEF ToData
    <3> HIDE DEF u
    <3> QED BY <1>0, <1>2, <3>1, <3>2, <3>3, GotoIs DEF Onward, RunOk, States, ReplyOk
  <2>3. CASE ~r.ok
    BY <1>2, <2>1, <2>3, ErrorGoesOn DEF ToData
  <2> QED BY <2>2, <2>3
<1>3. CASE s.node = "analysis"
  <2>1. Advance(s, r) = ToAnalysis(s, r)
    BY <1>3 DEF Advance
  <2>2. CASE r.ok
    <3> DEFINE u == [s EXCEPT !.analysis = r.basis, !.volatile = r.flag]
    <3>1. u \in States
      BY DEF States, IsAnswer
    <3>2. /\ u.cycle = s.cycle /\ u.attempt = s.attempt /\ u.candles = s.candles
          /\ u.analysis = r.basis /\ u.setup = s.setup /\ u.trade = s.trade
      BY DEF States
    <3>3. Advance(s, r) = Goto(u, "regime")
      BY <2>1, <2>2 DEF ToAnalysis
    <3> HIDE DEF u
    <3> QED BY <1>0, <1>3, <3>1, <3>2, <3>3, GotoIs DEF Onward, RunOk, States, ReplyOk
  <2>3. CASE ~r.ok
    BY <1>3, <2>1, <2>3, ErrorGoesOn DEF ToAnalysis
  <2> QED BY <2>2, <2>3
<1>4. CASE s.node = "regime"
  <2>1. Advance(s, r) = End(s) \/ Advance(s, r) = Goto(s, "strategy")
    BY <1>4 DEF Advance, ToRegime
  <2>2. CASE Advance(s, r) = Goto(s, "strategy")
    BY <1>0, <1>4, <2>2, GotoIs DEF Onward, RunOk, States
  <2> QED BY <2>1, <2>2, EndGoesOn
<1>5. CASE s.node = "strategy"
  <2>1. Advance(s, r) = ToStrategy(s, r)
    BY <1>5 DEF Advance
  <2>2. CASE ~r.ok
    BY <2>1, <2>2, EndGoesOn DEF ToStrategy
  <2>3. CASE r.ok /\ Daemon
    <3>1. Advance(s, r) = [End(s) EXCEPT !.setup = r.setup]
      BY <2>1, <2>3 DEF ToStrategy
    <3>2. [End(s) EXCEPT !.setup = r.setup] \in States
      BY EndIs DEF States, IsAnswer
    <3>3. /\ Advance(s, r) \in States /\ Advance(s, r).setup = r.setup
          /\ Advance(s, r).node = "idle" /\ Advance(s, r).pc = "ask"
          /\ Advance(s, r).reply = <<>> /\ Advance(s, r).cycle = s.cycle
          /\ Advance(s, r).attempt = 1 /\ Advance(s, r).candles = 0
          /\ Advance(s, r).analysis = 0 /\ Advance(s, r).trade = 0
      BY <3>1, <3>2, EndIs DEF States
    <3> QED BY <1>0, <1>5, <2>3, <3>3 DEF Onward, RunOk, ReplyOk
  <2>4. CASE r.ok /\ ~Daemon
    <3> DEFINE u == [s EXCEPT !.setup = r.setup]
    <3>1. u \in States
      BY DEF States, IsAnswer
    <3>2. /\ u.cycle = s.cycle /\ u.attempt = s.attempt /\ u.candles = s.candles
          /\ u.analysis = s.analysis /\ u.setup = r.setup /\ u.trade = s.trade
      BY DEF States
    <3>3. Advance(s, r) = Goto(u, "risk")
      BY <2>1, <2>4 DEF ToStrategy
    <3> HIDE DEF u
    <3> QED BY <1>0, <1>5, <2>4, <3>1, <3>2, <3>3, GotoIs DEF Onward, RunOk, States, ReplyOk
  <2> QED BY <2>2, <2>3, <2>4
<1>6. CASE s.node = "risk"
  <2>1. Advance(s, r) = ToRisk(s, r) /\ ~Daemon
    BY <1>6 DEF Advance
  <2>2. CASE r.ok /\ r.flag
    <3> DEFINE u == [s EXCEPT !.approved = TRUE]
    <3>1. u \in States
      BY DEF States
    <3>2. /\ u.cycle = s.cycle /\ u.attempt = s.attempt /\ u.candles = s.candles
          /\ u.analysis = s.analysis /\ u.setup = s.setup /\ u.trade = s.trade
      BY DEF States
    <3>3. Advance(s, r) = Goto(u, "execute")
      BY <2>1, <2>2 DEF ToRisk
    <3> HIDE DEF u
    <3> QED BY <1>0, <1>6, <2>1, <2>2, <3>1, <3>2, <3>3, GotoIs
               DEF Onward, RunOk, States, ReplyOk
  <2>3. CASE ~(r.ok /\ r.flag)
    <3>1. Advance(s, r) = Goto(s, "log")
      BY <2>1, <2>3 DEF ToRisk
    <3> QED BY <1>0, <1>6, <2>1, <3>1, GotoIs DEF Onward, RunOk, States
  <2> QED BY <2>2, <2>3
<1>7. CASE s.node = "execute"
  <2> DEFINE u == IF r.ok THEN [s EXCEPT !.trade = r.trade] ELSE s
  <2>1. Advance(s, r) = Goto(u, "log") /\ ~Daemon
    BY <1>7 DEF Advance, ToExecute
  <2>2. u \in States
    BY DEF States, IsAnswer
  <2>3. /\ u.cycle = s.cycle /\ u.attempt = s.attempt /\ u.candles = s.candles
        /\ u.analysis = s.analysis /\ u.setup = s.setup
        /\ u.trade = IF r.ok THEN r.trade ELSE s.trade
    BY DEF States
  <2> HIDE DEF u
  <2>4. u.trade <= Len(trades)
    BY <1>7, <2>3 DEF ReplyOk, RunOk
  <2> QED BY <1>0, <1>7, <2>1, <2>2, <2>3, <2>4, GotoIs DEF Onward, RunOk, States
<1>8. CASE s.node = "log"
  BY <1>8, EndGoesOn DEF Advance
<1> QED BY <1>1, <1>2, <1>3, <1>4, <1>5, <1>6, <1>7, <1>8 DEF States, Kinds

-----------------------------------------------------------------------------
(* A step of the workflow, whatever its outcome, keeps the invariant.      *)

LEMMA RunsNowAndLater ==
    ASSUME PipelineTypes, pplan' = pplan, cycles' = cycles,
           approvals' = approvals, trades' = trades
    PROVE  /\ \A s \in States : RunOk(s) <=> RunOk(s)'
           /\ Daemon' <=> Daemon
BY DEF RunOk, Daemon

\* AnyPlan, Programs: one run goes on and nothing else changes.
LEMMA StepKeepsAnyPlan ==
    ASSUME AnyPlan, Programs, NEW l \in Lanes, lane[l].node # "idle",
           NEW t, Onward(lane[l], t), lane' = [lane EXCEPT ![l] = t],
           UNCHANGED <<pplan, runs, cycles, mailbox, active, approvals, trades,
                       refused, logged>>
    PROVE  AnyPlan' /\ Programs'
<1> USE MaxRetriesIsPositive
<1>1. PipelineTypes /\ lane \in [Lanes -> States] /\ t \in States
  BY DEF AnyPlan, PipelineTypes, Onward
<1>2. lane'[l] = t /\ \A k \in Lanes : k # l => lane'[k] = lane[k]
  BY <1>1
<1>3. PipelineTypes'
  BY <1>1 DEF PipelineTypes
<1>4. ASSUME NEW k \in Lanes PROVE LaneOk(k)'
  <2>1. CASE k = l
    <3>1. RunOk(t)' /\ t.reply = <<>> /\ t.pc = "ask"
      BY <1>1, RunsNowAndLater DEF Onward
    <3>2. Len(t.reply) = 0
      BY <3>1
    <3>3. lane'[k] = t
      BY <1>2, <2>1
    <3> QED BY <3>1, <3>2, <3>3 DEF LaneOk, RunOk
  <2>2. CASE k # l
    <3>1. lane'[k] = lane[k] /\ LaneOk(k)
      BY <1>2, <2>2 DEF AnyPlan
    <3> QED BY <3>1 DEF LaneOk, RunOk, ReplyOk
  <2> QED BY <2>1, <2>2
<1>5. LanesApart'
  BY <1>2 DEF AnyPlan, LanesApart, Onward
<1>6. ASSUME NEW c, PastExecution(c) PROVE PastExecution(c)'
  <2>1. lane[l].cycle = c => t.node \in {"log", "idle"}
    BY <1>6 DEF PastExecution, Onward
  <2> QED BY <1>2, <1>6, <2>1 DEF PastExecution, Onward
<1>7. MessagesOk'
  <2>1. ASSUME NEW a \in Agents, NEW q \in Requests, MessageOk(a, q)
        PROVE  MessageOk(a, q)'
    <3>1. \A k \in Lanes : lane'[k].cycle = q.cycle /\ lane'[k].node # "idle" =>
              q.basis <= lane'[k].attempt
      <4> SUFFICES ASSUME NEW k \in Lanes, lane'[k].cycle = q.cycle, lane'[k].node # "idle"
                   PROVE  q.basis <= lane'[k].attempt
        OBVIOUS
      <4>1. CASE k = l
        <5>1. /\ t.cycle = q.cycle /\ lane[l].cycle = q.cycle /\ t.attempt >= lane[l].attempt
              /\ lane'[k].attempt = t.attempt
          BY <1>2, <4>1 DEF Onward
        <5>2. q.basis <= lane[l].attempt /\ q.basis <= MaxRetries
          BY <2>1, <5>1 DEF MessageOk
        <5>3. lane[l].attempt \in Nat /\ t.attempt \in Nat /\ q.basis \in Nat
          BY <1>1 DEF States, Requests
        <5> QED BY <5>1, <5>2, <5>3
      <4>2. CASE k # l
        BY <1>2, <2>1, <4>2 DEF MessageOk
      <4> QED BY <4>1, <4>2
    <3>2. q.kind = "risk" =>
              \A k \in Lanes : lane'[k].cycle = q.cycle =>
                  \/ lane'[k].node \in {"execute", "log", "idle"}
                  \/ /\ lane'[k].node = "risk" /\ lane'[k].pc # "ask"
                     /\ lane'[k].setup = q.setup
      BY <1>2, <2>1 DEF MessageOk, Onward
    <3>3. PastExecution(q.cycle) => PastExecution(q.cycle)'
      BY <1>6
    <3> QED BY <2>1, <3>1, <3>2, <3>3 DEF MessageOk
  <2>2. \A a \in Agents : \A i \in 1..Len(mailbox[a]) : mailbox[a][i] \in Requests
    BY DEF AnyPlan, PipelineTypes
  <2> QED BY <2>1, <2>2 DEF AnyPlan, MessagesOk
<1>8. TradesOk'
  BY <1>6 DEF AnyPlan, TradesOk, OneExecutionPerCycle
<1>9. Programs'
  BY <1>2, RunsNowAndLater, <1>1 DEF Programs, Onward, Daemon
<1> QED BY <1>3, <1>4, <1>5, <1>7, <1>8, <1>9 DEF AnyPlan

\* RequestsAwaited: the request that is awaited no longer is not on its way.
LEMMA StepKeepsPunctual ==
    ASSUME AnyPlan, PunctualInv, NEW l \in Lanes,
           NEW t, t.reply = <<>>, RunFresh(t), lane' = [lane EXCEPT ![l] = t],
           UNCHANGED mailbox,
           \A a \in Agents : \A i \in 1..Len(mailbox[a]) : ~Awaits(lane[l], mailbox[a][i])
    PROVE  PunctualInv'
<1>1. lane'[l] = t /\ \A k \in Lanes : k # l => lane'[k] = lane[k]
  BY DEF AnyPlan, PipelineTypes
<1>2. ASSUME NEW a \in Agents, NEW i \in 1..Len(mailbox[a])
      PROVE  \E k \in Lanes : Awaits(lane'[k], mailbox[a][i])
  <2>1. PICK k \in Lanes : Awaits(lane[k], mailbox[a][i])
    BY DEF PunctualInv, RequestsAwaited
  <2>2. k # l
    BY <2>1
  <2> QED BY <1>1, <2>1, <2>2
<1>3. RequestsAwaited'
  BY <1>2 DEF PunctualInv, RequestsAwaited, Awaits
<1>4. \A k \in Lanes : RunFresh(lane'[k])
  BY <1>1 DEF PunctualInv
<1> QED BY <1>3, <1>4 DEF PunctualInv, RunFresh

\* Answerable, PositionSeen: the step that follows has asked nothing yet.
LEMMA StepKeepsReliable ==
    ASSUME AnyPlan, ReliableInv, NEW l \in Lanes,
           NEW t, t.pc = "ask", t.reply = <<>>, lane' = [lane EXCEPT ![l] = t],
           l = LiveLane /\ ~Daemon => PositionSeen(t),
           UNCHANGED <<pplan, mailbox, active, refused>>
    PROVE  ReliableInv'
<1>1. lane'[l] = t /\ \A k \in Lanes : k # l => lane'[k] = lane[k]
  BY DEF AnyPlan, PipelineTypes
<1>2. \A k \in Lanes : Answerable(lane'[k])
  BY <1>1 DEF ReliableInv, Answerable
<1>3. ~Daemon => PositionSeen(lane'[LiveLane])
  BY <1>1, MaxRetriesIsPositive DEF ReliableInv
<1> QED BY <1>2, <1>3 DEF ReliableInv, Answerable, PositionSeen, Daemon

\* RunFresh: what a run takes from a reply is of its last attempt.
LEMMA AdvanceKeepsFresh ==
    ASSUME PipelineTypes, NEW s \in States, s.node # "idle", RunOk(s), RunFresh(s),
           NEW r, IsAnswer(r), Onward(s, Advance(s, r)),
           r.ok => s.reply # <<>> /\ r = s.reply[1]
    PROVE  RunFresh(Advance(s, r))
<1>0. PICK t : t = Advance(s, r)
  OBVIOUS
<1> SUFFICES RunFresh(t)
  BY <1>0
<1>1. t.reply = <<>> /\ t \in States
  BY <1>0 DEF Onward
<1>2. \A n \in {"check", "data", "analysis", "regime", "strategy", "risk", "execute", "log"} :
          n \in Kinds \cup {"idle"}
  BY DEF Kinds
<1>3. t.node \in {"check", "data", "idle", "log", "execute"} => RunFresh(t)
  BY <1>1 DEF RunFresh
<1>4. t = End(s) => RunFresh(t)
  BY <1>3, EndIs
<1>5. s.node \in {"data", "analysis", "strategy"} /\ t = HandleError(s) => RunFresh(t)
  BY <1>3, ErrorGoesOn
<1>6. CASE s.node = "check"
  <2>1. [InitialState EXCEPT !.cycle = s.cycle] \in States
    BY InitialStateIs DEF States
  <2>2. t = End(s) \/ t = Goto([InitialState EXCEPT !.cycle = s.cycle], "data")
    BY <1>0, <1>6 DEF Advance, ToCheck
  <2>3. Goto([InitialState EXCEPT !.cycle = s.cycle], "data").node = "data"
    BY <1>2, <2>1, GotoIs
  <2> QED BY <1>3, <1>4, <2>2, <2>3
<1>7. CASE s.node = "data"
  <2>1. CASE r.ok
    <3> DEFINE u == [s EXCEPT !.candles = r.basis]
    <3>1. u \in States /\ u.candles = r.basis /\ u.attempt = s.attempt
      BY DEF States, IsAnswer
    <3>2. t = Goto(u, "analysis")
      BY <1>0, <1>7, <2>1 DEF Advance, ToData
    <3>3. r.basis = s.attempt
      BY <1>7, <2>1 DEF RunFresh
    <3> HIDE DEF u
    <3>4. "analysis" \in Kinds \cup {"idle"}
      BY <1>2
    <3>5. /\ t.node = "analysis" /\ t.candles = u.candles /\ t.analysis = u.analysis
          /\ t.setup = u.setup /\ t.attempt = u.attempt
      BY <3>1, <3>2, <3>4, GotoIs
    <3> QED BY <1>1, <3>1, <3>3, <3>5 DEF RunFresh
  <2>2. CASE ~r.ok
    BY <1>0, <1>5, <1>7, <2>2 DEF Advance, ToData
  <2> QED BY <2>1, <2>2
<1>8. CASE s.node = "analysis"
  <2>1. CASE r.ok
    <3> DEFINE u == [s EXCEPT !.analysis = r.basis, !.volatile = r.flag]
    <3>1. u \in States /\ u.candles = s.candles /\ u.analysis = r.basis /\ u.attempt = s.attempt
      BY DEF States, IsAnswer
    <3>2. t = Goto(u, "regime")
      BY <1>0, <1>8, <2>1 DEF Advance, ToAnalysis
    <3>3. r.basis = s.candles /\ s.candles = s.attempt
      BY <1>8, <2>1 DEF RunFresh
    <3> HIDE DEF u
    <3>4. "regime" \in Kinds \cup {"idle"}
      BY <1>2
    <3>5. /\ t.node = "regime" /\ t.candles = u.candles /\ t.analysis = u.analysis
          /\ t.setup = u.setup /\ t.attempt = u.attempt
      BY <3>1, <3>2, <3>4, GotoIs
    <3> QED BY <1>1, <3>1, <3>3, <3>5 DEF RunFresh
  <2>2. CASE ~r.ok
    BY <1>0, <1>5, <1>8, <2>2 DEF Advance, ToAnalysis
  <2> QED BY <2>1, <2>2
<1>9. CASE s.node = "regime"
  <2>1. t = End(s) \/ t = Goto(s, "strategy")
    BY <1>0, <1>9 DEF Advance, ToRegime
  <2>2. CASE t = Goto(s, "strategy")
    <3>1. s.candles = s.attempt /\ s.analysis = s.attempt
      BY <1>9 DEF RunFresh
    <3>2. t.node = "strategy" /\ t.candles = t.attempt /\ t.analysis = t.attempt
      BY <1>2, <2>2, <3>1, GotoIs
    <3> QED BY <1>1, <3>2 DEF RunFresh
  <2> QED BY <1>4, <2>1, <2>2
<1>10. CASE s.node = "strategy"
  <2>1. CASE ~r.ok
    BY <1>0, <1>4, <1>10, <2>1 DEF Advance, ToStrategy
  <2>2. CASE r.ok /\ Daemon
    <3>1. t = [End(s) EXCEPT !.setup = r.setup]
      BY <1>0, <1>10, <2>2 DEF Advance, ToStrategy
    <3>2. t.node = "idle"
      BY <3>1, EndIs DEF States
    <3> QED BY <1>3, <3>2
  <2>3. CASE r.ok /\ ~Daemon
    <3> DEFINE u == [s EXCEPT !.setup = r.setup]
    <3>1. u \in States /\ u.setup = r.setup /\ u.attempt = s.attempt
      BY DEF States, IsAnswer
    <3>2. t = Goto(u, "risk")
      BY <1>0, <1>10, <2>3 DEF Advance, ToStrategy
    <3>3. r.setup.basis = s.analysis /\ s.analysis = s.attempt
      BY <1>10, <2>3 DEF RunFresh
    <3> HIDE DEF u
    <3>4. "risk" \in Kinds \cup {"idle"}
      BY <1>2
    <3>5. /\ t.node = "risk" /\ t.candles = u.candles /\ t.analysis = u.analysis
          /\ t.setup = u.setup /\ t.attempt = u.attempt
      BY <3>1, <3>2, <3>4, GotoIs
    <3> QED BY <1>1, <3>1, <3>3, <3>5 DEF RunFresh
  <2> QED BY <2>1, <2>2, <2>3
<1>11. CASE s.node \in {"risk", "execute", "log"}
  <2>1. t.node \in {"execute", "log", "idle"}
    BY <1>0, <1>11 DEF Onward
  <2> QED BY <1>3, <2>1
<1> QED BY <1>6, <1>7, <1>8, <1>9, <1>10, <1>11 DEF States, Kinds

\* PositionSeen: only an answered status check leads to an execution.
LEMMA AdvanceSeesPosition ==
    ASSUME PipelineTypes, NEW s \in States, s.node # "idle", PositionSeen(s),
           NEW r, IsAnswer(r), Onward(s, Advance(s, r)), s.reply # <<>>, r = s.reply[1]
    PROVE  PositionSeen(Advance(s, r))
<1>0. PICK t : t = Advance(s, r)
  OBVIOUS
<1> SUFFICES PositionSeen(t)
  BY <1>0
<1>1. t.reply = <<>>
  BY <1>0 DEF Onward
<1>2. t.node \in {"log", "idle"} \/ ~(active > 0)
  <2>1. CASE active > 0 /\ s.node = "check"
    <3>1. r.ok /\ r.flag
      BY <2>1 DEF PositionSeen
    <3> QED BY <1>0, <2>1, <3>1, EndIs DEF Advance, ToCheck
  <2>2. CASE active > 0 /\ s.node # "check"
    <3>1. s.node \in {"execute", "log"}
      BY <2>2 DEF PositionSeen
    <3> QED BY <1>0, <3>1 DEF Onward
  <2> QED BY <2>1, <2>2
<1> QED BY <1>1, <1>2 DEF PositionSeen

-----------------------------------------------------------------------------
(* The orchestrator's actions.                                             *)

LEMMA SilenceIsNoReply ==
    ASSUME NEW s \in States, s.attempt >= 0
    PROVE  IsAnswer(Silence) /\ ReplyOk(s, Silence) /\ ~Silence.ok
BY DEF Silence, IsAnswer, ReplyOk, NoSetupYet, NoData, SetupRecords, States

LEMMA LaneFacts ==
    ASSUME AnyPlan, NEW l \in Lanes
    PROVE  /\ PipelineTypes /\ lane[l] \in States /\ RunOk(lane[l]) /\ lane[l].attempt >= 0
           /\ lane[l].reply # <<>> =>
                 /\ IsAnswer(lane[l].reply[1]) /\ ReplyOk(lane[l], lane[l].reply[1])
                 /\ lane[l].node # "idle" /\ lane[l].pc = "wait"
<1>1. PipelineTypes /\ lane[l] \in States
  BY DEF AnyPlan, PipelineTypes
<1>2. LaneOk(l)
  BY DEF AnyPlan
<1>3. lane[l].attempt >= 0 /\ lane[l].reply \in Seq(Replies)
  BY <1>1 DEF States
<1>4. lane[l].reply # <<>> => lane[l].reply[1] \in Replies
  BY <1>3
<1>5. lane[l].reply # <<>> => IsAnswer(lane[l].reply[1])
  BY <1>4 DEF Replies, IsAnswer
<1> QED BY <1>1, <1>2, <1>3, <1>5 DEF LaneOk

\* A request of a waiting run is on its way only under its kind and its id.
LEMMA AwaitedIsOfLane ==
    ASSUME NEW s \in States, NEW q, Awaits(s, q)
    PROVE  /\ q.kind = s.node /\ q.cid = Correlation(s) /\ q.cycle = s.cycle
           /\ s.node # "idle" /\ s.pc # "ask" /\ s.reply = <<>>
BY RequestIs DEF Awaits

LEMMA PlansAndFaults ==
    /\ Punctual <=> "slow" \notin pplan /\ "bus_down" \notin pplan
    /\ Reliable <=> /\ Punctual /\ "fast_reply" \notin pplan
                    /\ "agent_error" \notin pplan /\ "bus_drop" \notin pplan
BY DEF Punctual, Reliable, PipelineSpared

\* What a step that ends a wait or starts no exchange gives.
LEMMA StepKeepsInv ==
    ASSUME PipelineInv, NEW l \in Lanes, lane[l].node # "idle",
           NEW t, Onward(lane[l], t), lane' = [lane EXCEPT ![l] = t],
           UNCHANGED <<pplan, runs, cycles, mailbox, active, approvals, trades,
                       refused, logged>>,
           Punctual =>
               /\ RunFresh(t)
               /\ \A a \in Agents : \A i \in 1..Len(mailbox[a]) :
                      ~Awaits(lane[l], mailbox[a][i]),
           Reliable /\ l = LiveLane /\ ~Daemon => PositionSeen(t)
    PROVE  PipelineInv'
<1>1. AnyPlan' /\ Programs'
  BY StepKeepsAnyPlan DEF PipelineInv
<1>2. t.pc = "ask" /\ t.reply = <<>>
  BY DEF Onward
<1>3. ASSUME Punctual PROVE PunctualInv'
  BY <1>2, <1>3, StepKeepsPunctual DEF PipelineInv
<1>4. ASSUME Reliable PROVE ReliableInv'
  BY <1>2, <1>4, StepKeepsReliable DEF PipelineInv
<1>5. (Punctual' <=> Punctual) /\ (Reliable' <=> Reliable)
  BY DEF Punctual, Reliable, PipelineSpared
<1> QED BY <1>1, <1>3, <1>4, <1>5 DEF PipelineInv

LEMMA HearKeepsInv ==
    ASSUME PipelineInv, NEW l \in Lanes, Hear(l)
    PROVE  PipelineInv'
<1> DEFINE s == lane[l]
           r == s.reply[1]
<1>1. AnyPlan /\ Programs
  BY DEF PipelineInv
<1>2. /\ PipelineTypes /\ s \in States /\ RunOk(s) /\ s.reply # <<>> /\ IsAnswer(r)
      /\ ReplyOk(s, r) /\ s.node # "idle"
      /\ lane' = [lane EXCEPT ![l] = Advance(s, r)]
      /\ UNCHANGED <<pplan, runs, cycles, mailbox, active, approvals, trades,
                     refused, logged>>
  BY <1>1, LaneFacts DEF Hear
<1>3. Daemon => s.node \in {"idle", "data", "analysis", "regime", "strategy"}
  BY <1>1 DEF Programs
<1>4. Onward(s, Advance(s, r))
  BY <1>2, <1>3, AdvanceGoesOn
<1>5. Punctual => /\ RunFresh(Advance(s, r))
                  /\ \A a \in Agents : \A i \in 1..Len(mailbox[a]) : ~Awaits(s, mailbox[a][i])
  BY <1>2, <1>4, AdvanceKeepsFresh DEF PipelineInv, PunctualInv, Awaits
<1>6. Reliable /\ l = LiveLane /\ ~Daemon => PositionSeen(Advance(s, r))
  BY <1>2, <1>4, AdvanceSeesPosition DEF PipelineInv, ReliableInv
<1> QED BY <1>2, <1>4, <1>5, <1>6, StepKeepsInv

LEMMA WaitTimesOutKeepsInv ==
    ASSUME PipelineInv, NEW l \in Lanes, WaitTimesOut(l)
    PROVE  PipelineInv'
<1> DEFINE s == lane[l]
<1>1. AnyPlan /\ Programs
  BY DEF PipelineInv
<1>2. /\ PipelineTypes /\ s \in States /\ RunOk(s) /\ s.attempt >= 0
      /\ lane' = [lane EXCEPT ![l] = Advance(s, Silence)]
      /\ s.reply = <<>> /\ s.pc = "wait" /\ ("slow" \in pplan \/ ~AnswerMayCome(s))
      /\ UNCHANGED <<pplan, runs, cycles, mailbox, active, approvals, trades,
                     refused, logged>>
  BY <1>1, LaneFacts DEF WaitTimesOut
<1>3. Daemon => s.node \in {"idle", "data", "analysis", "regime", "strategy"}
  BY <1>1 DEF Programs
<1>4. s.node # "idle"
  BY <1>1, <1>2 DEF AnyPlan, LaneOk
<1>5. IsAnswer(Silence) /\ ReplyOk(s, Silence) /\ ~Silence.ok
  BY <1>2, SilenceIsNoReply
<1>6. Onward(s, Advance(s, Silence))
  BY <1>2, <1>3, <1>4, <1>5, AdvanceGoesOn
<1>7. ASSUME Punctual PROVE RunFresh(Advance(s, Silence))
  <2>1. RunFresh(s)
    BY <1>7 DEF PipelineInv, PunctualInv
  <2> QED BY <1>2, <1>4, <1>5, <1>6, <2>1, AdvanceKeepsFresh
<1>8. ASSUME Punctual, NEW a \in Agents, NEW i \in 1..Len(mailbox[a]), Awaits(s, mailbox[a][i])
      PROVE  FALSE
  <2>1. mailbox[a][i].kind = s.node /\ mailbox[a][i].cid = Correlation(s)
    BY <1>2, <1>8, AwaitedIsOfLane
  <2>2. Asks[s.node] = a
    BY <1>1, <2>1 DEF AnyPlan, MessagesOk, MessageOk
  <2>3. AnswerMayCome(s)
    BY <2>1, <2>2 DEF AnswerMayCome
  <2> QED BY <1>2, <1>8, <2>3, PlansAndFaults
<1>9. ~Reliable
  <2> SUFFICES ASSUME Reliable PROVE FALSE
    OBVIOUS
  <2>1. PICK i \in 1..Len(mailbox[Asks[s.node]]) : mailbox[Asks[s.node]][i] = Request(s)
    BY <1>2, <1>4 DEF PipelineInv, ReliableInv, Answerable
  <2>2. Request(s).kind = s.node /\ Request(s).cid = Correlation(s)
    BY <1>2, <1>4, RequestIs
  <2>3. AnswerMayCome(s)
    BY <2>1, <2>2 DEF AnswerMayCome
  <2> QED BY <1>2, <2>3, PlansAndFaults
<1> QED BY <1>2, <1>4, <1>6, <1>7, <1>8, <1>9, StepKeepsInv

LEMMA SubscribeRaisesKeepsInv ==
    ASSUME PipelineInv, NEW l \in Lanes, SubscribeRaises(l)
    PROVE  PipelineInv'
<1> DEFINE s == lane[l]
<1>1. AnyPlan /\ Programs
  BY DEF PipelineInv
<1>2. /\ PipelineTypes /\ s \in States /\ RunOk(s) /\ s.attempt >= 0
      /\ lane' = [lane EXCEPT ![l] = Advance(s, Silence)] /\ s.pc = "sent"
      /\ "bus_down" \in pplan
      /\ UNCHANGED <<pplan, runs, cycles, mailbox, active, approvals, trades,
                     refused, logged>>
  BY <1>1, LaneFacts DEF SubscribeRaises, PipelineTypes
<1>3. Daemon => s.node \in {"idle", "data", "analysis", "regime", "strategy"}
  BY <1>1 DEF Programs
<1>4. s.node # "idle"
  BY <1>1, <1>2 DEF AnyPlan, LaneOk
<1>5. Onward(s, Advance(s, Silence))
  BY <1>2, <1>3, <1>4, SilenceIsNoReply, AdvanceGoesOn
<1>6. ~Punctual /\ ~Reliable
  BY <1>2, PlansAndFaults
<1> QED BY <1>2, <1>4, <1>5, <1>6, StepKeepsInv

LEMMA PublishRaisesKeepsInv ==
    ASSUME PipelineInv, NEW l \in Lanes, PublishRaises(l)
    PROVE  PipelineInv'
<1> DEFINE s == lane[l]
<1>1. AnyPlan /\ Programs
  BY DEF PipelineInv
<1>2. /\ PipelineTypes /\ s \in States /\ RunOk(s) /\ s.attempt >= 0 /\ s.node # "idle"
      /\ lane' = [lane EXCEPT ![l] = PublishFails(s)]
      /\ "bus_down" \in pplan
      /\ UNCHANGED <<pplan, runs, cycles, mailbox, active, approvals, trades,
                     refused, logged>>
  BY <1>1, LaneFacts DEF PublishRaises
<1>3. Daemon => s.node \in {"idle", "data", "analysis", "regime", "strategy"}
  BY <1>1 DEF Programs
<1>4. Onward(s, Advance(s, Silence))
  BY <1>2, <1>3, SilenceIsNoReply, AdvanceGoesOn
<1>5. Onward(s, PublishFails(s))
  <2>1. CASE s.node = "check"
    BY <1>2, <2>1, EndGoesOn DEF PublishFails
  <2>2. CASE s.node = "strategy"
    BY <1>2, <2>2, ErrorGoesOn DEF PublishFails
  <2>3. CASE s.node \notin {"check", "strategy"}
    BY <1>4, <2>3 DEF PublishFails
  <2> QED BY <2>1, <2>2, <2>3
<1>6. ~Punctual /\ ~Reliable
  BY <1>2, PlansAndFaults
<1> QED BY <1>2, <1>5, <1>6, StepKeepsInv

LEMMA SkipLogKeepsInv ==
    ASSUME PipelineInv, NEW l \in Lanes, SkipLog(l)
    PROVE  PipelineInv'
<1> DEFINE s == lane[l]
<1>1. AnyPlan /\ Programs
  BY DEF PipelineInv
<1>2. /\ PipelineTypes /\ s \in States /\ RunOk(s) /\ s.node = "log"
      /\ lane' = [lane EXCEPT ![l] = End(s)]
      /\ UNCHANGED <<pplan, runs, cycles, mailbox, active, approvals, trades,
                     refused, logged>>
  BY <1>1, LaneFacts DEF SkipLog, NothingToLog
<1>3. Onward(s, End(s)) /\ End(s).node = "idle" /\ End(s).reply = <<>>
  BY <1>2, EndGoesOn, EndIs
<1>4. RunFresh(End(s)) /\ PositionSeen(End(s))
  BY <1>3 DEF RunFresh, PositionSeen
<1>5. s.pc = "ask"
  BY <1>1 DEF AnyPlan, LaneOk, SkipLog
<1> QED BY <1>2, <1>3, <1>4, <1>5, StepKeepsInv DEF Awaits

\* RunCycle, RunAnalysisCycle: a new run has a number no request, trade or
\* other run has.
LEMMA StartKeepsInv ==
    ASSUME PipelineInv, NEW l \in Lanes, NEW n \in {"check", "data"},
           lane[l].node = "idle", runs < MaxRuns,
           IF n = "check" THEN ~Daemon /\ l = LiveLane ELSE Daemon,
           runs' = runs + 1, cycles' = cycles + 1,
           lane' = [lane EXCEPT ![l] = Goto([InitialState EXCEPT !.cycle = cycles + 1], n)],
           UNCHANGED <<pplan, mailbox, active, approvals, trades, refused, logged>>
    PROVE  PipelineInv'
<1> USE MaxRetriesIsPositive
<1>1. AnyPlan /\ Programs /\ PipelineTypes /\ cycles \in Nat /\ 0 <= Len(trades)
  BY DEF PipelineInv, AnyPlan, PipelineTypes
<1>2. PICK t : t = Goto([InitialState EXCEPT !.cycle = cycles + 1], n)
  OBVIOUS
<1>3. /\ t \in States /\ t.node = n /\ t.pc = "ask" /\ t.reply = <<>> /\ t.cycle = cycles + 1
      /\ t.attempt = 1 /\ t.candles = 0 /\ t.analysis = 0 /\ t.setup = NoSetupYet /\ t.trade = 0
  <2>1. n \in Kinds \cup {"idle"} /\ cycles + 1 \in Nat
    BY <1>1 DEF Kinds
  <2>2. [InitialState EXCEPT !.cycle = cycles + 1] \in States
    BY <2>1, InitialStateIs
  <2> QED BY <1>2, <2>1, <2>2, GotoIs DEF InitialState, NoData
<1>4. /\ lane' = [lane EXCEPT ![l] = t] /\ lane' \in [Lanes -> States]
      /\ lane'[l] = t /\ \A k \in Lanes : k # l => lane'[k] = lane[k]
  BY <1>1, <1>2, <1>3 DEF PipelineTypes
<1>5. PipelineTypes'
  BY <1>1, <1>4, PipelineAssumption DEF PipelineTypes
<1>6. ASSUME NEW k \in Lanes PROVE lane[k].cycle <= cycles /\ lane[k].cycle \in Nat
  BY <1>1 DEF AnyPlan, LaneOk, RunOk, PipelineTypes, States
<1>7. ASSUME NEW k \in Lanes PROVE LaneOk(k)'
  <2>1. CASE k = l
    <3>1. Len(t.reply) = 0
      BY <1>3
    <3> QED BY <1>1, <1>3, <1>4, <2>1, <3>1 DEF LaneOk, RunOk
  <2>2. CASE k # l
    <3>1. lane'[k] = lane[k] /\ LaneOk(k)
      BY <1>1, <1>4, <2>2 DEF AnyPlan
    <3>2. lane[k].cycle <= cycles + 1
      BY <1>1, <1>6
    <3> QED BY <3>1, <3>2 DEF LaneOk, RunOk, ReplyOk
  <2> QED BY <2>1, <2>2
<1>8. LanesApart'
  BY <1>1, <1>3, <1>4, <1>6 DEF AnyPlan, LanesApart
<1>9. ASSUME NEW c \in 1..cycles, PastExecution(c) PROVE PastExecution(c)'
  BY <1>1, <1>3, <1>4, <1>9 DEF PastExecution
<1>10. ASSUME NEW a \in Agents, NEW q \in Requests, MessageOk(a, q) PROVE MessageOk(a, q)'
  <2>1. q.cycle \in 1..cycles
    BY <1>10 DEF MessageOk
  <2>2. t.cycle # q.cycle /\ q.cycle \in 1..cycles'
    BY <1>1, <1>3, <2>1
  <2>3. PastExecution(q.cycle) => PastExecution(q.cycle)'
    BY <1>9, <2>1
  <2> QED BY <1>4, <1>10, <2>2, <2>3 DEF MessageOk
<1>11. MessagesOk'
  <2>1. \A a \in Agents : \A i \in 1..Len(mailbox[a]) : mailbox[a][i] \in Requests
    BY <1>1 DEF PipelineTypes
  <2> QED BY <1>1, <1>10, <2>1 DEF AnyPlan, MessagesOk
<1>12. TradesOk'
  BY <1>1, <1>9 DEF AnyPlan, TradesOk, OneExecutionPerCycle
<1>13. Programs'
  BY <1>1, <1>3, <1>4 DEF Programs, Daemon
<1>14. ASSUME Punctual PROVE PunctualInv'
  <2>1. t.reply = <<>> /\ RunFresh(t)
    BY <1>3 DEF RunFresh
  <2>2. \A a \in Agents : \A i \in 1..Len(mailbox[a]) : ~Awaits(lane[l], mailbox[a][i])
    BY DEF Awaits
  <2> QED BY <1>1, <1>4, <1>14, <2>1, <2>2, StepKeepsPunctual DEF PipelineInv
<1>15. ASSUME Reliable PROVE ReliableInv'
  <2>1. l = LiveLane /\ ~Daemon => PositionSeen(t)
    BY <1>3 DEF PositionSeen
  <2> QED BY <1>1, <1>3, <1>4, <1>15, <2>1, StepKeepsReliable DEF PipelineInv
<1>16. (Punctual' <=> Punctual) /\ (Reliable' <=> Reliable)
  BY DEF Punctual, Reliable, PipelineSpared
<1> QED BY <1>5, <1>7, <1>8, <1>11, <1>12, <1>13, <1>14, <1>15, <1>16 DEF PipelineInv, AnyPlan

LEMMA RunCycleKeepsInv ==
    ASSUME PipelineInv, NEW l \in Lanes, RunCycle(l) \/ RunAnalysisCycle(l)
    PROVE  PipelineInv'
<1>1. CASE RunCycle(l)
  BY <1>1, StartKeepsInv DEF RunCycle
<1>2. CASE RunAnalysisCycle(l)
  BY <1>2, StartKeepsInv DEF RunAnalysisCycle
<1> QED BY <1>1, <1>2

\* The exchange of a run gets on; what it holds stays.
Sends(s, t, pc) ==
    /\ t \in States /\ t.pc = pc /\ t.node = s.node /\ t.cycle = s.cycle
    /\ t.attempt = s.attempt /\ t.candles = s.candles /\ t.analysis = s.analysis
    /\ t.setup = s.setup /\ t.trade = s.trade /\ t.approved = s.approved /\ t.reply = s.reply

LEMMA ExchangeSends ==
    ASSUME AnyPlan, NEW l \in Lanes, NEW pc \in {"sent", "wait"},
           lane[l].node # "idle", ~NothingToLog(lane[l]), lane[l].reply = <<>>,
           lane' = [lane EXCEPT ![l].pc = pc],
           UNCHANGED <<cycles, approvals, trades>>
    PROVE  /\ lane' \in [Lanes -> States] /\ Sends(lane[l], lane'[l], pc)
           /\ Request(lane'[l]) = Request(lane[l])
           /\ \A k \in Lanes : k # l => lane'[k] = lane[k]
           /\ \A k \in Lanes : LaneOk(k)'
           /\ LanesApart'
           /\ \A k \in Lanes : RunFresh(lane[k]) => RunFresh(lane'[k])
           /\ \A k \in Lanes : PositionSeen(lane[k]) /\ active' = active => PositionSeen(lane[k])'
<1>1. lane \in [Lanes -> States]
  BY DEF AnyPlan, PipelineTypes
<1>2. PICK t : t = [lane[l] EXCEPT !.pc = pc]
  OBVIOUS
<1>3. Sends(lane[l], t, pc)
  BY <1>1, <1>2 DEF Sends, States
<1>4. lane'[l] = t /\ lane' \in [Lanes -> States] /\ \A k \in Lanes : k # l => lane'[k] = lane[k]
  BY <1>1, <1>2, <1>3 DEF Sends
<1>5. Request(t) = Request(lane[l])
  BY <1>3, RequestOfExchange DEF Sends
<1>6. ASSUME NEW k \in Lanes PROVE LaneOk(k)'
  <2>1. CASE k = l
    <3>1. Len(t.reply) = 0 /\ t.reply = <<>>
      BY <1>3 DEF Sends
    <3>2. LaneOk(l)
      BY DEF AnyPlan
    <3> QED BY <1>3, <1>4, <2>1, <3>1, <3>2 DEF LaneOk, RunOk, NothingToLog, Sends
  <2>2. CASE k # l
    <3>1. lane'[k] = lane[k] /\ LaneOk(k)
      BY <1>4, <2>2 DEF AnyPlan
    <3> QED BY <3>1 DEF LaneOk, RunOk, ReplyOk
  <2> QED BY <2>1, <2>2
<1>7. LanesApart'
  BY <1>3, <1>4 DEF AnyPlan, LanesApart, Sends
<1>8. \A k \in Lanes : RunFresh(lane[k]) => RunFresh(lane'[k])
  BY <1>3, <1>4 DEF RunFresh, Sends
<1>9. \A k \in Lanes : PositionSeen(lane[k]) /\ active' = active => PositionSeen(lane[k])'
  BY <1>3, <1>4 DEF PositionSeen, Sends
<1> QED BY <1>3, <1>4, <1>5, <1>6, <1>7, <1>8, <1>9

LEMMA SubscribeKeepsInv ==
    ASSUME PipelineInv, NEW l \in Lanes, Subscribe(l)
    PROVE  PipelineInv'
<1>1. AnyPlan /\ Programs /\ PipelineTypes
  BY DEF PipelineInv, AnyPlan
<1>2. /\ lane[l].pc = "sent" /\ lane' = [lane EXCEPT ![l].pc = "wait"]
      /\ UNCHANGED <<pplan, runs, cycles, mailbox, active, approvals, trades,
                     refused, logged>>
  BY DEF Subscribe
<1>3. lane[l].node # "idle" /\ ~NothingToLog(lane[l]) /\ lane[l].reply = <<>>
  BY <1>1, <1>2 DEF AnyPlan, LaneOk
<1>4. /\ lane' \in [Lanes -> States] /\ Sends(lane[l], lane'[l], "wait")
      /\ Request(lane'[l]) = Request(lane[l])
      /\ \A k \in Lanes : k # l => lane'[k] = lane[k]
      /\ \A k \in Lanes : LaneOk(k)'
      /\ LanesApart'
      /\ \A k \in Lanes : RunFresh(lane[k]) => RunFresh(lane'[k])
      /\ \A k \in Lanes : PositionSeen(lane[k]) /\ active' = active => PositionSeen(lane[k])'
  BY <1>1, <1>2, <1>3, ExchangeSends
<1>5. PipelineTypes'
  BY <1>1, <1>2, <1>4 DEF PipelineTypes
<1>6. ASSUME NEW c, PastExecution(c) PROVE PastExecution(c)'
  BY <1>2, <1>4, <1>6 DEF PastExecution, Sends
<1>7. ASSUME NEW a \in Agents, NEW q \in Requests, MessageOk(a, q) PROVE MessageOk(a, q)'
  <2>1. PastExecution(q.cycle) => PastExecution(q.cycle)'
    BY <1>6
  <2> QED BY <1>2, <1>4, <1>7, <2>1 DEF MessageOk, Sends
<1>8. MessagesOk'
  <2>1. \A a \in Agents : \A i \in 1..Len(mailbox[a]) : mailbox[a][i] \in Requests
    BY <1>1 DEF PipelineTypes
  <2> QED BY <1>1, <1>2, <1>7, <2>1 DEF AnyPlan, MessagesOk
<1>9. TradesOk'
  BY <1>1, <1>2, <1>6 DEF AnyPlan, TradesOk, OneExecutionPerCycle
<1>10. Programs'
  BY <1>1, <1>2, <1>4 DEF Programs, Daemon, Sends
<1>11. \A k \in Lanes : \A q : Awaits(lane[k], q) => Awaits(lane'[k], q)
  BY <1>2, <1>4 DEF Awaits, Sends
<1>12. PunctualInv => PunctualInv'
  <2>1. RequestsAwaited =>
            \A a \in Agents : \A i \in 1..Len(mailbox[a]) :
                \E k \in Lanes : Awaits(lane'[k], mailbox[a][i])
    BY <1>11 DEF RequestsAwaited
  <2>2. RequestsAwaited => RequestsAwaited'
    BY <1>2, <2>1 DEF RequestsAwaited, Awaits
  <2> QED BY <1>4, <2>2 DEF PunctualInv, RunFresh
<1>13. ReliableInv => ReliableInv'
  <2>1. ASSUME NEW k \in Lanes, Answerable(lane[k]) PROVE Answerable(lane[k])'
    BY <1>2, <1>4, <2>1 DEF Answerable, Sends, Request, Correlation
  <2> QED BY <1>2, <1>4, <2>1, MaxRetriesIsPositive DEF ReliableInv, Daemon
<1>14. (Punctual' <=> Punctual) /\ (Reliable' <=> Reliable)
  BY <1>2 DEF Punctual, Reliable, PipelineSpared
<1> QED BY <1>4, <1>5, <1>8, <1>9, <1>10, <1>12, <1>13, <1>14 DEF PipelineInv, AnyPlan

\* Publish: the request that enters the inbox is the run's only one.
LEMMA PublishKeepsInv ==
    ASSUME PipelineInv, NEW l \in Lanes, Publish(l)
    PROVE  PipelineInv'
<1> DEFINE s == lane[l]
           b == Asks[s.node]
<1> USE MaxRetriesIsPositive
<1>1. AnyPlan /\ Programs /\ PipelineTypes /\ s \in States /\ RunOk(s)
  BY LaneFacts DEF PipelineInv
<1>2. /\ s.node # "idle" /\ s.pc = "ask" /\ ~NothingToLog(s)
      /\ \/ mailbox' = [mailbox EXCEPT ![b] = Append(mailbox[b], Request(s))]
         \/ "bus_drop" \in pplan /\ UNCHANGED mailbox
      /\ lane' = [lane EXCEPT ![l].pc = "sent"]
      /\ UNCHANGED <<pplan, runs, cycles, active, approvals, trades, refused, logged>>
  BY DEF Publish
<1>3. s.reply = <<>>
  BY <1>1, <1>2 DEF AnyPlan, LaneOk
<1>4. /\ lane' \in [Lanes -> States] /\ Sends(s, lane'[l], "sent")
      /\ Request(lane'[l]) = Request(s)
      /\ \A k \in Lanes : k # l => lane'[k] = lane[k]
      /\ \A k \in Lanes : LaneOk(k)'
      /\ LanesApart'
      /\ \A k \in Lanes : RunFresh(lane[k]) => RunFresh(lane'[k])
      /\ \A k \in Lanes : PositionSeen(lane[k]) /\ active' = active => PositionSeen(lane[k])'
  BY <1>1, <1>2, <1>3, ExchangeSends
<1>5. PICK q \in Requests :
          /\ q = Request(s) /\ q.kind = s.node /\ q.cycle = s.cycle /\ q.cid = Correlation(s)
          /\ q.setup = s.setup /\ q.trade = s.trade /\ q.basis <= s.attempt /\ q.basis <= MaxRetries
  <2>1. Request(s).basis <= s.attempt
    BY <1>1, <1>2, RequestIs DEF RunOk, States
  <2>2. Request(s).basis <= MaxRetries
    BY <1>1, <1>2, <2>1, RequestIs DEF RunOk, Requests
  <2> QED BY <1>1, <1>2, <2>1, <2>2, RequestIs
<1>6. b \in Agents /\ s.node \in Kinds /\ Asks[q.kind] = b
  BY <1>1, <1>2, <1>5 DEF States, Kinds, Asks, Agents
<1>7. mailbox \in [Agents -> Seq(Requests)] /\ mailbox[b] \in Seq(Requests)
  BY <1>1, <1>6 DEF PipelineTypes
<1>8. /\ mailbox' \in [Agents -> Seq(Requests)]
      /\ \A a \in Agents : a # b => mailbox'[a] = mailbox[a]
      /\ \/ /\ Len(mailbox'[b]) = Len(mailbox[b]) + 1
            /\ mailbox'[b][Len(mailbox[b]) + 1] = q
            /\ \A i \in 1..Len(mailbox[b]) : mailbox'[b][i] = mailbox[b][i]
         \/ "bus_drop" \in pplan /\ mailbox' = mailbox
  <2>1. CASE mailbox' = [mailbox EXCEPT ![b] = Append(mailbox[b], Request(s))]
    <3>1. PICK longer : longer = Append(mailbox[b], q)
      OBVIOUS
    <3>2. /\ longer \in Seq(Requests) /\ Len(longer) = Len(mailbox[b]) + 1
          /\ longer[Len(mailbox[b]) + 1] = q
          /\ \A i \in 1..Len(mailbox[b]) : longer[i] = mailbox[b][i]
      BY <1>7, <3>1
    <3>3. mailbox' = [mailbox EXCEPT ![b] = longer]
      BY <1>5, <2>1, <3>1
    <3> QED BY <1>6, <1>7, <3>2, <3>3
  <2> QED BY <1>2, <1>7, <2>1
<1>9. PipelineTypes'
  BY <1>1, <1>2, <1>4, <1>8 DEF PipelineTypes
<1>10. ASSUME NEW c, PastExecution(c) PROVE PastExecution(c)' /\ ~(s.node \in {"risk", "execute"} /\ s.pc = "ask" /\ s.cycle = c)
  BY <1>2, <1>4, <1>10 DEF PastExecution, Sends
<1>11. ASSUME NEW a \in Agents, NEW m \in Requests, MessageOk(a, m) PROVE MessageOk(a, m)'
  <2>1. PastExecution(m.cycle) => PastExecution(m.cycle)'
    BY <1>10
  <2> QED BY <1>2, <1>4, <1>11, <2>1 DEF MessageOk, Sends
<1>12. ASSUME NEW a, a = b PROVE MessageOk(a, q)'
  <2>1. Asks[q.kind] = a /\ q.cid = <<IF q.kind \in {"check", "log"} THEN q.kind ELSE "cycle", q.cycle>>
    BY <1>5, <1>6, <1>12 DEF Correlation
  <2>2. q.cycle \in 1..cycles'
    BY <1>1, <1>2, <1>5 DEF RunOk, States, PipelineTypes
  <2>3. \A k \in Lanes : lane'[k].cycle = q.cycle => k = l \/ lane'[k].node = "idle"
    BY <1>1, <1>2, <1>4, <1>5 DEF AnyPlan, LanesApart, Sends
  <2>4. q.kind = "execute" =>
            /\ q.setup \in approvals /\ q.setup.cycle = q.cycle /\ PastExecution(q.cycle)'
            /\ \A i \in 1..Len(trades) : trades[i].cycle # q.cycle
    <3> SUFFICES ASSUME q.kind = "execute"
                 PROVE  /\ q.setup \in approvals /\ q.setup.cycle = q.cycle
                        /\ PastExecution(q.cycle)'
                        /\ \A i \in 1..Len(trades) : trades[i].cycle # q.cycle
      OBVIOUS
    <3>1. q.setup \in approvals /\ q.setup.cycle = q.cycle
      BY <1>1, <1>5 DEF RunOk
    <3>2. PastExecution(q.cycle)'
      BY <1>4, <1>5, <2>3 DEF PastExecution, Sends
    <3>3. ASSUME NEW i \in 1..Len(trades), trades[i].cycle = q.cycle PROVE FALSE
      <4>1. PastExecution(trades[i].cycle)
        BY <1>1 DEF AnyPlan, TradesOk
      <4> QED BY <1>2, <1>5, <1>10, <3>3, <4>1
    <3> QED BY <3>1, <3>2, <3>3
  <2>5. q.kind = "log" => q.trade \in 1..Len(trades)
    BY <1>1, <1>2, <1>5 DEF NothingToLog, RunOk, States
  <2>6. q.kind = "risk" =>
            \A k \in Lanes : lane'[k].cycle = q.cycle =>
                \/ lane'[k].node \in {"execute", "log", "idle"}
                \/ lane'[k].node = "risk" /\ lane'[k].pc # "ask" /\ lane'[k].setup = q.setup
    BY <1>4, <1>5, <2>3 DEF Sends
  <2>7. \A k \in Lanes : lane'[k].cycle = q.cycle /\ lane'[k].node # "idle" =>
            q.basis <= lane'[k].attempt
    BY <1>4, <1>5, <2>3 DEF Sends
  <2> QED BY <1>2, <1>5, <2>1, <2>2, <2>4, <2>5, <2>6, <2>7 DEF MessageOk
<1>13. ASSUME NEW a \in Agents, NEW i \in 1..Len(mailbox'[a])
       PROVE  \/ i \in 1..Len(mailbox[a]) /\ mailbox'[a][i] = mailbox[a][i]
              \/ /\ a = b /\ i = Len(mailbox[a]) + 1 /\ mailbox'[a][i] = q
                 /\ Len(mailbox'[b]) = Len(mailbox[b]) + 1
  <2>1. CASE mailbox'[a] = mailbox[a]
    BY <1>13, <2>1
  <2>2. CASE /\ a = b /\ Len(mailbox'[b]) = Len(mailbox[b]) + 1
             /\ mailbox'[b][Len(mailbox[b]) + 1] = q
             /\ \A k \in 1..Len(mailbox[b]) : mailbox'[b][k] = mailbox[b][k]
    <3>1. Len(mailbox[b]) \in Nat
      BY <1>7
    <3>2. i = Len(mailbox[b]) + 1 \/ i \in 1..Len(mailbox[b])
      BY <1>13, <2>2, <3>1
    <3> QED BY <2>2, <3>2
  <2> QED BY <1>8, <2>1, <2>2
<1>14. MessagesOk'
  <2>1. ASSUME NEW a \in Agents, NEW i \in 1..Len(mailbox'[a]), NEW m, m = mailbox'[a][i]
        PROVE  MessageOk(a, m)'
    <3>1. CASE i \in 1..Len(mailbox[a]) /\ mailbox'[a][i] = mailbox[a][i]
      <4>1. mailbox[a][i] \in Requests /\ MessageOk(a, mailbox[a][i])
        BY <1>1, <1>7, <3>1 DEF AnyPlan, MessagesOk
      <4> QED BY <1>11, <2>1, <3>1, <4>1
    <3>2. CASE a = b /\ mailbox'[a][i] = q
      BY <1>12, <2>1, <3>2
    <3> QED BY <1>13, <3>1, <3>2
  <2>2. ASSUME NEW i \in 1..Len(mailbox["execution"]),
               mailbox["execution"][i].kind = "execute", q.kind = "execute",
               mailbox["execution"][i].cycle = q.cycle
        PROVE  FALSE
    <3>1. "execution" \in Agents
      BY DEF Agents
    <3>2. PastExecution(mailbox["execution"][i].cycle)
      BY <1>1, <2>2, <3>1 DEF AnyPlan, MessagesOk, MessageOk
    <3> QED BY <1>2, <1>5, <1>10, <2>2, <3>2
  <2>3. ASSUME NEW i \in 1..Len(mailbox'["execution"]), NEW j \in 1..Len(mailbox'["execution"]),
               mailbox'["execution"][i].kind = "execute",
               mailbox'["execution"][j].kind = "execute",
               mailbox'["execution"][i].cycle = mailbox'["execution"][j].cycle
        PROVE  i = j
    <3>1. "execution" \in Agents
      BY DEF Agents
    <3>2. CASE /\ i \in 1..Len(mailbox["execution"]) /\ j \in 1..Len(mailbox["execution"])
               /\ mailbox'["execution"][i] = mailbox["execution"][i]
               /\ mailbox'["execution"][j] = mailbox["execution"][j]
      BY <1>1, <2>3, <3>2 DEF AnyPlan, MessagesOk
    <3> QED BY <1>13, <2>2, <2>3, <3>1, <3>2
  <2>4. (\A a \in Agents : \A i \in 1..Len(mailbox[a]) : MessageOk(a, mailbox[a][i]))'
    BY <2>1 DEF MessageOk
  <2> QED BY <2>3, <2>4 DEF MessagesOk
<1>15. TradesOk'
  BY <1>1, <1>2, <1>10 DEF AnyPlan, TradesOk, OneExecutionPerCycle
<1>16. Programs'
  BY <1>1, <1>2, <1>4 DEF Programs, Daemon, Sends
<1>17. ASSUME PunctualInv PROVE PunctualInv'
  <2>1. \A k \in Lanes : \A m : Awaits(lane[k], m) => Awaits(lane'[k], m) /\ k # l
    BY <1>2, <1>4 DEF Awaits, Sends
  <2>2. Awaits(lane'[l], q)
    BY <1>2, <1>3, <1>4, <1>5 DEF Awaits, Sends
  <2>3. ASSUME NEW a \in Agents, NEW i \in 1..Len(mailbox'[a])
        PROVE  \E k \in Lanes : Awaits(lane'[k], mailbox'[a][i])
    <3>1. CASE i \in 1..Len(mailbox[a]) /\ mailbox'[a][i] = mailbox[a][i]
      <4>1. PICK k \in Lanes : Awaits(lane[k], mailbox[a][i])
        BY <1>17, <3>1 DEF PunctualInv, RequestsAwaited
      <4> QED BY <2>1, <3>1, <4>1
    <3> QED BY <1>13, <2>2, <3>1
  <2>4. ASSUME NEW a \in Agents, NEW i \in 1..Len(mailbox[a]), mailbox[a][i] = q
        PROVE  FALSE
    <3>1. PICK k \in Lanes : Awaits(lane[k], mailbox[a][i])
      BY <1>17 DEF PunctualInv, RequestsAwaited
    <3>2. lane[k] \in States
      BY <1>1 DEF PipelineTypes
    <3>3. q.cycle = lane[k].cycle /\ lane[k].node # "idle" /\ k # l
      BY <2>1, <2>4, <3>1, <3>2, AwaitedIsOfLane
    <3> QED BY <1>1, <1>5, <3>3 DEF AnyPlan, LanesApart
  <2>5. ASSUME NEW a \in Agents, NEW i \in 1..Len(mailbox'[a]), NEW j \in 1..Len(mailbox'[a]),
               mailbox'[a][i] = mailbox'[a][j]
        PROVE  i = j
    <3>1. CASE /\ i \in 1..Len(mailbox[a]) /\ j \in 1..Len(mailbox[a])
               /\ mailbox'[a][i] = mailbox[a][i] /\ mailbox'[a][j] = mailbox[a][j]
      BY <1>17, <2>5, <3>1 DEF PunctualInv, RequestsAwaited
    <3> QED BY <1>13, <2>4, <2>5, <3>1
  <2>6. RequestsAwaited'
    BY <2>3, <2>5 DEF RequestsAwaited, Awaits
  <2> QED BY <1>4, <1>17, <2>6 DEF PunctualInv, RunFresh
<1>18. ASSUME Reliable, ReliableInv PROVE ReliableInv'
  <2>1. "bus_drop" \notin pplan
    BY <1>18, PlansAndFaults
  <2>2. ASSUME NEW k \in Lanes PROVE Answerable(lane[k])'
    <3>1. CASE k = l
      <4>1. Len(mailbox[b]) + 1 \in 1..Len(mailbox'[b])
        BY <1>7, <1>8, <2>1
      <4>2. lane'[k].node = s.node /\ Request(lane'[k]) = q
        BY <1>4, <1>5, <3>1 DEF Sends
      <4>3. mailbox'[b][Len(mailbox[b]) + 1] = q
        BY <1>8, <2>1
      <4> QED BY <4>1, <4>2, <4>3 DEF Answerable
    <3>2. CASE k # l
      <4>1. lane'[k] = lane[k] /\ Answerable(lane[k]) /\ lane[k] \in States
        BY <1>1, <1>4, <1>18, <3>2 DEF ReliableInv, PipelineTypes
      <4>2. \A a \in Agents : \A i \in 1..Len(mailbox[a]) :
                i \in 1..Len(mailbox'[a]) /\ mailbox'[a][i] = mailbox[a][i]
        BY <1>7, <1>8
      <4>3. lane[k].node # "idle" => Asks[lane[k].node] \in Agents
        BY <4>1 DEF States, Kinds, Asks, Agents
      <4> QED BY <4>1, <4>2, <4>3 DEF Answerable
    <3> QED BY <3>1, <3>2
  <2> QED BY <1>2, <1>4, <1>18, <2>2 DEF ReliableInv, Daemon
<1>19. (Punctual' <=> Punctual) /\ (Reliable' <=> Reliable)
  BY <1>2 DEF Punctual, Reliable, PipelineSpared
<1> QED BY <1>4, <1>9, <1>14, <1>15, <1>16, <1>17, <1>18, <1>19 DEF PipelineInv, AnyPlan

-----------------------------------------------------------------------------
(* The agents' actions.                                                    *)

\* The message loop takes the head of the inbox.
LEMMA TakesIs ==
    ASSUME AnyPlan, NEW a \in Agents, mailbox[a] # <<>>, Takes(a)
    PROVE  /\ mailbox' \in [Agents -> Seq(Requests)]
           /\ \A b \in Agents : b # a => mailbox'[b] = mailbox[b]
           /\ 1 \in 1..Len(mailbox[a]) /\ mailbox[a][1] \in Requests
           /\ \A i \in 1..Len(mailbox[a]) : i # 1 =>
                  i - 1 \in 1..Len(mailbox'[a]) /\ mailbox'[a][i - 1] = mailbox[a][i]
           /\ \A i \in 1..Len(mailbox'[a]) :
                  i + 1 \in 1..Len(mailbox[a]) /\ mailbox'[a][i] = mailbox[a][i + 1]
<1>1. mailbox \in [Agents -> Seq(Requests)] /\ mailbox[a] \in Seq(Requests)
  BY DEF AnyPlan, PipelineTypes
<1>2. PICK rest : rest = Tail(mailbox[a])
  OBVIOUS
<1>3. /\ rest \in Seq(Requests) /\ Len(mailbox[a]) \in Nat /\ Len(mailbox[a]) >= 1
      /\ Len(rest) = Len(mailbox[a]) - 1
      /\ \A i \in 1..Len(rest) : rest[i] = mailbox[a][i + 1]
  BY <1>1, <1>2
<1>4. mailbox' = [mailbox EXCEPT ![a] = rest]
  BY <1>2 DEF Takes
<1>5. mailbox' \in [Agents -> Seq(Requests)] /\ mailbox'[a] = rest
      /\ \A b \in Agents : b # a => mailbox'[b] = mailbox[b]
  BY <1>1, <1>3, <1>4
<1>6. 1 \in 1..Len(mailbox[a]) /\ mailbox[a][1] \in Requests
  BY <1>1, <1>3
<1>7. ASSUME NEW i \in 1..Len(mailbox[a]), i # 1
      PROVE  i - 1 \in 1..Len(rest) /\ rest[i - 1] = mailbox[a][i]
  <2>1. i - 1 \in 1..Len(rest) /\ (i - 1) + 1 = i
    BY <1>3, <1>7
  <2> QED BY <1>3, <2>1
<1>8. ASSUME NEW i \in 1..Len(rest)
      PROVE  i + 1 \in 1..Len(mailbox[a]) /\ rest[i] = mailbox[a][i + 1]
  BY <1>3
<1> QED BY <1>5, <1>6, <1>7, <1>8

\* A request that is taken leaves the others as they were.
LEMMA TakeKeepsMessages ==
    ASSUME AnyPlan, NEW a \in Agents, mailbox[a] # <<>>, Takes(a),
           \A b \in Agents : \A m \in Requests :
               MessageOk(b, m) /\ (\E i \in 1..Len(mailbox'[b]) : mailbox'[b][i] = m)
                   => MessageOk(b, m)'
    PROVE  MessagesOk'
<1>1. /\ mailbox' \in [Agents -> Seq(Requests)]
      /\ \A b \in Agents : b # a => mailbox'[b] = mailbox[b]
      /\ \A i \in 1..Len(mailbox'[a]) :
             i + 1 \in 1..Len(mailbox[a]) /\ mailbox'[a][i] = mailbox[a][i + 1]
  BY TakesIs
<1>2. ASSUME NEW b \in Agents, NEW i \in 1..Len(mailbox'[b]), NEW m, m = mailbox'[b][i]
      PROVE  MessageOk(b, m)'
  <2>1. m \in Requests
    BY <1>1, <1>2
  <2>2. MessageOk(b, m)
    BY <1>1, <1>2 DEF AnyPlan, MessagesOk
  <2> QED BY <1>2, <2>1, <2>2
<1>3. (\A b \in Agents : \A i \in 1..Len(mailbox[b]) : MessageOk(b, mailbox[b][i]))'
  BY <1>2 DEF MessageOk
<1>4. ASSUME NEW i \in 1..Len(mailbox'["execution"]), NEW j \in 1..Len(mailbox'["execution"]),
             mailbox'["execution"][i].kind = "execute",
             mailbox'["execution"][j].kind = "execute",
             mailbox'["execution"][i].cycle = mailbox'["execution"][j].cycle
      PROVE  i = j
  <2>1. "execution" \in Agents
    BY DEF Agents
  <2>2. CASE a = "execution"
    <3>1. /\ i + 1 \in 1..Len(mailbox["execution"]) /\ j + 1 \in 1..Len(mailbox["execution"])
          /\ mailbox'["execution"][i] = mailbox["execution"][i + 1]
          /\ mailbox'["execution"][j] = mailbox["execution"][j + 1]
      BY <1>1, <2>2
    <3>2. i + 1 = j + 1
      BY <1>4, <3>1 DEF AnyPlan, MessagesOk
    <3> QED BY <1>1, <2>1, <3>2
  <2>3. CASE a # "execution"
    BY <1>1, <1>4, <2>1, <2>3 DEF AnyPlan, MessagesOk
  <2> QED BY <2>2, <2>3
<1> QED BY <1>3, <1>4 DEF MessagesOk

\* RequestsAwaited: ... and awaited, when their senders are not told anything.
LEMMA TakeKeepsAwaited ==
    ASSUME AnyPlan, RequestsAwaited, NEW a \in Agents, mailbox[a] # <<>>, Takes(a),
           \A k \in Lanes : \A b \in Agents : \A i \in 1..Len(mailbox[b]) :
               Awaits(lane[k], mailbox[b][i]) /\ ~(b = a /\ i = 1)
                   => Awaits(lane'[k], mailbox[b][i])
    PROVE  RequestsAwaited'
<1>1. /\ mailbox' \in [Agents -> Seq(Requests)]
      /\ \A b \in Agents : b # a => mailbox'[b] = mailbox[b]
      /\ \A i \in 1..Len(mailbox'[a]) :
             i + 1 \in 1..Len(mailbox[a]) /\ mailbox'[a][i] = mailbox[a][i + 1]
  BY TakesIs
<1>2. ASSUME NEW b \in Agents, NEW i \in 1..Len(mailbox'[b])
      PROVE  \E k \in Lanes : Awaits(lane'[k], mailbox'[b][i])
  <2>1. CASE b = a
    <3>1. /\ i + 1 \in 1..Len(mailbox[a]) /\ i + 1 # 1 /\ mailbox'[a][i] = mailbox[a][i + 1]
      BY <1>1, <2>1
    <3>2. PICK k \in Lanes : Awaits(lane[k], mailbox[a][i + 1])
      BY <3>1 DEF RequestsAwaited
    <3> QED BY <2>1, <3>1, <3>2
  <2>2. CASE b # a
    <3>1. PICK k \in Lanes : Awaits(lane[k], mailbox[b][i])
      BY <1>1, <1>2, <2>2 DEF RequestsAwaited
    <3> QED BY <1>1, <1>2, <2>2, <3>1
  <2> QED BY <2>1, <2>2
<1>3. ASSUME NEW b \in Agents, NEW i \in 1..Len(mailbox'[b]), NEW j \in 1..Len(mailbox'[b]),
             mailbox'[b][i] = mailbox'[b][j]
      PROVE  i = j
  <2>1. CASE b = a
    <3>1. /\ i + 1 \in 1..Len(mailbox[a]) /\ j + 1 \in 1..Len(mailbox[a])
          /\ mailbox[a][i + 1] = mailbox[a][j + 1]
      BY <1>1, <1>3, <2>1
    <3>2. i + 1 = j + 1
      BY <3>1 DEF RequestsAwaited
    <3> QED BY <1>1, <3>2
  <2>2. CASE b # a
    BY <1>1, <1>3, <2>2 DEF RequestsAwaited
  <2> QED BY <2>1, <2>2
<1> QED BY <1>2, <1>3 DEF RequestsAwaited, Awaits

LEMMA ServeRaisesKeepsInv ==
    ASSUME PipelineInv, NEW a \in Agents, ServeRaises(a)
    PROVE  PipelineInv'
<1>1. AnyPlan /\ Programs /\ PipelineTypes
  BY DEF PipelineInv, AnyPlan
<1>2. /\ mailbox[a] # <<>> /\ Takes(a) /\ "agent_error" \in pplan
      /\ UNCHANGED <<pplan, runs, cycles, lane, active, approvals, trades, refused, logged>>
  BY DEF ServeRaises, Ready
<1>3. PipelineTypes'
  BY <1>1, <1>2, TakesIs DEF PipelineTypes
<1>4. \A k \in Lanes : LaneOk(k)'
  BY <1>1, <1>2 DEF AnyPlan, LaneOk, RunOk, ReplyOk
<1>5. LanesApart' /\ TradesOk' /\ Programs'
  BY <1>1, <1>2 DEF AnyPlan, LanesApart, TradesOk, OneExecutionPerCycle, PastExecution,
     Programs, Daemon
<1>6. MessagesOk'
  <2>1. \A b \in Agents : \A m \in Requests : MessageOk(b, m) => MessageOk(b, m)'
    BY <1>2 DEF MessageOk, PastExecution
  <2> QED BY <1>1, <1>2, <2>1, TakeKeepsMessages
<1>7. PunctualInv => PunctualInv'
  <2>1. RequestsAwaited => RequestsAwaited'
    BY <1>1, <1>2, TakeKeepsAwaited
  <2> QED BY <1>2, <2>1 DEF PunctualInv, RunFresh
<1>8. ~Reliable /\ (Punctual' <=> Punctual) /\ (Reliable' <=> Reliable)
  BY <1>2 DEF Punctual, Reliable, PipelineSpared
<1> QED BY <1>1, <1>3, <1>4, <1>5, <1>6, <1>7, <1>8 DEF PipelineInv, AnyPlan

LEMMA PositionClosesKeepsInv ==
    ASSUME PipelineInv, PositionCloses
    PROVE  PipelineInv'
<1>1. AnyPlan /\ Programs /\ PipelineTypes
  BY DEF PipelineInv, AnyPlan
<1>2. /\ active > 0 /\ active' = active - 1
      /\ UNCHANGED <<pplan, runs, cycles, lane, mailbox, approvals, trades, refused, logged>>
  BY DEF PositionCloses
<1>3. active' = 0 /\ PipelineTypes'
  BY <1>1, <1>2 DEF PipelineTypes
<1>4. \A k \in Lanes : LaneOk(k)'
  BY <1>1, <1>2 DEF AnyPlan, LaneOk, RunOk, ReplyOk
<1>5. LanesApart' /\ TradesOk' /\ Programs' /\ MessagesOk'
  BY <1>1, <1>2 DEF AnyPlan, LanesApart, TradesOk, OneExecutionPerCycle, PastExecution,
     Programs, Daemon, MessagesOk, MessageOk
<1>6. PunctualInv => PunctualInv'
  BY <1>2 DEF PunctualInv, RunFresh, RequestsAwaited, Awaits
<1>7. ReliableInv => ReliableInv'
  BY <1>2, <1>3 DEF ReliableInv, Answerable, PositionSeen, Daemon
<1>8. (Punctual' <=> Punctual) /\ (Reliable' <=> Reliable)
  BY <1>2 DEF Punctual, Reliable, PipelineSpared
<1> QED BY <1>1, <1>3, <1>4, <1>5, <1>6, <1>7, <1>8 DEF PipelineInv, AnyPlan

\* What a run that heard the reply becomes.
HearsBack(s, t, r) ==
    /\ t \in States /\ t.reply # <<>> /\ t.reply[1] = r /\ Len(t.reply) = 1
    /\ t.node = s.node /\ t.pc = s.pc /\ t.cycle = s.cycle /\ t.attempt = s.attempt
    /\ t.candles = s.candles /\ t.analysis = s.analysis
    /\ t.setup = s.setup /\ t.trade = s.trade /\ t.approved = s.approved

LEMMA DeliverIs ==
    ASSUME PipelineTypes, NEW a \in Agents, NEW r \in Replies, Deliver(a, r)
    PROVE  /\ lane' \in [Lanes -> States]
           /\ \A l \in Lanes :
                  \/ lane'[l] = lane[l]
                  \/ /\ lane[l].node # "idle" /\ Hears(lane[l], a, r)
                     /\ HearsBack(lane[l], lane'[l], r)
           /\ "bus_down" \notin pplan =>
                  \A l \in Lanes : lane[l].node # "idle" /\ Hears(lane[l], a, r) =>
                                       HearsBack(lane[l], lane'[l], r)
<1>1. lane \in [Lanes -> States]
  BY DEF PipelineTypes
<1>2. CASE lane' = [l \in Lanes |->
                      IF lane[l].node # "idle" /\ Hears(lane[l], a, r)
                      THEN [lane[l] EXCEPT !.reply = <<r>>] ELSE lane[l]]
  <2>1. PICK one : one = <<r>>
    OBVIOUS
  <2>2. one \in Seq(Replies) /\ one # <<>> /\ one[1] = r /\ Len(one) = 1
    BY <2>1
  <2>3. ASSUME NEW l \in Lanes PROVE HearsBack(lane[l], [lane[l] EXCEPT !.reply = one], r)
    BY <1>1, <2>2 DEF HearsBack, States
  <2>4. lane' = [l \in Lanes |->
                   IF lane[l].node # "idle" /\ Hears(lane[l], a, r)
                   THEN [lane[l] EXCEPT !.reply = one] ELSE lane[l]]
    BY <1>2, <2>1
  <2>5. ASSUME NEW l \in Lanes PROVE [lane[l] EXCEPT !.reply = one] \in States
    BY <2>3 DEF HearsBack
  <2> QED BY <1>1, <2>3, <2>4, <2>5
<1>3. CASE "bus_down" \in pplan /\ UNCHANGED lane
  BY <1>1, <1>3
<1> QED BY <1>2, <1>3 DEF Deliver

\* What an agent's answer says of the request, and what it did.
Answers(q, r) ==
    /\ r \in Replies /\ r.cid = q.cid /\ r.basis <= q.basis
    /\ q.kind \in {"data", "analysis"} => r.basis = q.basis
    /\ q.kind = "strategy" /\ r.ok => r.setup = [cycle |-> q.cycle, basis |-> q.basis]
    /\ q.kind = "risk" /\ r.ok /\ r.flag => q.setup \in approvals'
    /\ q.kind = "execute" /\ r.ok => r.trade = Len(trades') /\ trades' = Append(trades, q.setup)
    /\ q.kind = "check" => r.ok /\ (r.flag <=> active > 0)

Opens(q) ==
    /\ q.kind = "execute" /\ active = 0 /\ active' = 1
    /\ trades' = Append(trades, q.setup)

Handled(q) ==
    /\ approvals \subseteq approvals' /\ approvals' \subseteq SetupRecords
    /\ (active' = active /\ trades' = trades) \/ Opens(q)
    /\ refused' \in BOOLEAN
    /\ refused' => refused \/ (q.kind = "execute" /\ active > 0)
    /\ logged' \subseteq logged \cup {q.trade} /\ (q.kind # "log" => logged' = logged)

LEMMA HandlesMessage ==
    ASSUME PipelineTypes, NEW a \in Agents, NEW q \in Requests, q = mailbox[a][1],
           Asks[q.kind] = a, HandleMessage(q)
    PROVE  Handled(q) /\ \E r : Answers(q, r) /\ Deliver(a, r)
<1>1. /\ q.cid \in Correlations /\ q.basis \in Nat /\ q.cycle \in Nat /\ q.setup \in SetupRecords
      /\ q.trade \in Nat /\ q.kind \in Kinds
  BY DEF Requests
<1>0. NoData = 0
  BY DEF NoData
<1>2. NoSetupYet \in SetupRecords /\ NoData \in Nat
  BY DEF NoSetupYet, SetupRecords, NoData
<1>3. /\ active \in 0..1 /\ approvals \subseteq SetupRecords /\ trades \in Seq(SetupRecords)
      /\ Len(trades) \in Nat /\ refused \in BOOLEAN
  BY DEF PipelineTypes
<1>5. CASE q.kind = "data"
  <2>1. GetMarketData(q) /\ a = "data"
    BY <1>5 DEF HandleMessage, Asks
  <2>2. PICK ok \in BOOLEAN :
            /\ Reply("data", ok, FALSE, q.basis, NoSetupYet, 0)
            /\ UNCHANGED <<active, approvals, trades, refused, logged>>
    BY <2>1 DEF GetMarketData
  <2> DEFINE r == [cid |-> mailbox[a][1].cid, ok |-> ok, flag |-> FALSE,
                   basis |-> q.basis, setup |-> NoSetupYet, trade |-> 0]
  <2>3. Deliver(a, r)
    BY <2>1, <2>2 DEF Reply
  <2>4. Answers(q, r)
    BY <1>2, <1>0, <1>1, <1>3, <1>5, <2>2 DEF Answers, Replies
  <2>5. Handled(q)
    BY <1>0, <1>1, <1>3, <1>5, <2>2 DEF Handled
  <2> QED BY <2>3, <2>4, <2>5
<1>6. CASE q.kind = "analysis"
  <2>1. AnalyzeMarket(q) /\ a = "analysis"
    BY <1>6 DEF HandleMessage, Asks
  <2>2. PICK ok \in BOOLEAN, volatile \in BOOLEAN :
            /\ Reply("analysis", ok, volatile, q.basis, NoSetupYet, 0)
            /\ UNCHANGED <<active, approvals, trades, refused, logged>>
    BY <2>1 DEF AnalyzeMarket
  <2> DEFINE r == [cid |-> mailbox[a][1].cid, ok |-> ok, flag |-> volatile,
                   basis |-> q.basis, setup |-> NoSetupYet, trade |-> 0]
  <2>3. Deliver(a, r)
    BY <2>1, <2>2 DEF Reply
  <2>4. Answers(q, r)
    BY <1>2, <1>0, <1>1, <1>3, <1>6, <2>2 DEF Answers, Replies
  <2>5. Handled(q)
    BY <1>0, <1>1, <1>3, <1>6, <2>2 DEF Handled
  <2> QED BY <2>3, <2>4, <2>5
<1>7. CASE q.kind = "regime"
  <2>1. GetRegime(q) /\ a = "memory"
    BY <1>7 DEF HandleMessage, Asks
  <2>2. PICK ok \in BOOLEAN, volatile \in BOOLEAN :
            /\ Reply("memory", ok, volatile, NoData, NoSetupYet, 0)
            /\ UNCHANGED <<active, approvals, trades, refused, logged>>
    BY <2>1 DEF GetRegime
  <2> DEFINE r == [cid |-> mailbox[a][1].cid, ok |-> ok, flag |-> volatile,
                   basis |-> NoData, setup |-> NoSetupYet, trade |-> 0]
  <2>3. Deliver(a, r)
    BY <2>1, <2>2 DEF Reply
  <2>4. Answers(q, r)
    BY <1>2, <1>0, <1>1, <1>3, <1>7, <2>2 DEF Answers, Replies
  <2>5. Handled(q)
    BY <1>0, <1>1, <1>3, <1>7, <2>2 DEF Handled
  <2> QED BY <2>3, <2>4, <2>5
<1>8. CASE q.kind = "strategy"
  <2>1. GenerateSetups(q) /\ a = "strategy"
    BY <1>8 DEF HandleMessage, Asks
  <2>2. PICK found \in BOOLEAN :
            /\ Reply("strategy", found, FALSE, NoData,
                     IF found THEN [cycle |-> q.cycle, basis |-> q.basis] ELSE NoSetupYet, 0)
            /\ UNCHANGED <<active, approvals, trades, refused, logged>>
    BY <2>1 DEF GenerateSetups
  <2>3. [cycle |-> q.cycle, basis |-> q.basis] \in SetupRecords
    BY <1>1 DEF SetupRecords
  <2>4. PICK asked \in SetupRecords :
            asked = IF found THEN [cycle |-> q.cycle, basis |-> q.basis] ELSE NoSetupYet
    BY <1>2, <2>3
  <2> DEFINE r == [cid |-> mailbox[a][1].cid, ok |-> found, flag |-> FALSE,
                   basis |-> NoData, setup |-> asked, trade |-> 0]
  <2>5. Deliver(a, r)
    BY <2>1, <2>2, <2>4 DEF Reply
  <2>6. Answers(q, r)
    BY <1>2, <1>0, <1>1, <1>3, <1>8, <2>2, <2>4 DEF Answers, Replies
  <2>7. Handled(q)
    BY <1>0, <1>1, <1>3, <1>8, <2>2, <2>4 DEF Handled
  <2> QED BY <2>5, <2>6, <2>7
<1>9. CASE q.kind = "risk"
  <2>1. ValidateTrade(q) /\ a = "risk"
    BY <1>9 DEF HandleMessage, Asks
  <2>2. PICK approved \in BOOLEAN :
            /\ Reply("risk", TRUE, approved, NoData, NoSetupYet, 0)
            /\ approvals' = IF approved THEN approvals \cup {q.setup} ELSE approvals
            /\ UNCHANGED <<active, trades, refused, logged>>
    BY <2>1 DEF ValidateTrade
  <2> DEFINE r == [cid |-> mailbox[a][1].cid, ok |-> TRUE, flag |-> approved,
                   basis |-> NoData, setup |-> NoSetupYet, trade |-> 0]
  <2>3. Deliver(a, r)
    BY <2>1, <2>2 DEF Reply
  <2>4. Answers(q, r)
    BY <1>2, <1>0, <1>1, <1>3, <1>9, <2>2 DEF Answers, Replies
  <2>5. Handled(q)
    BY <1>0, <1>1, <1>3, <1>9, <2>2 DEF Handled
  <2> QED BY <2>3, <2>4, <2>5
<1>10. CASE q.kind = "check"
  <2>1. GetStatus(q) /\ a = "execution"
    BY <1>10 DEF HandleMessage, Asks
  <2>2. /\ Reply("execution", TRUE, active > 0, NoData, NoSetupYet, 0)
        /\ UNCHANGED <<active, approvals, trades, refused, logged>>
    BY <2>1 DEF GetStatus
  <2>3. PICK flag \in BOOLEAN : flag <=> active > 0
    <3>1. CASE active > 0
      BY <3>1
    <3>2. CASE ~(active > 0)
      BY <3>2
    <3> QED BY <3>1, <3>2
  <2> DEFINE r == [cid |-> mailbox[a][1].cid, ok |-> TRUE, flag |-> active > 0,
                   basis |-> NoData, setup |-> NoSetupYet, trade |-> 0]
  <2>4. Deliver(a, r)
    BY <2>1, <2>2 DEF Reply
  <2>5. Answers(q, r)
    BY <1>2, <1>0, <1>1, <1>3, <1>10, <2>2, <2>3 DEF Answers, Replies
  <2>6. Handled(q)
    BY <1>0, <1>1, <1>3, <1>10, <2>2, <2>3 DEF Handled
  <2> QED BY <2>4, <2>5, <2>6
<1>11. CASE q.kind = "execute"
  <2>1. ExecuteTrade(q) /\ a = "execution"
    BY <1>11 DEF HandleMessage, Asks
  <2>2. CASE active > 0
    <3>1. /\ Reply("execution", FALSE, FALSE, NoData, NoSetupYet, 0) /\ refused' = TRUE
          /\ UNCHANGED <<active, approvals, trades, logged>>
      BY <2>1, <2>2 DEF ExecuteTrade
    <3> DEFINE r == [cid |-> mailbox[a][1].cid, ok |-> FALSE, flag |-> FALSE,
                     basis |-> NoData, setup |-> NoSetupYet, trade |-> 0]
    <3>2. Deliver(a, r)
      BY <2>1, <3>1 DEF Reply
    <3>3. Answers(q, r)
      BY <1>2, <1>0, <1>1, <1>3, <1>11, <2>2, <3>1 DEF Answers, Replies
    <3>4. Handled(q)
      BY <1>0, <1>1, <1>3, <1>11, <2>2, <3>1 DEF Handled
    <3> QED BY <3>2, <3>3, <3>4
  <2>3. CASE /\ active = 0 /\ trades' = Append(trades, q.setup) /\ active' = active + 1
             /\ Reply("execution", TRUE, FALSE, NoData, NoSetupYet, Len(trades) + 1)
             /\ UNCHANGED <<approvals, refused, logged>>
    <3>1. Len(trades) + 1 \in Nat /\ Len(trades') = Len(trades) + 1
      BY <1>1, <1>3, <2>3
    <3> DEFINE r == [cid |-> mailbox[a][1].cid, ok |-> TRUE, flag |-> FALSE,
                     basis |-> NoData, setup |-> NoSetupYet, trade |-> Len(trades) + 1]
    <3>2. Deliver(a, r)
      BY <2>1, <2>3 DEF Reply
    <3>3. Answers(q, r)
      BY <1>2, <1>0, <1>1, <1>3, <1>11, <2>3, <3>1 DEF Answers, Replies
    <3>4. Handled(q)
      BY <1>0, <1>1, <1>3, <1>11, <2>3, <3>1 DEF Handled, Opens
    <3> QED BY <3>2, <3>3, <3>4
  <2>4. CASE /\ Reply("execution", FALSE, FALSE, NoData, NoSetupYet, 0)
             /\ UNCHANGED <<active, approvals, trades, refused, logged>>
    <3> DEFINE r == [cid |-> mailbox[a][1].cid, ok |-> FALSE, flag |-> FALSE,
                     basis |-> NoData, setup |-> NoSetupYet, trade |-> 0]
    <3>1. Deliver(a, r)
      BY <2>1, <2>4 DEF Reply
    <3>2. Answers(q, r)
      BY <1>2, <1>0, <1>1, <1>3, <1>11, <2>4 DEF Answers, Replies
    <3>3. Handled(q)
      BY <1>0, <1>1, <1>3, <1>11, <2>4 DEF Handled
    <3> QED BY <3>1, <3>2, <3>3
  <2>5. active > 0 \/ active = 0
    BY <1>3
  <2> QED BY <2>1, <2>2, <2>3, <2>4, <2>5 DEF ExecuteTrade
<1>12. CASE q.kind = "log"
  <2>1. a = "memory" /\ (LogExecuted(q) \/ LogTradeFails(q))
    BY <1>12 DEF HandleMessage, Asks
  <2>2. PICK ok \in BOOLEAN :
            /\ Reply("memory", ok, FALSE, NoData, NoSetupYet, 0)
            /\ logged' \subseteq logged \cup {q.trade}
            /\ UNCHANGED <<active, approvals, trades, refused>>
    BY <2>1 DEF LogExecuted, LogTradeFails
  <2> DEFINE r == [cid |-> mailbox[a][1].cid, ok |-> ok, flag |-> FALSE,
                   basis |-> NoData, setup |-> NoSetupYet, trade |-> 0]
  <2>3. Deliver(a, r)
    BY <2>1, <2>2 DEF Reply
  <2>4. Answers(q, r)
    BY <1>2, <1>0, <1>1, <1>3, <1>12, <2>2 DEF Answers, Replies
  <2>5. Handled(q)
    BY <1>0, <1>1, <1>3, <1>12, <2>2 DEF Handled
  <2> QED BY <2>3, <2>4, <2>5
<1> QED BY <1>1, <1>5, <1>6, <1>7, <1>8, <1>9, <1>10, <1>11, <1>12 DEF Kinds

\* Hears: only the node that sent the request hears its answer.
LEMMA HeardByItsNode ==
    ASSUME NEW s \in States, NEW a \in Agents, NEW q \in Requests, NEW r,
           MessageOk(a, q), r.cid = q.cid, s.node # "idle", Hears(s, a, r)
    PROVE  s.node = q.kind /\ s.cycle = q.cycle /\ s.pc = "wait"
<1>1. /\ s.pc = "wait" /\ Asks[s.node] = Asks[q.kind]
      /\ Correlation(s) = <<IF q.kind \in {"check", "log"} THEN q.kind ELSE "cycle", q.cycle>>
  BY DEF Hears, MessageOk
<1>2. s.cycle = q.cycle
  BY <1>1 DEF Correlation
<1>3. (IF s.node \in {"check", "log"} THEN s.node ELSE "cycle") =
          (IF q.kind \in {"check", "log"} THEN q.kind ELSE "cycle")
  BY <1>1 DEF Correlation
<1>4. s.node \in Kinds /\ q.kind \in Kinds
  BY DEF States, Requests
<1> QED BY <1>1, <1>2, <1>3, <1>4 DEF Kinds, Asks

LEMMA ServeIs ==
    ASSUME PipelineInv, NEW a \in Agents, Serve(a)
    PROVE  \E q \in Requests, r \in Replies :
               /\ q = mailbox[a][1] /\ MessageOk(a, q) /\ mailbox[a] # <<>> /\ Takes(a)
               /\ Handled(q) /\ Answers(q, r) /\ Deliver(a, r) /\ Ready(a)
               /\ UNCHANGED <<pplan, runs, cycles>>
<1>1. AnyPlan /\ PipelineTypes /\ mailbox[a] # <<>> /\ Takes(a) /\ Ready(a)
      /\ HandleMessage(mailbox[a][1]) /\ UNCHANGED <<pplan, runs, cycles>>
  BY DEF PipelineInv, AnyPlan, Serve, Ready
<1>2. 1 \in 1..Len(mailbox[a]) /\ mailbox[a][1] \in Requests
  BY <1>1, TakesIs
<1>3. MessageOk(a, mailbox[a][1])
  BY <1>1, <1>2 DEF AnyPlan, MessagesOk
<1>4. PICK q \in Requests : q = mailbox[a][1]
  BY <1>2
<1>5. Asks[q.kind] = a /\ HandleMessage(q) /\ MessageOk(a, q)
  BY <1>1, <1>3, <1>4 DEF MessageOk
<1>6. Handled(q) /\ \E r : Answers(q, r) /\ Deliver(a, r)
  BY <1>1, <1>4, <1>5, HandlesMessage
<1>7. PICK r : Answers(q, r) /\ Deliver(a, r)
  BY <1>6
<1>8. r \in Replies
  BY <1>7 DEF Answers
<1> QED BY <1>1, <1>4, <1>5, <1>6, <1>7, <1>8

\* Serve, whatever the faults: an answer tells its run what is so, and the
\* one trade an execution opens is of an approved setup of its cycle.
LEMMA ServeKeepsAnyPlan ==
    ASSUME AnyPlan, Programs, NEW a \in Agents, NEW q \in Requests, NEW r \in Replies,
           q = mailbox[a][1], MessageOk(a, q), mailbox[a] # <<>>, Takes(a),
           Handled(q), Answers(q, r), Deliver(a, r), UNCHANGED <<pplan, runs, cycles>>
    PROVE  AnyPlan' /\ Programs'
<1> USE MaxRetriesIsPositive
<1>1. /\ PipelineTypes /\ trades \in Seq(SetupRecords) /\ Len(trades) \in Nat
      /\ active \in 0..1 /\ cycles \in Nat /\ q.setup \in SetupRecords /\ q.cycle \in Nat
      /\ lane \in [Lanes -> States]
  <2>1. PipelineTypes /\ q.setup \in SetupRecords /\ q.cycle \in Nat
    BY DEF AnyPlan, Requests
  <2>2. trades \in Seq(SetupRecords) /\ Len(trades) \in Nat
    BY <2>1 DEF PipelineTypes
  <2>3. active \in 0..1 /\ cycles \in Nat /\ lane \in [Lanes -> States]
    BY <2>1 DEF PipelineTypes
  <2> QED BY <2>1, <2>2, <2>3
<1>2. /\ lane' \in [Lanes -> States]
      /\ \A k \in Lanes :
             \/ lane'[k] = lane[k]
             \/ /\ lane[k].node # "idle" /\ Hears(lane[k], a, r)
                /\ HearsBack(lane[k], lane'[k], r)
  BY <1>1, DeliverIs
<1>3. \A k \in Lanes : /\ lane'[k].node = lane[k].node /\ lane'[k].pc = lane[k].pc
                       /\ lane'[k].cycle = lane[k].cycle /\ lane'[k].attempt = lane[k].attempt
                       /\ lane'[k].setup = lane[k].setup
  BY <1>2 DEF HearsBack
<1>4. /\ trades' \in Seq(SetupRecords) /\ Len(trades') \in Nat /\ Len(trades') >= Len(trades)
      /\ \A i \in 1..Len(trades) : i \in 1..Len(trades') /\ trades'[i] = trades[i]
      /\ \A i \in 1..Len(trades') :
             \/ i \in 1..Len(trades) /\ trades'[i] = trades[i]
             \/ i = Len(trades) + 1 /\ trades'[i] = q.setup /\ q.kind = "execute"
  <2>1. CASE trades' = trades
    BY <1>1, <2>1
  <2>2. CASE trades' = Append(trades, q.setup) /\ q.kind = "execute"
    BY <1>1, <2>2
  <2> QED BY <2>1, <2>2 DEF Handled, Opens
<1>5. PipelineTypes'
  <2>1. logged' \subseteq 1..Len(trades')
    <3>1. \A i \in 1..Len(trades) : i \in 1..Len(trades')
      BY <1>4
    <3>2. CASE q.kind = "log"
      <4>1. q.trade \in 1..Len(trades)
        BY <3>2 DEF MessageOk
      <4> QED BY <1>1, <3>1, <4>1 DEF Handled, PipelineTypes
    <3>3. CASE q.kind # "log"
      BY <1>1, <3>1, <3>3 DEF Handled, PipelineTypes
    <3> QED BY <3>2, <3>3
  <2>2. active' \in 0..1 /\ refused' \in BOOLEAN /\ approvals' \subseteq SetupRecords
    BY <1>1 DEF Handled, Opens
  <2>3. mailbox' \in [Agents -> Seq(Requests)]
    BY TakesIs
  <2> QED BY <1>1, <1>2, <1>4, <2>1, <2>2, <2>3 DEF PipelineTypes
<1>6. ASSUME NEW k \in Lanes PROVE LaneOk(k)'
  <2>1. RunOk(lane[k]) /\ LaneOk(k)
    BY DEF AnyPlan, LaneOk
  <2>2. approvals \subseteq approvals'
    BY DEF Handled
  <2>3. CASE lane'[k] = lane[k]
    <3>1. RunOk(lane[k])'
      BY <1>1, <1>4, <2>1, <2>2, <2>3 DEF RunOk, PipelineTypes, States
    <3>2. lane[k].reply # <<>> => ReplyOk(lane[k], lane[k].reply[1])'
      BY <1>4, <2>1, <2>2, <2>3 DEF LaneOk, ReplyOk
    <3> QED BY <2>1, <2>3, <3>1, <3>2 DEF LaneOk
  <2>4. CASE lane[k].node # "idle" /\ Hears(lane[k], a, r) /\ HearsBack(lane[k], lane'[k], r)
    <3>1. lane[k] \in States /\ lane[k].node = q.kind /\ lane[k].cycle = q.cycle
          /\ lane[k].pc = "wait" /\ Correlation(lane[k]) = r.cid
      BY <1>1, <2>4, HeardByItsNode DEF Answers, Hears
    <3>2. PICK t : t = lane'[k]
      OBVIOUS
    <3>3. /\ t \in States /\ t.reply # <<>> /\ t.reply[1] = r /\ Len(t.reply) = 1
          /\ t.node = q.kind /\ t.pc = "wait" /\ t.cycle = q.cycle
          /\ t.attempt = lane[k].attempt /\ t.candles = lane[k].candles
          /\ t.analysis = lane[k].analysis /\ t.setup = lane[k].setup
          /\ t.trade = lane[k].trade /\ t.approved = lane[k].approved
      BY <2>4, <3>1, <3>2 DEF HearsBack
    <3>4. Correlation(t) = r.cid
      BY <3>1, <3>3 DEF Correlation
    <3>5. RunOk(t)'
      <4>1. lane[k].trade <= Len(trades') /\ lane[k].cycle <= cycles'
        BY <1>1, <1>4, <2>1, <3>1 DEF RunOk, States
      <4> QED BY <2>1, <2>2, <3>1, <3>3, <4>1 DEF RunOk
    <3>6. ReplyOk(t, r)'
      <4>1. r.basis <= t.attempt
        <5>1. q.basis <= lane[k].attempt /\ r.basis <= q.basis
          BY <2>4, <3>1 DEF MessageOk, Answers
        <5>2. q.basis \in Nat /\ r.basis \in Nat /\ lane[k].attempt \in Nat
          BY <3>1 DEF Requests, Replies, States
        <5> QED BY <3>3, <5>1, <5>2
      <4>2. q.kind = "strategy" /\ r.ok =>
                r.setup # NoSetupYet /\ r.setup.cycle = q.cycle /\ r.setup.basis <= MaxRetries
        <5> SUFFICES ASSUME q.kind = "strategy", r.ok
                     PROVE  /\ r.setup # NoSetupYet /\ r.setup.cycle = q.cycle
                            /\ r.setup.basis <= MaxRetries
          OBVIOUS
        <5>1. r.setup = [cycle |-> q.cycle, basis |-> q.basis]
          BY DEF Answers
        <5>2. r.setup.cycle = q.cycle /\ r.setup.basis = q.basis
          BY <5>1
        <5>3. q.cycle >= 1 /\ q.basis <= MaxRetries
          BY <1>1 DEF MessageOk
        <5>4. NoSetupYet.cycle = 0
          BY DEF NoSetupYet
        <5> QED BY <5>2, <5>3, <5>4
      <4>3. q.kind = "risk" /\ r.ok /\ r.flag => lane[k].setup \in approvals'
        BY <3>1 DEF MessageOk, Answers
      <4>4. q.kind = "execute" /\ r.ok => r.trade \in 1..Len(trades')
        <5>1. q.kind = "execute" /\ r.ok =>
                  r.trade = Len(trades') /\ trades' = Append(trades, q.setup)
          BY DEF Answers
        <5>2. trades' = Append(trades, q.setup) => Len(trades') = Len(trades) + 1
          BY <1>1
        <5> QED BY <1>1, <5>1, <5>2
      <4> QED BY <3>3, <4>1, <4>2, <4>3, <4>4 DEF ReplyOk
    <3>7. t.pc # "ask" => t.node # "idle" /\ ~NothingToLog(t)
      BY <2>1, <2>4, <3>1, <3>3 DEF LaneOk, NothingToLog
    <3> QED BY <2>4, <3>1, <3>2, <3>3, <3>4, <3>5, <3>6, <3>7 DEF LaneOk
  <2> QED BY <1>2, <2>3, <2>4
<1>7. LanesApart'
  BY <1>3 DEF AnyPlan, LanesApart
<1>8. \A c : PastExecution(c) => PastExecution(c)'
  BY <1>3 DEF PastExecution
<1>9. q.kind = "execute" =>
          /\ q.setup \in approvals /\ q.setup.cycle = q.cycle /\ q.cycle \in 1..cycles
          /\ PastExecution(q.cycle) /\ \A i \in 1..Len(trades) : trades[i].cycle # q.cycle
  BY DEF MessageOk
<1>10. MessagesOk'
  <2>1. ASSUME NEW b \in Agents, NEW m \in Requests, MessageOk(b, m),
               \E i \in 1..Len(mailbox'[b]) : mailbox'[b][i] = m
        PROVE  MessageOk(b, m)'
    <3>1. m.kind = "execute" => \A i \in 1..Len(trades') : trades'[i].cycle # m.cycle
      <4> SUFFICES ASSUME m.kind = "execute", NEW i \in 1..Len(trades'),
                          trades'[i].cycle = m.cycle
                   PROVE  FALSE
        OBVIOUS
      <4>1. CASE i \in 1..Len(trades) /\ trades'[i] = trades[i]
        BY <2>1, <4>1 DEF MessageOk
      <4>2. CASE i = Len(trades) + 1 /\ trades'[i] = q.setup /\ q.kind = "execute"
        <5>1. m.cycle = q.cycle
          BY <1>9, <4>2
        <5>2. a = "execution" /\ b = "execution"
          BY <2>1, <4>2 DEF MessageOk, Asks
        <5>3. PICK j \in 1..Len(mailbox'["execution"]) : mailbox'["execution"][j] = m
          BY <2>1, <5>2
        <5>4. /\ j \in Nat /\ j + 1 # 1 /\ j + 1 \in 1..Len(mailbox["execution"])
              /\ mailbox["execution"][j + 1] = m /\ 1 \in 1..Len(mailbox["execution"])
              /\ mailbox["execution"][1] = q
          BY <5>2, <5>3, TakesIs
        <5>5. j + 1 = 1
          BY <4>2, <5>1, <5>4 DEF AnyPlan, MessagesOk
        <5> QED BY <5>4, <5>5
      <4> QED BY <1>4, <4>1, <4>2
    <3>2. m.kind = "log" => m.trade \in 1..Len(trades')
      BY <1>4, <2>1 DEF MessageOk
    <3>3. m.kind = "execute" => m.setup \in approvals'
      BY <2>1 DEF MessageOk, Handled
    <3>4. PastExecution(m.cycle) => PastExecution(m.cycle)'
      BY <1>8
    <3> QED BY <1>3, <2>1, <3>1, <3>2, <3>3, <3>4 DEF MessageOk
  <2> QED BY <2>1, TakeKeepsMessages
<1>11. TradesOk'
  <2>1. ASSUME NEW i \in 1..Len(trades')
        PROVE  /\ trades'[i] \in approvals' /\ trades'[i].cycle \in 1..cycles'
               /\ PastExecution(trades'[i].cycle)
    <3>1. approvals \subseteq approvals' /\ cycles' = cycles
      BY DEF Handled
    <3>2. CASE i \in 1..Len(trades) /\ trades'[i] = trades[i]
      BY <3>1, <3>2 DEF AnyPlan, TradesOk
    <3>3. CASE trades'[i] = q.setup /\ q.kind = "execute"
      BY <1>9, <3>1, <3>3
    <3> QED BY <1>4, <3>2, <3>3
  <2>2. \A i \in 1..Len(trades') : \A c : c = trades'[i].cycle => PastExecution(c)'
    BY <1>8, <2>1
  <2>3. (\A i \in 1..Len(trades) : PastExecution(trades[i].cycle))'
    BY <2>2 DEF PastExecution
  <2>4. ASSUME NEW i \in 1..Len(trades'), NEW j \in 1..Len(trades'),
               trades'[i].cycle = trades'[j].cycle
        PROVE  i = j
    <3>1. CASE /\ i \in 1..Len(trades) /\ trades'[i] = trades[i]
               /\ j \in 1..Len(trades) /\ trades'[j] = trades[j]
      BY <2>4, <3>1 DEF AnyPlan, TradesOk, OneExecutionPerCycle
    <3> QED BY <1>4, <1>9, <2>4, <3>1
  <2> QED BY <2>1, <2>3, <2>4 DEF TradesOk, OneExecutionPerCycle
<1>12. Programs'
  BY <1>3 DEF Programs, Daemon
<1> QED BY <1>5, <1>6, <1>7, <1>10, <1>11, <1>12 DEF AnyPlan

\* Serve while waits outlast replies: the answer is of the last attempt.
LEMMA ServeKeepsPunctual ==
    ASSUME AnyPlan, PunctualInv, NEW a \in Agents, NEW q \in Requests, NEW r \in Replies,
           q = mailbox[a][1], MessageOk(a, q), mailbox[a] # <<>>, Takes(a),
           Answers(q, r), Deliver(a, r)
    PROVE  PunctualInv'
<1>1. lane \in [Lanes -> States] /\ PipelineTypes
  BY DEF AnyPlan, PipelineTypes
<1>2. \A k \in Lanes :
          \/ lane'[k] = lane[k]
          \/ /\ lane[k].node # "idle" /\ Hears(lane[k], a, r) /\ HearsBack(lane[k], lane'[k], r)
  BY <1>1, DeliverIs
<1>3. 1 \in 1..Len(mailbox[a]) /\ mailbox[a][1] = q
  BY TakesIs
<1>4. PICK w \in Lanes : Awaits(lane[w], q)
  BY <1>3 DEF PunctualInv, RequestsAwaited
<1>5. /\ lane[w].node = q.kind /\ lane[w].cycle = q.cycle /\ lane[w].node # "idle"
      /\ q = Request(lane[w]) /\ lane[w].reply = <<>>
  BY <1>1, <1>4, AwaitedIsOfLane DEF Awaits
\* Only the run that awaits it hears the answer.
<1>6. ASSUME NEW k \in Lanes, lane'[k] # lane[k]
      PROVE  k = w /\ HearsBack(lane[k], lane'[k], r)
  <2>1. lane[k].node # "idle" /\ Hears(lane[k], a, r) /\ HearsBack(lane[k], lane'[k], r)
    BY <1>2, <1>6
  <2>2. lane[k].cycle = q.cycle
    BY <1>1, <2>1, HeardByItsNode DEF Answers
  <2>3. k = w
    BY <1>5, <2>1, <2>2 DEF AnyPlan, LanesApart
  <2> QED BY <2>1, <2>3
<1>7. RequestsAwaited'
  <2>1. ASSUME NEW k \in Lanes, NEW b \in Agents, NEW i \in 1..Len(mailbox[b]),
               Awaits(lane[k], mailbox[b][i]), ~(b = a /\ i = 1)
        PROVE  Awaits(lane'[k], mailbox[b][i])
    <3>1. CASE lane'[k] = lane[k]
      BY <2>1, <3>1
    <3>2. CASE lane'[k] # lane[k]
      <4>1. mailbox[b][i] = q
        BY <1>5, <1>6, <2>1, <3>2 DEF Awaits
      <4>2. b = a
        BY <4>1 DEF AnyPlan, MessagesOk, MessageOk
      <4>3. i = 1
        BY <1>3, <4>1, <4>2 DEF PunctualInv, RequestsAwaited
      <4> QED BY <2>1, <4>2, <4>3
    <3> QED BY <3>1, <3>2
  <2> QED BY <2>1, TakeKeepsAwaited DEF PunctualInv
<1>8. ASSUME NEW k \in Lanes PROVE RunFresh(lane'[k])
  <2>1. RunFresh(lane[k])
    BY DEF PunctualInv
  <2>2. CASE lane'[k] = lane[k]
    BY <2>1, <2>2
  <2>3. CASE lane'[k] # lane[k]
    <3>1. k = w
      BY <1>6, <2>3
    <3>2. PICK t : t = lane'[k]
      OBVIOUS
    <3>3. /\ t.reply # <<>> /\ t.reply[1] = r /\ t.node = q.kind
          /\ t.attempt = lane[w].attempt /\ t.candles = lane[w].candles
          /\ t.analysis = lane[w].analysis /\ t.setup = lane[w].setup
      BY <1>5, <1>6, <2>3, <3>1, <3>2 DEF HearsBack
    <3>4. /\ q.kind = "data" => q.basis = lane[w].attempt
          /\ q.kind = "analysis" => q.basis = lane[w].candles
          /\ q.kind = "strategy" => q.basis = lane[w].analysis
      BY <1>1, <1>5, RequestIs
    <3>5. /\ q.kind = "data" => r.basis = q.basis
          /\ q.kind = "analysis" => r.basis = q.basis
          /\ q.kind = "strategy" /\ r.ok => r.setup.basis = q.basis
      BY DEF Answers
    <3> QED BY <1>5, <2>1, <3>1, <3>2, <3>3, <3>4, <3>5 DEF RunFresh
  <2> QED BY <2>2, <2>3
<1> QED BY <1>7, <1>8 DEF PunctualInv, RunFresh

\* Serve while every message arrives: the sender hears, no trade is refused,
\* and the position that opens is one its run knows of.
LEMMA ServeKeepsReliable ==
    ASSUME AnyPlan, Programs, Reliable, PunctualInv, ReliableInv,
           NEW a \in Agents, NEW q \in Requests, NEW r \in Replies,
           q = mailbox[a][1], MessageOk(a, q), mailbox[a] # <<>>, Takes(a), Ready(a),
           Handled(q), Answers(q, r), Deliver(a, r), UNCHANGED <<pplan, runs, cycles>>
    PROVE  ReliableInv'
<1> USE MaxRetriesIsPositive
<1>1. lane \in [Lanes -> States] /\ PipelineTypes /\ active \in 0..1
  BY DEF AnyPlan, PipelineTypes
<1>2. "bus_down" \notin pplan /\ "fast_reply" \notin pplan
  BY PlansAndFaults
<1>3. /\ lane' \in [Lanes -> States]
      /\ \A k \in Lanes :
             \/ lane'[k] = lane[k]
             \/ /\ lane[k].node # "idle" /\ Hears(lane[k], a, r) /\ HearsBack(lane[k], lane'[k], r)
      /\ \A k \in Lanes : lane[k].node # "idle" /\ Hears(lane[k], a, r) =>
                               HearsBack(lane[k], lane'[k], r)
  BY <1>1, <1>2, DeliverIs
<1>4. 1 \in 1..Len(mailbox[a]) /\ mailbox[a][1] = q
  BY TakesIs
\* Whoever awaits the request hears the answer.
<1>5. ASSUME NEW k \in Lanes, Awaits(lane[k], q)
      PROVE  HearsBack(lane[k], lane'[k], r)
  <2>1. /\ lane[k].node = q.kind /\ q.cid = Correlation(lane[k]) /\ lane[k].node # "idle"
        /\ lane[k].pc # "ask"
    BY <1>1, <1>5, AwaitedIsOfLane
  <2>2. Asks[lane[k].node] = a
    BY <2>1 DEF MessageOk
  <2>3. lane[k].pc # "sent"
    BY <1>2, <2>1, <2>2 DEF Ready
  <2>4. lane[k].pc = "wait"
    BY <1>1, <2>1, <2>3 DEF States
  <2> QED BY <1>3, <2>1, <2>2, <2>4 DEF Hears, Answers
<1>6. ASSUME NEW k \in Lanes PROVE Answerable(lane[k])'
  <2> SUFFICES ASSUME lane'[k].node # "idle", lane'[k].pc # "ask", lane'[k].reply = <<>>
               PROVE  \E i \in 1..Len(mailbox'[Asks[lane'[k].node]]) :
                          mailbox'[Asks[lane'[k].node]][i] = Request(lane'[k])
    BY DEF Answerable
  <2>1. lane'[k] = lane[k]
    BY <1>3 DEF HearsBack
  <2>2. PICK b : b = Asks[lane[k].node]
    OBVIOUS
  <2>3. PICK i \in 1..Len(mailbox[b]) : mailbox[b][i] = Request(lane[k])
    BY <2>1, <2>2 DEF ReliableInv, Answerable
  <2>4. b \in Agents
    BY <1>1, <2>1, <2>2 DEF States, Kinds, Asks, Agents
  <2>5. CASE b = a /\ i = 1
    <3>1. Awaits(lane[k], q)
      BY <1>4, <2>1, <2>3, <2>5 DEF Awaits
    <3> QED BY <1>5, <2>1, <3>1 DEF HearsBack
  <2>6. CASE b = a /\ i # 1
    BY <2>1, <2>2, <2>3, <2>6, TakesIs
  <2>7. CASE b # a
    BY <2>1, <2>2, <2>3, <2>4, <2>7, TakesIs
  <2> QED BY <2>5, <2>6, <2>7
<1>7. PICK w \in Lanes : Awaits(lane[w], q)
  BY <1>4 DEF PunctualInv, RequestsAwaited
<1>8. lane[w].node = q.kind /\ lane[w].reply = <<>> /\ lane[w].node # "idle"
  BY <1>1, <1>7, AwaitedIsOfLane
<1>9. q.kind = "execute" => active = 0 /\ w = LiveLane /\ ~Daemon
  <2> SUFFICES ASSUME q.kind = "execute" PROVE active = 0 /\ w = LiveLane /\ ~Daemon
    OBVIOUS
  <2>1. w = LiveLane /\ ~Daemon
    BY <1>8 DEF Programs
  <2>2. PositionSeen(lane[w])
    BY <2>1 DEF ReliableInv
  <2>3. ~(active > 0)
    BY <1>8, <2>2 DEF PositionSeen
  <2> QED BY <1>1, <2>1, <2>3
<1>10. ~refused'
  BY <1>9 DEF Handled, ReliableInv
<1>11. ~Daemon => PositionSeen(lane[LiveLane])'
  <2> SUFFICES ASSUME ~Daemon PROVE PositionSeen(lane[LiveLane])'
    OBVIOUS
  <2>1. PositionSeen(lane[LiveLane])
    BY DEF ReliableInv
  <2>2. PICK s : s = lane[LiveLane]
    OBVIOUS
  <2>3. PICK t : t = lane'[LiveLane]
    OBVIOUS
  <2>4. s \in States /\ PositionSeen(s) /\ t.node = s.node /\ (s.reply # <<>> => t.reply # <<>>)
    BY <1>1, <1>3, <2>1, <2>2, <2>3 DEF HearsBack
  <2>5. CASE Opens(q)
    <3>1. HearsBack(s, t, r) /\ s.node = "execute"
      BY <1>5, <1>7, <1>8, <1>9, <2>2, <2>3, <2>5 DEF Opens
    <3>2. t.node = "execute" /\ t.reply # <<>>
      BY <3>1 DEF HearsBack
    <3> QED BY <2>3, <3>2 DEF PositionSeen
  <2>6. CASE active' = active
    <3>1. active' > 0 /\ t.node # "idle" =>
              t.node \in {"check", "log"} \/ (t.node = "execute" /\ t.reply # <<>>)
      BY <2>4, <2>6 DEF PositionSeen
    <3>2. t.node = "check" /\ t.reply # <<>> =>
              t.reply[1].ok /\ (~t.reply[1].flag => active' = 0)
      <4>1. CASE t = s
        BY <2>4, <2>6, <4>1 DEF PositionSeen
      <4>2. CASE t # s
        <5>1. s.node # "idle" /\ Hears(s, a, r) /\ HearsBack(s, t, r)
          BY <1>3, <2>2, <2>3, <4>2
        <5>2. s.node = q.kind /\ t.reply[1] = r
          BY <2>4, <5>1, HeardByItsNode DEF Answers, HearsBack
        <5>3. q.kind = "check" => r.ok /\ (~r.flag => active = 0)
          BY <1>1 DEF Answers
        <5> QED BY <2>4, <2>6, <5>2, <5>3
      <4> QED BY <4>1, <4>2
    <3> QED BY <2>3, <3>1, <3>2 DEF PositionSeen
  <2> QED BY <2>5, <2>6 DEF Handled
<1> QED BY <1>6, <1>10, <1>11 DEF ReliableInv, Daemon

LEMMA ServeKeepsInv ==
    ASSUME PipelineInv, NEW a \in Agents, Serve(a)
    PROVE  PipelineInv'
<1>1. PICK q \in Requests, r \in Replies :
          /\ q = mailbox[a][1] /\ MessageOk(a, q) /\ mailbox[a] # <<>> /\ Takes(a)
          /\ Handled(q) /\ Answers(q, r) /\ Deliver(a, r) /\ Ready(a)
          /\ UNCHANGED <<pplan, runs, cycles>>
  BY ServeIs
<1>2. AnyPlan /\ Programs
  BY DEF PipelineInv
<1>3. AnyPlan' /\ Programs'
  BY <1>1, <1>2, ServeKeepsAnyPlan
<1>4. Punctual => PunctualInv'
  BY <1>1, <1>2, ServeKeepsPunctual DEF PipelineInv
<1>5. Reliable => ReliableInv'
  BY <1>1, <1>2, ServeKeepsReliable, PlansAndFaults DEF PipelineInv
<1>6. (Punctual' <=> Punctual) /\ (Reliable' <=> Reliable)
  BY <1>1 DEF Punctual, Reliable, PipelineSpared
<1> QED BY <1>3, <1>4, <1>5, <1>6 DEF PipelineInv

-----------------------------------------------------------------------------
(* The theorems about the workflow.                                        *)

LEMMA InitSetsPipelineInv == PipelineInit => PipelineInv
<1> SUFFICES ASSUME PipelineInit PROVE PipelineInv
  OBVIOUS
<1> USE MaxRetriesIsPositive
<1>1. PICK s : s = InitialState
  OBVIOUS
<1>2. /\ s \in States /\ s.node = "idle" /\ s.pc = "ask" /\ s.cycle = 0 /\ s.attempt = 1
      /\ s.candles = 0 /\ s.analysis = 0 /\ s.setup = NoSetupYet /\ s.trade = 0
      /\ s.reply = <<>> /\ Len(s.reply) = 0
  BY <1>1, InitialStateTyped DEF InitialState, NoData
<1>3. \A l \in Lanes : lane[l] = s
  BY <1>1 DEF PipelineInit
<1>4. trades = <<>> /\ Len(trades) = 0 /\ \A a \in Agents : mailbox[a] = <<>> /\ Len(mailbox[a]) = 0
  BY DEF PipelineInit
<1>5. PipelineTypes
  <2>1. lane \in [Lanes -> States]
    BY <1>1, <1>2 DEF PipelineInit
  <2>2. PICK empty : empty = <<>>
    OBVIOUS
  <2>3. empty \in Seq(Requests) /\ empty \in Seq(SetupRecords)
    BY <2>2
  <2>4. mailbox = [a \in Agents |-> empty] /\ trades = empty
    BY <2>2 DEF PipelineInit
  <2>5. mailbox \in [Agents -> Seq(Requests)] /\ trades \in Seq(SetupRecords)
    BY <2>3, <2>4
  <2>6. runs = 0 /\ cycles = runs /\ runs <= MaxRuns /\ runs \in Nat
    BY PipelineAssumption DEF PipelineInit
  <2>7. pplan \in PipelinePlans /\ approvals \subseteq SetupRecords /\ logged \subseteq 1..Len(trades)
    BY Zenon DEF PipelineInit
  <2>8. active \in 0..1
    BY DEF PipelineInit
  <2>9. refused \in BOOLEAN
    BY Zenon DEF PipelineInit
  <2> QED BY <2>1, <2>5, <2>6, <2>7, <2>8, <2>9 DEF PipelineTypes
<1>6. \A l \in Lanes : LaneOk(l)
  BY <1>2, <1>3, <1>4 DEF LaneOk, RunOk, PipelineInit
<1>7. LanesApart /\ Programs
  BY <1>2, <1>3 DEF LanesApart, Programs
<1>8. MessagesOk /\ TradesOk
  BY <1>4 DEF MessagesOk, TradesOk, OneExecutionPerCycle, Agents
<1>9. PunctualInv
  BY <1>2, <1>3, <1>4 DEF PunctualInv, RequestsAwaited, RunFresh
<1>10. ReliableInv
  BY <1>2, <1>3 DEF ReliableInv, Answerable, PositionSeen, PipelineInit
<1> QED BY <1>5, <1>6, <1>7, <1>8, <1>9, <1>10 DEF PipelineInv, AnyPlan

LEMMA NextKeepsPipelineInv == PipelineInv /\ [PipelineNext]_pvars => PipelineInv'
<1> SUFFICES ASSUME PipelineInv, [PipelineNext]_pvars PROVE PipelineInv'
  OBVIOUS
<1>1. CASE UNCHANGED pvars
  BY <1>1 DEF pvars, PipelineInv, AnyPlan, PipelineTypes, LaneOk, RunOk, ReplyOk, LanesApart,
     MessagesOk, MessageOk, PastExecution, TradesOk, OneExecutionPerCycle, Programs, Daemon,
     Punctual, PunctualInv, RequestsAwaited, Awaits, RunFresh,
     Reliable, ReliableInv, Answerable, PositionSeen, PipelineSpared
<1>2. ASSUME NEW l \in Lanes,
             \/ RunCycle(l) \/ RunAnalysisCycle(l) \/ Publish(l) \/ PublishRaises(l)
             \/ SkipLog(l) \/ Subscribe(l) \/ SubscribeRaises(l)
             \/ Hear(l) \/ WaitTimesOut(l)
      PROVE  PipelineInv'
  BY <1>2, RunCycleKeepsInv, PublishKeepsInv, PublishRaisesKeepsInv, SkipLogKeepsInv,
     SubscribeKeepsInv, SubscribeRaisesKeepsInv, HearKeepsInv, WaitTimesOutKeepsInv
<1>3. ASSUME NEW a \in Agents, Serve(a) \/ ServeRaises(a) PROVE PipelineInv'
  BY <1>3, ServeKeepsInv, ServeRaisesKeepsInv
<1> QED BY <1>1, <1>2, <1>3, PositionClosesKeepsInv DEF PipelineNext

\* The parts of the invariant say what the property does.
LEMMA InvGivesExecuted == PipelineInv => ExecutedAsApproved
<1> SUFFICES ASSUME PipelineInv PROVE ExecutedAsApproved
  OBVIOUS
<1>1. AnyPlan
  BY DEF PipelineInv
<1>2. ExecutedWasApproved /\ OneExecutionPerCycle
  BY <1>1 DEF AnyPlan, TradesOk, ExecutedWasApproved
<1>3. SetupOfThisCycle
  BY <1>1 DEF AnyPlan, LaneOk, RunOk, SetupOfThisCycle
<1>4. BasisIsFresh
  BY DEF PipelineInv, Punctual, PunctualInv, RunFresh, BasisIsFresh
<1>5. NeverRefused
  BY DEF PipelineInv, Reliable, ReliableInv, NeverRefused
<1> QED BY <1>2, <1>3, <1>4, <1>5 DEF ExecutedAsApproved

\* ExecutedAsApproved (orchestrator.py, execution_agent.py): for any number
\* of lanes, cycles and retries and under every plan of faults, the execution
\* agent opens only what the risk agent approved, once a cycle, of this
\* cycle's setup; on the last attempt's candles when no reply is late, and
\* never against an open position when no message is lost.
THEOREM ExecutesAsApproved == PipelineSpec => []ExecutedAsApproved
<1>1. PipelineSpec => []PipelineInv
  BY InitSetsPipelineInv, NextKeepsPipelineInv, PTL DEF PipelineSpec
<1> QED BY <1>1, InvGivesExecuted, PTL

(***************************************************************************)
(* The model chains: AnswersAreRight.                                      *)
(***************************************************************************)

\* An answer is of a symbol and of the candle its context was built from.
Candles == [symbol : Symbols, view : Nat]

JobPcs == {"history", "asking", "lookup", "call", "track", "tracked", "store",
           "synthesize", "done"}
Heards == Symbols \cup {Nothing, "empty", "error", "reply", "unreadable"}
Verdicts == {Nothing, "analysis", "fallback", "setup", "no_setup", "approve", "reject",
             "resize", "as_computed"}
Jobs == [pc : JobPcs, symbol : Symbols, view : Nat, trades : Symbols \cup {Nothing},
         heard : Heards, calls : Nat, tries : Nat, seen : Nat,
         answer : Candles \cup {NoAnswer}, age : Int, verdict : Verdicts]

HistoryRows == [of : Symbols \cup {Nothing}, until : Nat]
Costs == [tracked : Nat, billed : Nat, unread : Nat]

ChainTypes ==
    /\ market \in [Symbols -> Nat] /\ clock \in Nat
    /\ job \in [ChainAgents -> Jobs \cup {IdleJob}]
    /\ history \in [Symbols -> HistoryRows]
    /\ memory \in Seq(Symbols)
    /\ cost \in Costs

\* What is cached under a key is an answer of that symbol and candle, and
\* counts as made when it was.
Cached(k, row) ==
    /\ row \in [answer : Candles, at : Nat, made : Nat]
    /\ row.at = row.made /\ row.made <= clock
    /\ k = <<row.answer.symbol, Bucket(row.answer.view)>>

CacheIsSound ==
    /\ IsFiniteSet(DOMAIN answers) /\ Cardinality(DOMAIN answers) <= MaxAnswers
    /\ \A k \in DOMAIN answers : Cached(k, answers[k])

\* A request on its way: only an analysis has a history and a cache; from the
\* call on it has an answer, of its own candle.
JobFits(a, j) ==
    j # IdleJob =>
      /\ j.pc \in {"history", "asking", "lookup", "track", "tracked", "store", "synthesize"}
           => a = "analysis"
      /\ j.pc \in {"track", "tracked", "store", "synthesize"} => j.answer # NoAnswer
      /\ j.answer # NoAnswer => /\ j.answer.symbol = j.symbol
                                /\ Bucket(j.answer.view) = Bucket(j.view)
      /\ j.age < AnswerTtl
      /\ a # "advice" => j.calls <= Len(ChainOf(a))
      /\ j.verdict = "fallback" =>
           /\ a = "analysis" /\ j.pc = "done"
           /\ j.answer = NoAnswer => j.calls = Len(AnalysisChain)

\* What an analysis has paid for and not yet tracked.
Owed(j, c) ==
    IF j.pc = "track" THEN j.seen ELSE IF j.pc = "tracked" THEN j.seen - c.tracked ELSE 0

Settles(j, c) ==
    /\ Owed(j, c) >= 0
    /\ c.tracked + c.unread + Owed(j, c) <= c.billed
    /\ "redis" \notin setup => c.tracked + c.unread + Owed(j, c) = c.billed

ChainInv ==
    /\ ChainTypes /\ CacheIsSound
    /\ \A a \in ChainAgents : JobFits(a, job[a])
    /\ Settles(job["analysis"], cost)

LEMMA ChainNumbers ==
    /\ Models \in Nat /\ AnswerTtl \in Nat /\ AnswerTtl > 0 /\ HistoryTtl \in Nat
    /\ MaxAnswers \in Nat /\ MaxAnswers > 0 /\ Nothing \notin Symbols
BY ChainAssumption DEF Nothing

Providers == {"anthropic", "openrouter", "groq", "openai"}

\* Sequences of calls, joined.
LEMMA CallsJoin ==
    ASSUME NEW S, NEW s \in Seq(S), NEW t \in Seq(S)
    PROVE  s \o t \in Seq(S) /\ Len(s \o t) = Len(s) + Len(t)
OBVIOUS

\* No call.
LEMMA NoCalls ==
    ASSUME NEW S
    PROVE  <<>> \in Seq(S) /\ Len(<<>>) = 0
OBVIOUS

\* CallsTo, FirstChoice, Backups: at most one call and two after it.
LEMMA ChainLengths ==
    /\ Len(FirstChoice) \in 0..1 /\ Len(Backups) \in 0..2
    /\ AnalysisChain \in Seq(Providers)
    /\ Len(AnalysisChain) = 3 * Len(FirstChoice) + 2 * Len(Backups)
    /\ CreatorChain \in Seq(Providers)
    /\ \A i \in 1..Len(CreatorChain) : CreatorChain[i] # "anthropic"
<1>1. /\ "anthropic" \in Providers /\ "openrouter" \in Providers /\ "groq" \in Providers
      /\ "openai" \in Providers
  BY DEF Providers
<1>3. PICK one, two, three, four :
        /\ one = CallsTo("anthropic") /\ two = CallsTo("openrouter")
        /\ three = CallsTo("groq") /\ four = CallsTo("openai")
  OBVIOUS
<1>4. one \in Seq(Providers) /\ Len(one) \in 0..1
  BY <1>1, <1>3 DEF CallsTo
<1>5. two \in Seq(Providers) /\ Len(two) \in 0..1
  BY <1>1, <1>3 DEF CallsTo
<1>6. three \in Seq(Providers) /\ Len(three) \in 0..1
  BY <1>1, <1>3 DEF CallsTo
<1>7. four \in Seq(Providers) /\ Len(four) \in 0..1
  BY <1>1, <1>3 DEF CallsTo
<1>8. FirstChoice \in Seq(Providers) /\ Len(FirstChoice) \in 0..1
  <2>1. PICK configured \in Seq(Providers) : configured = one \o two \o three
    <3>1. one \o two \in Seq(Providers)
      BY <1>4, <1>5, CallsJoin
    <3>2. PICK pair \in Seq(Providers) : pair = one \o two
      BY <3>1
    <3>3. pair \o three \in Seq(Providers)
      BY <3>2, <1>6, CallsJoin
    <3> QED BY <3>2, <3>3
  <2>2. FirstChoice = IF configured = <<>> THEN <<>> ELSE <<configured[1]>>
    BY <1>3, <2>1 DEF FirstChoice
  <2>3. CASE configured = <<>>
    BY <2>2, <2>3
  <2>4. CASE configured # <<>>
    <3>1. PICK p \in Providers : p = configured[1]
      BY <2>1, <2>4
    <3>2. FirstChoice = <<p>>
      BY <2>2, <2>4, <3>1
    <3> QED BY <3>1, <3>2
  <2> QED BY <2>3, <2>4
<1>9. Backups \in Seq(Providers) /\ Len(Backups) \in 0..2
  <2>1. PICK left, right :
          /\ left = (IF Keyed("openrouter") THEN CallsTo("anthropic") ELSE <<>>)
          /\ right = (IF FirstChoice \in {<<"anthropic">>, <<"openrouter">>}
                      THEN CallsTo("groq") ELSE <<>>)
    OBVIOUS
  <2>2. left = one \/ left = <<>>
    BY <1>3, <2>1
  <2>3. right = three \/ right = <<>>
    BY <1>3, <2>1
  <2>4. left \in Seq(Providers) /\ Len(left) \in 0..1
    <3>1. CASE left = one
      BY <3>1, <1>4
    <3>2. CASE left = <<>>
      BY <3>2, NoCalls
    <3> QED BY <3>1, <3>2, <2>2
  <2>5. right \in Seq(Providers) /\ Len(right) \in 0..1
    <3>1. CASE right = three
      BY <3>1, <1>6
    <3>2. CASE right = <<>>
      BY <3>2, NoCalls
    <3> QED BY <3>1, <3>2, <2>3
  <2>6. Backups = left \o right
    BY <2>1 DEF Backups
  <2> QED BY <2>4, <2>5, <2>6
<1>10. AnalysisChain \in Seq(Providers) /\ Len(AnalysisChain) = 3 * Len(FirstChoice) + 2 * Len(Backups)
  BY <1>8, <1>9 DEF AnalysisChain
<1>11. CreatorChain \in Seq(Providers)
  BY <1>3, <1>5, <1>6, <1>7 DEF CreatorChain
<1>12. \A i \in 1..Len(CreatorChain) : CreatorChain[i] # "anthropic"
  <2>1. PICK others : others = Providers \ {"anthropic"}
    OBVIOUS
  <2>2. "openrouter" \in others /\ "groq" \in others /\ "openai" \in others
    BY <2>1 DEF Providers
  <2>3. two \in Seq(others)
    BY <1>3, <2>2 DEF CallsTo
  <2>4. three \in Seq(others)
    BY <1>3, <2>2 DEF CallsTo
  <2>5. four \in Seq(others)
    BY <1>3, <2>2 DEF CallsTo
  <2>6. CreatorChain \in Seq(others)
    BY <1>3, <2>3, <2>4, <2>5 DEF CreatorChain
  <2>7. \A i \in 1..Len(CreatorChain) : CreatorChain[i] \in others
    BY <2>6
  <2> QED BY <2>1, <2>7
<1> QED BY <1>8, <1>9, <1>10, <1>11, <1>12

\* The chains are those of the plan.
LEMMA ChainsStay ==
    ASSUME setup' = setup
    PROVE  AnalysisChain' = AnalysisChain /\ CreatorChain' = CreatorChain
<1>1. /\ CallsTo("anthropic")' = CallsTo("anthropic") /\ CallsTo("openrouter")' = CallsTo("openrouter")
      /\ CallsTo("groq")' = CallsTo("groq") /\ CallsTo("openai")' = CallsTo("openai")
      /\ Keyed("openrouter")' = Keyed("openrouter")
  BY DEF CallsTo, Keyed
<1>2. FirstChoice' = FirstChoice /\ CreatorChain' = CreatorChain
  BY <1>1 DEF FirstChoice, CreatorChain
<1>3. Backups' = Backups
  BY <1>1, <1>2 DEF Backups
<1> QED BY <1>2, <1>3 DEF AnalysisChain

\* A request that fits the plan still does.
LEMMA FitsStays ==
    ASSUME setup' = setup, NEW a \in ChainAgents, NEW j, j = job'[a], JobFits(a, j)
    PROVE  JobFits(a, job[a])'
<1>1. ChainOf(a)' = ChainOf(a) /\ AnalysisChain' = AnalysisChain
  BY ChainsStay DEF ChainOf
<1> QED BY <1>1 DEF JobFits

\* One agent's request goes on to j.
LEMMA JobGoesOn ==
    ASSUME ChainTypes, \A b \in ChainAgents : JobFits(b, job[b]), setup' = setup,
           NEW a \in ChainAgents, NEW j \in Jobs \cup {IdleJob}, JobFits(a, j),
           job' = [job EXCEPT ![a] = j]
    PROVE  /\ job' \in [ChainAgents -> Jobs \cup {IdleJob}]
           /\ \A b \in ChainAgents : JobFits(b, job[b])'
           /\ job'[a] = j
           /\ a # "analysis" => job'["analysis"] = job["analysis"]
<1>1. /\ job' \in [ChainAgents -> Jobs \cup {IdleJob}] /\ job'[a] = j
      /\ \A b \in ChainAgents : b # a => job'[b] = job[b]
  BY DEF ChainTypes
<1>2. ASSUME NEW b \in ChainAgents PROVE JobFits(b, job[b])'
  <2>1. PICK i : i = job'[b] /\ JobFits(b, i)
    BY <1>1
  <2> QED BY <2>1, FitsStays
<1> QED BY <1>1, <1>2 DEF ChainAgents

\* A step of one agent, by what it leaves in cache and cost.
LEMMA OnlyStores ==
    ASSUME ChainInv, NEW a \in ChainAgents, NEW j \in Jobs \cup {IdleJob}, JobFits(a, j),
           job' = [job EXCEPT ![a] = j],
           memory' \in Seq(Symbols), history' \in [Symbols -> HistoryRows],
           CacheIsSound', cost' = cost, Owed(j, cost) = Owed(job[a], cost),
           UNCHANGED <<setup, market, clock>>
    PROVE  ChainInv'
<1>1. /\ job' \in [ChainAgents -> Jobs \cup {IdleJob}]
      /\ \A b \in ChainAgents : JobFits(b, job[b])'
      /\ job'[a] = j
      /\ a # "analysis" => job'["analysis"] = job["analysis"]
  BY JobGoesOn DEF ChainInv
<1>2. ChainTypes'
  BY <1>1 DEF ChainInv, ChainTypes
<1>3. Settles(job["analysis"], cost)'
  <2>1. PICK i, k : i = job["analysis"] /\ k = job'["analysis"]
    OBVIOUS
  <2>2. Owed(k, cost) = Owed(i, cost) /\ Settles(i, cost)
    BY <1>1, <2>1 DEF ChainInv
  <2>3. Settles(k, cost)
    BY <2>2 DEF Settles
  <2> QED BY <2>1, <2>3 DEF Settles, Owed
<1> QED BY <1>1, <1>2, <1>3 DEF ChainInv

\* A step of one agent that leaves cache and cost as they are.
LEMMA OnlyJob ==
    ASSUME ChainInv, NEW a \in ChainAgents, NEW j \in Jobs \cup {IdleJob}, JobFits(a, j),
           job' = [job EXCEPT ![a] = j],
           memory' \in Seq(Symbols), history' \in [Symbols -> HistoryRows],
           Owed(j, cost) = Owed(job[a], cost),
           UNCHANGED <<setup, market, clock, answers, cost>>
    PROVE  ChainInv'
<1>1. CacheIsSound'
  BY DEF ChainInv, CacheIsSound, Cached
<1> QED BY <1>1, OnlyStores

\* A request under way.
LEMMA UnderWay ==
    ASSUME ChainInv, NEW a \in ChainAgents, job[a].pc # "idle"
    PROVE  job[a] \in Jobs /\ job[a] # IdleJob /\ JobFits(a, job[a])
BY DEF ChainInv, ChainTypes, IdleJob

\* Begin
LEMMA BeginFits ==
    ASSUME ChainInv, NEW a \in ChainAgents, NEW sym \in Symbols, Begin(a, sym)
    PROVE  ChainInv'
<1>1. PICK j : j = [pc |-> IF a = "analysis" THEN "history" ELSE "call",
                    symbol |-> sym, view |-> market[sym], trades |-> Nothing, heard |-> Nothing,
                    calls |-> 0, tries |-> 0, seen |-> 0, answer |-> NoAnswer, age |-> 0,
                    verdict |-> Nothing]
  OBVIOUS
<1>2. j \in Jobs
  <2>1. market[sym] \in Nat
    BY DEF ChainInv, ChainTypes
  <2>2. Nothing \in Heards /\ Nothing \in Verdicts
    BY DEF Heards, Verdicts
  <2> QED BY <1>1, <2>1, <2>2 DEF Jobs, JobPcs
<1>3. JobFits(a, j)
  <2>1. a # "advice" => 0 <= Len(ChainOf(a))
    BY ChainLengths DEF ChainOf, ChainAgents
  <2> QED BY <1>1, <2>1, ChainNumbers DEF JobFits, Nothing
<1>4. Owed(j, cost) = Owed(job[a], cost)
  BY <1>1 DEF Begin, Owed, IdleJob
<1> QED BY <1>1, <1>2, <1>3, <1>4, OnlyJob DEF Begin, ChainInv, ChainTypes

\* _get_historical_trades: what is asked, heard or waited for in vain.
LEMMA HistoryCachedFits ==
    ASSUME ChainInv, NEW a \in ChainAgents, HistoryCached(a)
    PROVE  ChainInv'
<1>1. job[a].pc = "history" /\ job[a] \in Jobs /\ job[a] # IdleJob /\ JobFits(a, job[a])
  BY UnderWay DEF HistoryCached
<1>2. PICK row : row = history[job[a].symbol]
  OBVIOUS
<1>3. row \in HistoryRows
  BY <1>1, <1>2 DEF ChainInv, ChainTypes, Jobs
<1>4. CASE row.of # Nothing /\ clock < row.until
  <2>1. PICK j : j = [job[a] EXCEPT !.pc = "lookup", !.trades = row.of]
    OBVIOUS
  <2>2. j \in Jobs
    BY <1>1, <1>3, <2>1 DEF Jobs, JobPcs, HistoryRows
  <2>3. JobFits(a, j) /\ Owed(j, cost) = Owed(job[a], cost)
    BY <1>1, <2>1 DEF JobFits, Jobs, Owed
  <2>4. job' = [job EXCEPT ![a] = j] /\ memory' = memory
    <3>1. clock \in Nat /\ row.until \in Nat
      BY <1>3 DEF ChainInv, ChainTypes, HistoryRows
    <3>2. \/ /\ row.of # Nothing /\ clock < row.until
             /\ job' = [job EXCEPT ![a].pc = "lookup", ![a].trades = row.of]
             /\ UNCHANGED memory
          \/ row.of = Nothing \/ clock >= row.until
      BY <1>2 DEF HistoryCached
    <3>3. memory' = memory /\ job' = [job EXCEPT ![a].pc = "lookup", ![a].trades = row.of]
      BY <1>4, <3>1, <3>2
    <3>4. job \in [ChainAgents -> Jobs \cup {IdleJob}]
      BY DEF ChainInv, ChainTypes
    <3>5. job' = [job EXCEPT ![a] = j]
      BY <2>1, <3>3, <3>4
    <3> QED BY <3>3, <3>5
  <2> QED BY <2>2, <2>3, <2>4, OnlyJob DEF HistoryCached, ChainInv, ChainTypes
<1>5. CASE ~(row.of # Nothing /\ clock < row.until)
  <2>1. PICK j : j = [job[a] EXCEPT !.pc = "asking"]
    OBVIOUS
  <2>2. j \in Jobs
    BY <1>1, <2>1 DEF Jobs, JobPcs
  <2>3. JobFits(a, j) /\ Owed(j, cost) = Owed(job[a], cost)
    BY <1>1, <2>1 DEF JobFits, Jobs, Owed
  <2>4. job' = [job EXCEPT ![a] = j] /\ memory' = Append(memory, job[a].symbol)
    <3>1. clock \in Nat /\ row.until \in Nat
      BY <1>3 DEF ChainInv, ChainTypes, HistoryRows
    <3> QED BY <1>2, <1>5, <2>1, <3>1 DEF HistoryCached, GoOn
  <2>5. memory' \in Seq(Symbols)
    BY <1>1, <2>4 DEF ChainInv, ChainTypes, Jobs
  <2> QED BY <2>2, <2>3, <2>4, <2>5, OnlyJob DEF HistoryCached, ChainInv, ChainTypes
<1> QED BY <1>4, <1>5

\* The memory agent's answer is heard by all that ask.
LEMMA MemoryRepliesFits ==
    ASSUME ChainInv, MemoryReplies
    PROVE  ChainInv'
<1>1. PICK reply \in {Head(memory)} \cup {"empty"} \cup {"error" : f \in setup \cap {"memory"}} :
        job' = [a \in ChainAgents |-> IF job[a].pc = "asking"
                                      THEN [job[a] EXCEPT !.heard = reply] ELSE job[a]]
  BY DEF MemoryReplies
<1>2. reply \in Symbols \cup {"empty", "error"}
  BY <1>1 DEF MemoryReplies, ChainInv, ChainTypes
<1>3. ASSUME NEW a \in ChainAgents
      PROVE  /\ job'[a] \in Jobs \cup {IdleJob} /\ JobFits(a, job[a])'
             /\ Owed(job'[a], cost) = Owed(job[a], cost)
  <2>1. CASE job[a].pc = "asking"
    <3>1. job[a] \in Jobs /\ job[a] # IdleJob /\ JobFits(a, job[a])
      BY <2>1, UnderWay
    <3>2. PICK j : j = [job[a] EXCEPT !.heard = reply]
      OBVIOUS
    <3>3. j \in Jobs
      BY <1>2, <3>1, <3>2 DEF Jobs, Heards
    <3>4. JobFits(a, j) /\ Owed(j, cost) = Owed(job[a], cost)
      BY <3>1, <3>2 DEF JobFits, Jobs, Owed, IdleJob
    <3>5. j = job'[a]
      BY <1>1, <2>1, <3>2
    <3>6. setup' = setup
      BY DEF MemoryReplies
    <3>7. JobFits(a, job[a])'
      BY <3>4, <3>5, <3>6, FitsStays
    <3> QED BY <3>3, <3>4, <3>5, <3>7
  <2>2. CASE job[a].pc # "asking"
    <3>1. job'[a] = job[a]
      BY <1>1, <2>2
    <3>2. PICK j : j = job[a]
      OBVIOUS
    <3>3. JobFits(a, j) /\ j \in Jobs \cup {IdleJob} /\ j = job'[a]
      BY <3>1, <3>2 DEF ChainInv, ChainTypes
    <3>4. setup' = setup
      BY DEF MemoryReplies
    <3>5. JobFits(a, job[a])'
      BY <3>3, <3>4, FitsStays
    <3> QED BY <3>1, <3>2, <3>3, <3>5
  <2> QED BY <2>1, <2>2
<1>4. job' \in [ChainAgents -> Jobs \cup {IdleJob}]
  BY <1>1, <1>3
<1>5. memory' \in Seq(Symbols)
  BY DEF MemoryReplies, ChainInv, ChainTypes
<1>6. ChainTypes' /\ CacheIsSound'
  BY <1>4, <1>5 DEF MemoryReplies, ChainInv, ChainTypes, CacheIsSound, Cached
<1>7. Settles(job["analysis"], cost)'
  <2>1. Owed(job'["analysis"], cost) = Owed(job["analysis"], cost)
    BY <1>3 DEF ChainAgents
  <2>2. PICK j, i : j = job["analysis"] /\ i = job'["analysis"]
    OBVIOUS
  <2>3. Settles(j, cost) /\ Owed(i, cost) = Owed(j, cost) /\ cost' = cost /\ setup' = setup
    BY <2>1, <2>2 DEF ChainInv, MemoryReplies
  <2>4. Settles(i, cost')
    BY <2>3 DEF Settles
  <2> QED BY <2>2, <2>3, <2>4 DEF Settles, Owed
<1> QED BY <1>3, <1>6, <1>7 DEF ChainInv

\* The answer is taken, or not waited for any longer.
LEMMA HistoryArrivesFits ==
    ASSUME ChainInv, NEW a \in ChainAgents, HistoryArrives(a)
    PROVE  ChainInv'
<1>1. job[a].pc = "asking" /\ job[a] \in Jobs /\ job[a] # IdleJob /\ JobFits(a, job[a])
  BY UnderWay DEF HistoryArrives
<1>2. PICK kept : kept = (IF job[a].heard \in Symbols THEN job[a].heard ELSE Nothing)
  OBVIOUS
<1>3. kept \in Symbols \cup {Nothing}
  BY <1>2
<1>4. PICK j : j = [job[a] EXCEPT !.pc = "lookup", !.trades = kept]
  OBVIOUS
<1>5. j \in Jobs
  BY <1>1, <1>3, <1>4 DEF Jobs, JobPcs
<1>6. JobFits(a, j) /\ Owed(j, cost) = Owed(job[a], cost)
  BY <1>1, <1>4 DEF JobFits, Jobs, Owed
<1>7. job' = [job EXCEPT ![a] = j]
  BY <1>2, <1>4 DEF HistoryArrives
<1>8. history' \in [Symbols -> HistoryRows]
  <2>1. [of |-> kept, until |-> clock + HistoryTtl] \in HistoryRows
    BY <1>3, ChainNumbers DEF ChainInv, ChainTypes, HistoryRows
  <2> QED BY <1>2, <2>1 DEF HistoryArrives, ChainInv, ChainTypes
<1> QED BY <1>5, <1>6, <1>7, <1>8, OnlyJob DEF HistoryArrives, ChainInv, ChainTypes

LEMMA HistoryTimesOutFits ==
    ASSUME ChainInv, NEW a \in ChainAgents, HistoryTimesOut(a)
    PROVE  ChainInv'
<1>1. job[a].pc = "asking" /\ job[a] \in Jobs /\ job[a] # IdleJob /\ JobFits(a, job[a])
  BY UnderWay DEF HistoryTimesOut
<1>2. PICK j : j = [job[a] EXCEPT !.pc = "lookup"]
  OBVIOUS
<1>3. j \in Jobs
  BY <1>1, <1>2 DEF Jobs, JobPcs
<1>4. JobFits(a, j) /\ Owed(j, cost) = Owed(job[a], cost)
  BY <1>1, <1>2 DEF JobFits, Jobs, Owed
<1>5. job' = [job EXCEPT ![a] = j]
  BY <1>2 DEF HistoryTimesOut, GoOn
<1> QED BY <1>3, <1>4, <1>5, OnlyJob DEF HistoryTimesOut, ChainInv, ChainTypes

\* get_or_compute: a hit is of the key's symbol and candle, and young.
LEMMA LookupFits ==
    ASSUME ChainInv, NEW a \in ChainAgents, Lookup(a)
    PROVE  ChainInv'
<1>1. job[a].pc = "lookup" /\ job[a] \in Jobs /\ job[a] # IdleJob /\ JobFits(a, job[a])
  BY UnderWay DEF Lookup
<1>2. PICK key : key = <<job[a].symbol, Bucket(job[a].view)>>
  OBVIOUS
<1>3. a = "analysis"
  BY <1>1 DEF JobFits
<1>4. PICK fresh \in BOOLEAN :
        fresh <=> (key \in DOMAIN answers /\ clock - answers[key].at < AnswerTtl)
  BY Zenon
<1>5. CASE fresh
  <2>1. Cached(key, answers[key]) /\ clock - answers[key].at < AnswerTtl
    BY <1>4, <1>5 DEF ChainInv, CacheIsSound
  <2>2. PICK row : row = answers[key]
    OBVIOUS
  <2>3. PICK age : age = clock - row.made
    OBVIOUS
  <2>4. /\ row \in [answer : Candles, at : Nat, made : Nat] /\ age \in Int /\ age < AnswerTtl
        /\ row.answer \in Candles /\ row.answer # NoAnswer
        /\ row.answer.symbol = job[a].symbol /\ Bucket(row.answer.view) = Bucket(job[a].view)
    <3>1. /\ row \in [answer : Candles, at : Nat, made : Nat] /\ row.made = row.at
          /\ key = <<row.answer.symbol, Bucket(row.answer.view)>>
      BY <2>1, <2>2 DEF Cached
    <3>2. age \in Int /\ age < AnswerTtl
      BY <2>1, <2>2, <2>3, <3>1 DEF ChainInv, ChainTypes
    <3>3. row.answer \in Candles
      BY <3>1
    <3>4. row.answer # NoAnswer
      BY <3>3, ChainNumbers DEF Candles, NoAnswer
    <3> QED BY <1>2, <3>1, <3>2, <3>3, <3>4
  <2>5. PICK j : j = [job[a] EXCEPT !.pc = "synthesize", !.answer = row.answer, !.age = age]
    OBVIOUS
  <2>6. j \in Jobs
    BY <1>1, <2>4, <2>5 DEF Jobs, JobPcs
  <2>7. JobFits(a, j) /\ Owed(j, cost) = Owed(job[a], cost)
    BY <1>1, <1>3, <2>4, <2>5 DEF JobFits, Jobs, Owed
  <2>8. job' = [job EXCEPT ![a] = j] /\ answers' = answers
    BY <1>2, <1>4, <1>5, <2>2, <2>3, <2>5 DEF Lookup, KeyOf, AfterHit
  <2>9. UNCHANGED <<setup, market, clock, history, memory, cost>>
    BY DEF Lookup
  <2> QED BY <2>6, <2>7, <2>8, <2>9, OnlyJob DEF ChainInv, ChainTypes
<1>6. CASE ~fresh
  <2>1. PICK j : j = [job[a] EXCEPT !.pc = "call"]
    OBVIOUS
  <2>2. j \in Jobs
    BY <1>1, <2>1 DEF Jobs, JobPcs
  <2>3. JobFits(a, j) /\ Owed(j, cost) = Owed(job[a], cost)
    BY <1>1, <2>1 DEF JobFits, Jobs, Owed
  <2>4. /\ job' = [job EXCEPT ![a] = j]
        /\ answers' = [k \in DOMAIN answers \ {key} |-> answers[k]]
    BY <1>2, <1>4, <1>6, <2>1 DEF Lookup, KeyOf, GoOn
  <2>5. CacheIsSound'
    <3>1. /\ IsFiniteSet(DOMAIN answers \ {key})
          /\ Cardinality(DOMAIN answers \ {key}) <= Cardinality(DOMAIN answers)
          /\ Cardinality(DOMAIN answers) \in Nat /\ Cardinality(DOMAIN answers \ {key}) \in Nat
      BY FS_Subset, FS_CardinalityType DEF ChainInv, CacheIsSound
    <3>2. IsFiniteSet(DOMAIN answers') /\ Cardinality(DOMAIN answers') <= MaxAnswers
      BY <2>4, <3>1, ChainNumbers DEF ChainInv, CacheIsSound
    <3>3. ASSUME NEW k \in DOMAIN answers' PROVE Cached(k, answers[k])'
      <4>1. k \in DOMAIN answers /\ answers'[k] = answers[k] /\ clock' = clock
        BY <2>4 DEF Lookup
      <4> QED BY <4>1 DEF ChainInv, CacheIsSound, Cached
    <3> QED BY <3>2, <3>3 DEF CacheIsSound
  <2>6. UNCHANGED <<setup, market, clock, history, memory, cost>>
    BY DEF Lookup
  <2> QED BY <2>2, <2>3, <2>4, <2>5, <2>6, OnlyStores DEF ChainInv, ChainTypes
<1> QED BY <1>5, <1>6

\* A step of one agent that pays, or loses what it had not tracked.
LEMMA StepPays ==
    ASSUME ChainInv, NEW a \in ChainAgents, NEW j \in Jobs \cup {IdleJob}, JobFits(a, j),
           job' = [job EXCEPT ![a] = j], cost' \in Costs,
           a = "analysis" => Settles(j, cost'),
           a # "analysis" => cost' = cost,
           UNCHANGED <<setup, market, clock, answers, history, memory>>
    PROVE  ChainInv'
<1>1. /\ job' \in [ChainAgents -> Jobs \cup {IdleJob}]
      /\ \A b \in ChainAgents : JobFits(b, job[b])'
      /\ job'[a] = j
      /\ a # "analysis" => job'["analysis"] = job["analysis"]
  BY JobGoesOn DEF ChainInv
<1>2. ChainTypes' /\ CacheIsSound'
  BY <1>1 DEF ChainInv, ChainTypes, CacheIsSound, Cached
<1>3. Settles(job["analysis"], cost)'
  <2>1. PICK i, c : i = job'["analysis"] /\ c = cost'
    OBVIOUS
  <2>2. Settles(i, c)
    BY <1>1, <2>1 DEF ChainInv
  <2> QED BY <2>1, <2>2 DEF Settles, Owed
<1> QED BY <1>1, <1>2, <1>3 DEF ChainInv

\* Only a call of Claude's is billed, and the creator makes none.
LEMMA BillIs ==
    ASSUME NEW provider, NEW ending
    PROVE  /\ Bill(provider, ending) \in 0..1
           /\ ending = "error" => Bill(provider, ending) = 0
           /\ provider # "anthropic" => Bill(provider, ending) = 0
BY DEF Bill

\* One call: a reply is of the request's own candle; what it cost is owed.
LEMMA CallFits ==
    ASSUME ChainInv, NEW a \in ChainAgents, Call(a)
    PROVE  ChainInv'
<1>1. /\ a # "advice" /\ job[a].pc = "call" /\ job[a] \in Jobs /\ job[a] # IdleJob
      /\ JobFits(a, job[a]) /\ job[a].calls < Len(ChainOf(a)) /\ job[a].calls \in Nat
  <2>1. /\ a # "advice" /\ job[a].pc = "call" /\ job[a] \in Jobs /\ job[a] # IdleJob
        /\ JobFits(a, job[a]) /\ job[a].calls < Len(ChainOf(a))
    BY UnderWay DEF Call, NextCall
  <2> QED BY <2>1 DEF Jobs
<1> DEFINE provider == ChainOf(a)[job[a].calls + 1]
<1>3. PICK ending \in Endings :
        /\ cost' = [cost EXCEPT !.billed = @ + Bill(provider, ending),
                     !.unread = @ + IF ending = "unreadable" THEN Bill(provider, ending) ELSE 0]
        /\ \E tries \in RotationTries(provider, ending) :
           job' = [job EXCEPT ![a].calls = @ + 1, ![a].tries = @ + tries,
             ![a].pc = IF ending # "reply" THEN "call"
                       ELSE IF a = "analysis" THEN "track" ELSE "done",
             ![a].seen = Bill(provider, ending),
             ![a].answer = IF ending = "reply"
                           THEN [symbol |-> job[a].symbol, view |-> job[a].view]
                           ELSE NoAnswer,
             ![a].verdict = IF ending = "reply" /\ a = "setup" THEN "setup" ELSE Nothing]
  BY DEF Call
<1> HIDE DEF provider
<1>4. PICK tries \in RotationTries(provider, ending) :
           job' = [job EXCEPT ![a].calls = @ + 1, ![a].tries = @ + tries,
             ![a].pc = IF ending # "reply" THEN "call"
                       ELSE IF a = "analysis" THEN "track" ELSE "done",
             ![a].seen = Bill(provider, ending),
             ![a].answer = IF ending = "reply"
                           THEN [symbol |-> job[a].symbol, view |-> job[a].view]
                           ELSE NoAnswer,
             ![a].verdict = IF ending = "reply" /\ a = "setup" THEN "setup" ELSE Nothing]
  BY <1>3
<1>5. PICK bill \in 0..1 :
        /\ bill = Bill(provider, ending)
        /\ ending = "error" => bill = 0
        /\ a # "analysis" => bill = 0
  <2>1. a # "analysis" => provider # "anthropic"
    <3> SUFFICES ASSUME a # "analysis" PROVE provider # "anthropic"
      OBVIOUS
    <3>1. ChainOf(a) = CreatorChain
      BY <1>1 DEF ChainOf, ChainAgents
    <3>2. job[a].calls + 1 \in 1..Len(CreatorChain)
      BY <1>1, <3>1, ChainLengths
    <3> QED BY <3>1, <3>2, ChainLengths DEF provider
  <2> QED BY <2>1, BillIs
<1>6. ending \in {"reply", "unreadable", "error"} /\ tries \in Nat
  BY <1>3, <1>4, ChainNumbers DEF Endings, RotationTries
<1>7. PICK pc, answer, verdict :
        /\ pc = (IF ending # "reply" THEN "call" ELSE IF a = "analysis" THEN "track" ELSE "done")
        /\ answer = (IF ending = "reply" THEN [symbol |-> job[a].symbol, view |-> job[a].view]
                     ELSE NoAnswer)
        /\ verdict = (IF ending = "reply" /\ a = "setup" THEN "setup" ELSE Nothing)
  OBVIOUS
<1> DEFINE callsNow == job[a].calls + 1
           triesNow == job[a].tries + tries
<1>8. PICK j : j = [job[a] EXCEPT !.calls = callsNow, !.tries = triesNow, !.pc = pc,
                      !.seen = bill, !.answer = answer, !.verdict = verdict]
  OBVIOUS
<1>9. /\ j \in Jobs /\ j.calls = job[a].calls + 1 /\ j.pc = pc /\ j.seen = bill
      /\ j.answer = answer /\ j.verdict = verdict /\ j.age = job[a].age
      /\ j.symbol = job[a].symbol /\ j.view = job[a].view
  <2>1. answer \in Candles \cup {NoAnswer}
    BY <1>1, <1>7 DEF Jobs, Candles
  <2>2. pc \in JobPcs /\ verdict \in {Nothing, "setup"}
    BY <1>7 DEF JobPcs
  <2>3. callsNow \in Nat /\ triesNow \in Nat /\ bill \in Nat /\ verdict \in Verdicts
    BY <1>1, <1>5, <1>6, <2>2 DEF Jobs, Verdicts
  <2>4. callsNow = job[a].calls + 1
    OBVIOUS
  <2> HIDE DEF callsNow, triesNow
  <2>5. j \in Jobs
    BY <1>1, <1>8, <2>1, <2>2, <2>3 DEF Jobs
  <2>6. /\ j.calls = callsNow /\ j.pc = pc /\ j.seen = bill /\ j.answer = answer
        /\ j.verdict = verdict /\ j.age = job[a].age
        /\ j.symbol = job[a].symbol /\ j.view = job[a].view
    BY <1>1, <1>8 DEF Jobs
  <2> QED BY <2>4, <2>5, <2>6
<1>10. JobFits(a, j)
  <2>1. pc \in {"track", "tracked", "store", "synthesize"} => answer # NoAnswer
    <3>1. ASSUME ending = "reply" PROVE answer # NoAnswer
      <4>1. answer.symbol = job[a].symbol /\ job[a].symbol \in Symbols
        BY <1>1, <1>7, <3>1 DEF Jobs
      <4> QED BY <4>1, ChainNumbers DEF NoAnswer
    <3> QED BY <1>7, <3>1
  <2>2. answer # NoAnswer => answer.symbol = job[a].symbol /\ answer.view = job[a].view
    BY <1>7
  <2>3. pc \in JobPcs \ {"history", "asking", "lookup", "tracked", "store", "synthesize"}
        /\ (pc = "track" => a = "analysis") /\ verdict # "fallback"
    BY <1>7 DEF JobPcs, Nothing
  <2>4. j.age < AnswerTtl /\ j.calls <= Len(ChainOf(a))
    <3>1. ChainOf(a) \in Seq(Providers)
      BY <1>1, ChainLengths DEF ChainOf, ChainAgents
    <3> QED BY <1>1, <1>9, <3>1 DEF JobFits
  <2> QED BY <1>9, <2>1, <2>2, <2>3, <2>4 DEF JobFits
<1>11. job' = [job EXCEPT ![a] = j]
  BY <1>1, <1>4, <1>5, <1>7, <1>8 DEF ChainInv, ChainTypes
<1>12. /\ cost \in Costs /\ cost' \in Costs /\ cost'.tracked = cost.tracked
       /\ cost'.billed = cost.billed + bill
       /\ cost'.unread = cost.unread + (IF ending = "unreadable" THEN bill ELSE 0)
  <2>1. cost \in Costs
    BY DEF ChainInv, ChainTypes
  <2>2. PICK extra \in 0..1 : extra = IF ending = "unreadable" THEN bill ELSE 0
    BY <1>5
  <2>3. cost' = [cost EXCEPT !.billed = @ + bill, !.unread = @ + extra]
    BY <1>3, <1>5, <2>2
  <2>4. PICK b \in Nat, u \in Nat : b = cost.billed + bill /\ u = cost.unread + extra
    BY <1>5, <2>1, <2>2 DEF Costs
  <2>5. cost' = [cost EXCEPT !.billed = b, !.unread = u]
    BY <2>3, <2>4
  <2> QED BY <2>1, <2>2, <2>4, <2>5 DEF Costs
<1>13. ASSUME a = "analysis" PROVE Settles(j, cost')
  <2>1. Settles(job[a], cost)
    BY <1>13 DEF ChainInv
  <2>2. /\ cost.tracked + cost.unread <= cost.billed
        /\ "redis" \notin setup => cost.tracked + cost.unread = cost.billed
    BY <1>1, <1>12, <2>1 DEF Settles, Owed, Costs
  <2>3. Owed(j, cost') = IF ending = "reply" THEN bill ELSE 0
    BY <1>7, <1>9, <1>13 DEF Owed
  <2> QED BY <1>5, <1>6, <1>12, <2>2, <2>3 DEF Settles, Costs
<1>14. ASSUME a # "analysis" PROVE cost' = cost
  <2>1. /\ cost' \in Costs /\ cost \in Costs /\ cost'.tracked = cost.tracked
        /\ cost'.billed = cost.billed /\ cost'.unread = cost.unread
    BY <1>5, <1>12, <1>14 DEF Costs
  <2> QED BY <2>1 DEF Costs
<1>15. UNCHANGED <<setup, market, clock, answers, history, memory>>
  BY DEF Call
<1> QED BY <1>9, <1>10, <1>11, <1>12, <1>13, <1>14, <1>15, StepPays

\* Nothing left to call: then all of the chain was called.
LEMMA GiveUpFits ==
    ASSUME ChainInv, NEW a \in ChainAgents, GiveUp(a)
    PROVE  ChainInv'
<1>1. /\ a # "advice" /\ job[a].pc = "call" /\ job[a] \in Jobs /\ job[a] # IdleJob
      /\ JobFits(a, job[a]) /\ ~(job[a].calls < Len(ChainOf(a)))
  BY UnderWay DEF GiveUp, NextCall
<1>2. PICK j, verdict :
        /\ verdict = (IF a = "analysis" THEN "fallback" ELSE "no_setup")
        /\ j = [job[a] EXCEPT !.pc = "done", !.verdict = verdict]
  OBVIOUS
<1>3. j \in Jobs
  <2>1. verdict \in Verdicts
    BY <1>2 DEF Verdicts
  <2> QED BY <1>1, <1>2, <2>1 DEF Jobs, JobPcs
<1>4. job[a].calls = Len(ChainOf(a))
  <2>1. ChainOf(a) \in Seq(Providers)
    BY <1>1, ChainLengths DEF ChainOf, ChainAgents
  <2> QED BY <1>1, <2>1 DEF JobFits, Jobs
<1>5. JobFits(a, j)
  BY <1>1, <1>2, <1>4 DEF JobFits, Jobs, ChainOf
<1>6. Owed(j, cost) = Owed(job[a], cost)
  BY <1>1, <1>2 DEF Jobs, Owed
<1>7. job' = [job EXCEPT ![a] = j]
  BY <1>1, <1>2 DEF GiveUp, ChainInv, ChainTypes
<1> QED BY <1>3, <1>5, <1>6, <1>7, OnlyJob DEF GiveUp, ChainInv, ChainTypes

\* _track_llm_cost: read, written back, or refused.
LEMMA TrackReadsFits ==
    ASSUME ChainInv, NEW a \in ChainAgents, TrackReads(a)
    PROVE  ChainInv'
<1>1. job[a].pc = "track" /\ job[a] \in Jobs /\ job[a] # IdleJob /\ JobFits(a, job[a])
  BY UnderWay DEF TrackReads
<1>2. cost \in Costs /\ cost.tracked \in Nat
  BY DEF ChainInv, ChainTypes, Costs
<1>2a. PICK seen \in Nat : seen = job[a].seen + cost.tracked
  BY <1>1, <1>2 DEF Jobs
<1>3. PICK j : j = [job[a] EXCEPT !.pc = "tracked", !.seen = seen]
  OBVIOUS
<1>4. j \in Jobs
  BY <1>1, <1>2a, <1>3 DEF Jobs, JobPcs
<1>5. JobFits(a, j) /\ Owed(j, cost) = Owed(job[a], cost)
  BY <1>1, <1>2, <1>2a, <1>3 DEF JobFits, Jobs, Owed
<1>6. job' = [job EXCEPT ![a] = j]
  BY <1>1, <1>2a, <1>3 DEF TrackReads, ChainInv, ChainTypes
<1> QED BY <1>4, <1>5, <1>6, OnlyJob DEF TrackReads, ChainInv, ChainTypes

LEMMA TrackWritesFits ==
    ASSUME ChainInv, NEW a \in ChainAgents, TrackWrites(a)
    PROVE  ChainInv'
<1>1. job[a].pc = "tracked" /\ job[a] \in Jobs /\ job[a] # IdleJob /\ JobFits(a, job[a])
  BY UnderWay DEF TrackWrites
<1>2. a = "analysis" /\ Settles(job[a], cost) /\ cost \in Costs
  BY <1>1 DEF JobFits, ChainInv, ChainTypes
<1>3. PICK j : j = [job[a] EXCEPT !.pc = "store"]
  OBVIOUS
<1>4. j \in Jobs /\ j.pc = "store"
  BY <1>1, <1>3 DEF Jobs, JobPcs
<1>5. JobFits(a, j)
  BY <1>1, <1>3 DEF JobFits, Jobs
<1>6. job' = [job EXCEPT ![a] = j]
  BY <1>3 DEF TrackWrites, GoOn
<1>7. /\ cost' \in Costs /\ cost'.tracked = job[a].seen /\ cost'.unread = cost.unread
      /\ cost'.billed = cost.billed
  BY <1>1, <1>2 DEF TrackWrites, TrackedCost, Costs, Jobs
<1>8. Settles(j, cost')
  <2>1. Owed(job[a], cost) = job[a].seen - cost.tracked /\ Owed(j, cost') = 0
    BY <1>1, <1>4 DEF Owed
  <2> QED BY <1>1, <1>2, <1>7, <2>1 DEF Settles, Costs, Jobs
<1> QED BY <1>2, <1>4, <1>5, <1>6, <1>7, <1>8, StepPays DEF TrackWrites

LEMMA TrackFailsFits ==
    ASSUME ChainInv, NEW a \in ChainAgents, TrackFails(a)
    PROVE  ChainInv'
<1>1. /\ job[a].pc \in {"track", "tracked"} /\ job[a] \in Jobs /\ job[a] # IdleJob
      /\ JobFits(a, job[a])
  BY UnderWay DEF TrackFails
<1>2. a = "analysis" /\ Settles(job[a], cost) /\ cost \in Costs
  BY <1>1 DEF JobFits, ChainInv, ChainTypes
<1>3. PICK j : j = [job[a] EXCEPT !.pc = "call", !.answer = NoAnswer]
  OBVIOUS
<1>4. j \in Jobs /\ j.pc = "call"
  BY <1>1, <1>3 DEF Jobs, JobPcs
<1>5. JobFits(a, j)
  BY <1>1, <1>3 DEF JobFits, Jobs
<1>6. job' = [job EXCEPT ![a] = j]
  BY <1>1, <1>3 DEF TrackFails, ChainInv, ChainTypes
<1>7. Settles(j, cost)
  <2>1. Owed(j, cost) = 0 /\ Owed(job[a], cost) \in Int
    BY <1>1, <1>2, <1>4 DEF Owed, Jobs, Costs
  <2>2. "redis" \in setup
    BY DEF TrackFails, May
  <2> QED BY <1>2, <2>1, <2>2 DEF Settles, Costs
<1> QED BY <1>2, <1>4, <1>5, <1>6, <1>7, StepPays DEF TrackFails

\* Evicted: there is an oldest entry, and without it there is room for one.
LEMMA LeastNatural ==
    ASSUME NEW T \in SUBSET Nat, T # {}
    PROVE  \E n \in T : \A m \in T : n <= m
<1>1. PICK R : R = OpToRel(<, Nat) /\ IsWellFoundedOn(R, Nat)
  BY NatLessThanWellFounded
<1>2. PICK n \in T : \A m \in T : ~(<<m, n>> \in R)
  BY <1>1, WFMin
<1>3. \A m \in T : ~(m < n)
  BY <1>1, <1>2 DEF OpToRel
<1> QED BY <1>3

LEMMA EvictedMakesRoom ==
    ASSUME CacheIsSound, NEW key
    PROVE  /\ IsFiniteSet((DOMAIN answers \ Evicted) \cup {key})
           /\ Cardinality((DOMAIN answers \ Evicted) \cup {key}) <= MaxAnswers
<1>1. PICK S : S = DOMAIN answers
  OBVIOUS
<1>2. IsFiniteSet(S) /\ Cardinality(S) \in Nat /\ Cardinality(S) <= MaxAnswers
  BY <1>1, FS_CardinalityType DEF CacheIsSound
<1>3. CASE Cardinality(S) < MaxAnswers
  <2>1. (DOMAIN answers \ Evicted) \cup {key} = S \cup {key}
    BY <1>1, <1>3 DEF Evicted
  <2>2. IsFiniteSet(S \cup {key}) /\ Cardinality(S \cup {key}) <= Cardinality(S) + 1
    BY <1>2, FS_AddElement
  <2>3. Cardinality(S \cup {key}) \in Nat
    BY <2>2, FS_CardinalityType
  <2> QED BY <1>2, <1>3, <2>1, <2>2, <2>3, ChainNumbers
<1>4. CASE ~(Cardinality(S) < MaxAnswers)
  <2>1. S # {}
    BY <1>2, <1>4, FS_EmptySet, ChainNumbers
  <2>2. PICK ages : ages = {answers[k].at : k \in S}
    OBVIOUS
  <2>3. ages \in SUBSET Nat /\ ages # {}
    BY <1>1, <2>1, <2>2 DEF CacheIsSound, Cached
  <2>4. PICK n \in ages : \A m \in ages : n <= m
    BY <2>3, LeastNatural
  <2>5. PICK k \in S : n = answers[k].at
    BY <2>2, <2>4
  <2>6. \E old \in S : \A other \in S : answers[old].at <= answers[other].at
    BY <2>2, <2>4, <2>5
  <2>7. PICK old : old = CHOOSE i \in S : \A other \in S : answers[i].at <= answers[other].at
    OBVIOUS
  <2>8. old \in S
    BY <2>6, <2>7
  <2>9. Evicted = {old}
    BY <1>1, <1>4, <2>7 DEF Evicted
  <2>10. IsFiniteSet(S \ {old}) /\ Cardinality(S \ {old}) = Cardinality(S) - 1
    BY <1>2, <2>8, FS_RemoveElement
  <2>11. /\ IsFiniteSet((S \ {old}) \cup {key})
         /\ Cardinality((S \ {old}) \cup {key}) <= Cardinality(S)
    <3>1. /\ IsFiniteSet((S \ {old}) \cup {key})
          /\ \/ Cardinality((S \ {old}) \cup {key}) = Cardinality(S \ {old})
             \/ Cardinality((S \ {old}) \cup {key}) = Cardinality(S \ {old}) + 1
      BY <2>10, FS_AddElement
    <3> QED BY <1>2, <2>10, <3>1
  <2>12. Cardinality((S \ {old}) \cup {key}) \in Nat
    BY <2>11, FS_CardinalityType
  <2> QED BY <1>1, <1>2, <2>9, <2>11, <2>12, ChainNumbers
<1> QED BY <1>3, <1>4

\* The second half of get_or_compute.
LEMMA StoreFits ==
    ASSUME ChainInv, NEW a \in ChainAgents, Store(a)
    PROVE  ChainInv'
<1>1. job[a].pc = "store" /\ job[a] \in Jobs /\ job[a] # IdleJob /\ JobFits(a, job[a])
  BY UnderWay DEF Store
<1>2. PICK key, row : /\ key = <<job[a].symbol, Bucket(job[a].view)>>
                      /\ row = [answer |-> job[a].answer, at |-> clock, made |-> clock]
  OBVIOUS
<1>3. PICK keys : keys = (DOMAIN answers \ Evicted) \cup {key}
  OBVIOUS
<1>4. answers' = [k \in keys |-> IF k = key THEN row ELSE answers[k]]
  BY <1>2, <1>3 DEF Store, KeyOf
<1>5. Cached(key, row)
  <2>1. /\ job[a].answer \in Candles /\ job[a].answer.symbol = job[a].symbol
        /\ Bucket(job[a].answer.view) = Bucket(job[a].view)
    BY <1>1 DEF JobFits, Jobs
  <2>2. clock \in Nat
    BY DEF ChainInv, ChainTypes
  <2> QED BY <1>2, <2>1, <2>2 DEF Cached
<1>6. CacheIsSound'
  <2>1. IsFiniteSet(keys) /\ Cardinality(keys) <= MaxAnswers
    BY <1>3, EvictedMakesRoom DEF ChainInv
  <2>2. clock' = clock
    BY DEF Store
  <2>3. ASSUME NEW k \in keys PROVE Cached(k, answers[k])'
    <3>1. k # key => k \in DOMAIN answers /\ answers'[k] = answers[k]
      BY <1>3, <1>4
    <3>2. k = key => answers'[k] = row
      BY <1>4
    <3>3. PICK r : r = answers'[k]
      OBVIOUS
    <3>4. Cached(k, r)
      BY <1>5, <3>1, <3>2, <3>3 DEF ChainInv, CacheIsSound
    <3> QED BY <2>2, <3>3, <3>4 DEF Cached
  <2> QED BY <1>4, <2>1, <2>3 DEF CacheIsSound
<1>7. PICK j : j = [job[a] EXCEPT !.pc = "synthesize"]
  OBVIOUS
<1>8. j \in Jobs
  BY <1>1, <1>7 DEF Jobs, JobPcs
<1>9. JobFits(a, j) /\ Owed(j, cost) = Owed(job[a], cost)
  BY <1>1, <1>7 DEF JobFits, Jobs, Owed
<1>10. job' = [job EXCEPT ![a] = j]
  BY <1>7 DEF Store, GoOn
<1> QED BY <1>6, <1>8, <1>9, <1>10, OnlyStores DEF Store, ChainInv, ChainTypes

\* Synthesis, the advisor, and the reply's leaving.
LEMMA SynthesizeFits ==
    ASSUME ChainInv, NEW a \in ChainAgents, Synthesize(a)
    PROVE  ChainInv'
<1>1. job[a].pc = "synthesize" /\ job[a] \in Jobs /\ job[a] # IdleJob /\ JobFits(a, job[a])
  BY UnderWay DEF Synthesize
<1>2. PICK verdict \in {"analysis", "fallback"} :
        job' = [job EXCEPT ![a].pc = "done", ![a].verdict = verdict]
  BY DEF Synthesize
<1>3. PICK j : j = [job[a] EXCEPT !.pc = "done", !.verdict = verdict]
  OBVIOUS
<1>4. j \in Jobs
  BY <1>1, <1>2, <1>3 DEF Jobs, JobPcs, Verdicts
<1>5. JobFits(a, j) /\ Owed(j, cost) = Owed(job[a], cost)
  BY <1>1, <1>2, <1>3 DEF JobFits, Jobs, Owed
<1>6. job' = [job EXCEPT ![a] = j]
  BY <1>1, <1>2, <1>3 DEF ChainInv, ChainTypes
<1> QED BY <1>4, <1>5, <1>6, OnlyJob DEF Synthesize, ChainInv, ChainTypes

LEMMA AdviseFits ==
    ASSUME ChainInv, NEW a \in ChainAgents, Advise(a)
    PROVE  ChainInv'
<1>1. /\ a = "advice" /\ job[a].pc = "call" /\ job[a] \in Jobs /\ job[a] # IdleJob
      /\ JobFits(a, job[a])
  BY UnderWay DEF Advise
<1>2. PICK ending \in (IF Keyed("openai") THEN Endings ELSE {"error"}) :
        \E verdict \in Advice(ending) :
          job' = [job EXCEPT ![a].pc = "done", ![a].verdict = verdict,
                    ![a].calls = IF Keyed("openai") THEN 1 ELSE 0, ![a].heard = ending]
  BY DEF Advise
<1>3. ending \in {"reply", "unreadable", "error"}
  BY <1>2 DEF Endings
<1>4. PICK verdict \in Advice(ending) :
          job' = [job EXCEPT ![a].pc = "done", ![a].verdict = verdict,
                    ![a].calls = IF Keyed("openai") THEN 1 ELSE 0, ![a].heard = ending]
  BY <1>2
<1>5. verdict \in {"approve", "reject", "resize", "as_computed"}
  BY <1>3, <1>4 DEF Advice
<1>6. PICK calls \in Nat : calls = IF Keyed("openai") THEN 1 ELSE 0
  OBVIOUS
<1>7. PICK j : j = [job[a] EXCEPT !.pc = "done", !.verdict = verdict, !.calls = calls,
                      !.heard = ending]
  OBVIOUS
<1>8. j \in Jobs
  <2>1. "done" \in JobPcs /\ verdict \in Verdicts /\ ending \in Heards
    BY <1>3, <1>5 DEF JobPcs, Verdicts, Heards
  <2> QED BY <1>1, <1>6, <1>7, <2>1 DEF Jobs
<1>9. JobFits(a, j) /\ Owed(j, cost) = Owed(job[a], cost)
  BY <1>1, <1>5, <1>7 DEF JobFits, Jobs, Owed
<1>10. job' = [job EXCEPT ![a] = j]
  BY <1>1, <1>4, <1>6, <1>7 DEF ChainInv, ChainTypes
<1> QED BY <1>8, <1>9, <1>10, OnlyJob DEF Advise, ChainInv, ChainTypes

LEMMA DoneFits ==
    ASSUME ChainInv, NEW a \in ChainAgents, Done(a)
    PROVE  ChainInv'
<1>1. JobFits(a, IdleJob) /\ IdleJob \in Jobs \cup {IdleJob}
  BY DEF JobFits
<1>2. Owed(IdleJob, cost) = Owed(job[a], cost)
  BY DEF Done, Owed, IdleJob
<1> QED BY <1>1, <1>2, OnlyJob DEF Done, ChainInv, ChainTypes

\* Steps of the surroundings.
LEMMA AroundFits ==
    ASSUME ChainInv, MemoryLost \/ ClockTicks \/ \E s \in Symbols : PriceMoves(s)
    PROVE  ChainInv'
<1>1. /\ UNCHANGED <<setup, job, answers, history, cost>>
      /\ memory' \in Seq(Symbols) /\ market' \in [Symbols -> Nat]
      /\ clock' \in Nat /\ clock <= clock'
  <2>1. CASE MemoryLost
    BY <2>1 DEF MemoryLost, ChainInv, ChainTypes
  <2>2. CASE ClockTicks
    BY <2>2 DEF ClockTicks, ChainInv, ChainTypes
  <2>3. CASE \E s \in Symbols : PriceMoves(s)
    BY <2>3 DEF PriceMoves, ChainInv, ChainTypes
  <2> QED BY <2>1, <2>2, <2>3
<1>2. ChainTypes'
  BY <1>1 DEF ChainInv, ChainTypes
<1>3. CacheIsSound'
  BY <1>1 DEF ChainInv, ChainTypes, CacheIsSound, Cached
<1>4. ASSUME NEW a \in ChainAgents PROVE JobFits(a, job[a])'
  <2>1. PICK j : j = job'[a] /\ JobFits(a, j)
    BY <1>1 DEF ChainInv
  <2> QED BY <1>1, <2>1, FitsStays
<1>5. Settles(job["analysis"], cost)'
  BY <1>1 DEF ChainInv, Settles, Owed
<1> QED BY <1>2, <1>3, <1>4, <1>5 DEF ChainInv

LEMMA ChainStarts == ChainInit => ChainInv
<1> SUFFICES ASSUME ChainInit PROVE ChainInv
  OBVIOUS
<1>1. ChainTypes
  BY DEF ChainInit, ChainTypes, HistoryRows, Costs
<1>2. CacheIsSound
  BY FS_EmptySet, ChainNumbers DEF ChainInit, CacheIsSound
<1>3. \A a \in ChainAgents : JobFits(a, job[a])
  BY DEF ChainInit, JobFits
<1>4. Settles(job["analysis"], cost)
  BY DEF ChainInit, ChainAgents, Settles, Owed, IdleJob
<1> QED BY <1>1, <1>2, <1>3, <1>4 DEF ChainInv

LEMMA ChainGoesOn == ChainInv /\ [ChainNext]_chainVars => ChainInv'
<1> SUFFICES ASSUME ChainInv, [ChainNext]_chainVars PROVE ChainInv'
  OBVIOUS
<1>1. CASE UNCHANGED chainVars
  <2>1. \A a \in ChainAgents : JobFits(a, job[a])'
    <3> SUFFICES ASSUME NEW a \in ChainAgents PROVE JobFits(a, job[a])'
      OBVIOUS
    <3>1. PICK j : j = job'[a] /\ JobFits(a, j)
      BY <1>1 DEF ChainInv, chainVars
    <3> QED BY <1>1, <3>1, FitsStays DEF chainVars
  <2>2. ChainTypes' /\ CacheIsSound'
    BY <1>1 DEF ChainInv, chainVars, ChainTypes, CacheIsSound, Cached
  <2>3. Settles(job["analysis"], cost)'
    BY <1>1 DEF ChainInv, chainVars, Settles, Owed
  <2> QED BY <2>1, <2>2, <2>3 DEF ChainInv
<1>2. ASSUME NEW a \in ChainAgents, NEW s \in Symbols, Begin(a, s) PROVE ChainInv'
  BY <1>2, BeginFits
<1>3. ASSUME NEW a \in ChainAgents, Work(a) PROVE ChainInv'
  BY <1>3, HistoryCachedFits, HistoryArrivesFits, HistoryTimesOutFits, LookupFits, CallFits,
     GiveUpFits, TrackReadsFits, TrackWritesFits, StoreFits, SynthesizeFits, AdviseFits,
     DoneFits DEF Work
<1>4. ASSUME NEW a \in ChainAgents, TrackFails(a) PROVE ChainInv'
  BY <1>4, TrackFailsFits
<1>5. CASE MemoryReplies
  BY <1>5, MemoryRepliesFits
<1>6. CASE MemoryLost \/ ClockTicks \/ \E s \in Symbols : PriceMoves(s)
  BY <1>6, AroundFits
<1> QED BY <1>1, <1>2, <1>3, <1>4, <1>5, <1>6 DEF ChainNext

\* Three of at most one and two of at most two.
LEMMA AtMostSeven == \A x \in 0..1, y \in 0..2 : 3 * x + 2 * y <= 7
<1> SUFFICES ASSUME NEW x \in {0, 1}, NEW y \in {0, 1, 2} PROVE 3 * x + 2 * y <= 7
  OBVIOUS
<1> QED OBVIOUS

LEMMA ChainAnswers == ChainInv => AnswersAreRight
<1> SUFFICES ASSUME ChainInv PROVE AnswersAreRight
  OBVIOUS
<1>1. ASSUME NEW a \in ChainAgents, Busy(a)
      PROVE  job[a] \in Jobs /\ job[a] # IdleJob /\ JobFits(a, job[a])
  BY <1>1, UnderWay DEF Busy
<1>2. AnswerIsOfItsCandle
  BY <1>1 DEF AnswerIsOfItsCandle, JobFits
<1>3. ServedIsYoung
  BY <1>1 DEF ServedIsYoung, JobFits
<1>4. CacheKeepsItsSize
  BY DEF CacheKeepsItsSize, ChainInv, CacheIsSound
<1>5. CostIsWhole
  <2>1. Settles(job["analysis"], cost) /\ cost \in Costs /\ Owed(job["analysis"], cost) \in Int
    <3>1. job["analysis"] \in Jobs \/ job["analysis"] = IdleJob
      BY DEF ChainInv, ChainTypes, ChainAgents
    <3>2. cost \in Costs /\ Settles(job["analysis"], cost)
      BY DEF ChainInv, ChainTypes
    <3> QED BY <3>1, <3>2 DEF Owed, Jobs, Costs, IdleJob
  <2>2. ~Busy("analysis") => Owed(job["analysis"], cost) = 0
    BY DEF Busy, Owed
  <2> QED BY <2>1, <2>2 DEF CostIsWhole, Settles, Costs
<1>6. FallbackIsLast
  <2> SUFFICES ASSUME NEW a \in ChainAgents, Busy(a), job[a].verdict = "fallback",
                      job[a].answer = NoAnswer
               PROVE  /\ job[a].calls = 3 * Len(FirstChoice) + 2 * Len(Backups)
                      /\ job[a].calls <= 7
    BY DEF FallbackIsLast
  <2>1. job[a].calls = Len(AnalysisChain)
    BY <1>1 DEF JobFits
  <2>2. PICK x \in 0..1, y \in 0..2 : x = Len(FirstChoice) /\ y = Len(Backups)
    BY ChainLengths
  <2>3. Len(AnalysisChain) = 3 * x + 2 * y
    BY <2>2, ChainLengths
  <2>4. 3 * x + 2 * y <= 7
    BY AtMostSeven
  <2> QED BY <2>1, <2>2, <2>3, <2>4
<1> QED BY <1>2, <1>3, <1>4, <1>5, <1>6 DEF AnswersAreRight

\* analysis_agent.py, llm_cache.py: whatever the providers, Redis and the
\* memory agent do, an answer is of its own candle and young, the cache keeps
\* its size, nothing unbilled is tracked, and the fallback comes last.
THEOREM AnswersAreOfTheirOwn == ChainSpec => []AnswersAreRight
<1>1. ChainSpec => []ChainInv
  BY ChainStarts, ChainGoesOn, PTL DEF ChainSpec
<1> QED BY <1>1, ChainAnswers, PTL

(***************************************************************************)
(* The sliding windows: BudgetsHold.                                       *)
(***************************************************************************)

\* The hits of a table that count.
HitsIn(h, k) == IF k \in DOMAIN h THEN Live(h[k]) ELSE <<>>

OldestFirst(ages) == \A i, j \in 1..Len(ages) : i < j => ages[j] <= ages[i]

\* A table is by callers, each with its hits in order.
Tables(h) ==
    /\ DOMAIN h \subseteq Callers
    /\ \A k \in DOMAIN h : h[k] \in Seq(Nat) /\ OldestFirst(h[k])

\* The holder of the lock has seen a full window, and nothing is added behind
\* its back.
RequestsOk ==
    /\ requests \in Seq(Nat) /\ Len(requests) <= MaxRequests
    /\ holder = "sleeping" => Len(requests) = MaxRequests

\* What was let through is what the table counts, collections or not.
HitsOk ==
    /\ Tables(hits)
    /\ granted \in [Callers -> Seq(Nat)]
    /\ \A k \in Callers : granted[k] = Hits(k) /\ Len(granted[k]) <= Limit

\* A refused caller's oldest hit leaves the window by the time it was told.
PromisesOk ==
    /\ promise \in [Callers -> Int]
    /\ \A k \in Callers : promise[k] >= 0 =>
         \/ Allowed(k)
         \/ Hits(k) # <<>> /\ Hits(k)[1] + promise[k] > Window

LimitInv == RequestsOk /\ HitsOk /\ PromisesOk

LEMMA LimitNumbers ==
    /\ MaxRequests \in Nat /\ MaxRequests > 0 /\ Window \in Nat /\ Limit \in Nat /\ Limit > 0
BY LimitAssumption

\* No hit, and one hit more.
LEMMA NoHits == <<>> \in Seq(Nat) /\ Len(<<>>) = 0
OBVIOUS

LEMMA OneMore ==
    ASSUME NEW s \in Seq(Nat)
    PROVE  /\ Append(s, 0) \in Seq(Nat) /\ Len(Append(s, 0)) = Len(s) + 1
           /\ \A i \in 1..Len(s) : Append(s, 0)[i] = s[i]
           /\ Append(s, 0)[Len(s) + 1] = 0
OBVIOUS

LEMMA FirstHit ==
    ASSUME NEW s \in Seq(Nat), s # <<>>
    PROVE  Len(s) \in Nat /\ Len(s) > 0 /\ 1 \in 1..Len(s) /\ s[1] \in Nat
OBVIOUS

\* FirstLive: the loop ends at exactly one place.
Ends(ages, n) ==
    /\ n \in 1..Len(ages) + 1
    /\ \A i \in 1..n - 1 : ages[i] > Window
    /\ n <= Len(ages) => ages[n] <= Window

LEMMA FirstLiveEnds ==
    ASSUME NEW ages \in Seq(Nat)
    PROVE  Ends(ages, FirstLive(ages))
<1>1. PICK T : T = {i \in 1..Len(ages) : ages[i] <= Window} \cup {Len(ages) + 1}
  OBVIOUS
<1>2. T \in SUBSET Nat /\ T # {} /\ Len(ages) \in Nat
  BY <1>1
<1>3. PICK n \in T : \A m \in T : n <= m
  BY <1>2, LeastNatural
<1>4. n \in 1..Len(ages) + 1 /\ (n <= Len(ages) => ages[n] <= Window)
  BY <1>1, <1>2, <1>3
<1>5. \A i \in 1..n - 1 : ages[i] > Window
  <2> SUFFICES ASSUME NEW i \in 1..n - 1 PROVE ages[i] > Window
    OBVIOUS
  <2>1. i \in 1..Len(ages) /\ i \notin T
    BY <1>2, <1>3, <1>4
  <2>2. ages[i] \in Nat
    BY <2>1
  <2> QED BY <1>1, <2>1, <2>2, LimitNumbers
<1> QED BY <1>4, <1>5 DEF FirstLive, Ends

\* Live: what is left from there.
LEMMA LiveIs ==
    ASSUME NEW ages \in Seq(Nat), NEW n, Ends(ages, n)
    PROVE  /\ FirstLive(ages) = n /\ n \in 1..Len(ages) + 1
           /\ Live(ages) \in Seq(Nat)
           /\ Len(Live(ages)) = Len(ages) + 1 - n
           /\ \A i \in 1..Len(ages) + 1 - n : Live(ages)[i] = ages[i + n - 1]
<1>1. PICK m : m = FirstLive(ages) /\ Ends(ages, m)
  BY FirstLiveEnds
<1>2. m = n
  <2>1. ~(m < n)
    BY <1>1, LimitNumbers DEF Ends
  <2>2. ~(n < m)
    BY <1>1, LimitNumbers DEF Ends
  <2> QED BY <1>1, <2>1, <2>2 DEF Ends
<1>3. Live(ages) = SubSeq(ages, n, Len(ages))
  BY <1>1, <1>2 DEF Live
<1> QED BY <1>1, <1>2, <1>3 DEF Ends

LEMMA LiveFits ==
    ASSUME NEW ages \in Seq(Nat)
    PROVE  /\ Live(ages) \in Seq(Nat) /\ Len(Live(ages)) <= Len(ages)
           /\ Live(ages) = <<>> \/ Live(ages)[1] <= Window
           /\ ages # <<>> /\ ages[1] > Window => Len(Live(ages)) < Len(ages)
           /\ OldestFirst(ages) => OldestFirst(Live(ages))
<1>1. PICK n : n = FirstLive(ages) /\ Ends(ages, n)
  BY FirstLiveEnds
<1>2. /\ n \in 1..Len(ages) + 1 /\ Live(ages) \in Seq(Nat)
      /\ Len(Live(ages)) = Len(ages) + 1 - n
      /\ \A i \in 1..Len(ages) + 1 - n : Live(ages)[i] = ages[i + n - 1]
  BY <1>1, LiveIs
<1>3. Live(ages) = <<>> \/ Live(ages)[1] <= Window
  <2>1. CASE n <= Len(ages)
    BY <1>1, <1>2, <2>1 DEF Ends
  <2>2. CASE n = Len(ages) + 1
    BY <1>2, <2>2
  <2> QED BY <1>2, <2>1, <2>2
<1>4. ages # <<>> /\ ages[1] > Window => n # 1
  BY <1>1, LimitNumbers DEF Ends
<1>5. OldestFirst(ages) => OldestFirst(Live(ages))
  <2> SUFFICES ASSUME OldestFirst(ages), NEW i \in 1..Len(Live(ages)),
                      NEW j \in 1..Len(Live(ages)), i < j
               PROVE  Live(ages)[j] <= Live(ages)[i]
    BY DEF OldestFirst
  <2>1. Len(ages) \in Nat /\ i \in 1..Len(ages) + 1 - n /\ j \in 1..Len(ages) + 1 - n
    BY <1>2
  <2>2. Live(ages)[i] = ages[i + n - 1] /\ Live(ages)[j] = ages[j + n - 1]
    BY <1>2, <2>1
  <2>3. i + n - 1 \in 1..Len(ages) /\ j + n - 1 \in 1..Len(ages) /\ i + n - 1 < j + n - 1
    BY <1>2, <2>1
  <2> QED BY <2>2, <2>3 DEF OldestFirst
<1> QED BY <1>2, <1>3, <1>4, <1>5

\* All of it is left when the first is.
LEMMA AllLive ==
    ASSUME NEW ages \in Seq(Nat), ages = <<>> \/ ages[1] <= Window
    PROVE  Live(ages) = ages
<1>1. Len(ages) \in Nat
  OBVIOUS
<1>2. PICK n \in {1} : n = 1
  OBVIOUS
<1>3. Ends(ages, n)
  BY <1>1, <1>2 DEF Ends
<1>4. /\ Live(ages) \in Seq(Nat) /\ Len(Live(ages)) = Len(ages) + 1 - n
      /\ \A i \in 1..Len(ages) + 1 - n : Live(ages)[i] = ages[i + n - 1]
  BY <1>3, LiveIs
<1>5. Len(Live(ages)) = Len(ages)
  BY <1>1, <1>2, <1>4
<1>6. ASSUME NEW i \in 1..Len(ages) PROVE Live(ages)[i] = ages[i]
  <2>1. i \in 1..Len(ages) + 1 - n /\ i + n - 1 = i
    BY <1>1, <1>2
  <2> QED BY <1>4, <2>1
<1> QED BY <1>4, <1>5, <1>6, SeqEqual

\* Nothing is when the newest is too old.
LEMMA NoneLive ==
    ASSUME NEW ages \in Seq(Nat), OldestFirst(ages),
           ages = <<>> \/ ~(ages[Len(ages)] <= Window)
    PROVE  Live(ages) = <<>>
<1>1. Ends(ages, Len(ages) + 1)
  BY LimitNumbers DEF Ends, OldestFirst
<1>2. Live(ages) \in Seq(Nat) /\ Len(Live(ages)) = 0
  BY <1>1, LiveIs
<1> QED BY <1>2

\* Older: a tick, and the order stays.
LEMMA OlderIs ==
    ASSUME NEW ages \in Seq(Nat)
    PROVE  /\ Older(ages) \in Seq(Nat) /\ Len(Older(ages)) = Len(ages)
           /\ \A i \in 1..Len(ages) :
                Older(ages)[i] = IF ages[i] > Window THEN ages[i] ELSE ages[i] + 1
           /\ OldestFirst(ages) => OldestFirst(Older(ages))
<1>1. /\ Older(ages) \in Seq(Nat) /\ Len(Older(ages)) = Len(ages)
      /\ \A i \in 1..Len(ages) :
            Older(ages)[i] = IF ages[i] > Window THEN ages[i] ELSE ages[i] + 1
  BY DEF Older
<1>2. OldestFirst(ages) => OldestFirst(Older(ages))
  BY <1>1, LimitNumbers DEF OldestFirst
<1> QED BY <1>1, <1>2

\* What has left the window makes no difference a tick later.
LEMMA LiveAgain ==
    ASSUME NEW ages \in Seq(Nat)
    PROVE  Live(Older(Live(ages))) = Live(Older(ages))
<1>1. PICK n : n = FirstLive(ages) /\ Ends(ages, n)
  BY FirstLiveEnds
<1>2. PICK live : live = Live(ages)
  OBVIOUS
<1>3. /\ n \in 1..Len(ages) + 1 /\ live \in Seq(Nat) /\ Len(live) = Len(ages) + 1 - n
      /\ \A i \in 1..Len(ages) + 1 - n : live[i] = ages[i + n - 1]
  BY <1>1, <1>2, LiveIs
<1>4. PICK all, left : all = Older(ages) /\ left = Older(live)
  OBVIOUS
<1>5. /\ all \in Seq(Nat) /\ Len(all) = Len(ages)
      /\ \A i \in 1..Len(ages) : all[i] = IF ages[i] > Window THEN ages[i] ELSE ages[i] + 1
  BY <1>4, OlderIs
<1>6. /\ left \in Seq(Nat) /\ Len(left) = Len(live)
      /\ \A i \in 1..Len(live) : left[i] = IF live[i] > Window THEN live[i] ELSE live[i] + 1
  BY <1>3, <1>4, OlderIs
<1>6a. Len(ages) \in Nat /\ Len(left) = Len(all) + 1 - n /\ Len(all) = Len(ages) /\ n \in Nat
  BY <1>3, <1>5, <1>6
<1>7. ASSUME NEW i \in 1..Len(left) PROVE left[i] = all[i + n - 1]
  <2>1. i \in 1..Len(live) /\ i \in 1..Len(ages) + 1 - n /\ i + n - 1 \in 1..Len(ages)
    BY <1>3, <1>6, <1>6a
  <2>2. live[i] = ages[i + n - 1]
    BY <1>3, <2>1
  <2>3. left[i] = IF live[i] > Window THEN live[i] ELSE live[i] + 1
    BY <1>6, <2>1
  <2>4. all[i + n - 1] = IF ages[i + n - 1] > Window THEN ages[i + n - 1] ELSE ages[i + n - 1] + 1
    BY <1>5, <2>1
  <2> QED BY <2>2, <2>3, <2>4
<1>8. PICK m : m = FirstLive(all) /\ Ends(all, m)
  BY <1>5, FirstLiveEnds
<1>9. n <= m
  <2> SUFFICES ASSUME m < n PROVE FALSE
    BY <1>6a, <1>8 DEF Ends
  <2>1. m \in 1..n - 1 /\ m \in 1..Len(ages)
    BY <1>3, <1>6a, <1>8 DEF Ends
  <2>2. ages[m] \in Nat /\ ages[m] > Window
    BY <1>1, <2>1 DEF Ends
  <2>3. all[m] = ages[m]
    BY <1>5, <2>1, <2>2
  <2>4. all[m] <= Window
    BY <1>6a, <1>8, <2>1 DEF Ends
  <2> QED BY <2>2, <2>3, <2>4, LimitNumbers
<1>9a. m \in 1..Len(all) + 1 /\ m \in Nat
  BY <1>6a, <1>8 DEF Ends
<1>10. Ends(left, m - n + 1)
  <2>1. m - n + 1 \in 1..Len(left) + 1
    BY <1>6a, <1>9, <1>9a
  <2>2. ASSUME NEW i \in 1..(m - n + 1) - 1 PROVE left[i] > Window
    <3>1. i \in 1..Len(left) /\ i + n - 1 \in 1..m - 1
      BY <1>3, <1>6a, <1>9, <1>9a
    <3> QED BY <1>7, <1>8, <3>1 DEF Ends
  <2>3. ASSUME m - n + 1 <= Len(left) PROVE left[m - n + 1] <= Window
    <3>1. PICK i \in 1..Len(left) : i = m - n + 1 /\ i + n - 1 = m /\ m <= Len(all)
      BY <1>6a, <1>9, <1>9a, <2>3
    <3> QED BY <1>7, <1>8, <3>1 DEF Ends
  <2> QED BY <2>1, <2>2, <2>3 DEF Ends
<1>11. /\ Live(all) \in Seq(Nat) /\ Len(Live(all)) = Len(all) + 1 - m
       /\ \A i \in 1..Len(all) + 1 - m : Live(all)[i] = all[i + m - 1]
  BY <1>5, <1>8, LiveIs
<1>12. /\ Live(left) \in Seq(Nat) /\ Len(Live(left)) = Len(left) + 1 - (m - n + 1)
       /\ \A i \in 1..Len(left) + 1 - (m - n + 1) : Live(left)[i] = left[i + (m - n + 1) - 1]
  BY <1>6, <1>10, LiveIs
<1>13. Len(Live(left)) = Len(Live(all))
  <2>1. PICK q, r : q = Len(left) /\ r = Len(all)
    OBVIOUS
  <2>2. r \in Nat /\ q = r + 1 - n /\ n \in Nat /\ m \in Nat
    BY <1>6a, <1>9a, <2>1
  <2>3. q + 1 - (m - n + 1) = r + 1 - m
    BY <2>2
  <2> QED BY <1>11, <1>12, <2>1, <2>3
<1>14. ASSUME NEW i \in 1..Len(Live(all)) PROVE Live(left)[i] = Live(all)[i]
  <2>1. m \in Nat /\ n \in Nat /\ Len(all) \in Nat /\ Len(left) = Len(all) + 1 - n
    BY <1>6a, <1>9a
  <2>2. i \in 1..Len(all) + 1 - m /\ i \in 1..Len(left) + 1 - (m - n + 1)
    BY <1>11, <2>1
  <2>3. Live(left)[i] = left[i + (m - n)] /\ Live(all)[i] = all[i + m - 1]
    BY <1>11, <1>12, <2>1, <2>2
  <2>4. i + (m - n) \in 1..Len(left) /\ i + (m - n) + n - 1 = i + m - 1
    BY <1>9, <2>1, <2>2
  <2> QED BY <1>7, <2>3, <2>4
<1>15. \A i \in 1..Len(Live(left)) : Live(left)[i] = Live(all)[i]
  BY <1>13, <1>14
<1>16. Live(left) = Live(all)
  BY <1>11, <1>12, <1>13, <1>15, SeqEqual
<1> QED BY <1>2, <1>4, <1>16

\* The window stands still while neither table nor promises change.
LEMMA RefusingStays ==
    ASSUME LimitInv, UNCHANGED refusing
    PROVE  HitsOk' /\ PromisesOk'
BY DEF LimitInv, refusing, HitsOk, PromisesOk, Hits, Allowed, Tables

\* acquire, with the lock and without.
LEMMA LookFits == LimitInv /\ Look => LimitInv'
<1> SUFFICES ASSUME LimitInv, Look PROVE LimitInv'
  OBVIOUS
<1>1. HitsOk' /\ PromisesOk'
  BY RefusingStays DEF Look
<1>2. /\ requests \in Seq(Nat) /\ Len(requests) <= MaxRequests /\ holder = "none"
  BY DEF LimitInv, RequestsOk, Look
<1>3. PICK live : live = Live(requests)
  OBVIOUS
<1>4. live \in Seq(Nat) /\ Len(live) <= Len(requests)
  BY <1>2, <1>3, LiveFits
<1>5. \/ /\ Len(live) + 1 > MaxRequests
         /\ holder' = "sleeping" /\ requests' = live
      \/ /\ ~(Len(live) + 1 > MaxRequests)
         /\ requests' = Append(live, 0) /\ holder' = holder
  BY <1>3 DEF Look
<1>6. RequestsOk'
  <2>1. CASE Len(live) + 1 > MaxRequests
    <3>1. holder' = "sleeping" /\ requests' = live
      BY <1>5, <2>1
    <3>2. Len(live) \in Nat /\ Len(requests) \in Nat
      BY <1>2, <1>4
    <3>3. Len(live) = MaxRequests
      BY <1>2, <1>4, <2>1, <3>2, LimitNumbers
    <3> QED BY <1>4, <3>1, <3>3, LimitNumbers DEF RequestsOk
  <2>2. CASE ~(Len(live) + 1 > MaxRequests)
    <3>1. requests' = Append(live, 0) /\ holder' = "none"
      BY <1>2, <1>5, <2>2
    <3>2. requests' \in Seq(Nat) /\ Len(requests') = Len(live) + 1 /\ Len(live) \in Nat
      BY <1>4, <3>1, OneMore
    <3> QED BY <2>2, <3>1, <3>2, LimitNumbers DEF RequestsOk
  <2> QED BY <2>1, <2>2
<1> QED BY <1>1, <1>6 DEF LimitInv

LEMMA WakeFits == LimitInv /\ Wake => LimitInv'
<1> SUFFICES ASSUME LimitInv, Wake PROVE LimitInv'
  OBVIOUS
<1>1. HitsOk' /\ PromisesOk'
  BY RefusingStays DEF Wake
<1>2. requests \in Seq(Nat) /\ Len(requests) = MaxRequests /\ requests # <<>>
  BY LimitNumbers DEF LimitInv, RequestsOk, Wake
<1>3. Live(requests) \in Seq(Nat) /\ Len(Live(requests)) < Len(requests)
  BY <1>2, LiveFits DEF Wake
<1>4. requests' = Append(Live(requests), 0) /\ holder' = "none"
  BY DEF Wake
<1>5. RequestsOk'
  BY <1>2, <1>3, <1>4, LimitNumbers DEF RequestsOk
<1> QED BY <1>1, <1>5 DEF LimitInv

\* What of a table counts, as a sequence.
LEMMA HitsInIs ==
    ASSUME NEW h, Tables(h), NEW k
    PROVE  /\ HitsIn(h, k) \in Seq(Nat) /\ OldestFirst(HitsIn(h, k))
           /\ HitsIn(h, k) = <<>> \/ HitsIn(h, k)[1] <= Window
           /\ Live(HitsIn(h, k)) = HitsIn(h, k)
<1>1. CASE k \in DOMAIN h
  <2>1. PICK ages \in Seq(Nat) : ages = h[k] /\ OldestFirst(ages)
    BY <1>1 DEF Tables
  <2>2. HitsIn(h, k) = Live(ages)
    BY <1>1, <2>1 DEF HitsIn
  <2>3. PICK live : live = Live(ages)
    OBVIOUS
  <2>4. live \in Seq(Nat) /\ OldestFirst(live) /\ (live = <<>> \/ live[1] <= Window)
    BY <2>1, <2>3, LiveFits
  <2>5. Live(live) = live
    BY <2>4, AllLive
  <2> QED BY <2>2, <2>3, <2>4, <2>5
<1>2. CASE k \notin DOMAIN h
  <2>1. PICK none \in Seq(Nat) : none = <<>> /\ Len(none) = 0
    BY NoHits
  <2>2. HitsIn(h, k) = none
    BY <1>2, <2>1 DEF HitsIn
  <2>3. Live(none) = none /\ OldestFirst(none)
    <3>1. Live(none) = none
      BY <2>1, AllLive
    <3>2. OldestFirst(none)
      BY <2>1 DEF OldestFirst
    <3> QED BY <3>1, <3>2
  <2> QED BY <2>1, <2>2, <2>3
<1> QED BY <1>1, <1>2

\* _gc: only callers none of whose hits count are forgotten.
LEMMA CollectedKeeps ==
    ASSUME NEW h, Tables(h)
    PROVE  /\ Tables(Collected(h))
           /\ \A k : HitsIn(Collected(h), k) = HitsIn(h, k)
<1>1. CASE lastGc < GcEvery
  BY <1>1 DEF Collected
<1>2. CASE ~(lastGc < GcEvery)
  <2>1. PICK kept : kept = {j \in DOMAIN h : h[j] # <<>> /\ Last(h[j]) <= Window}
    OBVIOUS
  <2>2. Collected(h) = [k \in kept |-> h[k]]
    BY <1>2, <2>1 DEF Collected
  <2>3. Tables(Collected(h))
    BY <2>1, <2>2 DEF Tables
  <2>4. ASSUME NEW k PROVE HitsIn(Collected(h), k) = HitsIn(h, k)
    <3>1. CASE k \in kept
      BY <2>1, <2>2, <3>1 DEF HitsIn
    <3>2. CASE k \in DOMAIN h /\ k \notin kept
      <4>1. PICK ages \in Seq(Nat) : ages = h[k] /\ OldestFirst(ages)
        BY <3>2 DEF Tables
      <4>2. ages = <<>> \/ ~(ages[Len(ages)] <= Window)
        BY <2>1, <3>2, <4>1 DEF Last
      <4>3. Live(ages) = <<>>
        BY <4>1, <4>2, NoneLive
      <4> QED BY <2>2, <3>2, <4>1, <4>3 DEF HitsIn
    <3>3. CASE k \notin DOMAIN h
      BY <2>1, <2>2, <3>3 DEF HitsIn
    <3> QED BY <3>1, <3>2, <3>3
  <2> QED BY <2>3, <2>4
<1> QED BY <1>1, <1>2

\* setdefault and the pruning or the append of one caller's hits.
IsWith(h, k, ages, w) ==
    /\ DOMAIN w = DOMAIN h \union {k} /\ w[k] = ages
    /\ \A j \in DOMAIN h : j # k => w[j] = h[j]

InWindow(ages) == ages = <<>> \/ ages[1] <= Window

LEMMA WithIs ==
    ASSUME NEW h, Tables(h), NEW k \in Callers, NEW ages \in Seq(Nat), OldestFirst(ages),
           InWindow(ages), NEW w, IsWith(h, k, ages, w)
    PROVE  /\ Tables(w) /\ HitsIn(w, k) = ages
           /\ \A j : j # k => HitsIn(w, j) = HitsIn(h, j)
<1>1. Tables(w)
  BY DEF Tables, IsWith
<1>2. HitsIn(w, k) = ages
  BY AllLive DEF HitsIn, IsWith, InWindow
<1>3. ASSUME NEW j, j # k PROVE HitsIn(w, j) = HitsIn(h, j)
  BY <1>3 DEF HitsIn, IsWith
<1> QED BY <1>1, <1>2, <1>3

\* The same of the invariant: the table and what was let through.
LEMMA HitsFollow ==
    ASSUME Tables(hits'), granted' \in [Callers -> Seq(Nat)],
           \A k \in Callers : granted'[k] = HitsIn(hits', k) /\ Len(granted'[k]) <= Limit
    PROVE  HitsOk'
BY DEF HitsOk, Hits, HitsIn, Tables

LEMMA HitsAre == \A k : Hits(k) = HitsIn(hits, k) /\ Hits(k)' = HitsIn(hits', k)
BY DEF Hits, HitsIn

\* RetryAfter: rounded down and one more is more than what was left.
LEMMA RetryIsAfter ==
    ASSUME NEW oldest \in Nat, oldest <= Window
    PROVE  /\ RetryAfter(oldest) \in Nat
           /\ oldest + 2 * RetryAfter(oldest) > Window
<1>1. PICK left \in Nat : left = Window - oldest
  BY LimitNumbers
<1>2. PICK half \in Nat : half = left \div 2 /\ left <= 2 * half + 1
  BY <1>1
<1>3. RetryAfter(oldest) = half + 1
  BY <1>1, <1>2 DEF RetryAfter
<1> QED BY <1>1, <1>2, <1>3, LimitNumbers

LEMMA AllowFits ==
    ASSUME LimitInv, NEW token, NEW forwarded, NEW host \in Addresses, Allow(token, forwarded, host)
    PROVE  LimitInv'
<1>1. PICK k \in Callers : k = ClientKey(token, forwarded, host)
  BY DEF ClientKey, Callers
<1>2. RequestsOk'
  BY DEF Allow, waiting, LimitInv, RequestsOk
<1>3. PICK old : old = Hits(k)
  OBVIOUS
<1>4. /\ Tables(hits) /\ old = HitsIn(hits, k) /\ old \in Seq(Nat) /\ OldestFirst(old)
      /\ old = <<>> \/ old[1] <= Window
      /\ Live(old) = old
  <2>1. Tables(hits) /\ old = HitsIn(hits, k)
    BY <1>3, HitsAre DEF LimitInv, HitsOk
  <2> QED BY <2>1, HitsInIs
<1>5. CASE Allowed(k)
  <2>1. PICK ages \in Seq(Nat) : ages = Append(old, 0)
    BY <1>4, OneMore
  <2>2. PICK w : w = [j \in DOMAIN hits \union {k} |-> IF j = k THEN ages ELSE hits[j]]
    OBVIOUS
  <2>3. /\ hits' = Collected(w)
        /\ granted' = [granted EXCEPT ![k] = Append(Live(@), 0)]
        /\ promise' = [promise EXCEPT ![k] = NoPromise]
    BY <1>1, <1>3, <1>5, <2>1, <2>2 DEF Allow
  <2>4. OldestFirst(ages) /\ ages # <<>> /\ ages[1] <= Window /\ Len(ages) = Len(old) + 1
    BY <1>4, <2>1, LimitNumbers DEF OldestFirst
  <2>5. /\ Tables(w) /\ HitsIn(w, k) = ages
        /\ \A j : j # k => HitsIn(w, j) = HitsIn(hits, j)
    <3>1. IsWith(hits, k, ages, w)
      BY <2>2 DEF IsWith
    <3>2. InWindow(ages)
      BY <2>4 DEF InWindow
    <3>3. Tables(hits) /\ OldestFirst(ages)
      BY <1>4, <2>4
    <3>4. k \in Callers /\ ages \in Seq(Nat)
      BY <1>1, <2>1
    <3> QED BY <3>1, <3>2, <3>3, <3>4, WithIs
  <2>6. /\ Tables(hits') /\ HitsIn(hits', k) = ages
        /\ \A j : j # k => HitsIn(hits', j) = HitsIn(hits, j)
    BY <2>3, <2>5, CollectedKeeps
  <2>7. /\ granted \in [Callers -> Seq(Nat)]
        /\ \A j \in Callers : granted[j] = HitsIn(hits, j) /\ Len(granted[j]) <= Limit
    BY HitsAre DEF LimitInv, HitsOk
  <2>8. granted'[k] = ages /\ \A j \in Callers : j # k => granted'[j] = granted[j]
    BY <1>4, <2>1, <2>3, <2>7
  <2>9. granted' \in [Callers -> Seq(Nat)]
    BY <2>3, <2>7, <2>8
  <2>10. Len(ages) <= Limit
    BY <1>3, <1>4, <1>5, <2>4, LimitNumbers DEF Allowed
  <2>11. HitsOk'
    <3>1. \A j \in Callers : granted'[j] = HitsIn(hits', j) /\ Len(granted'[j]) <= Limit
      BY <2>6, <2>7, <2>8, <2>10
    <3> QED BY <2>6, <2>9, <3>1, HitsFollow
  <2>12. PromisesOk'
    <3>1. promise' \in [Callers -> Int] /\ promise'[k] = NoPromise
      BY <2>3 DEF LimitInv, PromisesOk, NoPromise
    <3>2. ASSUME NEW j \in Callers, promise'[j] >= 0
          PROVE  Allowed(j)' \/ (Hits(j)' # <<>> /\ Hits(j)'[1] + promise'[j] > Window)
      <4>1. j # k
        BY <3>1, <3>2 DEF NoPromise
      <4>2. promise'[j] = promise[j] /\ Hits(j)' = Hits(j)
        BY <2>3, <2>6, <4>1, HitsAre
      <4> QED BY <3>2, <4>2 DEF LimitInv, PromisesOk, Allowed
    <3> QED BY <3>1, <3>2 DEF PromisesOk
  <2> QED BY <1>2, <2>11, <2>12 DEF LimitInv
<1>6. CASE ~Allowed(k)
  <2>1. /\ hits' = [j \in DOMAIN hits \union {k} |-> IF j = k THEN old ELSE hits[j]]
        /\ promise' = [promise EXCEPT ![k] = 2 * RetryAfter(old[1])]
        /\ granted' = granted
    BY <1>1, <1>3, <1>6 DEF Allow
  <2>2. /\ Tables(hits') /\ HitsIn(hits', k) = old
        /\ \A j : j # k => HitsIn(hits', j) = HitsIn(hits, j)
    <3>1. PICK w : w = hits'
      OBVIOUS
    <3>2. IsWith(hits, k, old, w) /\ InWindow(old)
      BY <1>4, <2>1, <3>1 DEF IsWith, InWindow
    <3>3. /\ Tables(w) /\ HitsIn(w, k) = old
          /\ \A j : j # k => HitsIn(w, j) = HitsIn(hits, j)
      BY <1>1, <1>4, <3>2, WithIs
    <3> QED BY <3>1, <3>3
  <2>3. \A j : HitsIn(hits', j) = HitsIn(hits, j) /\ Hits(j)' = Hits(j)
    BY <1>4, <2>2, HitsAre
  <2>4. HitsOk'
    <3>1. granted' \in [Callers -> Seq(Nat)]
      BY <2>1 DEF LimitInv, HitsOk
    <3>2. \A j \in Callers : granted'[j] = HitsIn(hits', j) /\ Len(granted'[j]) <= Limit
      BY <2>1, <2>3, HitsAre DEF LimitInv, HitsOk
    <3> QED BY <2>2, <3>1, <3>2, HitsFollow
  <2>5. old # <<>> /\ old[1] \in Nat /\ old[1] <= Window
    BY <1>3, <1>4, <1>6, LimitNumbers DEF Allowed
  <2>6. RetryAfter(old[1]) \in Nat /\ old[1] + 2 * RetryAfter(old[1]) > Window
    BY <2>5, RetryIsAfter
  <2>7. PromisesOk'
    <3>1. promise \in [Callers -> Int]
      BY DEF LimitInv, PromisesOk
    <3>2. promise' \in [Callers -> Int] /\ promise'[k] = 2 * RetryAfter(old[1])
      BY <2>1, <2>6, <3>1
    <3>3. ASSUME NEW j \in Callers, promise'[j] >= 0
          PROVE  Allowed(j)' \/ (Hits(j)' # <<>> /\ Hits(j)'[1] + promise'[j] > Window)
      <4>1. CASE j = k
        BY <1>3, <2>3, <2>5, <2>6, <3>2, <4>1
      <4>2. CASE j # k
        <5>1. promise'[j] = promise[j] /\ Hits(j)' = Hits(j)
          BY <2>1, <2>3, <3>1, <4>2
        <5> QED BY <3>3, <5>1 DEF LimitInv, PromisesOk, Allowed
      <4> QED BY <4>1, <4>2
    <3> QED BY <3>2, <3>3 DEF PromisesOk
  <2> QED BY <1>2, <2>4, <2>7 DEF LimitInv
<1> QED BY <1>5, <1>6

LEMMA TimePassesFits == LimitInv /\ TimePasses => LimitInv'
<1> SUFFICES ASSUME LimitInv, TimePasses PROVE LimitInv'
  OBVIOUS
<1>1. RequestsOk'
  <2>1. requests' \in Seq(Nat) /\ Len(requests') = Len(requests)
    BY OlderIs DEF LimitInv, RequestsOk, TimePasses
  <2> QED BY <2>1 DEF LimitInv, RequestsOk, TimePasses
<1>2. Tables(hits')
  <2>1. hits' = [k \in DOMAIN hits |-> Older(hits[k])] /\ Tables(hits)
    BY DEF TimePasses, LimitInv, HitsOk
  <2> QED BY <2>1, OlderIs DEF Tables
<1>3. \A k : HitsIn(hits', k) = Live(Older(HitsIn(hits, k)))
  <2> SUFFICES ASSUME NEW k PROVE HitsIn(hits', k) = Live(Older(HitsIn(hits, k)))
    OBVIOUS
  <2>1. hits' = [j \in DOMAIN hits |-> Older(hits[j])] /\ Tables(hits)
    BY DEF TimePasses, LimitInv, HitsOk
  <2>2. CASE k \in DOMAIN hits
    <3>1. PICK ages \in Seq(Nat) : ages = hits[k]
      BY <2>1, <2>2 DEF Tables
    <3>2. HitsIn(hits', k) = Live(Older(ages)) /\ HitsIn(hits, k) = Live(ages)
      BY <2>1, <2>2, <3>1 DEF HitsIn
    <3> QED BY <3>1, <3>2, LiveAgain
  <2>3. CASE k \notin DOMAIN hits
    <3>1. HitsIn(hits', k) = <<>> /\ HitsIn(hits, k) = <<>>
      BY <2>1, <2>3 DEF HitsIn
    <3>2. PICK none \in Seq(Nat) : none = <<>> /\ Len(none) = 0
      BY NoHits
    <3>3. Older(none) \in Seq(Nat) /\ Len(Older(none)) = 0
      BY <3>2, OlderIs
    <3>4. Older(none) = <<>>
      BY <3>3
    <3>5. Live(none) = none
      BY <3>2, AllLive
    <3> QED BY <3>1, <3>2, <3>4, <3>5
  <2> QED BY <2>2, <2>3
<1>4. ASSUME NEW k \in Callers
      PROVE  /\ HitsIn(hits, k) \in Seq(Nat) /\ HitsIn(hits', k) \in Seq(Nat)
             /\ granted[k] = HitsIn(hits, k) /\ granted'[k] = HitsIn(hits', k)
             /\ Len(HitsIn(hits, k)) <= Limit
             /\ Len(HitsIn(hits', k)) <= Len(HitsIn(hits, k))
  <2>1. granted[k] = HitsIn(hits, k) /\ Len(granted[k]) <= Limit /\ Tables(hits)
    BY HitsAre DEF LimitInv, HitsOk
  <2>2. granted'[k] = Live(Older(granted[k]))
    BY DEF TimePasses
  <2>3. PICK old \in Seq(Nat) : old = HitsIn(hits, k)
    BY <2>1, HitsInIs
  <2>4. PICK aged \in Seq(Nat) : aged = Older(old) /\ Len(aged) = Len(old)
    BY OlderIs
  <2>5. Live(aged) \in Seq(Nat) /\ Len(Live(aged)) <= Len(aged)
    BY LiveFits
  <2>6. HitsIn(hits', k) = Live(aged)
    BY <1>3, <2>3, <2>4
  <2> QED BY <2>1, <2>2, <2>3, <2>4, <2>5, <2>6
<1>5. HitsOk'
  <2>1. granted' \in [Callers -> Seq(Nat)]
    <3>1. granted' = [k \in Callers |-> Live(Older(granted[k]))]
      BY DEF TimePasses
    <3>2. \A k \in Callers : granted'[k] \in Seq(Nat)
      BY <1>4
    <3> QED BY <3>1, <3>2
  <2>2. ASSUME NEW k \in Callers
        PROVE  granted'[k] = HitsIn(hits', k) /\ Len(granted'[k]) <= Limit
    <3>1. PICK old \in Seq(Nat) : old = HitsIn(hits, k) /\ Len(old) <= Limit
      BY <1>4
    <3>2. PICK new \in Seq(Nat) : new = HitsIn(hits', k) /\ Len(new) <= Len(old) /\ granted'[k] = new
      BY <1>4, <3>1
    <3> QED BY <3>1, <3>2, LimitNumbers
  <2> QED BY <1>2, <2>1, <2>2, HitsFollow
<1>6. PromisesOk'
  <2>1. /\ promise \in [Callers -> Int]
        /\ promise' = [k \in Callers |-> IF promise[k] > 0 THEN promise[k] - 1 ELSE promise[k]]
    BY DEF LimitInv, PromisesOk, TimePasses
  <2>2. promise' \in [Callers -> Int]
    BY <2>1
  <2>3. ASSUME NEW k \in Callers, promise'[k] >= 0
        PROVE  Allowed(k)' \/ (Hits(k)' # <<>> /\ Hits(k)'[1] + promise'[k] > Window)
    <3>1. PICK old \in Seq(Nat) : old = HitsIn(hits, k) /\ old = Hits(k) /\ Len(old) <= Limit
      BY <1>4, HitsAre
    <3>2. PICK new \in Seq(Nat) : new = HitsIn(hits', k) /\ new = Hits(k)' /\ Len(new) <= Len(old)
      BY <1>4, <3>1, HitsAre
    <3>3. PICK p \in Int : p = promise[k] /\ p >= 0 /\ promise'[k] = IF p > 0 THEN p - 1 ELSE p
      BY <2>1, <2>3
    <3>4. CASE Allowed(k)
      <4>1. Len(new) < Limit
        BY <3>1, <3>2, <3>4, LimitNumbers DEF Allowed
      <4> QED BY <3>2, <4>1 DEF Allowed
    <3>5. CASE ~Allowed(k)
      <4>1. old # <<>> /\ old[1] + p > Window
        BY <3>1, <3>3, <3>5 DEF LimitInv, PromisesOk
      <4>2. old[1] \in Nat /\ old[1] <= Window
        <5>1. Tables(hits)
          BY DEF LimitInv, HitsOk
        <5>2. old = <<>> \/ old[1] <= Window
          BY <3>1, <5>1, HitsInIs
        <5> QED BY <4>1, <5>2, FirstHit
      <4>3. promise'[k] = p - 1
        BY <3>3, <4>1, <4>2, LimitNumbers
      <4>4. PICK aged \in Seq(Nat) :
              aged = Older(old) /\ Len(aged) = Len(old) /\ aged[1] = old[1] + 1
        <5>1. /\ Older(old) \in Seq(Nat) /\ Len(Older(old)) = Len(old)
              /\ \A i \in 1..Len(old) :
                   Older(old)[i] = IF old[i] > Window THEN old[i] ELSE old[i] + 1
          BY OlderIs
        <5>2. 1 \in 1..Len(old)
          BY <4>1
        <5>3. Older(old)[1] = IF old[1] > Window THEN old[1] ELSE old[1] + 1
          BY <5>1, <5>2
        <5> QED BY <4>2, <5>1, <5>3, LimitNumbers
      <4>5. new = Live(aged)
        BY <1>3, <3>1, <3>2, <4>4
      <4>6. CASE aged[1] <= Window
        <5>1. new = aged
          BY <4>4, <4>5, <4>6, AllLive
        <5>2. new # <<>> /\ new[1] + promise'[k] > Window
          BY <4>1, <4>2, <4>3, <4>4, <5>1
        <5> QED BY <3>2, <5>2
      <4>7. CASE aged[1] > Window
        <5>1. aged # <<>>
          BY <4>1, <4>4
        <5>2. Len(new) < Len(aged)
          BY <4>5, <4>7, <5>1, LiveFits
        <5>3. Len(new) < Limit
          BY <3>1, <4>4, <5>2, LimitNumbers
        <5> QED BY <3>2, <5>3 DEF Allowed
      <4> QED BY <4>2, <4>4, <4>6, <4>7, LimitNumbers
    <3> QED BY <3>4, <3>5
  <2> QED BY <2>2, <2>3 DEF PromisesOk
<1> QED BY <1>1, <1>5, <1>6 DEF LimitInv

LEMMA LimitStarts == LimitInit => LimitInv
<1> SUFFICES ASSUME LimitInit PROVE LimitInv
  OBVIOUS
<1>1. RequestsOk
  BY LimitNumbers DEF LimitInit, RequestsOk
<1>2. HitsOk
  BY LimitNumbers DEF LimitInit, HitsOk, Tables, Hits
<1>3. PromisesOk
  BY DEF LimitInit, PromisesOk, NoPromise
<1> QED BY <1>1, <1>2, <1>3 DEF LimitInv

LEMMA LimitGoesOn == LimitInv /\ [LimitNext]_lvars => LimitInv'
<1> SUFFICES ASSUME LimitInv, [LimitNext]_lvars PROVE LimitInv'
  OBVIOUS
<1>1. CASE UNCHANGED lvars \/ \E f \in Fetchers : Acquire(f)
  <2>1. UNCHANGED refusing /\ UNCHANGED <<requests, holder>>
    BY <1>1 DEF lvars, refusing, Acquire
  <2>2. RequestsOk'
    BY <2>1 DEF LimitInv, RequestsOk
  <2> QED BY <2>1, <2>2, RefusingStays DEF LimitInv
<1>2. ASSUME NEW token \in Tokens \union {Nobody}, NEW forwarded \in Addresses \union {Nobody},
             NEW host \in Addresses, Allow(token, forwarded, host)
      PROVE  LimitInv'
  BY <1>2, AllowFits
<1> QED BY <1>1, <1>2, TimePassesFits, LookFits, WakeFits DEF LimitNext

LEMMA LimitHolds == LimitInv => BudgetsHold
<1> SUFFICES ASSUME LimitInv PROVE BudgetsHold
  OBVIOUS
<1>1. BinanceBudgetHolds
  <2>1. requests \in Seq(Nat) /\ Len(requests) <= MaxRequests
    BY DEF LimitInv, RequestsOk
  <2>2. Live(requests) \in Seq(Nat) /\ Len(Live(requests)) <= Len(requests)
    BY <2>1, LiveFits
  <2> QED BY <2>1, <2>2, LimitNumbers DEF BinanceBudgetHolds
<1>2. CallerBudgetHolds
  BY DEF CallerBudgetHolds, LimitInv, HitsOk
<1>3. RetryAfterIsEnough
  <2> SUFFICES ASSUME NEW k \in Callers, promise[k] = 0 PROVE Allowed(k)
    BY DEF RetryAfterIsEnough
  <2>1. Allowed(k) \/ (Hits(k) # <<>> /\ Hits(k)[1] + promise[k] > Window)
    BY DEF LimitInv, PromisesOk
  <2>2. Tables(hits) /\ Hits(k) = HitsIn(hits, k)
    BY HitsAre DEF LimitInv, HitsOk
  <2>3. PICK old \in Seq(Nat) : old = Hits(k) /\ (old = <<>> \/ old[1] <= Window)
    BY <2>2, HitsInIs
  <2>4. old # <<>> => old[1] \in Nat
    BY <2>3
  <2> QED BY <2>1, <2>3, <2>4, LimitNumbers
<1> QED BY <1>1, <1>2, <1>3 DEF BudgetsHold

\* rate_limiter.py, api_rate_limit.py: no window ever holds more than its budget,
\* and Retry-After is long enough, for any sizes, callers and times.
THEOREM BudgetsAreKept == LimitSpec => []BudgetsHold
<1>1. LimitSpec => []LimitInv
  BY LimitStarts, LimitGoesOn, PTL DEF LimitSpec
<1> QED BY <1>1, LimitHolds, PTL

-----------------------------------------------------------------------------
(* The execution desk: the inductive invariant.  Types ...                 *)

OrderStates == {"none", "new", "filled", "canceled"}
Places == {"idle", "entry", "wait", "stop", "targets", "finish", "rollback", "failed", "panic"}
HandlerStates == [at : Places, trade : 0..MaxExecutions, patient : BOOLEAN, confidence : 0..2]
PollAnswers == [order : Orders \cup {NoRead.order}, seen : OrderStates]
BreakerStates == [state : {"closed", "open", "half_open"}, failures : Nat, calls : 0..3]

DeskTypes == DeskTypeOK /\ poll \in PollAnswers

\* ... executions begin in order, and the handler's has begun ...
Begun ==
    /\ \E n \in 0..MaxExecutions : \A t \in Executions : status[t] # "none" <=> t <= n
    /\ handler.at \notin {"idle", "panic"} =>
          HandlerTrade \in Executions /\ status[HandlerTrade] # "none"
    /\ handler.at = "wait" => handler.patient

\* ... nobody has an order that was not placed yet ...
Unplaced(o) == book[o] = "none" /\ o \notin held

Yet ==
    CASE handler.at = "entry" -> Legs
      [] handler.at \in {"wait", "stop"} -> Legs \ {"entry"}
      [] handler.at = "targets" ->
           {"tp1"} \cup (IF <<HandlerTrade, "tp0">> \in held THEN {} ELSE {"tp0"})
      [] OTHER -> {}

NothingUnordered ==
    /\ \A t \in Executions : status[t] = "none" => \A l \in Legs : Unplaced(<<t, l>>)
    /\ \A l \in Yet : Unplaced(<<HandlerTrade, l>>)

\* ... a fill is in the book before anybody hears of it, and is told once ...
SeenIsSo == poll # NoRead => poll.order \in Orders /\ (poll.seen = "filled" => book[poll.order] = "filled")
ToldOnce == \A o \in Orders : notified[o] = IF o \in emitted THEN 1 ELSE 0

\* ... the OCO callback gives a stop up for a target that has filled alone ...
BothHeld(t) == LegsOf(t, Targets) \subseteq held
TargetFilled(t) == \E l \in Targets : book[<<t, l>>] = "filled"

OcoHasReason ==
    Spared({"fast_fill"}) =>
        /\ Placing => \A l \in Legs \ {"entry"} : book[<<HandlerTrade, l>>] # "filled"
        /\ \A t \in Executions : <<t, "stop">> \in oco => TargetFilled(t) /\ ~BothHeld(t)

\* ... one position is held, and the monitor knows it between two messages ...
OnePosition ==
    Spared({"lost_reply", "close_error", "patient"}) =>
        /\ ~handler.patient
        /\ \A t \in Executions : ~Resting(<<t, "entry">>)
        /\ position <= Size
        /\ handler.at \in {"entry", "failed"} => position = 0
        /\ handler.at \in {"idle", "panic"} /\ position > 0 => monitored # {}

\* ... and it has a stop, whose targets are both in the execution's record, so
\* that no target's fill gives the stop up.
Protected ==
    Spared({"lost_reply", "close_error", "fast_fill", "patient"}) =>
        /\ handler.at \in {"targets", "finish"} /\ position > 0 => Resting(<<HandlerTrade, "stop">>)
        /\ handler.at = "finish" => BothHeld(HandlerTrade)
        /\ handler.at = "idle" /\ position > 0 =>
              \E t \in Executions : Resting(<<t, "stop">>) /\ BothHeld(t)

DeskInv ==
    /\ DeskTypes /\ Begun /\ NothingUnordered /\ SeenIsSo /\ ToldOnce
    /\ NoStrayEntry /\ OcoHasReason /\ OnePosition /\ Protected

-----------------------------------------------------------------------------
(* Orders, the handler's record, what is pushed and what is closed.        *)

LEMMA OrderParts ==
    ASSUME NEW o \in Orders
    PROVE  o[1] \in Executions /\ o[2] \in Legs /\ o = <<o[1], o[2]>>
BY DEF Orders

LEMMA OrderMade ==
    ASSUME NEW t \in Executions, NEW l \in Legs
    PROVE  <<t, l>> \in Orders /\ <<t, l>>[1] = t /\ <<t, l>>[2] = l
BY DEF Orders

\* Two orders are the same only if their executions and their legs are.
LEMMA OrdersApart ==
    ASSUME NEW t, NEW l, NEW u, NEW m, <<t, l>> = <<u, m>>
    PROVE  t = u /\ l = m
OBVIOUS

LEMMA AtIs ==
    ASSUME DeskTypes, NEW place \in Places
    PROVE  /\ At(place) \in HandlerStates
           /\ At(place).at = place /\ At(place).trade = handler.trade
           /\ At(place).patient = handler.patient
           /\ At(place).confidence = handler.confidence
<1>1. handler \in HandlerStates
  BY DEF DeskTypes, DeskTypeOK, HandlerStates, Places
<1> QED BY <1>1 DEF At, HandlerStates, Places

LEMMA RestIs ==
    /\ Rest \in HandlerStates /\ Rest.at = "idle" /\ Rest.trade = 0 /\ Rest.patient = FALSE
    /\ [Rest EXCEPT !.at = "panic"] \in HandlerStates
    /\ [Rest EXCEPT !.at = "panic"].at = "panic"
    /\ [Rest EXCEPT !.at = "panic"].patient = FALSE
<1>1. Rest \in HandlerStates
  BY DeskAssumption DEF Rest, HandlerStates, Places
<1>2. PICK r \in HandlerStates : r = Rest
  BY <1>1
<1>3. [r EXCEPT !.at = "panic"] \in HandlerStates /\ [r EXCEPT !.at = "panic"].at = "panic"
      /\ [r EXCEPT !.at = "panic"].patient = r.patient
  BY DEF HandlerStates, Places
<1>4. Rest.at = "idle" /\ Rest.trade = 0 /\ Rest.patient = FALSE
  BY DEF Rest
<1> QED BY <1>1, <1>2, <1>3, <1>4

\* Orders that leave the book only go from resting to cancelled.
LEMMA CancelledIs ==
    ASSUME DeskTypes, NEW os
    PROVE  /\ Cancelled(os) \in [Orders -> OrderStates]
           /\ \A o \in Orders :
                Cancelled(os)[o] = IF o \in os /\ Resting(o) THEN "canceled" ELSE book[o]
BY DEF DeskTypes, DeskTypeOK, Cancelled, OrderStates

LEMMA PushesTyped ==
    ASSUME DeskTypes, NEW os \in SUBSET Orders, NEW f \in Pushes(os)
    PROVE  f \subseteq Orders
BY DEF DeskTypes, DeskTypeOK, Pushes

LEMMA ClosedIs ==
    ASSUME DeskTypes, NEW quantity \in Nat
    PROVE  /\ FullyClosed(quantity) \in Nat /\ FullyClosed(quantity) <= position
           /\ position <= quantity => FullyClosed(quantity) = 0
BY DEF DeskTypes, DeskTypeOK, FullyClosed, Least

-----------------------------------------------------------------------------
(* What the actions do to the book, the position and the handler.          *)

\* The book only loses resting orders.
Withdraws ==
    /\ book' \in [Orders -> OrderStates]
    /\ \A o \in Orders : book'[o] = book[o] \/ (Resting(o) /\ book'[o] = "canceled")

\* A cancel that may fail, and what it pushes.
LEMMA CancelWithdraws ==
    ASSUME DeskTypes, NEW os \in SUBSET Orders,
           book' = Cancelled(os) \/ UNCHANGED book
    PROVE  Withdraws
BY CancelledIs DEF Withdraws, DeskTypes, DeskTypeOK, OrderStates

LEMMA PendingIs ==
    ASSUME DeskTypes, CancelPending
    PROVE  /\ pending' = NoPending /\ feed' \subseteq Orders
           /\ book' = book \/ \E o \in Orders : book' = Cancelled({o})
<1>1. pending.trade # 0 => <<pending.trade, "entry">> \in Orders
  BY DEF DeskTypes, DeskTypeOK, Orders, Executions, Legs
<1>2. feed \subseteq Orders
  BY DEF DeskTypes, DeskTypeOK
<1>3. ASSUME NEW o \in Orders, NEW f \in Pushes({o}) PROVE f \subseteq Orders
  BY <1>3, PushesTyped
<1> QED BY <1>1, <1>2, <1>3 DEF CancelPending

\* What a placement of a leg does, whatever leg it is.
LegIsPlaced(leg, p) ==
    /\ book' = IF p.placed THEN [book EXCEPT ![<<HandlerTrade, leg>>] = "new"] ELSE book
    /\ held' = IF p.reply THEN held \cup {<<HandlerTrade, leg>>} ELSE held
    /\ handler' = IF ~p.reply THEN At("rollback")
                  ELSE IF leg = "tp1" THEN At("finish") ELSE At("targets")
    /\ status' = IF p.reply /\ leg = "tp1" THEN [status EXCEPT ![HandlerTrade] = "active"]
                 ELSE status
    /\ handler.at = "stop" => leg = "stop"
    /\ handler.at = "targets" => leg \in Targets
    /\ leg = "tp0" => <<HandlerTrade, "tp0">> \notin held
    /\ leg = "tp1" => <<HandlerTrade, "tp0">> \in held

LEMMA LegPlaced ==
    ASSUME PlaceLeg
    PROVE  \E leg \in Legs \ {"entry"}, p \in Placements : LegIsPlaced(leg, p)
<1>1. PICK leg \in Legs \ {"entry"} :
        leg = CASE handler.at = "stop" -> "stop"
                [] handler.at = "targets" /\ <<HandlerTrade, "tp0">> \notin held -> "tp0"
                [] OTHER -> "tp1"
  BY DEF Legs, Targets
<1>2. PICK p \in Placements :
        /\ book' = IF p.placed THEN [book EXCEPT ![<<HandlerTrade, leg>>] = "new"] ELSE book
        /\ held' = IF p.reply THEN held \cup {<<HandlerTrade, leg>>} ELSE held
        /\ handler' = CASE ~p.reply -> At("rollback")
                        [] p.reply /\ leg = "tp1" -> At("finish")
                        [] OTHER -> At("targets")
        /\ status' = IF p.reply /\ leg = "tp1"
                     THEN [status EXCEPT ![HandlerTrade] = "active"] ELSE status
  BY <1>1 DEF PlaceLeg
<1>3. /\ handler.at = "stop" => leg = "stop"
      /\ handler.at = "targets" => leg \in Targets
      /\ leg = "tp0" => <<HandlerTrade, "tp0">> \notin held
      /\ leg = "tp1" => <<HandlerTrade, "tp0">> \in held
  BY <1>1 DEF PlaceLeg, Targets
<1> QED BY <1>2, <1>3 DEF LegIsPlaced

\* What a placement leaves behind: an answer comes only of what was placed.
LEMMA PlacementIs ==
    ASSUME NEW p \in Placements
    PROVE  /\ p.reply \in BOOLEAN /\ p.placed \in BOOLEAN /\ (p.reply => p.placed)
           /\ p.placed /\ ~p.reply => "lost_reply" \in faults
<1>1. \/ p = [reply |-> TRUE, placed |-> TRUE]
      \/ p = [reply |-> FALSE, placed |-> FALSE]
      \/ p = [reply |-> FALSE, placed |-> TRUE] /\ "lost_reply" \in faults
  BY DEF Placements
<1>2. \/ p.reply = TRUE /\ p.placed = TRUE
      \/ p.reply = FALSE /\ p.placed = FALSE
      \/ p.reply = FALSE /\ p.placed = TRUE /\ "lost_reply" \in faults
  BY <1>1
<1> QED BY <1>2, Zenon

-----------------------------------------------------------------------------
(* Types are kept.                                                         *)

\* A message is taken: the inbox gets shorter.
LEMMA TakenIs ==
    ASSUME DeskTypes, NEW message, Take(message)
    PROVE  inbox' \in Seq({"trade", "panic", "close"}) /\ handler = Rest
<1>1. inbox \in Seq({"trade", "panic", "close"}) /\ inbox # <<>>
  BY DEF DeskTypes, DeskTypeOK, Take
<1> QED BY <1>1 DEF Take

LEMMA NextTradeIs ==
    ASSUME DeskTypes, Begun
    PROVE  /\ NextTrade \in Nat
           /\ NextTrade \in Executions => status[NextTrade] = "none"
           /\ \A t \in Executions : status[t] # "none" <=> t < NextTrade
           /\ NextTrade \in 1..MaxExecutions + 1
<1>1. PICK n \in 0..MaxExecutions : \A t \in Executions : status[t] # "none" <=> t <= n
  BY DEF Begun
<1>2. {t \in Executions : status[t] # "none"} = 1..n
  BY <1>1, DeskAssumption DEF Executions
<1>3. Cardinality(1..n) = n
  <2>1. n \in Int /\ 1 \in Int
    BY DeskAssumption
  <2>2. Cardinality(1..n) = IF 1 > n THEN 0 ELSE n - 1 + 1
    BY <2>1, FS_Interval
  <2> QED BY <2>2, DeskAssumption
<1>4. NextTrade = n + 1
  BY <1>2, <1>3 DEF NextTrade
<1> QED BY <1>1, <1>4, DeskAssumption DEF Executions

LEMMA AskedTyped ==
    ASSUME DeskTypes, NEW asked \in Asked
    PROVE  asked.breaker \in BreakerStates
<1>1. breaker \in BreakerStates
  BY DEF DeskTypes, DeskTypeOK, BreakerStates
<1>2. PICK b \in BreakerStates : b = breaker
  BY <1>1
<1>3. [b EXCEPT !.state = "half_open", !.calls = 0] \in BreakerStates
  <2>1. PICK c : c = [b EXCEPT !.state = "half_open"]
    OBVIOUS
  <2>2. c \in BreakerStates
    BY <2>1 DEF BreakerStates
  <2>3. [c EXCEPT !.calls = 0] \in BreakerStates
    BY <2>2 DEF BreakerStates
  <2> QED BY <2>1, <2>3
<1>4. asked.breaker = b \/ asked.breaker = [b EXCEPT !.state = "half_open", !.calls = 0]
  BY <1>2 DEF Asked
<1> QED BY <1>3, <1>4

LEMMA BreakerTyped ==
    ASSUME DeskTypes
    PROVE  Failed \in BreakerStates /\ Succeeded \in BreakerStates
<1>1. breaker \in BreakerStates
  BY DEF DeskTypes, DeskTypeOK, BreakerStates
<1>2. Failed \in BreakerStates
  <2>1. PICK b \in BreakerStates : b = breaker
    BY <1>1
  <2>2. PICK st \in {"closed", "open", "half_open"} :
          st = IF Threshold(b.failures + 1) THEN "open" ELSE b.state
    BY DEF BreakerStates
  <2>3. Failed = [b EXCEPT !.failures = b.failures + 1, !.state = st]
    BY <2>1, <2>2 DEF Failed
  <2>4. [b EXCEPT !.failures = b.failures + 1, !.state = st] \in BreakerStates
    <3>1. PICK c : c = [b EXCEPT !.failures = b.failures + 1]
      OBVIOUS
    <3>2. c \in BreakerStates
      BY <3>1 DEF BreakerStates
    <3>3. [c EXCEPT !.state = st] \in BreakerStates
      BY <3>2 DEF BreakerStates
    <3> QED BY <3>1, <3>3
  <2> QED BY <2>3, <2>4
<1>3. Succeeded \in BreakerStates
  BY <1>1 DEF Succeeded, BreakerStates
<1> QED BY <1>2, <1>3

\* The types, one variable after the other.
LEMMA TypesAre ==
    DeskTypes <=>
      /\ faults \in FaultPlans /\ mode \in {"live", "paper"}
      /\ inbox \in Seq({"trade", "panic", "close"}) /\ sent \in 0..MaxMessages
      /\ handler \in HandlerStates
      /\ book \in [Orders -> OrderStates] /\ position \in Nat /\ held \subseteq Orders
      /\ status \in [Executions -> {"none", "pending", "active", "failed", "timeout"}]
      /\ monitored \subseteq 0..MaxExecutions
      /\ pending \in [trade : 0..MaxExecutions, confidence : 0..2, expired : BOOLEAN]
      /\ tracked \in [Orders -> {"no", "new", "filled"}] /\ emitted \subseteq Orders
      /\ notified \in [Orders -> Nat] /\ feed \subseteq Orders
      /\ poll \in PollAnswers /\ oco \subseteq Orders
      /\ breaker \in BreakerStates
<1>1. poll \in PollAnswers => poll.order \in Orders \cup {NoRead.order}
  BY DEF PollAnswers
<1> QED
  BY <1>1 DEF DeskTypes, DeskTypeOK, HandlerStates, Places, OrderStates, BreakerStates

LEMMA StartTradeTyped ==
    ASSUME DeskTypes, Begun, NEW confidence \in 1..2, StartTrade(confidence)
    PROVE  DeskTypes'
<1>1. inbox' \in Seq({"trade", "panic", "close"})
  BY TakenIs DEF StartTrade
<1>2. CASE UNCHANGED <<handler, book, feed, status, pending, breaker>>
  BY <1>1, <1>2 DEF StartTrade, DeskTypes, DeskTypeOK, trackerVars
<1>3. CASE ~UNCHANGED <<handler, book, feed, status, pending, breaker>>
  <2>1. PICK asked \in Asked, patient \in BOOLEAN :
          /\ breaker' = asked.breaker
          /\ IF asked.may /\ (patient => ShouldReplace(confidence)) /\ NextTrade \in Executions
             THEN /\ handler' = [at |-> "entry", trade |-> NextTrade, patient |-> patient,
                                 confidence |-> IF patient THEN confidence ELSE 0]
                  /\ status' = [status EXCEPT ![NextTrade] = "pending"]
                  /\ CancelPending
             ELSE UNCHANGED <<handler, book, feed, status, pending>>
    BY <1>3 DEF StartTrade
  <2>2. breaker' \in BreakerStates
    BY <2>1, AskedTyped
  <2>3. CASE UNCHANGED <<handler, book, feed, status, pending>>
    BY <1>1, <2>2, <2>3 DEF StartTrade, DeskTypes, DeskTypeOK, trackerVars, BreakerStates
  <2>4. CASE CancelPending /\ NextTrade \in Executions
             /\ handler' = [at |-> "entry", trade |-> NextTrade, patient |-> patient,
                            confidence |-> IF patient THEN confidence ELSE 0]
             /\ status' = [status EXCEPT ![NextTrade] = "pending"]
    <3>1. handler' \in HandlerStates
      BY <2>4, DeskAssumption DEF HandlerStates, Places, Executions
    <3>2. status' \in [Executions -> {"none", "pending", "active", "failed", "timeout"}]
      BY <2>4 DEF DeskTypes, DeskTypeOK
    <3>3. pending' = NoPending /\ feed' \subseteq Orders /\ book' \in [Orders -> OrderStates]
      <4>1. /\ pending' = NoPending /\ feed' \subseteq Orders
            /\ book' = book \/ \E o \in Orders : book' = Cancelled({o})
        BY <2>4, PendingIs
      <4>2. ASSUME NEW o \in Orders PROVE Cancelled({o}) \in [Orders -> OrderStates]
        BY CancelledIs
      <4>3. book \in [Orders -> OrderStates]
        BY DEF DeskTypes, DeskTypeOK, OrderStates
      <4> QED BY <4>1, <4>2, <4>3
    <3>4. NoPending \in [trade : 0..MaxExecutions, confidence : 0..2, expired : BOOLEAN]
      BY DeskAssumption DEF NoPending
    <3>5. UNCHANGED <<faults, mode, sent, position, held, monitored, trackerVars>>
      BY DEF StartTrade
    <3> QED
      BY <1>1, <2>2, <3>1, <3>2, <3>3, <3>4, <3>5
      DEF DeskTypes, DeskTypeOK, trackerVars, HandlerStates, Places, OrderStates, BreakerStates
  <2> QED BY <2>1, <2>3, <2>4
<1> QED BY <1>2, <1>3

LEMMA PlaceEntryTyped ==
    ASSUME DeskTypes, Begun, PlaceEntry
    PROVE  DeskTypes'
<1>1. HandlerTrade \in Executions /\ <<HandlerTrade, "entry">> \in Orders
  BY OrderMade DEF Begun, PlaceEntry, Legs
<1>2. handler' \in HandlerStates
  BY AtIs DEF PlaceEntry, Places
<1>3. book' \in [Orders -> OrderStates] /\ held' \subseteq Orders
  BY <1>1 DEF PlaceEntry, DeskTypes, DeskTypeOK, OrderStates
<1>4. position' \in Nat
  BY DEF PlaceEntry, DeskTypes, DeskTypeOK, Size
<1>5. feed' \subseteq Orders
  <2>1. ASSUME NEW f \in Pushes({<<HandlerTrade, "entry">>}) PROVE f \subseteq Orders
    BY <1>1, <2>1, PushesTyped
  <2>2. feed' = feed \/ \E f \in Pushes({<<HandlerTrade, "entry">>}) : feed' = f
    BY DEF PlaceEntry
  <2> QED BY <2>1, <2>2 DEF DeskTypes, DeskTypeOK
<1> QED
  BY <1>2, <1>3, <1>4, <1>5
  DEF PlaceEntry, DeskTypes, DeskTypeOK, trackerVars, HandlerStates, Places, OrderStates

\* The three ends of the wait.
LEMMA WaitTyped ==
    ASSUME DeskTypes, Begun, WaitFilled \/ WaitEnds \/ WaitFails
    PROVE  DeskTypes'
<1>1. HandlerTrade \in Executions /\ <<HandlerTrade, "entry">> \in Orders
  BY OrderMade DEF Begun, WaitFilled, WaitEnds, WaitFails, Legs
<1>2. handler' \in HandlerStates
  BY AtIs DEF WaitFilled, WaitEnds, WaitFails, Places
<1>3. book' \in [Orders -> OrderStates]
  BY CancelledIs DEF WaitFilled, WaitEnds, WaitFails, DeskTypes, DeskTypeOK, OrderStates
<1>4. feed' \subseteq Orders
  <2>1. ASSUME NEW f \in Pushes({<<HandlerTrade, "entry">>}) PROVE f \subseteq Orders
    BY <1>1, <2>1, PushesTyped
  <2>2. feed' = feed \/ \E f \in Pushes({<<HandlerTrade, "entry">>}) : feed' = f
    BY DEF WaitFilled, WaitEnds, WaitFails
  <2> QED BY <2>1, <2>2 DEF DeskTypes, DeskTypeOK
<1>5. status' \in [Executions -> {"none", "pending", "active", "failed", "timeout"}]
  BY DEF WaitFilled, WaitEnds, WaitFails, DeskTypes, DeskTypeOK
<1>6. UNCHANGED <<faults, mode, inbox, sent, position, held, monitored, pending, breaker, trackerVars>>
  BY DEF WaitFilled, WaitEnds, WaitFails
<1> QED
  BY <1>2, <1>3, <1>4, <1>5, <1>6
  DEF DeskTypes, DeskTypeOK, trackerVars, HandlerStates, Places, OrderStates

LEMMA PlaceLegTyped ==
    ASSUME DeskTypes, Begun, PlaceLeg
    PROVE  DeskTypes'
<1>1. PICK leg \in Legs \ {"entry"}, p \in Placements : LegIsPlaced(leg, p)
  BY LegPlaced
<1>2. HandlerTrade \in Executions /\ <<HandlerTrade, leg>> \in Orders
  BY OrderMade DEF Begun, PlaceLeg
<1>3. handler' \in HandlerStates
  BY <1>1, AtIs DEF Places, LegIsPlaced
<1>4. book' \in [Orders -> OrderStates] /\ held' \subseteq Orders
  BY <1>1, <1>2 DEF DeskTypes, DeskTypeOK, OrderStates, LegIsPlaced
<1>5. status' \in [Executions -> {"none", "pending", "active", "failed", "timeout"}]
  BY <1>1 DEF DeskTypes, DeskTypeOK, LegIsPlaced
<1> QED
  BY <1>3, <1>4, <1>5 DEF PlaceLeg, DeskTypes, DeskTypeOK, trackerVars, HandlerStates, Places, OrderStates

LEMMA RollbackTyped ==
    ASSUME DeskTypes, Rollback
    PROVE  DeskTypes'
<1>1. handler' \in HandlerStates
  BY AtIs DEF Rollback, Places
<1>2. position' \in Nat
  <2>1. Size \in Nat
    BY DEF Size
  <2>2. FullyClosed(Size) \in Nat
    BY <2>1, ClosedIs
  <2>3. position \in Nat
    BY DEF DeskTypes, DeskTypeOK
  <2> QED BY <2>2, <2>3 DEF Rollback
<1>3. book' \in [Orders -> OrderStates]
  BY CancelledIs DEF Rollback, DeskTypes, DeskTypeOK, OrderStates
<1>4. feed' \subseteq Orders
  <2>1. PICK legs \in SUBSET Orders : legs = held \cap LegsOf(HandlerTrade, {"stop"} \cup Targets)
    BY DEF DeskTypes, DeskTypeOK
  <2>2. PICK resting \in SUBSET Orders : resting = {o \in legs : Resting(o)}
    OBVIOUS
  <2>3. feed' = feed \/ \E f \in Pushes(resting) : feed' = f
    BY <2>1, <2>2 DEF Rollback
  <2> QED BY <2>3, PushesTyped DEF DeskTypes, DeskTypeOK
<1>5. UNCHANGED <<faults, mode, inbox, sent, held, status, monitored, pending, breaker, trackerVars>>
  BY DEF Rollback
<1> QED
  BY <1>1, <1>2, <1>3, <1>4, <1>5 DEF DeskTypes, DeskTypeOK, trackerVars, HandlerStates, Places, OrderStates

\* What a finished execution leaves behind.
LEMMA AddedTyped ==
    ASSUME DeskTypes, AddPending
    PROVE  pending' \in [trade : 0..MaxExecutions, confidence : 0..2, expired : BOOLEAN]
<1>1. handler \in HandlerStates
  BY DEF DeskTypes, DeskTypeOK, HandlerStates, Places
<1> QED BY <1>1 DEF AddPending, HandlerStates, HandlerTrade

LEMMA ReportFailureTyped ==
    ASSUME DeskTypes, ReportFailure
    PROVE  DeskTypes'
<1>1. handler' \in HandlerStates
  BY RestIs DEF ReportFailure
<1>2. /\ breaker' \in BreakerStates
      /\ pending' \in [trade : 0..MaxExecutions, confidence : 0..2, expired : BOOLEAN]
  BY AddedTyped, BreakerTyped DEF ReportFailure, DeskTypes, DeskTypeOK, BreakerStates
<1>3. status' \in [Executions -> {"none", "pending", "active", "failed", "timeout"}]
  BY DEF ReportFailure, DeskTypes, DeskTypeOK
<1>4. UNCHANGED <<faults, mode, inbox, sent, book, position, held, monitored, feed, trackerVars>>
  BY DEF ReportFailure
<1> QED
  BY <1>1, <1>2, <1>3, <1>4 DEF DeskTypes, DeskTypeOK, trackerVars, HandlerStates, Places, BreakerStates

LEMMA FinishTyped ==
    ASSUME DeskTypes, Begun, Finish
    PROVE  DeskTypes'
<1>1. handler' \in HandlerStates
  BY RestIs DEF Finish
<1>2. /\ breaker' \in BreakerStates
      /\ pending' \in [trade : 0..MaxExecutions, confidence : 0..2, expired : BOOLEAN]
  BY AddedTyped, BreakerTyped DEF Finish, DeskTypes, DeskTypeOK, BreakerStates
<1>3. monitored' \subseteq 0..MaxExecutions
  <2>1. HandlerTrade \in Executions
    BY DEF Finish, Begun
  <2>2. HandlerTrade \in 0..MaxExecutions
    BY <2>1, DeskAssumption DEF Executions
  <2>3. monitored' \subseteq monitored \cup {HandlerTrade}
    BY DEF Finish
  <2> QED BY <2>2, <2>3 DEF DeskTypes, DeskTypeOK
<1>4. tracked' \in [Orders -> {"no", "new", "filled"}]
  BY DEF Finish, DeskTypes, DeskTypeOK
<1>5. UNCHANGED <<faults, mode, inbox, sent, book, position, held, status, feed,
                  emitted, notified, poll, oco>>
  BY DEF Finish
<1> QED
  BY <1>1, <1>2, <1>3, <1>4, <1>5 DEF DeskTypes, DeskTypeOK, HandlerStates, Places, BreakerStates

\* What the monitor lists is worth a size each.
LEMMA MonitoredIs ==
    ASSUME DeskTypes
    PROVE  /\ Cardinality(monitored) * Size \in Nat
           /\ monitored # {} => Size <= Cardinality(monitored) * Size
<1>1. IsFiniteSet(monitored)
  <2>1. IsFiniteSet(0..MaxExecutions)
    BY DeskAssumption, FS_Interval
  <2> QED BY <2>1, FS_Subset DEF DeskTypes, DeskTypeOK
<1>2. Cardinality(monitored) \in Nat
  BY <1>1, FS_CardinalityType
<1>3. monitored # {} => Cardinality(monitored) # 0
  BY <1>1, FS_EmptySet
<1> QED BY <1>2, <1>3 DEF Size

LEMMA CloseAndPanicTyped ==
    ASSUME DeskTypes, ClosePosition \/ PanicCancel \/ PanicClose
    PROVE  DeskTypes'
<1>1. CASE ClosePosition
  <2>1. inbox' \in Seq({"trade", "panic", "close"})
    BY <1>1, TakenIs DEF ClosePosition
  <2>2. Size \in Nat
    BY DEF Size
  <2>3. FullyClosed(Size) \in Nat
    BY <2>2, ClosedIs
  <2>4. position' \in Nat
    BY <1>1, <2>3 DEF ClosePosition, DeskTypes, DeskTypeOK
  <2> QED BY <1>1, <2>1, <2>4 DEF ClosePosition, DeskTypes, DeskTypeOK, trackerVars
<1>2. CASE PanicCancel
  <2>1. inbox' \in Seq({"trade", "panic", "close"})
    BY <1>2, TakenIs DEF PanicCancel
  <2>2. handler' \in HandlerStates
    BY <1>2, RestIs DEF PanicCancel
  <2>3. book' \in [Orders -> OrderStates]
    BY <1>2, CancelledIs DEF PanicCancel, DeskTypes, DeskTypeOK, OrderStates
  <2>4. feed' \subseteq Orders
    <3>1. PICK resting \in SUBSET Orders : resting = {o \in Orders : Resting(o)}
      OBVIOUS
    <3>2. ASSUME NEW f \in Pushes(resting) PROVE f \subseteq Orders
      BY <3>2, PushesTyped
    <3>3. feed' = feed \/ \E f \in Pushes(resting) : feed' = f
      BY <1>2, <3>1 DEF PanicCancel
    <3> QED BY <3>2, <3>3 DEF DeskTypes, DeskTypeOK
  <2>5. UNCHANGED <<faults, mode, sent, position, held, status, monitored, pending, breaker, trackerVars>>
    BY <1>2 DEF PanicCancel
  <2> QED
    BY <2>1, <2>2, <2>3, <2>4, <2>5
    DEF DeskTypes, DeskTypeOK, trackerVars, HandlerStates, Places, OrderStates
<1>3. CASE PanicClose
  <2>3. Cardinality(monitored) * Size \in Nat
    BY MonitoredIs
  <2>4. FullyClosed(Cardinality(monitored) * Size) \in Nat
    BY <2>3, ClosedIs
  <2>5. position' \in Nat
    BY <1>3, <2>4 DEF PanicClose, DeskTypes, DeskTypeOK
  <2>6. handler' \in HandlerStates
    BY <1>3, RestIs DEF PanicClose
  <2> QED
    BY <1>3, <2>5, <2>6 DEF PanicClose, DeskTypes, DeskTypeOK, trackerVars, HandlerStates, Places
<1> QED BY <1>1, <1>2, <1>3

\* _dispatch_order_event
LEMMA DispatchTyped ==
    ASSUME DeskTypes, NEW o \in Orders, NEW seen, Dispatch(o, seen)
    PROVE  /\ notified' \in [Orders -> Nat] /\ emitted' \subseteq Orders /\ oco' \subseteq Orders
           /\ tracked' \in [Orders -> {"no", "new", "filled"}]
<1>1. Siblings(o) \subseteq Orders
  BY DEF Siblings, DeskTypes, DeskTypeOK
<1> QED BY <1>1 DEF Dispatch, DeskTypes, DeskTypeOK

LEMMA NoReadTyped == NoRead \in PollAnswers
BY DEF NoRead, PollAnswers, OrderStates

LEMMA TrackerTyped ==
    ASSUME DeskTypes, SeenIsSo,
           WsEvent \/ PollApply \/ \E o \in Orders : PollRead(o) \/ OcoCancel(o)
    PROVE  DeskTypes'
<1>1. CASE WsEvent
  <2>1. PICK o \in feed : feed' = feed \ {o} /\ Dispatch(o, book[o])
    BY <1>1 DEF WsEvent
  <2>2. o \in Orders
    BY DEF DeskTypes, DeskTypeOK
  <2> QED BY <1>1, <2>1, <2>2, DispatchTyped DEF WsEvent, DeskTypes, DeskTypeOK, serviceVars
<1>2. CASE PollApply
  <2>1. poll.order \in Orders
    BY <1>2 DEF PollApply, SeenIsSo
  <2>2. poll' \in PollAnswers
    BY <1>2, NoReadTyped DEF PollApply
  <2>3. /\ notified' \in [Orders -> Nat] /\ emitted' \subseteq Orders /\ oco' \subseteq Orders
        /\ tracked' \in [Orders -> {"no", "new", "filled"}]
    BY <1>2, <2>1, DispatchTyped DEF PollApply, DeskTypes, DeskTypeOK
  <2>4. UNCHANGED <<faults, mode, book, position, feed, serviceVars>>
    BY <1>2 DEF PollApply
  <2>5. poll'.order \in Orders \cup {NoRead.order}
    BY <2>2 DEF PollAnswers
  <2> QED BY <2>2, <2>3, <2>4, <2>5 DEF DeskTypes, DeskTypeOK, serviceVars
<1>3. ASSUME NEW o \in Orders, PollRead(o) PROVE DeskTypes'
  <2>1. poll' = [order |-> o, seen |-> book[o]]
    BY <1>3 DEF PollRead
  <2>2. poll' \in PollAnswers
    BY <2>1 DEF PollAnswers, DeskTypes, DeskTypeOK, OrderStates
  <2>3. poll'.order \in Orders \cup {NoRead.order}
    BY <2>2 DEF PollAnswers
  <2> QED BY <1>3, <2>2, <2>3 DEF PollRead, DeskTypes, DeskTypeOK, serviceVars
<1>4. ASSUME NEW o \in Orders, OcoCancel(o) PROVE DeskTypes'
  <2>1. book' \in [Orders -> OrderStates]
    BY <1>4, CancelledIs DEF OcoCancel, DeskTypes, DeskTypeOK, OrderStates
  <2>2. ASSUME NEW f \in Pushes({o}) PROVE f \subseteq Orders
    BY <2>2, PushesTyped
  <2>3. feed' = feed \/ \E f \in Pushes({o}) : feed' = f
    BY <1>4 DEF OcoCancel
  <2>4. feed' \subseteq Orders
    BY <2>2, <2>3 DEF DeskTypes, DeskTypeOK
  <2>5. oco' \subseteq Orders /\ tracked' \in [Orders -> {"no", "new", "filled"}]
    BY <1>4 DEF OcoCancel, DeskTypes, DeskTypeOK
  <2>6. UNCHANGED <<faults, mode, position, serviceVars, emitted, notified, poll>>
    BY <1>4 DEF OcoCancel
  <2> QED BY <2>1, <2>4, <2>5, <2>6 DEF DeskTypes, DeskTypeOK, serviceVars, OrderStates
<1> QED BY <1>1, <1>2, <1>3, <1>4

LEMMA FillLegTyped ==
    ASSUME DeskTypes, NEW o \in Orders, FillLeg(o)
    PROVE  DeskTypes'
<1>1. book' \in [Orders -> OrderStates]
  BY DEF FillLeg, DeskTypes, DeskTypeOK, OrderStates
<1>2. position' \in Nat
  <2>1. Quantity(o[2]) \in Nat /\ Size \in Nat
    BY DEF Quantity, Size
  <2> QED BY <2>1 DEF FillLeg, DeskTypes, DeskTypeOK, Least
<1>3. feed' \subseteq Orders
  <2>1. ASSUME NEW f \in Pushes({o}) PROVE f \subseteq Orders
    BY <2>1, PushesTyped
  <2> QED BY <2>1 DEF FillLeg
<1> QED BY <1>1, <1>2, <1>3 DEF FillLeg, DeskTypes, DeskTypeOK, serviceVars, trackerVars, OrderStates

LEMMA LoopsTyped ==
    ASSUME DeskTypes, MonitorTick \/ Expire \/ PendingTick
                      \/ \E message \in {"trade", "panic", "close"} : Send(message)
    PROVE  DeskTypes'
<1>1. CASE MonitorTick
  BY <1>1, DeskAssumption DEF MonitorTick, DeskTypes, DeskTypeOK, trackerVars
<1>2. CASE Expire
  <2>1. pending' \in [trade : 0..MaxExecutions, confidence : 0..2, expired : BOOLEAN]
    BY <1>2 DEF Expire, DeskTypes, DeskTypeOK
  <2> QED BY <1>2, <2>1 DEF Expire, DeskTypes, DeskTypeOK, trackerVars
<1>3. CASE PendingTick
  <2>1. pending' \in [trade : 0..MaxExecutions, confidence : 0..2, expired : BOOLEAN]
    BY <1>3, DeskAssumption DEF PendingTick, NoPending
  <2> QED BY <1>3, <2>1 DEF PendingTick, DeskTypes, DeskTypeOK, trackerVars
<1>4. ASSUME NEW message \in {"trade", "panic", "close"}, Send(message) PROVE DeskTypes'
  <2>1. inbox' \in Seq({"trade", "panic", "close"})
    BY <1>4 DEF Send, DeskTypes, DeskTypeOK
  <2>2. sent' \in 0..MaxMessages
    BY <1>4, DeskAssumption DEF Send, DeskTypes, DeskTypeOK
  <2> QED BY <1>4, <2>1, <2>2 DEF Send, DeskTypes, DeskTypeOK, trackerVars
<1> QED BY <1>1, <1>2, <1>3, <1>4

LEMMA StepKeepsTypes ==
    ASSUME DeskTypes, Begun, SeenIsSo, [DeskNext]_deskVars
    PROVE  DeskTypes'
<1>1. CASE Handle
  BY <1>1, StartTradeTyped, PlaceEntryTyped, WaitTyped, PlaceLegTyped, RollbackTyped,
     ReportFailureTyped, FinishTyped, CloseAndPanicTyped DEF Handle
<1>2. CASE \E o \in Orders : FillLeg(o)
  BY <1>2, FillLegTyped
<1>3. CASE WsEvent \/ PollApply \/ \E o \in Orders : PollRead(o) \/ OcoCancel(o)
  BY <1>3, TrackerTyped
<1>4. CASE MonitorTick \/ Expire \/ PendingTick
           \/ \E message \in {"trade", "panic", "close"} : Send(message)
  BY <1>4, LoopsTyped
<1>5. CASE UNCHANGED deskVars
  BY <1>5 DEF deskVars, serviceVars, trackerVars, DeskTypes, DeskTypeOK
<1> QED BY <1>1, <1>2, <1>3, <1>4, <1>5 DEF DeskNext

-----------------------------------------------------------------------------
(* Executions begin in order and order leg after leg.                      *)

\* The handler goes on with its execution ...
LEMMA GoesOnBegun ==
    ASSUME DeskTypes, Begun, handler.at \notin {"idle", "panic"}, NEW place \in Places,
           handler' = At(place), place # "wait" \/ handler.patient,
           \A t \in Executions : (status'[t] # "none") = (status[t] # "none")
    PROVE  Begun'
<1>1. handler'.trade = handler.trade /\ handler'.at = place /\ handler'.patient = handler.patient
  BY AtIs
<1> QED BY <1>1 DEF Begun, HandlerTrade

\* ... or is between two messages.
LEMMA RestsBegun ==
    ASSUME DeskTypes, Begun, handler'.at \in {"idle", "panic"},
           \A t \in Executions : (status'[t] # "none") = (status[t] # "none")
    PROVE  Begun'
BY DEF Begun, HandlerTrade

\* _handle_execute_trade begins the next execution, or nothing.
LEMMA StartIs ==
    ASSUME DeskTypes, NEW confidence \in 1..2, StartTrade(confidence)
    PROVE  \/ UNCHANGED <<handler, book, status>>
           \/ /\ monitored = {} /\ NextTrade \in Executions /\ Withdraws
              /\ handler'.at = "entry" /\ handler'.trade = NextTrade
              /\ handler'.patient => "patient" \in faults
              /\ status' = [status EXCEPT ![NextTrade] = "pending"]
<1>1. CASE UNCHANGED <<handler, book, status>>
  BY <1>1
<1>2. CASE ~UNCHANGED <<handler, book, status>>
  <2>1. monitored = {}
    BY <1>2 DEF StartTrade
  <2>2. PICK asked \in Asked, patient \in BOOLEAN :
          /\ patient => "patient" \in faults
          /\ IF asked.may /\ (patient => ShouldReplace(confidence)) /\ NextTrade \in Executions
             THEN /\ handler' = [at |-> "entry", trade |-> NextTrade, patient |-> patient,
                                 confidence |-> IF patient THEN confidence ELSE 0]
                  /\ status' = [status EXCEPT ![NextTrade] = "pending"]
                  /\ CancelPending
             ELSE UNCHANGED <<handler, book, feed, status, pending>>
    BY <2>1, <1>2 DEF StartTrade
  <2>3. /\ NextTrade \in Executions
        /\ handler' = [at |-> "entry", trade |-> NextTrade, patient |-> patient,
                       confidence |-> IF patient THEN confidence ELSE 0]
        /\ status' = [status EXCEPT ![NextTrade] = "pending"]
        /\ CancelPending
    BY <2>2, <1>2
  <2>4. book' = book \/ \E o \in Orders : book' = Cancelled({o})
    BY <2>3, PendingIs
  <2>5. Withdraws
    <3>1. ASSUME NEW o \in Orders, book' = Cancelled({o}) PROVE Withdraws
      <4>1. PICK os \in SUBSET Orders : os = {o}
        OBVIOUS
      <4> QED BY <3>1, <4>1, CancelWithdraws
    <3>2. CASE book' = book
      <4>1. PICK os \in SUBSET Orders : os = {}
        OBVIOUS
      <4> QED BY <3>2, <4>1, CancelWithdraws
    <3> QED BY <2>4, <3>1, <3>2
  <2> QED BY <2>1, <2>2, <2>3, <2>5
<1> QED BY <1>1, <1>2

LEMMA StepKeepsBegun ==
    ASSUME DeskTypes, Begun, [DeskNext]_deskVars
    PROVE  Begun'
<1>1. status \in [Executions -> {"none", "pending", "active", "failed", "timeout"}]
  BY DEF DeskTypes, DeskTypeOK
<1>2. CASE UNCHANGED <<handler, status>>
  BY <1>2 DEF Begun, HandlerTrade
<1>3. ASSUME NEW confidence \in 1..2, StartTrade(confidence), ~UNCHANGED <<handler, status>>
      PROVE  Begun'
  <2>1. /\ NextTrade \in Executions
        /\ handler'.at = "entry" /\ handler'.trade = NextTrade
        /\ status' = [status EXCEPT ![NextTrade] = "pending"]
    BY <1>3, StartIs
  <2>2. \A t \in Executions : status'[t] # "none" <=> t <= NextTrade
    BY <2>1, <1>1, NextTradeIs, DeskAssumption DEF Executions
  <2>3. NextTrade \in 0..MaxExecutions
    BY <2>1, DeskAssumption DEF Executions
  <2> QED BY <2>1, <2>2, <2>3, <1>1 DEF Begun, HandlerTrade
<1>4. CASE PlaceEntry
  <2>1. PICK place \in Places : handler' = At(place) /\ (place # "wait" \/ handler.patient)
    BY <1>4 DEF PlaceEntry, Places
  <2> QED BY <1>4, <2>1, GoesOnBegun DEF PlaceEntry
<1>5. CASE WaitFilled \/ WaitFails \/ WaitEnds
  <2>1. PICK place \in Places : handler' = At(place) /\ place # "wait"
    BY <1>5 DEF WaitFilled, WaitFails, WaitEnds, Places
  <2>2. HandlerTrade \in Executions /\ status[HandlerTrade] # "none"
    BY <1>5 DEF WaitFilled, WaitFails, WaitEnds, Begun
  <2>3. \A t \in Executions : (status'[t] # "none") = (status[t] # "none")
    BY <1>5, <2>2, <1>1 DEF WaitFilled, WaitFails, WaitEnds
  <2>4. handler.at \notin {"idle", "panic"}
    BY <1>5 DEF WaitFilled, WaitFails, WaitEnds
  <2> QED BY <2>1, <2>3, <2>4, GoesOnBegun
<1>6. CASE PlaceLeg
  <2>1. PICK leg \in Legs \ {"entry"}, p \in Placements : LegIsPlaced(leg, p)
    BY <1>6, LegPlaced
  <2>2. PICK place \in Places : handler' = At(place) /\ place # "wait"
    BY <2>1 DEF LegIsPlaced, Places
  <2>3. HandlerTrade \in Executions /\ status[HandlerTrade] # "none"
    BY <1>6 DEF PlaceLeg, Begun
  <2>4. \A t \in Executions : (status'[t] # "none") = (status[t] # "none")
    BY <2>1, <2>3, <1>1 DEF LegIsPlaced
  <2>5. handler.at \notin {"idle", "panic"}
    BY <1>6 DEF PlaceLeg
  <2> QED BY <2>2, <2>4, <2>5, GoesOnBegun
<1>7. CASE Rollback
  BY <1>7, GoesOnBegun DEF Rollback, Places
<1>8. CASE ReportFailure
  <2>1. HandlerTrade \in Executions /\ status[HandlerTrade] # "none"
    BY <1>8 DEF ReportFailure, Begun
  <2>2. \A t \in Executions : (status'[t] # "none") = (status[t] # "none")
    BY <1>8, <2>1, <1>1 DEF ReportFailure
  <2> QED BY <1>8, <2>2, RestIs, RestsBegun DEF ReportFailure
<1>9. CASE Finish
  BY <1>9, RestIs, RestsBegun DEF Finish
<1>10. CASE PanicCancel \/ PanicClose
  BY <1>10, RestIs, RestsBegun DEF PanicCancel, PanicClose
<1>11. CASE ClosePosition
  BY <1>2, <1>11 DEF ClosePosition
<1>12. CASE \/ MonitorTick \/ Expire \/ PendingTick \/ WsEvent \/ PollApply
            \/ \E o \in Orders : FillLeg(o) \/ OcoCancel(o) \/ PollRead(o)
            \/ \E message \in {"trade", "panic", "close"} : Send(message)
            \/ UNCHANGED deskVars
  BY <1>2, <1>12 DEF MonitorTick, Expire, PendingTick, WsEvent, PollApply, FillLeg, OcoCancel,
     PollRead, Send, deskVars, serviceVars
<1> QED
  BY <1>2, <1>3, <1>4, <1>5, <1>6, <1>7, <1>8, <1>9, <1>10, <1>11, <1>12 DEF DeskNext, Handle

\* What the actions do to the book.
LEMMA BookSteps ==
    ASSUME DeskTypes, [DeskNext]_deskVars
    PROVE  \/ Withdraws /\ held' = held
           \/ PlaceEntry \/ PlaceLeg
           \/ \E o \in Orders : FillLeg(o)
<1>1. ASSUME NEW os \in SUBSET Orders, book' = Cancelled(os) \/ book' = book PROVE Withdraws
  BY <1>1, CancelWithdraws
<1>2. ASSUME NEW o \in Orders, book' = Cancelled({o}) \/ book' = book PROVE Withdraws
  <2>1. PICK os \in SUBSET Orders : os = {o}
    OBVIOUS
  <2> QED BY <1>2, <2>1, <1>1
<1>3. CASE UNCHANGED <<book, held>>
  BY <1>3, <1>1
<1>4. ASSUME NEW confidence \in 1..2, StartTrade(confidence) PROVE Withdraws /\ held' = held
  <2>1. CASE UNCHANGED book
    BY <1>4, <1>1, <2>1 DEF StartTrade
  <2> QED BY <1>4, <2>1, StartIs DEF StartTrade
<1>5. CASE WaitFails \/ WaitEnds
  <2>1. HandlerTrade \in Executions => <<HandlerTrade, "entry">> \in Orders
    BY OrderMade DEF Legs
  <2>2. PICK os : os = {<<HandlerTrade, "entry">>}
    OBVIOUS
  <2>3. book' = Cancelled(os) \/ book' = book
    BY <1>5, <2>2 DEF WaitFails, WaitEnds
  <2>4. Withdraws
    BY <2>3, CancelledIs DEF Withdraws, DeskTypes, DeskTypeOK, OrderStates
  <2> QED BY <1>5, <2>4 DEF WaitFails, WaitEnds
<1>6. CASE Rollback
  <2>1. PICK os \in SUBSET Orders : os = held \cap LegsOf(HandlerTrade, {"stop"} \cup Targets)
    BY DEF DeskTypes, DeskTypeOK
  <2>2. book' = Cancelled(os) \/ book' = book
    BY <1>6, <2>1 DEF Rollback
  <2> QED BY <1>6, <2>2, <1>1 DEF Rollback
<1>7. CASE PanicCancel
  <2>1. book' = Cancelled(Orders) \/ book' = book
    BY <1>7 DEF PanicCancel
  <2> QED BY <1>7, <2>1, <1>1 DEF PanicCancel
<1>8. ASSUME NEW o \in Orders, OcoCancel(o) PROVE Withdraws /\ held' = held
  BY <1>8, <1>2 DEF OcoCancel, serviceVars
<1>9. CASE \/ WaitFilled \/ ReportFailure \/ Finish \/ ClosePosition \/ PanicClose
           \/ MonitorTick \/ Expire \/ PendingTick \/ WsEvent \/ PollApply
           \/ \E o \in Orders : PollRead(o)
           \/ \E message \in {"trade", "panic", "close"} : Send(message)
           \/ UNCHANGED deskVars
  BY <1>3, <1>9 DEF WaitFilled, ReportFailure, Finish, ClosePosition, PanicClose, MonitorTick,
     Expire, PendingTick, WsEvent, PollApply, PollRead, Send, deskVars, serviceVars
<1> QED BY <1>4, <1>5, <1>6, <1>7, <1>8, <1>9 DEF DeskNext, Handle

\* What is filled stays filled: a placement takes an order nobody has.
LEMMA UnplacedYet ==
    ASSUME DeskTypes, Begun, NothingUnordered
    PROVE  /\ handler.at = "entry" => \A l \in Legs : Unplaced(<<HandlerTrade, l>>)
           /\ handler.at \in {"wait", "stop"} =>
                \A l \in Legs \ {"entry"} : Unplaced(<<HandlerTrade, l>>)
           /\ handler.at = "targets" => Unplaced(<<HandlerTrade, "tp1">>)
           /\ handler.at = "targets" /\ <<HandlerTrade, "tp0">> \notin held =>
                Unplaced(<<HandlerTrade, "tp0">>)
<1>1. handler.at = "entry" => Yet = Legs
  BY DEF Yet
<1>2. handler.at \in {"wait", "stop"} => Yet = Legs \ {"entry"}
  BY DEF Yet
<1>3. handler.at = "targets" =>
        Yet = {"tp1"} \cup (IF <<HandlerTrade, "tp0">> \in held THEN {} ELSE {"tp0"})
  BY DEF Yet
<1> QED BY <1>1, <1>2, <1>3 DEF NothingUnordered

\* The order a placement takes.
LEMMA PlacedIsNew ==
    ASSUME DeskTypes, Begun, NothingUnordered, PlaceEntry \/ PlaceLeg
    PROVE  \E l \in Legs :
             /\ Unplaced(<<HandlerTrade, l>>) /\ HandlerTrade \in Executions
             /\ \A o \in Orders : o # <<HandlerTrade, l>> => book'[o] = book[o]
             /\ held \subseteq held' /\ held' \subseteq held \cup {<<HandlerTrade, l>>}
<1>1. HandlerTrade \in Executions
  BY DEF PlaceEntry, PlaceLeg, Begun
<1>2. CASE PlaceEntry
  <2>1. "entry" \in Legs /\ Unplaced(<<HandlerTrade, "entry">>)
    BY <1>2, UnplacedYet DEF PlaceEntry, Legs
  <2>2. \A o \in Orders : o # <<HandlerTrade, "entry">> => book'[o] = book[o]
    BY <1>2 DEF PlaceEntry, DeskTypes, DeskTypeOK
  <2>3. held \subseteq held' /\ held' \subseteq held \cup {<<HandlerTrade, "entry">>}
    BY <1>2 DEF PlaceEntry
  <2> QED BY <1>1, <2>1, <2>2, <2>3
<1>3. CASE PlaceLeg
  <2>1. PICK leg \in Legs \ {"entry"}, p \in Placements : LegIsPlaced(leg, p)
    BY <1>3, LegPlaced
  <2>2. Unplaced(<<HandlerTrade, leg>>)
    BY <1>3, <2>1, UnplacedYet DEF PlaceLeg, LegIsPlaced, Targets
  <2>3. \A o \in Orders : o # <<HandlerTrade, leg>> => book'[o] = book[o]
    BY <2>1 DEF LegIsPlaced, DeskTypes, DeskTypeOK
  <2>4. held \subseteq held' /\ held' \subseteq held \cup {<<HandlerTrade, leg>>}
    BY <2>1 DEF LegIsPlaced
  <2> QED BY <1>1, <2>2, <2>3, <2>4
<1> QED BY <1>2, <1>3

LEMMA FilledStays ==
    ASSUME DeskTypes, Begun, NothingUnordered, [DeskNext]_deskVars,
           NEW o \in Orders, book[o] = "filled"
    PROVE  book'[o] = "filled"
<1>1. CASE Withdraws
  BY <1>1 DEF Withdraws, Resting
<1>2. CASE PlaceEntry \/ PlaceLeg
  BY <1>2, PlacedIsNew DEF Unplaced
<1>3. ASSUME NEW x \in Orders, FillLeg(x) PROVE book'[o] = "filled"
  BY <1>3 DEF FillLeg, DeskTypes, DeskTypeOK
<1> QED BY <1>1, <1>2, <1>3, BookSteps

\* Nobody has an order that was not placed, and still nobody has it unless the
\* step places it.
LEMMA UnplacedStays ==
    ASSUME DeskTypes, Begun, NothingUnordered, [DeskNext]_deskVars,
           NEW t \in Executions, NEW l \in Legs, Unplaced(<<t, l>>),
           PlaceEntry => t # HandlerTrade \/ l # "entry",
           \A leg \in Legs \ {"entry"}, p \in Placements :
              PlaceLeg /\ LegIsPlaced(leg, p) => t # HandlerTrade \/ l # leg
    PROVE  Unplaced(<<t, l>>)'
<1>1. <<t, l>> \in Orders
  BY OrderMade
<1>2. CASE Withdraws /\ held' = held
  BY <1>1, <1>2 DEF Withdraws, Unplaced, Resting
<1>3. CASE PlaceEntry
  <2>1. <<t, l>> # <<HandlerTrade, "entry">>
    BY <1>3
  <2> QED BY <1>1, <1>3, <2>1 DEF PlaceEntry, Unplaced, DeskTypes, DeskTypeOK
<1>4. CASE PlaceLeg
  <2>1. PICK leg \in Legs \ {"entry"}, p \in Placements : LegIsPlaced(leg, p)
    BY <1>4, LegPlaced
  <2>2. <<t, l>> # <<HandlerTrade, leg>>
    BY <1>4, <2>1
  <2> QED BY <1>1, <2>1, <2>2 DEF LegIsPlaced, Unplaced, DeskTypes, DeskTypeOK
<1>5. ASSUME NEW x \in Orders, FillLeg(x) PROVE Unplaced(<<t, l>>)'
  <2>1. x # <<t, l>>
    BY <1>5 DEF FillLeg, Unplaced, Resting
  <2> QED BY <1>1, <1>5, <2>1 DEF FillLeg, Unplaced, DeskTypes, DeskTypeOK, serviceVars
<1> QED BY <1>2, <1>3, <1>4, <1>5, BookSteps

LEMMA BegunStays ==
    ASSUME DeskTypes, Begun, [DeskNext]_deskVars, NEW t \in Executions, status[t] # "none"
    PROVE  status'[t] # "none"
<1>1. status \in [Executions -> {"none", "pending", "active", "failed", "timeout"}]
  BY DEF DeskTypes, DeskTypeOK
<1>2. CASE UNCHANGED status
  BY <1>2
<1>3. ASSUME NEW confidence \in 1..2, StartTrade(confidence) PROVE status'[t] # "none"
  BY <1>1, <1>3, StartIs
<1>4. CASE WaitEnds \/ ReportFailure
  BY <1>1, <1>4 DEF WaitEnds, ReportFailure
<1>5. CASE PlaceLeg
  <2>1. PICK leg \in Legs \ {"entry"}, p \in Placements : LegIsPlaced(leg, p)
    BY <1>5, LegPlaced
  <2> QED BY <1>1, <2>1 DEF LegIsPlaced
<1> QED
  BY <1>2, <1>3, <1>4, <1>5
  DEF DeskNext, Handle, PlaceEntry, WaitFilled, WaitFails, Rollback, Finish, ClosePosition,
      PanicCancel, PanicClose, MonitorTick, Expire, PendingTick, WsEvent, PollApply, FillLeg,
      OcoCancel, PollRead, Send, deskVars, serviceVars

\* What is left to place after a step was left before it, or is the next trade's.
LEMMA YetNext ==
    ASSUME DeskTypes, Begun, NothingUnordered, [DeskNext]_deskVars, NEW l \in Yet'
    PROVE  /\ l \in Legs /\ handler'.trade \in Executions /\ Unplaced(<<handler'.trade, l>>)
           /\ PlaceEntry => handler'.trade # HandlerTrade \/ l # "entry"
           /\ \A leg \in Legs \ {"entry"}, p \in Placements :
                 PlaceLeg /\ LegIsPlaced(leg, p) => handler'.trade # HandlerTrade \/ l # leg
<1>1. /\ handler'.at \in {"entry", "wait", "stop", "targets"} /\ l \in Legs
      /\ handler'.at # "entry" => l # "entry"
      /\ handler'.at = "targets" =>
           l = "tp1" \/ (l = "tp0" /\ <<handler'.trade, "tp0">> \notin held')
  <2>1. CASE handler'.at = "entry"
    BY <2>1 DEF Yet, HandlerTrade
  <2>2. CASE handler'.at \in {"wait", "stop"}
    BY <2>2 DEF Yet, HandlerTrade
  <2>3. CASE handler'.at = "targets"
    <3>1. l = "tp1" \/ (l = "tp0" /\ <<handler'.trade, "tp0">> \notin held')
      BY <2>3 DEF Yet, HandlerTrade
    <3> QED BY <2>3, <3>1 DEF Legs, Targets
  <2>4. CASE handler'.at \notin {"entry", "wait", "stop", "targets"}
    BY <2>4 DEF Yet
  <2> QED BY <2>1, <2>2, <2>3, <2>4
<1>2. ASSUME NEW confidence \in 1..2, StartTrade(confidence)
      PROVE  ~PlaceEntry /\ ~PlaceLeg
  BY <1>2, RestIs DEF StartTrade, Take, PlaceEntry, PlaceLeg
<1>3. CASE UNCHANGED <<handler, held>>
  <2>1. ~PlaceEntry
    BY <1>3, AtIs DEF PlaceEntry, Places
  <2>2. handler.trade \in Executions
    BY <1>1, <1>3 DEF Begun, HandlerTrade
  <2>3. Unplaced(<<handler.trade, l>>)
    BY <1>1, <1>3, UnplacedYet DEF HandlerTrade, Legs, Targets
  <2>4. ASSUME NEW leg \in Legs \ {"entry"}, NEW p \in Placements, PlaceLeg, LegIsPlaced(leg, p)
        PROVE  l # leg
    <3>1. handler.at \in {"stop", "targets"} /\ <<handler.trade, leg>> \notin held
      BY <2>4, UnplacedYet DEF PlaceLeg, LegIsPlaced, HandlerTrade, Unplaced, Targets
    <3>2. ~p.reply
      BY <1>3, <2>4, <3>1 DEF LegIsPlaced, HandlerTrade
    <3>3. handler'.at = "rollback"
      BY <2>4, <3>2, AtIs DEF LegIsPlaced, Places
    <3> QED BY <1>1, <3>3
  <2> QED BY <1>1, <1>3, <2>1, <2>2, <2>3, <2>4
<1>4. ASSUME NEW confidence \in 1..2, StartTrade(confidence), ~UNCHANGED <<handler, held>>
      PROVE  /\ handler'.trade \in Executions /\ Unplaced(<<handler'.trade, l>>)
             /\ ~PlaceEntry /\ ~PlaceLeg
  <2>1. NextTrade \in Executions /\ handler'.trade = NextTrade
    BY <1>4, StartIs DEF StartTrade
  <2>2. status[NextTrade] = "none"
    BY <2>1, NextTradeIs
  <2> QED BY <1>1, <1>2, <1>4, <2>1, <2>2 DEF NothingUnordered
<1>5. CASE PlaceEntry
  <2>1. handler'.at \in {"stop", "wait"} /\ handler'.trade = handler.trade
    BY <1>1, <1>5, AtIs DEF PlaceEntry, Places
  <2>2. handler.trade \in Executions /\ Unplaced(<<handler.trade, l>>)
    BY <1>1, <1>5, UnplacedYet DEF PlaceEntry, Begun, HandlerTrade
  <2>3. ~PlaceLeg
    BY <1>5 DEF PlaceEntry, PlaceLeg
  <2> QED BY <1>1, <2>1, <2>2, <2>3
<1>6. CASE WaitFilled
  <2>1. handler'.at = "stop" /\ handler'.trade = handler.trade
    BY <1>6, AtIs DEF WaitFilled, Places
  <2>2. handler.trade \in Executions /\ Unplaced(<<handler.trade, l>>)
    BY <1>1, <1>6, <2>1, UnplacedYet DEF WaitFilled, Begun, HandlerTrade
  <2>3. ~PlaceLeg /\ ~PlaceEntry
    BY <1>6 DEF WaitFilled, PlaceEntry, PlaceLeg
  <2> QED BY <1>1, <2>1, <2>2, <2>3
<1>7. CASE PlaceLeg
  <2>1. handler.trade \in Executions
    BY <1>7 DEF PlaceLeg, Begun, HandlerTrade
  <2>2. handler'.trade = handler.trade /\ handler'.at = "targets"
    <3>1. PICK leg \in Legs \ {"entry"}, p \in Placements : LegIsPlaced(leg, p)
      BY <1>7, LegPlaced
    <3> QED BY <1>1, <3>1, AtIs DEF LegIsPlaced, Places
  <2>3. held \subseteq held'
    BY <1>7, PlacedIsNew
  <2>4. Unplaced(<<handler.trade, l>>)
    BY <1>1, <1>7, <2>2, <2>3, UnplacedYet DEF PlaceLeg, HandlerTrade, Legs, Targets
  <2>5. ASSUME NEW leg \in Legs \ {"entry"}, NEW p \in Placements, LegIsPlaced(leg, p)
        PROVE  l # leg
    <3>1. p.reply /\ leg # "tp1"
      BY <2>2, <2>5, AtIs DEF LegIsPlaced, Places
    <3>2. <<handler.trade, leg>> \in held'
      BY <2>5, <3>1 DEF LegIsPlaced, HandlerTrade
    <3> QED BY <1>1, <2>2, <3>1, <3>2
  <2>6. ~PlaceEntry
    BY <1>7 DEF PlaceEntry, PlaceLeg
  <2> QED BY <1>1, <2>1, <2>2, <2>4, <2>5, <2>6
<1>8. CASE WaitFails \/ WaitEnds \/ Rollback \/ ReportFailure \/ Finish
           \/ PanicCancel \/ PanicClose
  <2>1. handler'.at \in {"failed", "finish", "idle", "panic"}
    BY <1>8, AtIs, RestIs
    DEF WaitFails, WaitEnds, Rollback, ReportFailure, Finish, PanicCancel, PanicClose, Places
  <2> QED BY <1>1, <2>1
<1>9. \/ UNCHANGED <<handler, held>> \/ PlaceEntry \/ WaitFilled \/ PlaceLeg
      \/ \E confidence \in 1..2 : StartTrade(confidence)
      \/ WaitFails \/ WaitEnds \/ Rollback \/ ReportFailure \/ Finish \/ PanicCancel \/ PanicClose
  BY DEF DeskNext, Handle, ClosePosition, MonitorTick, Expire, PendingTick, WsEvent, PollApply,
         FillLeg, OcoCancel, PollRead, Send, deskVars, serviceVars
<1> QED BY <1>1, <1>3, <1>4, <1>5, <1>6, <1>7, <1>8, <1>9

LEMMA StepKeepsUnordered ==
    ASSUME DeskTypes, Begun, NothingUnordered, [DeskNext]_deskVars
    PROVE  NothingUnordered'
<1>1. ASSUME NEW t \in Executions, status'[t] = "none", NEW l \in Legs
      PROVE  Unplaced(<<t, l>>)'
  <2>1. status[t] = "none"
    BY <1>1, BegunStays
  <2>2. Unplaced(<<t, l>>)
    BY <2>1 DEF NothingUnordered
  <2>3. PlaceEntry \/ PlaceLeg => t # HandlerTrade
    BY <2>1 DEF PlaceEntry, PlaceLeg, Begun
  <2> QED BY <2>2, <2>3, UnplacedStays
<1>2. ASSUME NEW l \in Yet' PROVE Unplaced(<<HandlerTrade, l>>)'
  <2>1. PICK t : t = handler'.trade
    OBVIOUS
  <2>2. /\ l \in Legs /\ t \in Executions /\ Unplaced(<<t, l>>)
        /\ PlaceEntry => t # HandlerTrade \/ l # "entry"
        /\ \A leg \in Legs \ {"entry"}, p \in Placements :
              PlaceLeg /\ LegIsPlaced(leg, p) => t # HandlerTrade \/ l # leg
    BY <2>1, YetNext
  <2>3. Unplaced(<<t, l>>)'
    BY <2>2, UnplacedStays
  <2> QED BY <2>1, <2>3 DEF Unplaced, HandlerTrade
<1> QED BY <1>1, <1>2 DEF NothingUnordered

-----------------------------------------------------------------------------
(* A fill is in the book before it is heard of, and is told once.          *)

LEMMA StepKeepsSeen ==
    ASSUME DeskTypes, Begun, NothingUnordered, SeenIsSo, [DeskNext]_deskVars
    PROVE  SeenIsSo'
<1>1. CASE UNCHANGED poll
  <2>1. poll # NoRead /\ poll.seen = "filled" => book'[poll.order] = "filled"
    BY FilledStays DEF SeenIsSo
  <2> QED BY <1>1, <2>1 DEF SeenIsSo, NoRead
<1>2. ASSUME NEW o \in Orders, PollRead(o) PROVE SeenIsSo'
  BY <1>2 DEF PollRead, SeenIsSo
<1>3. CASE PollApply
  BY <1>3 DEF PollApply, SeenIsSo, NoRead
<1> QED
  BY <1>1, <1>2, <1>3
  DEF DeskNext, Handle, StartTrade, PlaceEntry, WaitFilled, WaitFails, WaitEnds, PlaceLeg, Rollback,
      ReportFailure, Finish, ClosePosition, PanicCancel, PanicClose, MonitorTick, Expire,
      PendingTick, WsEvent, FillLeg, OcoCancel, Send, deskVars, trackerVars

LEMMA DispatchTellsOnce ==
    ASSUME DeskTypes, ToldOnce, NEW o \in Orders, NEW seen, Dispatch(o, seen)
    PROVE  ToldOnce'
<1>1. notified \in [Orders -> Nat]
  BY DEF DeskTypes, DeskTypeOK
<1> QED BY <1>1 DEF Dispatch, ToldOnce

LEMMA StepKeepsTold ==
    ASSUME DeskTypes, SeenIsSo, ToldOnce, [DeskNext]_deskVars
    PROVE  ToldOnce'
<1>1. CASE UNCHANGED <<emitted, notified>>
  BY <1>1 DEF ToldOnce
<1>2. CASE WsEvent
  <2>1. PICK o \in feed : Dispatch(o, book[o])
    BY <1>2 DEF WsEvent
  <2>2. o \in Orders
    BY DEF DeskTypes, DeskTypeOK
  <2> QED BY <2>1, <2>2, DispatchTellsOnce
<1>3. CASE PollApply
  <2>1. poll.order \in Orders
    BY <1>3 DEF PollApply, SeenIsSo
  <2> QED BY <1>1, <1>3, <2>1, DispatchTellsOnce DEF PollApply
<1> QED
  BY <1>1, <1>2, <1>3
  DEF DeskNext, Handle, StartTrade, PlaceEntry, WaitFilled, WaitFails, WaitEnds, PlaceLeg, Rollback,
      ReportFailure, Finish, ClosePosition, PanicCancel, PanicClose, MonitorTick, Expire,
      PendingTick, FillLeg, OcoCancel, PollRead, Send, deskVars, trackerVars

-----------------------------------------------------------------------------
(* A limit entry rests only while the handler waits for it.                *)

LEMMA PlanStays ==
    ASSUME [DeskNext]_deskVars
    PROVE  faults' = faults /\ mode' = mode
BY DEF DeskNext, Handle, StartTrade, PlaceEntry, WaitFilled, WaitFails, WaitEnds, PlaceLeg,
       Rollback, ReportFailure, Finish, ClosePosition, PanicCancel, PanicClose, MonitorTick, Expire,
       PendingTick, WsEvent, PollApply, FillLeg, OcoCancel, PollRead, Send, deskVars

\* An order that rests after a step and did not before was placed by it.
LEMMA RestingBefore ==
    ASSUME DeskTypes, [DeskNext]_deskVars, NEW o \in Orders, book'[o] = "new"
    PROVE  Resting(o) \/ PlaceEntry \/ PlaceLeg
<1>1. CASE Withdraws
  BY <1>1 DEF Withdraws, Resting
<1>2. ASSUME NEW x \in Orders, FillLeg(x) PROVE Resting(o)
  BY <1>2 DEF FillLeg, Resting, DeskTypes, DeskTypeOK
<1> QED BY <1>1, <1>2, BookSteps

LEMMA StepKeepsNoStray ==
    ASSUME DeskTypes, NoStrayEntry, [DeskNext]_deskVars
    PROVE  NoStrayEntry'
<1> SUFFICES ASSUME Spared({"lost_reply", "cancel_fails"}),
                    NEW t \in Executions, book'[<<t, "entry">>] = "new"
             PROVE  handler'.trade = t /\ handler'.at = "wait"
  BY PlanStays DEF NoStrayEntry, Spared, Resting
<1>1. <<t, "entry">> \in Orders
  BY OrderMade DEF Legs
<1>2. book \in [Orders -> OrderStates]
  BY DEF DeskTypes, DeskTypeOK, OrderStates
<1>3. CASE PlaceEntry
  <2>1. PICK p \in Placements :
          /\ book' = IF p.placed
                     THEN [book EXCEPT ![<<HandlerTrade, "entry">>] =
                             IF ~handler.patient THEN "filled" ELSE "new"]
                     ELSE book
          /\ handler' = CASE ~p.reply -> At("failed")
                          [] p.reply /\ ~handler.patient -> At("stop")
                          [] OTHER -> At("wait")
    BY <1>3 DEF PlaceEntry
  <2>2. ~Resting(<<t, "entry">>)
    BY <1>3 DEF NoStrayEntry, PlaceEntry
  <2>3. p.placed /\ t = HandlerTrade /\ handler.patient
    BY <1>1, <1>2, <2>1, <2>2 DEF Resting
  <2>4. p.reply
    BY <2>3, PlacementIs DEF Spared
  <2>5. handler' = At("wait")
    BY <2>1, <2>3, <2>4
  <2> QED BY <2>3, <2>5, AtIs DEF Places, HandlerTrade
<1>4. CASE PlaceLeg
  <2>1. PICK leg \in Legs \ {"entry"}, p \in Placements : LegIsPlaced(leg, p)
    BY <1>4, LegPlaced
  <2>2. <<t, "entry">> # <<HandlerTrade, leg>>
    OBVIOUS
  <2>3. Resting(<<t, "entry">>)
    BY <1>1, <1>2, <2>1, <2>2 DEF LegIsPlaced, Resting
  <2> QED BY <1>4, <2>3 DEF NoStrayEntry, PlaceLeg
<1>5. CASE ~PlaceEntry /\ ~PlaceLeg
  <2>1. Resting(<<t, "entry">>)
    BY <1>1, <1>5, RestingBefore
  <2>2. handler.trade = t /\ handler.at = "wait"
    BY <2>1 DEF NoStrayEntry
  <2>3. ~WaitFilled
    BY <2>1, <2>2 DEF WaitFilled, Resting, HandlerTrade
  <2>4. ~WaitFails /\ ~WaitEnds
    <3>1. ASSUME book' = Cancelled({<<t, "entry">>}) PROVE FALSE
      BY <1>1, <2>1, <3>1, CancelledIs
    <3> QED BY <2>2, <3>1 DEF WaitFails, WaitEnds, HandlerTrade, Spared
  <2>5. UNCHANGED handler
    BY <1>5, <2>2, <2>3, <2>4, RestIs
    DEF DeskNext, Handle, StartTrade, Take, Rollback, ReportFailure, Finish, ClosePosition,
        PanicCancel, PanicClose, MonitorTick, Expire, PendingTick, WsEvent, PollApply, FillLeg,
        OcoCancel, PollRead, Send, deskVars, serviceVars
  <2> QED BY <2>2, <2>5
<1> QED BY <1>3, <1>4, <1>5

-----------------------------------------------------------------------------
(* The OCO callback gives a stop up for a target that has filled alone.    *)

LEMMA HeldGrows ==
    ASSUME DeskTypes, Begun, NothingUnordered, [DeskNext]_deskVars
    PROVE  held \subseteq held'
<1>1. ASSUME NEW x \in Orders, FillLeg(x) PROVE held \subseteq held'
  BY <1>1 DEF FillLeg, serviceVars
<1> QED BY <1>1, PlacedIsNew, BookSteps

\* Where the handler can be after a step: it places on for its own execution.
LEMMA PlacingIs ==
    ASSUME DeskTypes, Begun, [DeskNext]_deskVars,
           handler'.at \in {"stop", "targets", "finish", "rollback"}
    PROVE  handler'.trade = handler.trade /\ HandlerTrade \in Executions
           /\ (handler.at \in {"entry", "wait"} \/ Placing)
<1>1. CASE UNCHANGED handler
  BY <1>1 DEF Begun, Placing
<1>2. ASSUME NEW confidence \in 1..2, StartTrade(confidence), ~UNCHANGED handler PROVE FALSE
  BY <1>2, StartIs
<1>3. CASE PlaceEntry \/ WaitFilled \/ WaitEnds
  <2>1. PICK place \in Places : handler' = At(place)
    BY <1>3 DEF PlaceEntry, WaitFilled, WaitEnds, Places
  <2>2. handler.at \in {"entry", "wait"}
    BY <1>3 DEF PlaceEntry, WaitFilled, WaitEnds
  <2> QED BY <2>1, <2>2, AtIs DEF Begun
<1>4. CASE PlaceLeg
  <2>1. PICK leg \in Legs \ {"entry"}, p \in Placements : LegIsPlaced(leg, p)
    BY <1>4, LegPlaced
  <2>2. PICK place \in Places : handler' = At(place)
    BY <2>1 DEF LegIsPlaced, Places
  <2> QED BY <1>4, <2>2, AtIs DEF Begun, PlaceLeg, Placing
<1>5. CASE WaitFails \/ Rollback \/ ReportFailure \/ Finish \/ PanicCancel \/ PanicClose
  <2>1. handler'.at \in {"failed", "idle", "panic"}
    BY <1>5, AtIs, RestIs
    DEF WaitFails, Rollback, ReportFailure, Finish, PanicCancel, PanicClose, Places
  <2> QED BY <2>1
<1> QED
  BY <1>1, <1>2, <1>3, <1>4, <1>5
  DEF DeskNext, Handle, ClosePosition, MonitorTick, Expire, PendingTick, WsEvent, PollApply,
      FillLeg, OcoCancel, PollRead, Send, deskVars, serviceVars

\* No leg of the handler's execution fills while its siblings are being placed.
LEMMA StepKeepsQuiet ==
    ASSUME DeskTypes, Begun, NothingUnordered, OcoHasReason, [DeskNext]_deskVars,
           Spared({"fast_fill"}), Placing', NEW l \in Legs \ {"entry"}
    PROVE  book'[<<handler'.trade, l>>] # "filled"
<1>1. handler'.at \in {"stop", "targets", "finish", "rollback"}
  BY DEF Placing
<1>2. /\ handler'.trade = HandlerTrade /\ HandlerTrade \in Executions
      /\ handler.at \in {"entry", "wait"} \/ Placing
  BY <1>1, PlacingIs DEF HandlerTrade
<1>3. PICK o \in Orders : o = <<HandlerTrade, l>> /\ o[1] = HandlerTrade /\ o[2] = l
  BY <1>2, OrderMade
<1>4. book[o] # "filled"
  <2>1. CASE Placing
    BY <1>3, <2>1 DEF OcoHasReason
  <2>2. CASE handler.at \in {"entry", "wait"}
    BY <1>3, <2>2, UnplacedYet DEF Unplaced
  <2> QED BY <1>2, <2>1, <2>2
<1>5. CASE Withdraws
  BY <1>2, <1>3, <1>4, <1>5 DEF Withdraws
<1>6. CASE PlaceEntry
  <2>1. o # <<HandlerTrade, "entry">>
    BY <1>3
  <2>2. book'[o] = book[o]
    BY <1>6, <2>1 DEF PlaceEntry, DeskTypes, DeskTypeOK
  <2> QED BY <1>2, <1>3, <1>4, <2>2
<1>7. CASE PlaceLeg
  <2>1. PICK leg \in Legs \ {"entry"}, p \in Placements : LegIsPlaced(leg, p)
    BY <1>7, LegPlaced
  <2>2. book'[o] \in {book[o], "new"}
    BY <2>1 DEF LegIsPlaced, DeskTypes, DeskTypeOK
  <2> QED BY <1>2, <1>3, <1>4, <2>2
<1>8. ASSUME NEW x \in Orders, FillLeg(x) PROVE book'[o] # "filled"
  <2>1. handler' = handler
    BY <1>8 DEF FillLeg, serviceVars
  <2>2. Placing
    BY <1>1, <2>1 DEF Placing
  <2>3. x # o
    BY <1>3, <1>8, <2>2 DEF FillLeg, Spared
  <2> QED BY <1>4, <1>8, <2>3 DEF FillLeg, DeskTypes, DeskTypeOK
<1> QED BY <1>2, <1>3, <1>5, <1>6, <1>7, <1>8, BookSteps

\* Two targets make two orders: one that is left alone is not both.
LEMMA TwoTargets ==
    ASSUME NEW t \in Executions, BothHeld(t)
    PROVE  Cardinality(held \cap LegsOf(t, Targets)) # 1
<1>1. held \cap LegsOf(t, Targets) = {<<t, "tp0">>, <<t, "tp1">>}
  BY DEF BothHeld, LegsOf, Targets
<1>2. <<t, "tp0">> # <<t, "tp1">>
  OBVIOUS
<1>3. Cardinality({<<t, "tp0">>, <<t, "tp1">>}) = 2
  <2>1. PICK a : a = <<t, "tp0">>
    OBVIOUS
  <2>2. PICK b : b = <<t, "tp1">>
    OBVIOUS
  <2>3. Cardinality({b}) = 1 /\ IsFiniteSet({b})
    BY FS_Singleton
  <2>4. a \notin {b}
    BY <1>2, <2>1, <2>2
  <2>5. Cardinality({b} \cup {a}) = Cardinality({b}) + 1
    BY <2>3, <2>4, FS_AddElement
  <2>6. {b} \cup {a} = {a, b}
    OBVIOUS
  <2> QED BY <2>1, <2>2, <2>3, <2>5, <2>6
<1> QED BY <1>1, <1>3

\* _on_leg_fill_oco adds a stop only for a filled target that is alone.
LEMMA DispatchHasReason ==
    ASSUME DeskTypes, NEW o \in Orders, NEW seen, Dispatch(o, seen),
           seen = "filled" => book[o] = "filled",
           NEW t \in Executions, <<t, "stop">> \in oco', <<t, "stop">> \notin oco
    PROVE  TargetFilled(t) /\ ~BothHeld(t)
<1>1. <<t, "stop">> \in Siblings(o) /\ seen = "filled"
  BY DEF Dispatch
<1>2. PICK u \in Executions, m \in Legs : o = <<u, m>> /\ o[1] = u /\ o[2] = m
  BY OrderParts
<1>3. PICK targets : targets = held \cap LegsOf(u, Targets)
  OBVIOUS
<1>4. Siblings(o) = IF o \notin held THEN {}
                    ELSE CASE m = "stop" -> targets
                           [] m \in Targets /\ Cardinality(targets) = 1 -> held \cap {<<u, "stop">>}
                           [] OTHER -> {}
  BY <1>2, <1>3 DEF Siblings
<1>5. m # "stop"
  <2>1. ASSUME m = "stop" PROVE FALSE
    <3>1. <<t, "stop">> \in LegsOf(u, Targets)
      BY <1>1, <1>3, <1>4, <2>1 DEF Targets
    <3>2. PICK l \in Targets : <<t, "stop">> = <<u, l>>
      BY <3>1 DEF LegsOf
    <3> QED BY <3>2 DEF Targets
  <2> QED BY <2>1
<1>6. m \in Targets /\ Cardinality(targets) = 1 /\ <<t, "stop">> = <<u, "stop">>
  BY <1>1, <1>4, <1>5
<1>7. t = u
  BY <1>6
<1>8. TargetFilled(t)
  BY <1>1, <1>2, <1>6, <1>7 DEF TargetFilled
<1>9. ~BothHeld(t)
  BY <1>3, <1>6, <1>7, TwoTargets
<1> QED BY <1>8, <1>9

LEMMA StepKeepsReason ==
    ASSUME DeskTypes, Begun, NothingUnordered, SeenIsSo, OcoHasReason, [DeskNext]_deskVars,
           Spared({"fast_fill"}), NEW t \in Executions, <<t, "stop">> \in oco'
    PROVE  TargetFilled(t)' /\ ~BothHeld(t)'
<1>1. TargetFilled(t) /\ ~BothHeld(t)
  <2>1. CASE <<t, "stop">> \in oco
    BY <2>1 DEF OcoHasReason
  <2>2. CASE <<t, "stop">> \notin oco /\ WsEvent
    <3>1. PICK o \in feed : Dispatch(o, book[o])
      BY <2>2 DEF WsEvent
    <3>2. o \in Orders
      BY DEF DeskTypes, DeskTypeOK
    <3>3. PICK seen : seen = book[o]
      OBVIOUS
    <3> QED BY <2>2, <3>1, <3>2, <3>3, DispatchHasReason
  <2>3. CASE <<t, "stop">> \notin oco /\ PollApply
    <3>1. PICK o \in Orders : o = poll.order
      BY <2>3 DEF PollApply, SeenIsSo
    <3>2. PICK seen : seen = poll.seen
      OBVIOUS
    <3>3. Dispatch(o, seen) /\ (seen = "filled" => book[o] = "filled")
      BY <2>3, <3>1, <3>2 DEF PollApply, SeenIsSo
    <3> QED BY <2>3, <3>3, DispatchHasReason
  <2>4. <<t, "stop">> \notin oco /\ ~WsEvent /\ ~PollApply => FALSE
    BY DEF DeskNext, Handle, StartTrade, PlaceEntry, WaitFilled, WaitFails, WaitEnds, PlaceLeg,
           Rollback, ReportFailure, Finish, ClosePosition, PanicCancel, PanicClose, MonitorTick,
           Expire, PendingTick, FillLeg, OcoCancel, PollRead, Send, deskVars, trackerVars
  <2> QED BY <2>1, <2>2, <2>3, <2>4
<1>2. TargetFilled(t)'
  <2>1. PICK l \in Targets : book[<<t, l>>] = "filled"
    BY <1>1 DEF TargetFilled
  <2>2. <<t, l>> \in Orders
    BY OrderMade DEF Legs
  <2>3. book'[<<t, l>>] = "filled"
    BY <2>1, <2>2, FilledStays
  <2> QED BY <2>3 DEF TargetFilled
<1>3. ~BothHeld(t)'
  <2>1. PICK missing \in LegsOf(t, Targets) : missing \notin held
    BY <1>1 DEF BothHeld
  <2>2. CASE held' = held
    BY <1>1, <2>2 DEF BothHeld
  <2>3. CASE PlaceEntry
    <3>1. missing # <<HandlerTrade, "entry">>
      BY DEF LegsOf, Targets
    <3>2. missing \notin held'
      BY <2>1, <2>3, <3>1 DEF PlaceEntry
    <3> QED BY <2>1, <3>2 DEF BothHeld
  <2>4. CASE PlaceLeg
    <3>1. PICK leg \in Legs \ {"entry"}, p \in Placements : LegIsPlaced(leg, p)
      BY <2>4, LegPlaced
    <3>2. Placing
      BY <2>4 DEF PlaceLeg, Placing
    <3>3. t # HandlerTrade
      BY <1>1, <3>2 DEF TargetFilled, OcoHasReason, Legs, Targets
    <3>4. missing # <<HandlerTrade, leg>>
      BY <3>3 DEF LegsOf
    <3>5. missing \notin held'
      BY <2>1, <3>1, <3>4 DEF LegIsPlaced
    <3> QED BY <2>1, <3>5 DEF BothHeld
  <2>5. ASSUME NEW x \in Orders, FillLeg(x) PROVE held' = held
    BY <2>5 DEF FillLeg, serviceVars
  <2> QED BY <2>2, <2>3, <2>4, <2>5, BookSteps
<1> QED BY <1>2, <1>3

LEMMA StepKeepsOco ==
    ASSUME DeskTypes, Begun, NothingUnordered, SeenIsSo, OcoHasReason, [DeskNext]_deskVars
    PROVE  OcoHasReason'
<1>1. Spared({"fast_fill"})' <=> Spared({"fast_fill"})
  BY PlanStays DEF Spared
<1>2. ASSUME Spared({"fast_fill"}), Placing', NEW l \in Legs \ {"entry"}
      PROVE  book'[<<HandlerTrade', l>>] # "filled"
  BY <1>2, StepKeepsQuiet DEF HandlerTrade
<1>3. ASSUME Spared({"fast_fill"}), NEW t \in Executions, <<t, "stop">> \in oco'
      PROVE  TargetFilled(t)' /\ ~BothHeld(t)'
  BY <1>3, StepKeepsReason
<1> QED BY <1>1, <1>2, <1>3 DEF OcoHasReason

-----------------------------------------------------------------------------
(* One position is held, and it is protected.                              *)

\* What a step may do to the position: it opens with the entry, and shrinks.
LEMMA PositionSteps ==
    ASSUME DeskTypes, [DeskNext]_deskVars
    PROVE  \/ position' \in Nat /\ position' <= position
           \/ PlaceEntry
           \/ \E o \in Orders : FillLeg(o) /\ o[2] = "entry"
<1>1. position \in Nat /\ Size \in Nat
  BY DEF DeskTypes, DeskTypeOK, Size
<1>2. CASE UNCHANGED position
  BY <1>1, <1>2
<1>3. ASSUME NEW o \in Orders, FillLeg(o), o[2] # "entry"
      PROVE  position' \in Nat /\ position' <= position
  <2>1. Quantity(o[2]) \in Nat
    BY DEF Quantity, Size
  <2> QED BY <1>1, <1>3, <2>1 DEF FillLeg, Least
<1>4. CASE Rollback \/ ClosePosition
  <2>1. FullyClosed(Size) \in Nat /\ FullyClosed(Size) <= position
    BY <1>1, ClosedIs
  <2> QED BY <1>1, <1>4, <2>1 DEF Rollback, ClosePosition
<1>5. CASE PanicClose
  <2>1. Cardinality(monitored) * Size \in Nat
    BY MonitoredIs
  <2>2. FullyClosed(Cardinality(monitored) * Size) \in Nat
        /\ FullyClosed(Cardinality(monitored) * Size) <= position
    BY <2>1, ClosedIs
  <2> QED BY <1>1, <1>5, <2>2 DEF PanicClose
<1> QED
  BY <1>2, <1>3, <1>4, <1>5
  DEF DeskNext, Handle, StartTrade, WaitFilled, WaitFails, WaitEnds, PlaceLeg, ReportFailure,
      Finish, PanicCancel, MonitorTick, Expire, PendingTick, WsEvent, PollApply, OcoCancel, PollRead,
      Send, deskVars, serviceVars

\* Under these faults an entry fills as it is placed, or is not placed.
LEMMA EntryIsMarket ==
    ASSUME DeskTypes, OnePosition, Spared({"lost_reply", "close_error", "patient"}), PlaceEntry
    PROVE  \/ position' = Size /\ handler' = At("stop")
              /\ book' = [book EXCEPT ![<<HandlerTrade, "entry">>] = "filled"]
           \/ position' = 0 /\ handler' = At("failed") /\ book' = book
<1>1. ~handler.patient /\ position = 0
  BY DEF OnePosition, PlaceEntry
<1>2. PICK p \in Placements :
        /\ book' = IF p.placed
                   THEN [book EXCEPT ![<<HandlerTrade, "entry">>] =
                           IF ~handler.patient THEN "filled" ELSE "new"]
                   ELSE book
        /\ position' = IF p.placed /\ ~handler.patient THEN position + Size ELSE position
        /\ handler' = CASE ~p.reply -> At("failed")
                        [] p.reply /\ ~handler.patient -> At("stop")
                        [] OTHER -> At("wait")
  BY DEF PlaceEntry
<1>3. p.reply \in BOOLEAN /\ p.placed \in BOOLEAN /\ (p.placed <=> p.reply)
  BY PlacementIs DEF Spared
<1>4. CASE p.reply
  <2>1. p.placed
    BY <1>3, <1>4
  <2> QED BY <1>1, <1>2, <1>4, <2>1 DEF Size
<1>5. CASE ~p.reply
  <2>1. ~p.placed
    BY <1>3, <1>5
  <2> QED BY <1>1, <1>2, <1>5, <2>1
<1> QED BY <1>3, <1>4, <1>5

\* Where the handler may get to: a failure and the pause between two messages
\* come after what they come after.
LEMMA FailedAfter ==
    ASSUME DeskTypes, [DeskNext]_deskVars, handler'.at = "failed"
    PROVE  UNCHANGED handler \/ PlaceEntry \/ Rollback \/ WaitFails
<1>1. ASSUME NEW confidence \in 1..2, StartTrade(confidence) PROVE UNCHANGED handler
  BY <1>1, StartIs
<1>2. CASE PlaceLeg
  BY <1>2, LegPlaced, AtIs DEF LegIsPlaced, Places
<1>3. ~WaitFilled /\ ~WaitEnds /\ ~ReportFailure /\ ~Finish /\ ~PanicCancel /\ ~PanicClose
  BY AtIs, RestIs DEF WaitFilled, WaitEnds, ReportFailure, Finish, PanicCancel, PanicClose, Places
<1> QED
  BY <1>1, <1>2, <1>3
  DEF DeskNext, Handle, ClosePosition, MonitorTick, Expire, PendingTick, WsEvent, PollApply,
      FillLeg, OcoCancel, PollRead, Send, deskVars, serviceVars

LEMMA IdleAfter ==
    ASSUME DeskTypes, [DeskNext]_deskVars, handler'.at \in {"idle", "panic"}
    PROVE  UNCHANGED handler \/ ReportFailure \/ Finish \/ PanicCancel \/ PanicClose
<1>1. ASSUME NEW confidence \in 1..2, StartTrade(confidence) PROVE UNCHANGED handler
  BY <1>1, StartIs
<1>2. CASE PlaceLeg
  BY <1>2, LegPlaced, AtIs DEF LegIsPlaced, Places
<1>3. ~WaitFilled /\ ~WaitEnds /\ ~WaitFails /\ ~PlaceEntry /\ ~Rollback
  BY AtIs DEF WaitFilled, WaitEnds, WaitFails, PlaceEntry, Rollback, Places
<1> QED
  BY <1>1, <1>2, <1>3
  DEF DeskNext, Handle, ClosePosition, MonitorTick, Expire, PendingTick, WsEvent, PollApply,
      FillLeg, OcoCancel, PollRead, Send, deskVars, serviceVars

LEMMA EntryAfter ==
    ASSUME DeskTypes, [DeskNext]_deskVars, handler'.at = "entry"
    PROVE  UNCHANGED handler \/ \E confidence \in 1..2 : StartTrade(confidence)
<1>1. CASE PlaceLeg
  BY <1>1, LegPlaced, AtIs DEF LegIsPlaced, Places
<1>2. ~PlaceEntry /\ ~WaitFilled /\ ~WaitEnds /\ ~WaitFails /\ ~Rollback /\ ~ReportFailure
      /\ ~Finish /\ ~PanicCancel /\ ~PanicClose
  BY AtIs, RestIs DEF PlaceEntry, WaitFilled, WaitEnds, WaitFails, Rollback, ReportFailure, Finish,
     PanicCancel, PanicClose, Places
<1> QED
  BY <1>1, <1>2
  DEF DeskNext, Handle, ClosePosition, MonitorTick, Expire, PendingTick, WsEvent, PollApply,
      FillLeg, OcoCancel, PollRead, Send, deskVars, serviceVars

\* The handler's haste: nobody is patient.
LEMMA PatientAfter ==
    ASSUME DeskTypes, [DeskNext]_deskVars, ~handler.patient, "patient" \notin faults
    PROVE  ~handler'.patient
<1>1. ASSUME NEW confidence \in 1..2, StartTrade(confidence) PROVE ~handler'.patient
  BY <1>1, StartIs
<1>2. CASE PlaceLeg
  BY <1>2, LegPlaced, AtIs DEF LegIsPlaced, Places
<1>3. PlaceEntry \/ WaitFilled \/ WaitEnds \/ WaitFails \/ Rollback \/ ReportFailure
      \/ Finish \/ PanicCancel \/ PanicClose => ~handler'.patient
  BY AtIs, RestIs DEF PlaceEntry, WaitFilled, WaitEnds, WaitFails, Rollback, ReportFailure, Finish,
     PanicCancel, PanicClose, Places
<1> QED
  BY <1>1, <1>2, <1>3
  DEF DeskNext, Handle, ClosePosition, MonitorTick, Expire, PendingTick, WsEvent, PollApply,
      FillLeg, OcoCancel, PollRead, Send, deskVars, serviceVars

\* Nothing is patient, so nothing waits and no entry rests: the position only
\* opens as it is placed.
LEMMA NobodyWaits ==
    ASSUME DeskTypes, Begun, OnePosition, Spared({"lost_reply", "close_error", "patient"}),
           [DeskNext]_deskVars
    PROVE  /\ ~WaitFilled /\ ~WaitEnds /\ ~WaitFails
           /\ ~PlaceEntry => position' \in Nat /\ position' <= position
<1>1. handler.at # "wait"
  BY DEF OnePosition, Begun
<1>2. ASSUME NEW o \in Orders, FillLeg(o), o[2] = "entry" PROVE FALSE
  <2>1. PICK t \in Executions : o = <<t, "entry">>
    BY <1>2, OrderParts
  <2> QED BY <1>2, <2>1 DEF FillLeg, OnePosition
<1> QED BY <1>1, <1>2, PositionSteps DEF WaitFilled, WaitEnds, WaitFails

\* panic_close_all: with the whole position in the monitor nothing is left.
LEMMA PanicClosesAll ==
    ASSUME DeskTypes, OnePosition, Spared({"lost_reply", "close_error", "patient"}), PanicClose
    PROVE  position' = 0
<1>1. position \in Nat /\ position <= Size /\ (position > 0 => monitored # {})
  BY DEF DeskTypes, DeskTypeOK, OnePosition, PanicClose
<1>2. PICK worth \in Nat : worth = Cardinality(monitored) * Size
  BY MonitoredIs
<1>3. position <= worth
  BY <1>1, <1>2, MonitoredIs DEF Size
<1>4. FullyClosed(worth) = 0
  BY <1>3, ClosedIs
<1> QED BY <1>2, <1>4 DEF PanicClose, Spared

LEMMA NoEntryRests ==
    ASSUME DeskTypes, OnePosition, Spared({"lost_reply", "close_error", "patient"}),
           [DeskNext]_deskVars, NEW t \in Executions
    PROVE  book'[<<t, "entry">>] # "new"
<1>1. <<t, "entry">> \in Orders
  BY OrderMade DEF Legs
<1>2. book[<<t, "entry">>] # "new"
  BY DEF OnePosition, Resting
<1>3. CASE PlaceEntry
  BY <1>1, <1>2, <1>3, EntryIsMarket DEF DeskTypes, DeskTypeOK
<1>4. CASE PlaceLeg
  <2>1. PICK leg \in Legs \ {"entry"}, p \in Placements : LegIsPlaced(leg, p)
    BY <1>4, LegPlaced
  <2>2. <<t, "entry">> # <<HandlerTrade, leg>>
    OBVIOUS
  <2> QED BY <1>1, <1>2, <2>1, <2>2 DEF LegIsPlaced, DeskTypes, DeskTypeOK
<1> QED BY <1>1, <1>2, <1>3, <1>4, RestingBefore DEF Resting

\* A trade begins, and a failure is reported, with nothing held.
LEMMA EmptyHanded ==
    ASSUME DeskTypes, Begun, OnePosition, Spared({"lost_reply", "close_error", "patient"}),
           [DeskNext]_deskVars, handler'.at \in {"entry", "failed"}
    PROVE  position' = 0
<1>1. position \in Nat
  BY DEF DeskTypes, DeskTypeOK
<1>2. CASE UNCHANGED handler
  <2>1. ~PlaceEntry
    BY <1>2, AtIs DEF PlaceEntry, Places
  <2>2. position = 0
    BY <1>2 DEF OnePosition
  <2> QED BY <2>1, <2>2, NobodyWaits
<1>3. ASSUME NEW confidence \in 1..2, StartTrade(confidence), ~UNCHANGED handler
      PROVE  position' = 0
  <2>1. monitored = {} /\ handler.at = "idle" /\ position' = position
    BY <1>3, StartIs, RestIs DEF StartTrade, Take
  <2> QED BY <1>1, <2>1 DEF OnePosition
<1>4. CASE PlaceEntry
  <2>1. At("stop").at = "stop"
    BY AtIs DEF Places
  <2>2. handler'.at # "stop"
    OBVIOUS
  <2> QED BY <1>4, <2>1, <2>2, EntryIsMarket
<1>5. CASE Rollback
  <2>1. position' = FullyClosed(Size)
    BY <1>5 DEF Rollback, Spared
  <2>2. position <= Size /\ Size \in Nat
    BY DEF OnePosition, Size
  <2> QED BY <2>1, <2>2, ClosedIs
<1> QED BY <1>2, <1>3, <1>4, <1>5, NobodyWaits, FailedAfter, EntryAfter

\* Between two messages the monitor knows of what is held.
LEMMA KnownBetween ==
    ASSUME DeskTypes, Begun, OnePosition, Spared({"lost_reply", "close_error", "patient"}),
           [DeskNext]_deskVars, handler'.at \in {"idle", "panic"}, position' > 0
    PROVE  monitored' # {}
<1>1. position \in Nat
  BY DEF DeskTypes, DeskTypeOK
<1>2. CASE Finish
  BY <1>2 DEF Finish, OnePosition
<1>3. CASE ReportFailure
  BY <1>3 DEF ReportFailure, OnePosition
<1>4. CASE (UNCHANGED handler /\ handler.at \in {"idle", "panic"}) \/ PanicCancel \/ PanicClose
  <2>1. handler.at \in {"idle", "panic"}
    BY <1>4, RestIs DEF PanicCancel, Take, PanicClose
  <2>2. ~PlaceEntry
    BY <2>1 DEF PlaceEntry
  <2>3. position > 0
    BY <1>1, <2>2, NobodyWaits
  <2>4. monitored # {}
    BY <2>1, <2>3 DEF OnePosition
  <2>5. CASE MonitorTick
    BY <2>3, <2>5 DEF MonitorTick
  <2>6. CASE ~MonitorTick /\ ~Finish
    <3>1. UNCHANGED monitored
      BY <2>6
      DEF DeskNext, Handle, StartTrade, PlaceEntry, WaitFilled, WaitFails, WaitEnds, PlaceLeg,
          Rollback, ReportFailure, ClosePosition, PanicCancel, PanicClose, Expire, PendingTick,
          WsEvent, PollApply, FillLeg, OcoCancel, PollRead, Send, deskVars, serviceVars
    <3> QED BY <2>4, <3>1
  <2> QED BY <1>2, <2>5, <2>6
<1> QED BY <1>2, <1>3, <1>4, IdleAfter

LEMMA StepKeepsOne ==
    ASSUME DeskTypes, Begun, OnePosition, [DeskNext]_deskVars
    PROVE  OnePosition'
<1> SUFFICES ASSUME Spared({"lost_reply", "close_error", "patient"})
             PROVE  /\ ~handler'.patient
                    /\ \A t \in Executions : book'[<<t, "entry">>] # "new"
                    /\ position' <= Size
                    /\ handler'.at \in {"entry", "failed"} => position' = 0
                    /\ handler'.at \in {"idle", "panic"} /\ position' > 0 => monitored' # {}
  BY PlanStays DEF OnePosition, Spared, Resting
<1>1. ~handler'.patient
  BY PatientAfter DEF OnePosition, Spared
<1>2. \A t \in Executions : book'[<<t, "entry">>] # "new"
  BY NoEntryRests
<1>3. position' <= Size
  <2>1. position \in Nat /\ position <= Size
    BY DEF DeskTypes, DeskTypeOK, OnePosition
  <2>2. CASE PlaceEntry
    BY <2>2, EntryIsMarket DEF Size
  <2> QED BY <2>1, <2>2, NobodyWaits DEF Size
<1> QED BY <1>1, <1>2, <1>3, EmptyHanded, KnownBetween

\* The stop of a position that no lone target has closed stays in the book.
LEMMA StopStays ==
    ASSUME DeskTypes, Begun, OcoHasReason, OnePosition, [DeskNext]_deskVars,
           Spared({"lost_reply", "close_error", "fast_fill", "patient"}),
           NEW t \in Executions, Resting(<<t, "stop">>), ~TargetFilled(t) \/ BothHeld(t),
           position' > 0, ~Rollback, ~PanicCancel
    PROVE  book'[<<t, "stop">>] = "new"
<1>1. PICK o \in Orders : o = <<t, "stop">> /\ o[1] = t /\ o[2] = "stop"
  BY OrderMade DEF Legs
<1>2. Resting(o) /\ book \in [Orders -> OrderStates]
  BY <1>1 DEF DeskTypes, DeskTypeOK, OrderStates
<1>3. Spared({"lost_reply", "close_error", "patient"}) /\ Spared({"fast_fill"})
  BY DEF Spared
<1>4. position \in Nat /\ position <= Size
  BY <1>3 DEF DeskTypes, DeskTypeOK, OnePosition
<1>5. CASE UNCHANGED book
  BY <1>1, <1>2, <1>5 DEF Resting
<1>6. ASSUME NEW confidence \in 1..2, StartTrade(confidence) PROVE UNCHANGED book
  <2>1. CASE monitored = {}
    <3>1. handler.at = "idle" /\ position' = position
      BY <1>6, RestIs DEF StartTrade, Take
    <3> QED BY <1>3, <2>1, <3>1 DEF OnePosition
  <2> QED BY <1>6, <2>1, StartIs
<1>7. CASE PlaceEntry
  <2>1. o # <<HandlerTrade, "entry">>
    BY <1>1
  <2> QED BY <1>1, <1>2, <1>7, <2>1 DEF PlaceEntry, Resting
<1>8. CASE PlaceLeg
  <2>1. PICK leg \in Legs \ {"entry"}, p \in Placements : LegIsPlaced(leg, p)
    BY <1>8, LegPlaced
  <2> QED BY <1>1, <1>2, <2>1 DEF LegIsPlaced, Resting
<1>9. ASSUME NEW x \in Orders, OcoCancel(x) PROVE book'[o] = "new"
  <2>1. x # o
    BY <1>1, <1>3, <1>9 DEF OcoCancel, OcoHasReason
  <2>2. PICK os : os = {x}
    OBVIOUS
  <2>3. book' = Cancelled(os) \/ book' = book
    BY <1>9, <2>2 DEF OcoCancel
  <2> QED BY <1>2, <2>1, <2>2, <2>3, CancelledIs DEF Resting
<1>10. ASSUME NEW x \in Orders, FillLeg(x) PROVE book'[o] = "new"
  <2>1. ASSUME x = o PROVE FALSE
    <3>1. position' = position - Least(Size, position)
      BY <1>1, <1>10, <2>1 DEF FillLeg, Quantity, Targets
    <3> QED BY <1>4, <3>1 DEF Least, Size
  <2> QED BY <1>2, <1>10, <2>1 DEF FillLeg, Resting
<1>11. ~WaitFails /\ ~WaitEnds
  BY <1>3, NobodyWaits
<1> QED
  BY <1>1, <1>5, <1>6, <1>7, <1>8, <1>9, <1>10, <1>11
  DEF DeskNext, Handle, WaitFilled, ReportFailure, Finish, ClosePosition, PanicClose, MonitorTick,
      Expire, PendingTick, WsEvent, PollApply, PollRead, Send, deskVars

LEMMA TargetsAfter ==
    ASSUME DeskTypes, [DeskNext]_deskVars, handler'.at \in {"targets", "finish"}
    PROVE  UNCHANGED handler \/ PlaceLeg \/ WaitEnds
<1>1. ASSUME NEW confidence \in 1..2, StartTrade(confidence) PROVE UNCHANGED handler
  BY <1>1, StartIs
<1>2. ~PlaceEntry /\ ~WaitFilled /\ ~WaitFails /\ ~Rollback /\ ~ReportFailure
      /\ ~Finish /\ ~PanicCancel /\ ~PanicClose
  BY AtIs, RestIs DEF PlaceEntry, WaitFilled, WaitFails, Rollback, ReportFailure, Finish,
     PanicCancel, PanicClose, Places
<1> QED
  BY <1>1, <1>2
  DEF DeskNext, Handle, ClosePosition, MonitorTick, Expire, PendingTick, WsEvent, PollApply,
      FillLeg, OcoCancel, PollRead, Send, deskVars, serviceVars

\* While the targets are placed, and when they are, the stop is in the book.
LEMMA StopWhilePlacing ==
    ASSUME DeskTypes, Begun, NothingUnordered, OcoHasReason, OnePosition, Protected,
           [DeskNext]_deskVars, Spared({"lost_reply", "close_error", "fast_fill", "patient"}),
           handler'.at \in {"targets", "finish"}
    PROVE  /\ position' > 0 => book'[<<handler'.trade, "stop">>] = "new"
           /\ handler'.at = "finish" => \A l \in Targets : <<handler'.trade, l>> \in held'
<1>1. Spared({"lost_reply", "close_error", "patient"}) /\ Spared({"fast_fill"})
  BY DEF Spared
<1>2. held \subseteq held' /\ position \in Nat
  BY HeldGrows DEF DeskTypes, DeskTypeOK
<1>3. handler'.trade = HandlerTrade /\ HandlerTrade \in Executions
  BY PlacingIs DEF HandlerTrade
<1>4. CASE UNCHANGED handler
  <2>1. Placing /\ ~PlaceEntry /\ ~Rollback /\ ~PanicCancel
    BY <1>4, AtIs, RestIs DEF Placing, PlaceEntry, Rollback, PanicCancel, Take
  <2>2. ~TargetFilled(HandlerTrade)
    BY <1>1, <2>1 DEF OcoHasReason, TargetFilled, Legs, Targets
  <2>3. position' > 0 => position > 0
    BY <1>1, <1>2, <2>1, NobodyWaits
  <2>4. position' > 0 => Resting(<<HandlerTrade, "stop">>)
    BY <1>4, <2>3 DEF Protected
  <2>5. position' > 0 => book'[<<HandlerTrade, "stop">>] = "new"
    BY <1>3, <2>1, <2>2, <2>4, StopStays
  <2>6. handler'.at = "finish" => BothHeld(HandlerTrade)
    BY <1>4 DEF Protected
  <2> QED BY <1>2, <1>3, <2>5, <2>6 DEF BothHeld, LegsOf
<1>5. CASE PlaceLeg
  <2>1. PICK leg \in Legs \ {"entry"}, p \in Placements : LegIsPlaced(leg, p)
    BY <1>5, LegPlaced
  <2>2. p.reply
    BY <2>1, AtIs DEF LegIsPlaced, Places
  <2>3. p.placed
    BY <2>2, PlacementIs
  <2>4. PICK o \in Orders : o = <<HandlerTrade, "stop">> /\ o[2] = "stop"
    <3>1. "stop" \in Legs
      BY DEF Legs
    <3>2. <<HandlerTrade, "stop">> \in Orders
      BY <1>3, <3>1, OrderMade
    <3> QED BY <3>2
  <2>5. position' > 0 => book'[o] = "new"
    <3>1. CASE leg = "stop"
      BY <2>1, <2>3, <2>4, <3>1 DEF LegIsPlaced, DeskTypes, DeskTypeOK
    <3>2. CASE leg # "stop"
      <4>1. handler.at = "targets" /\ position' = position
        BY <1>5, <2>1, <3>2 DEF PlaceLeg, LegIsPlaced
      <4>2. position > 0 => book[o] = "new"
        BY <2>4, <4>1 DEF Protected, Resting, Spared
      <4>3. o # <<HandlerTrade, leg>>
        BY <2>4, <3>2
      <4> QED BY <2>1, <4>1, <4>2, <4>3 DEF LegIsPlaced, DeskTypes, DeskTypeOK
    <3> QED BY <3>1, <3>2
  <2>6. handler'.at = "finish" => leg = "tp1"
    BY <2>1, <2>2, AtIs DEF LegIsPlaced, Places
  <2>7. leg = "tp1" => <<HandlerTrade, "tp0">> \in held' /\ <<HandlerTrade, "tp1">> \in held'
    BY <1>2, <2>1, <2>2 DEF LegIsPlaced
  <2> QED BY <1>3, <2>4, <2>5, <2>6, <2>7 DEF Targets
<1> QED BY <1>1, <1>4, <1>5, NobodyWaits, TargetsAfter

\* Between two messages the stop is there.
LEMMA StopBetween ==
    ASSUME DeskTypes, Begun, NothingUnordered, OcoHasReason, OnePosition, Protected,
           [DeskNext]_deskVars, Spared({"lost_reply", "close_error", "fast_fill", "patient"}),
           handler'.at = "idle", position' > 0
    PROVE  \E t \in Executions : book'[<<t, "stop">>] = "new" /\ LegsOf(t, Targets) \subseteq held'
<1>1. Spared({"lost_reply", "close_error", "patient"})
  BY DEF Spared
<1>2. held \subseteq held' /\ position \in Nat
  BY HeldGrows DEF DeskTypes, DeskTypeOK
<1>3. CASE UNCHANGED handler
  <2>1. ~PlaceEntry /\ ~Rollback /\ ~PanicCancel
    BY <1>3, AtIs, RestIs DEF PlaceEntry, Rollback, PanicCancel
  <2>2. position > 0
    BY <1>1, <1>2, <2>1, NobodyWaits
  <2>3. PICK t \in Executions : Resting(<<t, "stop">>) /\ BothHeld(t)
    BY <1>3, <2>2 DEF Protected
  <2>4. book'[<<t, "stop">>] = "new"
    BY <2>1, <2>3, StopStays
  <2> QED BY <1>2, <2>3, <2>4 DEF BothHeld
<1>4. CASE Finish
  <2>1. position' = position /\ book' = book /\ held' = held /\ handler.at = "finish"
    BY <1>4 DEF Finish
  <2>2. HandlerTrade \in Executions /\ Resting(<<HandlerTrade, "stop">>) /\ BothHeld(HandlerTrade)
    BY <2>1 DEF Begun, Protected
  <2> QED BY <2>1, <2>2 DEF Resting, BothHeld
<1>5. CASE ReportFailure
  BY <1>1, <1>5 DEF ReportFailure, OnePosition
<1>6. ~PanicCancel
  BY RestIs DEF PanicCancel
<1>7. CASE PanicClose
  BY <1>1, <1>7, PanicClosesAll
<1> QED BY <1>3, <1>4, <1>5, <1>6, <1>7, IdleAfter

LEMMA StepKeepsProtected ==
    ASSUME DeskTypes, Begun, NothingUnordered, OcoHasReason, OnePosition, Protected,
           [DeskNext]_deskVars
    PROVE  Protected'
<1> SUFFICES ASSUME Spared({"lost_reply", "close_error", "fast_fill", "patient"})
             PROVE  /\ handler'.at \in {"targets", "finish"} /\ position' > 0 =>
                         book'[<<handler'.trade, "stop">>] = "new"
                    /\ handler'.at = "finish" => LegsOf(handler'.trade, Targets) \subseteq held'
                    /\ handler'.at = "idle" /\ position' > 0 =>
                         \E t \in Executions : book'[<<t, "stop">>] = "new"
                                               /\ LegsOf(t, Targets) \subseteq held'
  BY PlanStays DEF Protected, Spared, Resting, BothHeld, HandlerTrade
<1>1. handler'.at = "finish" => LegsOf(handler'.trade, Targets) \subseteq held'
  BY StopWhilePlacing DEF LegsOf
<1> QED BY <1>1, StopWhilePlacing, StopBetween

-----------------------------------------------------------------------------
(* The theorems.                                                           *)

LEMMA DeskStarts ==
    ASSUME DeskInit
    PROVE  DeskInv
<1>1. DeskTypes
  <2>1. <<>> \in Seq({"trade", "panic", "close"})
    OBVIOUS
  <2>2. handler \in HandlerStates
    BY RestIs DEF DeskInit
  <2>3. poll \in PollAnswers /\ poll.order = NoRead.order
    BY NoReadTyped DEF DeskInit
  <2>4. breaker \in BreakerStates
    BY DEF DeskInit, BreakerStates
  <2>5. pending \in [trade : 0..MaxExecutions, confidence : 0..2, expired : BOOLEAN]
    BY DeskAssumption DEF DeskInit, NoPending
  <2> QED
    BY <2>1, <2>2, <2>3, <2>4, <2>5, DeskAssumption
    DEF DeskInit, DeskTypes, DeskTypeOK, HandlerStates, Places, BreakerStates
<1>2. handler.at = "idle" /\ handler.patient = FALSE
  BY RestIs DEF DeskInit
<1>3. Begun
  <2>1. \A t \in Executions : status[t] # "none" <=> t <= 0
    BY DEF DeskInit, Executions
  <2>2. 0 \in 0..MaxExecutions
    BY DeskAssumption
  <2> QED BY <1>2, <2>1, <2>2 DEF Begun
<1>4. NothingUnordered
  <2>1. Yet = {}
    BY <1>2 DEF Yet
  <2>2. ASSUME NEW t \in Executions, NEW l \in Legs PROVE Unplaced(<<t, l>>)
    <3>1. <<t, l>> \in Orders
      BY OrderMade
    <3> QED BY <3>1 DEF DeskInit, Unplaced
  <2> QED BY <2>1, <2>2 DEF NothingUnordered
<1>5. SeenIsSo /\ ToldOnce
  BY DEF DeskInit, SeenIsSo, ToldOnce
<1>6. ASSUME NEW t \in Executions, NEW l \in Legs PROVE ~Resting(<<t, l>>)
  <2>1. <<t, l>> \in Orders
    BY OrderMade
  <2> QED BY <2>1 DEF DeskInit, Resting
<1>7. "entry" \in Legs
  BY DEF Legs
<1>8. NoStrayEntry
  BY <1>6, <1>7 DEF NoStrayEntry
<1>9. OcoHasReason
  BY <1>2 DEF DeskInit, OcoHasReason, Placing
<1>10. position = 0
  BY DEF DeskInit
<1>11. OnePosition
  BY <1>2, <1>6, <1>7, <1>10 DEF OnePosition, Size
<1>12. Protected
  BY <1>2, <1>10 DEF Protected
<1> QED BY <1>1, <1>3, <1>4, <1>5, <1>8, <1>9, <1>11, <1>12 DEF DeskInv

LEMMA DeskGoesOn ==
    ASSUME DeskInv, [DeskNext]_deskVars
    PROVE  DeskInv'
<1>1. /\ DeskTypes /\ Begun /\ NothingUnordered /\ SeenIsSo /\ ToldOnce
      /\ NoStrayEntry /\ OcoHasReason /\ OnePosition /\ Protected
  BY DEF DeskInv
<1>2. DeskTypes' /\ Begun' /\ NothingUnordered'
  BY <1>1, StepKeepsTypes, StepKeepsBegun, StepKeepsUnordered
<1>3. SeenIsSo' /\ ToldOnce' /\ NoStrayEntry'
  BY <1>1, StepKeepsSeen, StepKeepsTold, StepKeepsNoStray
<1>4. OcoHasReason' /\ OnePosition' /\ Protected'
  BY <1>1, StepKeepsOco, StepKeepsOne, StepKeepsProtected
<1> QED BY <1>2, <1>3, <1>4 DEF DeskInv

LEMMA DeskHolds ==
    ASSUME DeskInv
    PROVE  FillNotifiedOnce /\ IdleMeansProtected /\ OnePositionAtATime /\ NoStrayEntry
<1>1. FillNotifiedOnce
  BY DEF DeskInv, ToldOnce, FillNotifiedOnce
<1>2. IdleMeansProtected
  BY RestIs DEF DeskInv, Protected, IdleMeansProtected
<1>3. OnePositionAtATime
  BY DEF DeskInv, OnePosition, OnePositionAtATime
<1> QED BY <1>1, <1>2, <1>3 DEF DeskInv

\* A live panic close ends with nothing held.
LEMMA PanicEnds ==
    ASSUME DeskInv, [DeskNext]_deskVars
    PROVE  (handler.at = "panic" /\ handler'.at = "idle" /\ LiveMode
              /\ Spared({"lost_reply", "close_error", "patient"})) => position' = 0
<1> SUFFICES ASSUME handler.at = "panic", handler'.at = "idle",
                    Spared({"lost_reply", "close_error", "patient"})
             PROVE  position' = 0
  OBVIOUS
<1>1. DeskTypes /\ OnePosition
  BY DEF DeskInv
<1>2. UNCHANGED handler \/ ReportFailure \/ Finish \/ PanicCancel \/ PanicClose
  BY <1>1, IdleAfter
<1>3. PanicClose
  BY <1>2, RestIs DEF ReportFailure, Finish, PanicCancel, Take
<1> QED BY <1>1, <1>3, PanicClosesAll

\* The types of the desk: the book, the records, the message loop's place.
THEOREM DeskTyped == DeskSpec => []DeskTypeOK
<1>1. DeskInit => DeskInv
  BY DeskStarts
<1>2. DeskInv /\ [DeskNext]_deskVars => DeskInv'
  BY DeskGoesOn
<1>3. DeskInv => DeskTypeOK
  BY DEF DeskInv, DeskTypes
<1> QED BY <1>1, <1>2, <1>3, PTL DEF DeskSpec

\* The single-user desk (execution_agent.py, order_manager.py,
\* order_tracker.py): a fill is told once whichever transport saw it; between
\* two messages a position of a MARKET entry has its stop; one position is held
\* at a time; a limit entry rests only while it is waited for; a live panic
\* close leaves nothing.  For any number of executions and messages, any
\* breaker threshold and every plan of faults, in the interleavings of the
\* message loop, the two transports, the OCO callback and the monitors.
THEOREM WhatIsHeldIsProtected == DeskSpec => DeskIsSafe
<1>1. DeskInit => DeskInv
  BY DeskStarts
<1>2. DeskInv /\ [DeskNext]_deskVars => DeskInv'
  BY DeskGoesOn
<1>3. DeskInv => FillNotifiedOnce /\ IdleMeansProtected /\ OnePositionAtATime /\ NoStrayEntry
  BY DeskHolds
<1>4. DeskInv /\ [DeskNext]_deskVars =>
        [(handler.at = "panic" /\ handler'.at = "idle" /\ LiveMode
            /\ Spared({"lost_reply", "close_error", "patient"}))
           => position' = 0]_deskVars
  BY PanicEnds
<1> QED BY <1>1, <1>2, <1>3, <1>4, PTL DEF DeskSpec, DeskIsSafe, PanicFlattens

-----------------------------------------------------------------------------
(* TradeMemory: the rows, what the vectors tell of them, and the history   *)
(* that the regime is ranked by.                                           *)

Letters ==
    [kind : {"log_trade"}, trade : Trades, direction : {"LONG", "SHORT"}, price : Nat]
      \cup [kind : {"update_trade", "update_entry"}, trade : Trades, price : Nat]

RowRecords ==
    [status : {None, "OPEN", "CLOSED"}, direction : {"LONG", "SHORT"}, entry : Nat,
     size : {1}, exit : Nat, at : Nat, pnl : Int, winner : BOOLEAN]

Histories == Seq(Nat \X Nat)

MemoryTypes ==
    /\ orders \in [Trades -> {None, "log", "close"}]
    /\ mail \in Seq(Letters)
    /\ rows \in [Trades -> RowRecords]
    /\ remember \in Trades \cup {NoTrade}
    /\ vectors \in [Trades -> {None, "WIN", "LOSS"}]
    /\ closings \in Nat /\ samples \in Nat
    /\ known \in Histories /\ saved \in Histories

\* While nobody corrects an entry: every letter and row has the one entry price,
\* or none, and a closed row has it and the result of it.
RowsAddUp ==
    "repriced" \notin chance =>
        /\ \A i \in 1..Len(mail) :
              /\ mail[i].kind # "update_entry"
              /\ mail[i].kind = "log_trade" => mail[i].price \in {0, EntryPrice}
        /\ \A t \in Trades :
              /\ rows[t].entry \in {0, EntryPrice}
              /\ rows[t].at > 0 =>
                    /\ rows[t].pnl = Sign(rows[t].direction) * (rows[t].exit - EntryPrice)
                    /\ rows[t].winner <=> rows[t].pnl > 0

\* A closed trade's outcome is in the vectors or on its way there.
OutcomesTold ==
    Without({"no_embedding", "crash"}) =>
        \A t \in Trades : rows[t].at > 0 => t = remember \/ vectors[t] = Told(rows[t])

Ascending(series) ==
    /\ \A i \in 1..Len(series) : series[i][1] <= samples
    /\ \A i, j \in 1..Len(series) : i < j => series[i][1] < series[j][1]

\* Without an outage the detector has what was saved, or has just restarted.
HistoryKept ==
    "redis" \notin chance =>
        /\ known \in {saved, <<>>}
        /\ Len(saved) = IF samples <= MaxHistory THEN samples ELSE MaxHistory
        /\ \A i \in 1..Len(saved) : saved[i][1] = samples - Len(saved) + i

MemoryInv ==
    /\ MemoryTypes /\ RowsAddUp /\ OutcomesTold
    /\ Ascending(known) /\ Ascending(saved) /\ HistoryKept /\ VolatileIsEarned

-----------------------------------------------------------------------------
LEMMA MemoryNumbers ==
    /\ MaxTrades \in Nat /\ EntryPrice \in Nat \ {0} /\ MaxHistory \in Nat
    /\ ExitPrices \subseteq Nat /\ Volatilities \subseteq Nat
    /\ Trades \subseteq Nat \ {0} /\ NoTrade \notin Trades
  BY MemoryAssumption DEF MemoryAssumption, Trades, NoTrade

LEMMA LesserOfTwo ==
    ASSUME NEW a \in Nat, NEW b \in Nat
    PROVE  Min({a, b}) = IF a <= b THEN a ELSE b
<1> DEFINE m == IF a <= b THEN a ELSE b
<1>1. m \in {a, b} /\ \A y \in {a, b} : m <= y
  OBVIOUS
<1>2. \A x \in {a, b} : (\A y \in {a, b} : x <= y) => x = m
  OBVIOUS
<1> HIDE DEF m
<1>3. (CHOOSE x \in {a, b} : \A y \in {a, b} : x <= y) = m
  BY <1>1, <1>2
<1> QED BY <1>3 DEF Min, m

LEMMA PnlIs ==
    ASSUME NEW row \in RowRecords, NEW exit \in Nat
    PROVE  Pnl(row, exit) \in Int /\ Pnl(row, exit) = Sign(row.direction) * (exit - row.entry)
<1> DEFINE d == exit - row.entry
<1>1. d \in Int /\ row.size = 1 /\ row.direction \in {"LONG", "SHORT"}
  BY DEF RowRecords
<1>2. Sign(row.direction) \in {1, -1}
  BY DEF Sign
<1>3. Pnl(row, exit) = Sign(row.direction) * d * 1
  BY <1>1 DEF Pnl
<1> HIDE DEF d
<1>4. CASE Sign(row.direction) = 1
  <2>1. 1 * d * 1 = d /\ 1 * d = d
    BY <1>1
  <2> QED BY <1>1, <1>3, <1>4, <2>1 DEF d
<1>5. CASE Sign(row.direction) = -1
  <2>1. (-1) * d * 1 = -d /\ (-1) * d = -d /\ -d \in Int
    BY <1>1
  <2> QED BY <1>1, <1>3, <1>5, <2>1 DEF d
<1> QED BY <1>2, <1>4, <1>5

LEMMA ClosedRowIs ==
    ASSUME NEW row \in RowRecords, NEW exit \in Nat, NEW time \in Nat
    PROVE  /\ Closed(row, exit, time) \in RowRecords
           /\ Closed(row, exit, time).entry = row.entry
           /\ Closed(row, exit, time).direction = row.direction
           /\ Closed(row, exit, time).exit = exit
           /\ Closed(row, exit, time).at = time
           /\ Closed(row, exit, time).pnl = Sign(row.direction) * (exit - row.entry)
           /\ Closed(row, exit, time).winner <=> Closed(row, exit, time).pnl > 0
<1> DEFINE p == Pnl(row, exit)
<1>1. p \in Int /\ p = Sign(row.direction) * (exit - row.entry)
  BY PnlIs
<1>2. Closed(row, exit, time) = [row EXCEPT !.status = "CLOSED", !.exit = exit, !.at = time,
                                   !.pnl = p, !.winner = p > 0]
  BY DEF Closed
<1> HIDE DEF p
<1>3. (p > 0) \in BOOLEAN
  BY <1>1
<1> DEFINE win == p > 0
<1>5. win \in BOOLEAN /\ (win <=> p > 0)
  BY <1>3
<1> HIDE DEF win
<1>6. Closed(row, exit, time) = [row EXCEPT !.status = "CLOSED", !.exit = exit, !.at = time,
                                   !.pnl = p, !.winner = win]
  BY <1>2 DEF win
<1> QED BY <1>1, <1>5, <1>6 DEF RowRecords

LEMMA OpenedRowIs ==
    ASSUME NEW direction \in {"LONG", "SHORT"}, NEW price \in Nat
    PROVE  /\ Opened(direction, price) \in RowRecords
           /\ Opened(direction, price).entry = price
           /\ Opened(direction, price).at = 0
  BY DEF Opened, RowRecords

\* The letter a handler takes is typed, and so is the inbox it leaves.
LEMMA HeadOfMail ==
    ASSUME MemoryTypes, mail # <<>>
    PROVE  /\ Head(mail) \in Letters /\ Head(mail) = mail[1] /\ 1 \in 1..Len(mail)
           /\ Head(mail).trade \in Trades /\ Head(mail).price \in Nat
           /\ Head(mail).kind = "log_trade" => Head(mail).direction \in {"LONG", "SHORT"}
           /\ Tail(mail) \in Seq(Letters) /\ Len(Tail(mail)) = Len(mail) - 1
           /\ \A i \in 1..Len(Tail(mail)) : Tail(mail)[i] = mail[i + 1] /\ i + 1 \in 1..Len(mail)
<1>1. mail \in Seq(Letters)
  BY DEF MemoryTypes
<1>2. Head(mail) \in Letters /\ Head(mail) = mail[1] /\ 1 \in 1..Len(mail)
  BY <1>1
<1>3. \A m \in Letters :
        /\ m.trade \in Trades /\ m.price \in Nat
        /\ m.kind = "log_trade" => m.direction \in {"LONG", "SHORT"}
  BY DEF Letters
<1>4. /\ Tail(mail) \in Seq(Letters) /\ Len(Tail(mail)) = Len(mail) - 1
      /\ \A i \in 1..Len(Tail(mail)) : Tail(mail)[i] = mail[i + 1] /\ i + 1 \in 1..Len(mail)
  BY <1>1
<1> QED BY <1>2, <1>3, <1>4

-----------------------------------------------------------------------------
(* The handlers keep the types and the rows.                               *)

\* What the publishers put into the inbox, where they put anything.
LEMMA PublishedIs ==
    ASSUME MemoryTypes, NEW t \in Trades, NEW exit \in Nat,
           PublishLog(t) \/ PublishClose(t, exit) \/ PublishEntry(t, exit)
    PROVE  /\ \E m \in Letters :
                /\ mail' = Append(mail, m)
                /\ m.kind = "log_trade" => m.price \in {0, EntryPrice}
                /\ m.kind = "update_entry" => "repriced" \in chance
           /\ orders' \in [Trades -> {None, "log", "close"}]
           /\ UNCHANGED <<chance, rows, remember, vectors, closings, samples, known, saved, regime>>
<1>0. EntryPrice \in Nat
  BY MemoryNumbers
<1>1. CASE PublishLog(t)
  <2>1. PICK direction \in {"LONG"} \cup {"SHORT" : e \in chance \ {"trades"}},
             price \in {EntryPrice} \cup {0 : e \in chance \cap {"priceless"}} :
          mail' = Append(mail, [kind |-> "log_trade", trade |-> t,
                                direction |-> direction, price |-> price])
    BY <1>1 DEF PublishLog
  <2>2. direction \in {"LONG", "SHORT"} /\ price \in {0, EntryPrice}
    OBVIOUS
  <2>3. [kind |-> "log_trade", trade |-> t, direction |-> direction, price |-> price] \in Letters
    BY <1>0, <2>2 DEF Letters
  <2>4. orders' \in [Trades -> {None, "log", "close"}]
    BY <1>1 DEF PublishLog, MemoryTypes
  <2>5. UNCHANGED <<chance, rows, remember, vectors, closings, samples, known, saved, regime>>
    BY <1>1 DEF PublishLog
  <2> QED BY <2>1, <2>2, <2>3, <2>4, <2>5
<1>2. CASE PublishClose(t, exit)
  <2> DEFINE m == [kind |-> "update_trade", trade |-> t, price |-> exit]
  <2>1. m \in Letters
    BY <1>0 DEF Letters
  <2>2. orders' \in [Trades -> {None, "log", "close"}]
    BY <1>2 DEF PublishClose, MemoryTypes
  <2>3. mail' = Append(mail, m)
    BY <1>2 DEF PublishClose
  <2> QED BY <1>2, <2>1, <2>2, <2>3 DEF PublishClose
<1>3. CASE PublishEntry(t, exit)
  <2> DEFINE m == [kind |-> "update_entry", trade |-> t, price |-> exit]
  <2>1. m \in Letters
    BY <1>0 DEF Letters
  <2>2. mail' = Append(mail, m)
    BY <1>3 DEF PublishEntry
  <2> QED BY <1>3, <2>1, <2>2 DEF PublishEntry, MemoryTypes, Can
<1> QED BY <1>1, <1>2, <1>3

LEMMA PublishingKeeps ==
    ASSUME MemoryInv, NEW t \in Trades, NEW exit \in Nat,
           PublishLog(t) \/ PublishClose(t, exit) \/ PublishEntry(t, exit)
    PROVE  MemoryTypes' /\ RowsAddUp' /\ OutcomesTold'
<1>0. MemoryTypes /\ RowsAddUp /\ OutcomesTold
  BY DEF MemoryInv
<1>1. PICK m \in Letters :
        /\ mail' = Append(mail, m)
        /\ m.kind = "log_trade" => m.price \in {0, EntryPrice}
        /\ m.kind = "update_entry" => "repriced" \in chance
  BY <1>0, PublishedIs
<1>2. /\ orders' \in [Trades -> {None, "log", "close"}]
      /\ UNCHANGED <<chance, rows, remember, vectors, closings, samples, known, saved, regime>>
  BY <1>0, PublishedIs
<1>3. mail \in Seq(Letters)
  BY <1>0 DEF MemoryTypes
<1>4. /\ mail' \in Seq(Letters) /\ Len(mail') = Len(mail) + 1
      /\ \A i \in 1..Len(mail') : mail'[i] = IF i = Len(mail) + 1 THEN m ELSE mail[i]
  BY <1>1, <1>3
<1>5. MemoryTypes'
  BY <1>0, <1>2, <1>4 DEF MemoryTypes, Histories
<1>6. RowsAddUp'
  BY <1>0, <1>1, <1>2, <1>3, <1>4 DEF RowsAddUp
<1>7. OutcomesTold'
  BY <1>0, <1>2 DEF OutcomesTold, Without
<1> QED BY <1>5, <1>6, <1>7

\* Taking the first letter, whatever becomes of the rows.
LEMMA MailShrinks ==
    ASSUME MemoryTypes, RowsAddUp, mail # <<>>, mail' = Tail(mail), "repriced" \notin chance
    PROVE  \A i \in 1..Len(mail') :
              /\ mail'[i].kind # "update_entry"
              /\ mail'[i].kind = "log_trade" => mail'[i].price \in {0, EntryPrice}
  BY HeadOfMail DEF RowsAddUp

LEMMA MailLostKeeps ==
    ASSUME MemoryInv, MailLost
    PROVE  MemoryTypes' /\ RowsAddUp' /\ OutcomesTold'
<1>0. MemoryTypes /\ RowsAddUp /\ OutcomesTold
  BY DEF MemoryInv
<1>1. mail # <<>> /\ mail' = Tail(mail)
  BY DEF MailLost
<1>2. UNCHANGED <<chance, orders, rows, remember, vectors, closings, samples, known, saved, regime>>
  BY DEF MailLost
<1>3. MemoryTypes'
  BY <1>0, <1>1, <1>2, HeadOfMail DEF MemoryTypes, Histories
<1>4. RowsAddUp'
  BY <1>0, <1>1, <1>2, MailShrinks DEF RowsAddUp
<1>5. OutcomesTold'
  BY <1>0, <1>2 DEF OutcomesTold, Without
<1> QED BY <1>3, <1>4, <1>5

LEMMA LogTradeKeeps ==
    ASSUME MemoryInv, LogTrade
    PROVE  MemoryTypes' /\ RowsAddUp' /\ OutcomesTold'
<1> DEFINE m == Head(mail)
<1>0. MemoryTypes /\ RowsAddUp /\ OutcomesTold
  BY DEF MemoryInv
<1>1. mail # <<>> /\ m.kind = "log_trade" /\ remember = NoTrade /\ mail' = Tail(mail)
  BY DEF LogTrade, Reads
<1>2. UNCHANGED <<chance, orders, vectors, closings, samples, known, saved, regime>>
  BY DEF LogTrade
<1>3. /\ m = mail[1] /\ 1 \in 1..Len(mail) /\ m.trade \in Trades /\ m.price \in Nat
      /\ m.direction \in {"LONG", "SHORT"} /\ mail' \in Seq(Letters)
  BY <1>0, <1>1, HeadOfMail
<1> DEFINE row == Opened(m.direction, m.price)
<1>4. row \in RowRecords /\ row.entry = m.price /\ row.at = 0
  BY <1>3, OpenedRowIs
<1>5. \/ rows' = [rows EXCEPT ![m.trade] = row] /\ remember' = m.trade
      \/ UNCHANGED <<rows, remember>>
  BY DEF LogTrade
<1>6. rows \in [Trades -> RowRecords] /\ remember' \in Trades \cup {NoTrade}
  BY <1>0, <1>3, <1>5 DEF MemoryTypes
<1>7. "repriced" \notin chance => m.price \in {0, EntryPrice}
  BY <1>0, <1>1, <1>3 DEF RowsAddUp
<1> HIDE DEF row, m
<1>8. rows' \in [Trades -> RowRecords]
  BY <1>3, <1>4, <1>5, <1>6
<1>9. \A t \in Trades : rows'[t] = rows[t] \/ (rows'[t] = row /\ t = m.trade)
  BY <1>3, <1>5, <1>6
<1>10. MemoryTypes'
  BY <1>0, <1>2, <1>3, <1>6, <1>8 DEF MemoryTypes, Histories
<1>11. RowsAddUp'
  BY <1>0, <1>1, <1>2, <1>4, <1>7, <1>9, MailShrinks DEF RowsAddUp
<1>12. OutcomesTold'
  <2> SUFFICES ASSUME Without({"no_embedding", "crash"}), NEW t \in Trades, rows'[t].at > 0
               PROVE  t = remember' \/ vectors'[t] = Told(rows'[t])
    BY <1>2 DEF OutcomesTold, Without
  <2>1. rows'[t] = rows[t]
    BY <1>4, <1>9
  <2>2. t = remember \/ vectors[t] = Told(rows[t])
    BY <1>0, <2>1 DEF OutcomesTold
  <2>3. t # remember
    BY <1>1, MemoryNumbers
  <2> QED BY <1>2, <2>1, <2>2, <2>3
<1> QED BY <1>10, <1>11, <1>12

LEMMA UpdateEntryKeeps ==
    ASSUME MemoryInv, UpdateEntry
    PROVE  MemoryTypes' /\ RowsAddUp' /\ OutcomesTold'
<1> DEFINE m == Head(mail)
<1>0. MemoryTypes /\ RowsAddUp /\ OutcomesTold
  BY DEF MemoryInv
<1>1. mail # <<>> /\ m.kind = "update_entry" /\ mail' = Tail(mail)
  BY DEF UpdateEntry, Reads
<1>2. UNCHANGED <<chance, orders, remember, vectors, closings, samples, known, saved, regime>>
  BY DEF UpdateEntry
<1>3. m = mail[1] /\ 1 \in 1..Len(mail) /\ m.trade \in Trades /\ m.price \in Nat
      /\ mail' \in Seq(Letters)
  BY <1>0, <1>1, HeadOfMail
<1> DEFINE row == [rows[m.trade] EXCEPT !.entry = m.price]
<1>4. rows' = [rows EXCEPT ![m.trade] = row] /\ rows \in [Trades -> RowRecords]
  BY <1>0 DEF UpdateEntry, MemoryTypes
<1>5. "repriced" \in chance
  BY <1>0, <1>1, <1>3 DEF RowsAddUp
<1> HIDE DEF m
<1>6. /\ row \in RowRecords
      /\ row.at = rows[m.trade].at /\ row.winner = rows[m.trade].winner
  BY <1>3, <1>4 DEF RowRecords
<1> HIDE DEF row
<1>7. /\ rows' \in [Trades -> RowRecords]
      /\ \A t \in Trades : rows'[t].at = rows[t].at /\ rows'[t].winner = rows[t].winner
  BY <1>3, <1>4, <1>6
<1>8. MemoryTypes'
  BY <1>0, <1>2, <1>3, <1>7 DEF MemoryTypes, Histories
<1>9. RowsAddUp'
  BY <1>2, <1>5 DEF RowsAddUp
<1>10. OutcomesTold'
  BY <1>0, <1>2, <1>7 DEF OutcomesTold, Without, Told
<1> QED BY <1>8, <1>9, <1>10

LEMMA UpdateTradeKeeps ==
    ASSUME MemoryInv, UpdateTrade
    PROVE  MemoryTypes' /\ RowsAddUp' /\ OutcomesTold'
<1> DEFINE m == Head(mail)
<1>0. MemoryTypes /\ RowsAddUp /\ OutcomesTold
  BY DEF MemoryInv
<1>1. mail # <<>> /\ m.kind = "update_trade" /\ remember = NoTrade /\ mail' = Tail(mail)
  BY DEF UpdateTrade, Reads
<1>2. UNCHANGED <<chance, orders, vectors, samples, known, saved, regime>>
  BY DEF UpdateTrade
<1>3. m.trade \in Trades /\ m.price \in Nat /\ mail' \in Seq(Letters)
  BY <1>0, <1>1, HeadOfMail
<1>4. rows \in [Trades -> RowRecords] /\ closings \in Nat
  BY <1>0 DEF MemoryTypes
<1> DEFINE old == rows[m.trade]
           row == Closed(old, m.price, closings + 1)
<1>5. \/ /\ old.entry # 0 /\ rows' = [rows EXCEPT ![m.trade] = row]
         /\ closings' = closings + 1 /\ remember' = m.trade
      \/ UNCHANGED <<rows, closings, remember>>
  BY <1>3, <1>4 DEF UpdateTrade, Servable, AfterExit
<1>6. old \in RowRecords /\ closings + 1 \in Nat
  BY <1>3, <1>4
<1>7. "repriced" \notin chance => old.entry \in {0, EntryPrice}
  BY <1>0, <1>3 DEF RowsAddUp
<1> HIDE DEF old, m
<1>8. /\ row \in RowRecords /\ row.entry = old.entry /\ row.direction = old.direction
      /\ row.exit = m.price
      /\ row.pnl = Sign(old.direction) * (m.price - old.entry)
      /\ row.winner <=> row.pnl > 0
  <2> DEFINE time == closings + 1
  <2>1. time \in Nat /\ row = Closed(old, m.price, time)
    BY <1>6
  <2> HIDE DEF time, row
  <2>2. old \in RowRecords /\ m.price \in Nat
    BY <1>3, <1>6
  <2>3. Closed(old, m.price, time) \in RowRecords
    BY <2>1, <2>2, ClosedRowIs
  <2>4. /\ Closed(old, m.price, time).entry = old.entry
        /\ Closed(old, m.price, time).direction = old.direction
    BY <2>1, <2>2, ClosedRowIs
  <2>5. Closed(old, m.price, time).exit = m.price
    BY <2>1, <2>2, ClosedRowIs
  <2>6. Closed(old, m.price, time).pnl = Sign(old.direction) * (m.price - old.entry)
    BY <2>1, <2>2, ClosedRowIs
  <2>7. Closed(old, m.price, time).winner <=> Closed(old, m.price, time).pnl > 0
    BY <2>1, <2>2, ClosedRowIs
  <2> QED BY <2>1, <2>3, <2>4, <2>5, <2>6, <2>7
<1> HIDE DEF row
<1>9. /\ rows' \in [Trades -> RowRecords] /\ closings' \in Nat
      /\ remember' \in Trades \cup {NoTrade}
  BY <1>0, <1>3, <1>4, <1>5, <1>8 DEF MemoryTypes
<1>10. \A t \in Trades : \/ rows'[t] = rows[t]
                         \/ rows'[t] = row /\ t = m.trade /\ remember' = t /\ old.entry # 0
  BY <1>3, <1>4, <1>5
<1>11. MemoryTypes'
  BY <1>0, <1>2, <1>3, <1>9 DEF MemoryTypes, Histories
<1>12. RowsAddUp'
  <2> SUFFICES ASSUME "repriced" \notin chance, NEW t \in Trades
               PROVE  /\ rows'[t].entry \in {0, EntryPrice}
                      /\ rows'[t].at > 0 =>
                            /\ rows'[t].pnl
                                 = Sign(rows'[t].direction) * (rows'[t].exit - EntryPrice)
                            /\ rows'[t].winner <=> rows'[t].pnl > 0
    BY <1>0, <1>1, <1>2, MailShrinks DEF RowsAddUp
  <2>1. CASE rows'[t] = rows[t]
    BY <1>0, <2>1 DEF RowsAddUp
  <2>2. CASE rows'[t] = row /\ old.entry # 0
    <3>1. old.entry = EntryPrice
      BY <1>7, <2>2
    <3> QED BY <1>8, <2>2, <3>1
  <2> QED BY <1>10, <2>1, <2>2
<1>13. OutcomesTold'
  <2> SUFFICES ASSUME Without({"no_embedding", "crash"}), NEW t \in Trades, rows'[t].at > 0,
                      t # remember'
               PROVE  vectors'[t] = Told(rows'[t])
    BY <1>2 DEF OutcomesTold, Without
  <2>1. rows'[t] = rows[t]
    BY <1>10
  <2>2. t # remember
    BY <1>1, MemoryNumbers
  <2> QED BY <1>0, <1>2, <2>1, <2>2 DEF OutcomesTold
<1> QED BY <1>11, <1>12, <1>13

LEMMA RememberKeeps ==
    ASSUME MemoryInv, Remember
    PROVE  MemoryTypes' /\ RowsAddUp' /\ OutcomesTold'
<1>0. MemoryTypes /\ RowsAddUp /\ OutcomesTold
  BY DEF MemoryInv
<1>1. /\ remember \in Trades /\ remember' = NoTrade
      /\ vectors' = [vectors EXCEPT ![remember] = Told(rows[remember])]
         \/ ("no_embedding" \in chance /\ vectors' = vectors)
  BY <1>0 DEF Remember, MemoryTypes, Can
<1>2. UNCHANGED <<chance, orders, mail, rows, closings, samples, known, saved, regime>>
  BY DEF Remember
<1>3. MemoryTypes'
  BY <1>0, <1>1, <1>2 DEF MemoryTypes, Histories, Told
<1>4. RowsAddUp'
  BY <1>0, <1>2 DEF RowsAddUp
<1>5. OutcomesTold'
  <2> SUFFICES ASSUME Without({"no_embedding", "crash"}), NEW t \in Trades, rows[t].at > 0
               PROVE  vectors'[t] = Told(rows[t])
    BY <1>2 DEF OutcomesTold, Without, Told
  <2>1. vectors' = [vectors EXCEPT ![remember] = Told(rows[remember])]
    BY <1>1 DEF Without
  <2>2. vectors \in [Trades -> {None, "WIN", "LOSS"}]
    BY <1>0 DEF MemoryTypes
  <2>3. t = remember \/ vectors[t] = Told(rows[t])
    BY <1>0 DEF OutcomesTold
  <2> QED BY <2>1, <2>2, <2>3
<1> QED BY <1>3, <1>4, <1>5

LEMMA RestartKeeps ==
    ASSUME MemoryInv, Restart
    PROVE  MemoryTypes' /\ RowsAddUp' /\ OutcomesTold'
<1>0. MemoryTypes /\ RowsAddUp
  BY DEF MemoryInv
<1>1. /\ "crash" \in chance /\ mail' = <<>> /\ remember' = NoTrade /\ known' = <<>>
      /\ UNCHANGED <<chance, orders, rows, vectors, closings, samples, saved>>
  BY DEF Restart, Can
<1>2. <<>> \in Seq(Letters) /\ <<>> \in Seq(Nat \X Nat) /\ Len(<<>>) = 0
  BY EmptySeq
<1>3. MemoryTypes'
  BY <1>0, <1>1, <1>2 DEF MemoryTypes, Histories
<1>4. RowsAddUp'
  BY <1>0, <1>1, <1>2 DEF RowsAddUp
<1>5. OutcomesTold'
  BY <1>1 DEF OutcomesTold, Without
<1> QED BY <1>3, <1>4, <1>5

-----------------------------------------------------------------------------
(* The history the regime is ranked by.                                    *)

\* Numbered with the samples of a base: the new one goes to the end, the oldest
\* is dropped from a full history.
LEMMA SampledIs ==
    ASSUME NEW series \in Histories, NEW value \in Nat, samples \in Nat
    PROVE  LET s == Sampled(series, value)
               full == Len(series) + 1 > MaxHistory
           IN  /\ s \in Histories
               /\ Len(s) = IF full THEN Len(series) ELSE Len(series) + 1
               /\ \A i \in 1..Len(s) :
                     IF i = Len(s) THEN s[i] = <<samples + 1, value>>
                     ELSE s[i] = series[IF full THEN i + 1 ELSE i]
<1> DEFINE new == <<samples + 1, value>>
           Entries == Nat \X Nat
           longer == Append(series, new)
           full == Len(series) + 1 > MaxHistory
<1>1. new \in Entries /\ series \in Seq(Entries)
  BY DEF Histories
<1> HIDE DEF Entries, new
<1>2. /\ longer \in Seq(Entries) /\ Len(longer) = Len(series) + 1 /\ Len(series) \in Nat
      /\ \A i \in 1..Len(series) : longer[i] = series[i]
      /\ longer[Len(series) + 1] = new
  BY <1>1
<1>3. Sampled(series, value) = IF full THEN Tail(longer) ELSE longer
  BY <1>2 DEF Sampled, new
<1> HIDE DEF longer
<1>4. longer # <<>>
  BY <1>2
<1>5. /\ Tail(longer) \in Seq(Entries) /\ Len(Tail(longer)) = Len(series)
      /\ \A i \in 1..Len(series) : Tail(longer)[i] = longer[i + 1]
  BY <1>2, <1>4
<1>6. CASE full
  <2>1. \A i \in 1..Len(series) : i # Len(series) => i + 1 \in 1..Len(series)
    BY <1>2
  <2>2. \A i \in 1..Len(series) :
          Tail(longer)[i] = IF i = Len(series) THEN new ELSE series[i + 1]
    BY <1>2, <1>5, <2>1
  <2> QED BY <1>3, <1>5, <1>6, <2>2 DEF Histories, Entries, new
<1>7. CASE ~full
  <2>1. \A i \in 1..Len(longer) : i # Len(longer) => i \in 1..Len(series)
    BY <1>2
  <2> QED BY <1>2, <1>3, <1>7, <2>1 DEF Histories, Entries, new
<1> QED BY <1>6, <1>7

\* The newest value does not rank above itself.
LEMMA NewestRanks ==
    ASSUME NEW series \in Histories, NEW value, Len(series) > 0,
           series[Len(series)][2] = value
    PROVE  Below(series, value) \in Nat /\ Below(series, value) <= Len(series) - 1
<1> DEFINE n == Len(series)
           lower == {i \in DOMAIN series : series[i][2] < value}
<1>1. n \in Nat /\ DOMAIN series = 1..n /\ series[n][2] = value /\ n - 1 \in Nat
      /\ series[n][2] \in Nat
  BY DEF Histories
<1>2. lower \subseteq 1..(n - 1)
  BY <1>1
<1>3. IsFiniteSet(1..(n - 1)) /\ Cardinality(1..(n - 1)) = n - 1
  <2>1. 1 \in Int /\ n - 1 \in Int /\ (1 > n - 1 <=> n - 1 = 0)
    BY <1>1
  <2>2. Cardinality(1..(n - 1)) = IF 1 > n - 1 THEN 0 ELSE n - 1 - 1 + 1
    BY <2>1, FS_Interval
  <2> QED BY <1>1, <2>1, <2>2, FS_Interval
<1>4. IsFiniteSet(lower) /\ Cardinality(lower) <= n - 1 /\ Cardinality(lower) \in Nat
  BY <1>2, <1>3, FS_Subset, FS_CardinalityType
<1> QED BY <1>4 DEF Below

LEMMA NoneBelow ==
    ASSUME NEW series \in Histories, NEW value, Len(series) = 0
    PROVE  Below(series, value) = 0
<1>1. {i \in DOMAIN series : series[i][2] < value} = {}
  BY DEF Histories
<1> QED BY <1>1, FS_EmptySet DEF Below

\* What it takes to be called volatile, and what a first sample is called.
LEMMA ClassifyIs ==
    ASSUME NEW series \in Histories, NEW value, NEW adx, NEW trend,
           Len(series) > 0 => series[Len(series)][2] = value
    PROVE  /\ Classify(series, value, adx, trend) = "VOLATILE" => Len(series) > 5
           /\ Len(series) = 1 => Classify(series, value, adx, trend) = "CALM"
<1> DEFINE n == Len(series)
           below == Below(series, value)
<1>1. n \in Nat
  BY DEF Histories
<1>2. below \in Nat /\ (n > 0 => below <= n - 1) /\ (n = 0 => below = 0)
  BY <1>1, NewestRanks, NoneBelow
<1> HIDE DEF below
<1>3. Classify(series, value, adx, trend)
        = CASE 10 * below > 8 * n -> "VOLATILE"
            [] 10 * below < 2 * n -> "CALM"
            [] OTHER -> IF adx > 25 /\ trend = "up" THEN "TRENDING_BULLISH"
                        ELSE IF adx > 25 /\ trend = "down" THEN "TRENDING_BEARISH"
                        ELSE "RANGING"
  BY DEF Classify, below
<1> HIDE DEF n
<1>4. ~(10 * below > 8 * n) => Classify(series, value, adx, trend) # "VOLATILE"
  BY <1>1, <1>2, <1>3
<1>5. 10 * below > 8 * n => n > 5
  BY <1>1, <1>2
<1>6. n = 1 => ~(10 * below > 8 * n) /\ 10 * below < 2 * n
  BY <1>1, <1>2
<1> QED BY <1>3, <1>4, <1>5, <1>6 DEF n

LEMMA DetectRegimeKeeps ==
    ASSUME MemoryInv, NEW value \in Volatilities, NEW adx, NEW trend,
           DetectRegime(value, adx, trend)
    PROVE  MemoryInv'
<1>0. /\ MemoryTypes /\ RowsAddUp /\ OutcomesTold
      /\ Ascending(known) /\ Ascending(saved) /\ HistoryKept
  BY DEF MemoryInv
<1>1. PICK base \in {Loaded} \cup {known : e \in chance \cap {"redis"}} :
        /\ known' = Sampled(base, value)
        /\ saved' \in {Sampled(base, value)} \cup {saved : e \in chance \cap {"redis"}}
        /\ regime' = Classify(Sampled(base, value), value, adx, trend)
  BY DEF DetectRegime
<1>2. /\ samples' = samples + 1
      /\ UNCHANGED <<chance, orders, mail, rows, remember, vectors, closings>>
  BY DEF DetectRegime
<1>3. /\ known \in Histories /\ saved \in Histories /\ samples \in Nat
      /\ value \in Nat /\ MaxHistory \in Nat
  BY <1>0, MemoryNumbers DEF MemoryTypes
<1>4. base \in {known, saved} /\ ("redis" \notin chance => base = Loaded)
  BY DEF Loaded
<1> DEFINE s == Sampled(base, value)
           full == Len(base) + 1 > MaxHistory
<1>5. base \in Histories /\ Ascending(base) /\ Len(base) \in Nat
  <2>1. base \in Histories /\ Ascending(base)
    BY <1>0, <1>3, <1>4
  <2> QED BY <2>1 DEF Histories
<1>6. /\ s \in Histories
      /\ Len(s) = IF full THEN Len(base) ELSE Len(base) + 1
      /\ \A i \in 1..Len(s) : IF i = Len(s) THEN s[i] = <<samples + 1, value>>
                              ELSE s[i] = base[IF full THEN i + 1 ELSE i]
  BY <1>3, <1>5, SampledIs
<1>7. known' = s /\ saved' \in {s, saved} /\ ("redis" \notin chance => saved' = s)
  BY <1>1
<1>8. VolatileIsEarned'
  <2>1. Len(s) \in Nat
    BY <1>5, <1>6
  <2>2. Len(s) > 0 => Len(s) \in 1..Len(s)
    BY <2>1
  <2>3. Len(s) > 0 => s[Len(s)] = <<samples + 1, value>>
    BY <1>6, <2>2
  <2>4. Len(s) > 0 => s[Len(s)][2] = value
    BY <2>3
  <2> HIDE DEF s
  <2>5. /\ Classify(s, value, adx, trend) = "VOLATILE" => Len(s) > 5
        /\ Len(s) = 1 => Classify(s, value, adx, trend) = "CALM"
    <3>1. s \in Histories /\ (Len(s) > 0 => s[Len(s)][2] = value)
      BY <1>6, <2>4
    <3> QED BY <3>1, ClassifyIs, Zenon
  <2>6. known' = s /\ regime' = Classify(s, value, adx, trend)
    BY <1>1 DEF s
  <2> QED BY <2>5, <2>6 DEF VolatileIsEarned
<1> HIDE DEF s
<1>9. Len(s) \in Nat
  BY <1>6 DEF Histories
<1> DEFINE From(i) == IF full THEN i + 1 ELSE i
<1>10. \A i \in 1..Len(s) : i # Len(s) => From(i) \in 1..Len(base) /\ s[i][1] = base[From(i)][1]
  BY <1>3, <1>5, <1>6, <1>9
<1>11. \A i \in 1..Len(s) : i = Len(s) => s[i][1] = samples + 1
  BY <1>6
<1>12. \A i \in 1..Len(base) : base[i][1] \in Nat /\ base[i][1] <= samples
  BY <1>5 DEF Histories, Ascending
<1>13. /\ \A i \in 1..Len(s) : s[i][1] <= samples + 1
       /\ \A i, j \in 1..Len(s) : i < j => s[i][1] < s[j][1]
  <2>1. \A i \in 1..Len(s) : s[i][1] \in Nat /\ s[i][1] <= samples + 1
    <3> SUFFICES ASSUME NEW i \in 1..Len(s) PROVE s[i][1] \in Nat /\ s[i][1] <= samples + 1
      OBVIOUS
    <3>1. CASE i = Len(s)
      BY <1>3, <1>11, <3>1
    <3>2. CASE i # Len(s)
      <4>1. From(i) \in 1..Len(base) /\ s[i][1] = base[From(i)][1]
        BY <1>10, <3>2
      <4> HIDE DEF From
      <4>2. base[From(i)][1] \in Nat /\ base[From(i)][1] <= samples
        BY <1>12, <4>1
      <4> QED BY <1>3, <4>1, <4>2
    <3> QED BY <3>1, <3>2
  <2> SUFFICES ASSUME NEW i \in 1..Len(s), NEW j \in 1..Len(s), i < j
               PROVE  s[i][1] < s[j][1]
    BY <2>1
  <2>2. i # Len(s) /\ From(i) \in 1..Len(base) /\ s[i][1] = base[From(i)][1]
    BY <1>9, <1>10
  <2>3. CASE j = Len(s)
    BY <1>3, <1>11, <1>12, <2>2, <2>3
  <2>4. CASE j # Len(s)
    <3>1. From(j) \in 1..Len(base) /\ s[j][1] = base[From(j)][1]
      BY <1>10, <2>4
    <3>2. From(i) < From(j)
      OBVIOUS
    <3> HIDE DEF From
    <3> QED BY <1>5, <2>2, <3>1, <3>2 DEF Ascending
  <2> QED BY <2>3, <2>4
<1>14. Ascending(known)' /\ Ascending(saved)'
  <2>1. \A i \in 1..Len(saved) : saved[i][1] \in Nat /\ saved[i][1] <= samples
    BY <1>0, <1>3 DEF Ascending, Histories
  <2>2. \A i \in 1..Len(saved) : saved[i][1] <= samples + 1
    BY <1>3, <2>1
  <2>3. \A i, j \in 1..Len(saved) : i < j => saved[i][1] < saved[j][1]
    BY <1>0 DEF Ascending
  <2> QED BY <1>2, <1>7, <1>13, <2>2, <2>3 DEF Ascending
<1>15. HistoryKept'
  <2> SUFFICES ASSUME "redis" \notin chance
               PROVE  /\ Len(s) = IF samples + 1 <= MaxHistory THEN samples + 1 ELSE MaxHistory
                      /\ \A i \in 1..Len(s) : s[i][1] = samples + 1 - Len(s) + i
    BY <1>2, <1>3, <1>7, <1>9 DEF HistoryKept
  <2>1. /\ known \in {saved, <<>>}
        /\ Len(saved) = IF samples <= MaxHistory THEN samples ELSE MaxHistory
        /\ \A i \in 1..Len(saved) : saved[i][1] = samples - Len(saved) + i
    BY <1>0 DEF HistoryKept
  <2>2. base = saved
    BY <1>4, <2>1 DEF Loaded
  <2>3. Len(s) = IF samples + 1 <= MaxHistory THEN samples + 1 ELSE MaxHistory
    BY <1>3, <1>6, <2>1, <2>2
  <2> SUFFICES ASSUME NEW i \in 1..Len(s) PROVE s[i][1] = samples + 1 - Len(s) + i
    BY <2>3
  <2>4. CASE i = Len(s)
    BY <1>3, <1>9, <1>11, <2>4
  <2>5. CASE i # Len(s)
    <3>1. From(i) \in 1..Len(base) /\ s[i][1] = base[From(i)][1]
      BY <1>10, <2>5
    <3>2. base[From(i)][1] = samples - Len(base) + From(i)
      BY <2>1, <2>2, <3>1
    <3> QED BY <1>3, <1>6, <2>1, <2>2, <2>3, <3>1, <3>2
  <2> QED BY <2>4, <2>5
<1>16. MemoryTypes'
  BY <1>0, <1>2, <1>3, <1>6, <1>7 DEF MemoryTypes
<1>17. RowsAddUp' /\ OutcomesTold'
  BY <1>0, <1>2 DEF RowsAddUp, OutcomesTold, Without, Told
<1> QED BY <1>8, <1>14, <1>15, <1>16, <1>17 DEF MemoryInv

\* Everything else leaves the history alone, or is a restart that empties it.
LEMMA HistoryStays ==
    ASSUME MemoryInv, MemoryTypes', RowsAddUp', OutcomesTold',
           chance' = chance, samples' = samples, saved' = saved,
           \/ UNCHANGED <<known, regime>>
           \/ known' = <<>> /\ regime' = None
    PROVE  MemoryInv'
<1>1. Ascending(saved)' /\ Ascending(known)'
  BY DEF MemoryInv, Ascending
<1>2. HistoryKept'
  BY DEF MemoryInv, HistoryKept
<1>3. VolatileIsEarned'
  BY DEF MemoryInv, VolatileIsEarned, None
<1> QED BY <1>1, <1>2, <1>3 DEF MemoryInv

LEMMA MemoryStarts == MemoryInit => MemoryInv
<1> SUFFICES ASSUME MemoryInit PROVE MemoryInv
  OBVIOUS
<1> DEFINE row == [Opened("LONG", 0) EXCEPT !.status = None]
<1>1. row \in RowRecords /\ row.entry = 0 /\ row.at = 0
  <2>1. /\ Opened("LONG", 0) \in RowRecords
        /\ Opened("LONG", 0).entry = 0 /\ Opened("LONG", 0).at = 0
    BY OpenedRowIs
  <2> QED BY <2>1 DEF RowRecords
<1>2. rows = [t \in Trades |-> row]
  BY DEF MemoryInit
<1> HIDE DEF row
<1>3. \A t \in Trades : rows[t] \in RowRecords /\ rows[t].entry = 0 /\ rows[t].at = 0
  BY <1>1, <1>2
<1>4. /\ mail = <<>> /\ known = <<>> /\ saved = <<>> /\ samples = 0 /\ closings = 0
      /\ remember = NoTrade /\ regime = None
  BY DEF MemoryInit
<1>5. <<>> \in Seq(Letters) /\ <<>> \in Seq(Nat \X Nat) /\ Len(<<>>) = 0
  BY EmptySeq
<1>6. MemoryTypes
  BY <1>1, <1>2, <1>4, <1>5 DEF MemoryTypes, Histories, MemoryInit
<1>7. RowsAddUp /\ OutcomesTold
  BY <1>3, <1>4, <1>5 DEF RowsAddUp, OutcomesTold
<1>8. Ascending(known) /\ Ascending(saved)
  BY <1>4, <1>5 DEF Ascending
<1>9. HistoryKept
  BY <1>4, <1>5, MemoryNumbers DEF HistoryKept
<1>10. VolatileIsEarned
  BY <1>4, <1>5 DEF VolatileIsEarned, None
<1> QED BY <1>6, <1>7, <1>8, <1>9, <1>10 DEF MemoryInv

LEMMA MemoryGoesOn == MemoryInv /\ [MemoryNext]_yvars => MemoryInv'
<1> SUFFICES ASSUME MemoryInv, [MemoryNext]_yvars PROVE MemoryInv'
  OBVIOUS
<1>1. ASSUME NEW t \in Trades, NEW exit \in Nat,
             PublishLog(t) \/ PublishClose(t, exit) \/ PublishEntry(t, exit)
      PROVE  MemoryInv'
  <2>1. MemoryTypes' /\ RowsAddUp' /\ OutcomesTold'
    BY <1>1, PublishingKeeps
  <2>2. UNCHANGED <<chance, samples, known, saved, regime>>
    BY <1>1 DEF PublishLog, PublishClose, PublishEntry
  <2> QED BY <2>1, <2>2, HistoryStays
<1>2. CASE MailLost
  <2>1. UNCHANGED <<chance, samples, known, saved, regime>>
    BY <1>2 DEF MailLost
  <2> QED BY <1>2, <2>1, MailLostKeeps, HistoryStays
<1>3. CASE MemoryServes
  <2>1. MemoryTypes' /\ RowsAddUp' /\ OutcomesTold'
    BY <1>3, LogTradeKeeps, UpdateEntryKeeps, UpdateTradeKeeps, RememberKeeps DEF MemoryServes
  <2>2. UNCHANGED <<chance, samples, known, saved, regime>>
    BY <1>3 DEF MemoryServes, LogTrade, UpdateEntry, UpdateTrade, Remember
  <2> QED BY <2>1, <2>2, HistoryStays
<1>4. ASSUME NEW value \in Volatilities, NEW adx, NEW trend, DetectRegime(value, adx, trend)
      PROVE  MemoryInv'
  BY <1>4, DetectRegimeKeeps
<1>5. CASE Restart
  <2>1. /\ chance' = chance /\ samples' = samples /\ saved' = saved
        /\ known' = <<>> /\ regime' = None
    BY <1>5 DEF Restart
  <2> QED BY <1>5, <2>1, RestartKeeps, HistoryStays
<1>6. CASE UNCHANGED yvars
  <2>1. MemoryTypes' /\ RowsAddUp' /\ OutcomesTold'
    BY <1>6 DEF yvars, MemoryInv, MemoryTypes, RowsAddUp, OutcomesTold, Without, Told
  <2> QED BY <1>6, <2>1, HistoryStays DEF yvars
<1>7. CASE \E t \in Trades : \/ PublishLog(t)
                               \/ \E exit \in ExitPrices :
                                    PublishClose(t, exit) \/ PublishEntry(t, exit)
  <2>1. ExitPrices \subseteq Nat /\ 0 \in Nat
    BY MemoryNumbers
  <2>2. PICK t \in Trades : \/ PublishLog(t)
                           \/ \E exit \in ExitPrices :
                                PublishClose(t, exit) \/ PublishEntry(t, exit)
    BY <1>7
  <2>3. CASE PublishLog(t)
    BY <1>1, <2>1, <2>3
  <2>4. CASE \E exit \in ExitPrices : PublishClose(t, exit) \/ PublishEntry(t, exit)
    BY <1>1, <2>1, <2>4
  <2> QED BY <2>2, <2>3, <2>4
<1> QED BY <1>2, <1>3, <1>4, <1>5, <1>6, <1>7 DEF MemoryNext

LEMMA MemoryHolds == MemoryInv => RememberedAsItWas
<1> SUFFICES ASSUME MemoryInv PROVE RememberedAsItWas
  OBVIOUS
<1>0. /\ MemoryTypes /\ RowsAddUp /\ OutcomesTold
      /\ Ascending(known) /\ Ascending(saved) /\ HistoryKept /\ VolatileIsEarned
  BY DEF MemoryInv
<1>1. ClosedRowsAddUp
  BY <1>0 DEF RowsAddUp, ClosedRowsAddUp, ClosedTrades, Without
<1>2. MemoryTellsOutcome
  BY <1>0, MemoryNumbers DEF OutcomesTold, MemoryTellsOutcome, ClosedTrades, Without
<1>3. known \in Seq(Nat \X Nat) /\ saved \in Seq(Nat \X Nat)
  BY <1>0 DEF MemoryTypes, Histories
<1>4. DOMAIN known = 1..Len(known) /\ DOMAIN saved = 1..Len(saved)
  BY <1>3
<1>5. SamplesInOrder
  BY <1>0, <1>4 DEF Ascending, SamplesInOrder
<1>6. HistoryIsWhole
  <2>1. samples \in Nat /\ MaxHistory \in Nat
    BY <1>0, MemoryNumbers DEF MemoryTypes
  <2>2. Min({samples, MaxHistory}) = IF samples <= MaxHistory THEN samples ELSE MaxHistory
    BY <2>1, LesserOfTwo
  <2> QED BY <1>0, <1>4, <2>2 DEF HistoryKept, HistoryIsWhole, Without
<1> QED BY <1>0, <1>1, <1>2, <1>5, <1>6 DEF RememberedAsItWas

\* The trade memory (memory_agent.py, trade_history_manager.py,
\* regime_detector.py): a closed trade has the result of its own prices, the
\* vectors tell its outcome once the inbox is worked off, and the regime is
\* ranked by the newest samples in their order, across restarts. For any number
\* of trades and samples, any prices and lengths of history.
THEOREM WhatIsRememberedIsTrue == MemorySpec => []RememberedAsItWas
<1>1. MemoryInit => MemoryInv
  BY MemoryStarts
<1>2. MemoryInv /\ [MemoryNext]_yvars => MemoryInv'
  BY MemoryGoesOn
<1>3. MemoryInv => RememberedAsItWas
  BY MemoryHolds
<1> QED BY <1>1, <1>2, <1>3, PTL DEF MemorySpec

=============================================================================
