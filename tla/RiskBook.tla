------------------------------ MODULE RiskBook ------------------------------
(***************************************************************************)
(* One account's risk tracking: PortfolioStateTracker with its snapshot    *)
(* file, DeterministicRiskCalculator and, for the single-tenant risk       *)
(* agent, RiskRulesEngine, CircuitBreaker, CorrelationAnalyzer and the LLM *)
(* advisor.                                                                *)
(*                                                                         *)
(* A tenant's sessions evaluate a setup and book it later, on the same     *)
(* tracker; the risk agent's tracker is filled from the exchange at start. *)
(* Money is counted in hundredths of the initial balance, rates in percent.*)
(***************************************************************************)
EXTENDS Integers, FiniteSetsExt

CONSTANTS
    Evaluators,         \* sessions that evaluate setups for this account
    MaxOpens,           \* positions opened in a behaviour
    MaxDays,
    MaxConcurrent,      \* RiskParameters.max_concurrent_positions
    MaxDaily,           \* RiskParameters.max_daily_trades
    RiskPlans           \* the sets of circumstances a behaviour may meet

ASSUME RiskAssumption ==
    /\ Evaluators # {} /\ IsFiniteSet(Evaluators)
    /\ {MaxOpens, MaxConcurrent, MaxDaily} \subseteq Nat \ {0} /\ MaxDays \in Nat
    /\ RiskPlans \subseteq SUBSET {"agent", "crash", "concurrent"}

VARIABLES
    riskPlan,
    today,
    account,        \* balance, peak and day-start equity, daily counters, streaks
    holdings,       \* positions: id -> symbol, direction, risk, unrealized pnl
    verdicts,       \* each evaluator's approved setup, not yet booked
    disk,           \* portfolio_latest.json
    flag,           \* the tracker's circuit_breaker_active
    breakerOn,      \* CircuitBreaker.active
    cooled,         \* its cooldown is over
    approved,       \* the agent's last answer
    openings,       \* positions opened so far, and today
    closes          \* positions closed today

riskVars == <<riskPlan, today, account, holdings, verdicts, disk, flag, breakerOn,
              cooled, approved, openings, closes>>

Initial == 100
NoCandidate == [symbol |-> "none"]
IsAgent == "agent" \in riskPlan
FreshAccount == [balance |-> Initial, peak |-> Initial, dayStart |-> Initial, startDay |-> 1,
                 trades |-> 0, wins |-> 0, losses |-> 0, winStreak |-> 0, lossStreak |-> 0]

-----------------------------------------------------------------------------
(* PortfolioStateTracker. *)

UnrealizedOf(h) == SumFunction([i \in DOMAIN h |-> h[i].pnl])
RiskOf(h) == SumFunction([i \in DOMAIN h |-> h[i].risk])
Equity(a, h) == a.balance + UnrealizedOf(h)

\* _maybe_roll_daily_unlocked: only a snapshot rolls, on the first one of a day.
Rolled(a, h) ==
    IF a.startDay = today THEN a
    ELSE [a EXCEPT !.startDay = today, !.dayStart = Equity(a, h),
                   !.trades = 0, !.wins = 0, !.losses = 0]

\* close_position's bookkeeping: a close at no profit is a loss.
Realized(a, pnl) ==
    LET b == [a EXCEPT !.balance = @ + pnl, !.trades = @ + 1,
                       !.peak = IF a.balance + pnl > @ THEN a.balance + pnl ELSE @]
    IN IF pnl > 0 THEN [b EXCEPT !.wins = @ + 1, !.winStreak = @ + 1, !.lossStreak = 0]
                  ELSE [b EXCEPT !.losses = @ + 1, !.lossStreak = @ + 1, !.winStreak = 0]

\* get_current_snapshot, as the risk checks read it.
Snapshot(a, h) ==
    [equity |-> Equity(a, h), risk |-> RiskOf(h), count |-> Cardinality(DOMAIN h),
     dailyPnl |-> Equity(a, h) - a.dayStart, dayStart |-> a.dayStart, trades |-> a.trades,
     drawdown |-> a.peak - Equity(a, h), peak |-> a.peak, streak |-> a.lossStreak]

\* save_snapshot through _persist, which takes a snapshot and so rolls the day.
\* The file does not hold daily_start_date.
Saved(a, h) == [account |-> a, holdings |-> h, flag |-> flag]

Hold(a, h) == /\ account' = Rolled(a, h)
              /\ holdings' = h
              /\ disk' = Saved(Rolled(a, h), h)

Dropped(h, id) == [i \in DOMAIN h \ {id} |-> h[i]]

-----------------------------------------------------------------------------
(* DeterministicRiskCalculator: one predicate for each check. *)

Symbols == {"BTC", "ETH", "ADA"}
Majors  == {"BTC", "ETH"}       \* correlated_pairs

Plain == [symbol |-> "BTC", direction |-> "LONG", risk |-> 2, entry |-> 10, stop |-> 9,
          target |-> 12, size |-> 6, confidence |-> 80, regime |-> "TRENDING"]
Setups ==
    {Plain, [Plain EXCEPT !.symbol = "ADA"],
     [Plain EXCEPT !.symbol = "ETH", !.direction = "SHORT", !.risk = 1, !.stop = 11, !.target = 8],
     [Plain EXCEPT !.risk = 3], [Plain EXCEPT !.stop = 11], [Plain EXCEPT !.stop = 7],
     [Plain EXCEPT !.size = 1], [Plain EXCEPT !.confidence = 60], [Plain EXCEPT !.regime = "RANGING"]}

RiskDistance(s) == IF s.direction = "LONG" THEN s.entry - s.stop ELSE s.stop - s.entry
RewardOf(s) == IF s.direction = "LONG" THEN s.target - s.entry ELSE s.entry - s.target

RatioOk(s)      == RiskDistance(s) > 0 /\ RewardOf(s) >= RiskDistance(s)
TradeRiskOk(s, p)  == s.risk * 100 <= 2 * p.equity
\* can_add_risk
HeatOk(s, p) == (p.risk + s.risk) * 100 <= 6 * p.equity

CountOk(p) == p.count < MaxConcurrent

DailyCountOk(p) == p.trades < MaxDaily

DailyLossOk(p)  == p.dayStart <= 0 \/ -p.dailyPnl * 100 < 5 * p.dayStart
DrawdownOk(p)   == p.peak <= 0 \/ p.drawdown * 100 < 20 * p.peak
SizeOk(s)       == s.entry * s.size \in 50..100000
ConfidenceOk(s) == s.confidence >= 65
StreakOk(p)     == p.streak < 2

\* check_correlation: exposure to positions in a pair with the symbol (its own
\* symbol too), those of the other direction at half weight; in half units.
Correlated(s, h) == {i \in DOMAIN h : {s.symbol, h[i].symbol} \subseteq Majors}
Exposure(s, h) ==
    MapThenSumSet(LAMBDA i : h[i].risk * (IF h[i].direction = s.direction THEN 2 ELSE 1),
                  Correlated(s, h))
CorrelationOk(s, h, p) == Exposure(s, h) * 100 <= 2 * 4 * p.equity

\* _apply_market_regime_adjustments and the correlation's adjustment, in percent.
RegimeFactor(s) == CASE s.regime = "RANGING" -> 75
                     [] s.regime \in {"HIGH_VOLATILITY", "LOW_LIQUIDITY"} -> 50
                     [] OTHER -> 100
CorrelationFactor(s, h, p) ==
    LET score == Min({100, (Exposure(s, h) * 100 * 100) \div (2 * 4 * p.equity)})
    IN IF score > 50 THEN 100 - score \div 2 ELSE 100

\* The approved setup, its size in hundredths.
Cut(s, h, p) == [s EXCEPT !.size = (@ * RegimeFactor(s) * CorrelationFactor(s, h, p)) \div 100]

\* validate_trade_setup
Validates(s, a, h) ==
    LET p == Snapshot(a, h) IN
    /\ RatioOk(s) /\ TradeRiskOk(s, p) /\ HeatOk(s, p) /\ CountOk(p) /\ DailyCountOk(p)
    /\ DailyLossOk(p) /\ DrawdownOk(p) /\ SizeOk(s) /\ ConfidenceOk(s) /\ StreakOk(p)
    /\ CorrelationOk(s, h, p)

-----------------------------------------------------------------------------
(* A tenant's sessions: UserSession.evaluate_and_book. *)

\* The evaluation; a booking in progress is another await away.
Evaluate(e, s) ==
    /\ ~IsAgent /\ verdicts[e] = NoCandidate
    /\ "concurrent" \in riskPlan \/ \A f \in Evaluators : verdicts[f] = NoCandidate
    /\ LET a == Rolled(account, holdings) IN
         /\ account' = a
         /\ verdicts' = IF Validates(s, a, holdings)
                      THEN [verdicts EXCEPT ![e] = Cut(s, holdings, Snapshot(a, holdings))]
                      ELSE verdicts
    /\ UNCHANGED <<riskPlan, today, holdings, disk, flag, breakerOn, cooled, approved,
                   openings, closes>>

\* _record_booking, add_position.  The risk is the setup's, whatever the size
\* was cut to.
Book(e) ==
    /\ verdicts[e] # NoCandidate /\ openings.ever < MaxOpens
    /\ LET s == verdicts[e]
           id == openings.ever + 1
           h == [i \in DOMAIN holdings \cup {id} |->
                   IF i = id THEN [symbol |-> s.symbol, direction |-> s.direction,
                                   risk |-> s.risk, pnl |-> 0, stop |-> TRUE]
                   ELSE holdings[i]]
       IN Hold(account, h)
    /\ verdicts' = [verdicts EXCEPT ![e] = NoCandidate]
    /\ openings' = [ever |-> openings.ever + 1, today |-> openings.today + 1]
    /\ UNCHANGED <<riskPlan, today, flag, breakerOn, cooled, approved, closes>>

\* The order failed: nothing is booked.
Abandon(e) ==
    /\ verdicts[e] # NoCandidate
    /\ verdicts' = [verdicts EXCEPT ![e] = NoCandidate]
    /\ UNCHANGED <<riskPlan, today, account, holdings, disk, flag, breakerOn, cooled,
                   approved, openings, closes>>

-----------------------------------------------------------------------------
(* The tracker's other operations. *)

\* close_position, from the engine's on_position_closed or a message.
ClosePosition(id, pnl) ==
    /\ id \in DOMAIN holdings
    /\ Hold(Realized(account, pnl), Dropped(holdings, id))
    /\ closes' = closes + 1
    /\ UNCHANGED <<riskPlan, today, verdicts, flag, breakerOn, cooled, approved, openings>>

\* update_position_price: only the risk agent's update_position message; no
\* tenant's tracker hears of a price.
UpdatePrice(id, pnl) ==
    /\ IsAgent /\ id \in DOMAIN holdings
    /\ holdings' = [holdings EXCEPT ![id].pnl = pnl]
    /\ UNCHANGED <<riskPlan, today, account, verdicts, disk, flag, breakerOn, cooled,
                   approved, openings, closes>>

Midnight ==
    /\ today < MaxDays
    /\ today' = today + 1
    /\ openings' = [openings EXCEPT !.today = 0] /\ closes' = 0
    /\ UNCHANGED <<riskPlan, account, holdings, verdicts, disk, flag, breakerOn, cooled,
                   approved>>

\* The process is restarted: load_snapshot, with the day of the restart; the
\* circuit breaker of the rules engine starts closed.
Restart ==
    /\ "crash" \in riskPlan
    /\ account' = [disk.account EXCEPT !.startDay = today]
    /\ holdings' = disk.holdings /\ flag' = disk.flag
    /\ breakerOn' = FALSE /\ cooled' = FALSE
    /\ verdicts' = [e \in Evaluators |-> NoCandidate]
    /\ UNCHANGED <<riskPlan, today, disk, approved, openings, closes>>

\* Mutant: a position taken over counts as riskless.
ReconcileRiskless(symbols) ==
    /\ IsAgent /\ openings.ever = 0
    /\ LET live == CHOOSE f \in [1..Cardinality(symbols) -> symbols] :
                       \A s \in symbols : \E i \in DOMAIN f : f[i] = s
           known(s) == \E i \in DOMAIN holdings : holdings[i].symbol = s
           h == [i \in DOMAIN live |->
                   IF known(live[i])
                   THEN holdings[CHOOSE j \in DOMAIN holdings : holdings[j].symbol = live[i]]
                   ELSE [symbol |-> live[i], direction |-> "LONG", risk |-> 0, pnl |-> 0, stop |-> FALSE]]
       IN Hold(account, h)
    /\ openings' = [ever |-> MaxOpens, today |-> 0]
    /\ UNCHANGED <<riskPlan, today, verdicts, flag, breakerOn, cooled, approved, closes>>

\* reconcile_on_startup(live): the exchange is the authority.  A position the
\* file knows keeps its record; one it does not know is taken over at its full
\* notional as risk; the others are dropped, their symbols' positions merged.
Reconcile(symbols) ==
    /\ IsAgent /\ openings.ever = 0
    /\ LET live == CHOOSE f \in [1..Cardinality(symbols) -> symbols] :
                       \A s \in symbols : \E i \in DOMAIN f : f[i] = s
           known(s) == \E i \in DOMAIN holdings : holdings[i].symbol = s
           h == [i \in DOMAIN live |->
                   IF known(live[i])
                   THEN holdings[CHOOSE j \in DOMAIN holdings : holdings[j].symbol = live[i]]
                   ELSE [symbol |-> live[i], direction |-> "LONG", risk |-> 60, pnl |-> 0, stop |-> FALSE]]
       IN Hold(account, h)
    /\ openings' = [ever |-> MaxOpens, today |-> 0]
    /\ UNCHANGED <<riskPlan, today, verdicts, flag, breakerOn, cooled, approved, closes>>

-----------------------------------------------------------------------------
(* The risk agent: RiskRulesEngine.validate_trade and the handlers. *)

\* CircuitBreaker.check_conditions
Breach(p) == \/ p.streak >= 3
             \/ ~DailyLossOk(p) \/ ~DrawdownOk(p)
             \/ p.equity > 0 /\ p.risk * 100 >= 8 * p.equity

\* CorrelationAnalyzer.analyze_correlation: the same symbol is no pair here.
AnalyzerStrong(s, h, p) ==
    LET others == {i \in Correlated(s, h) : h[i].symbol # s.symbol}
        exposure == MapThenSumSet(
            LAMBDA i : h[i].risk * (IF h[i].direction = s.direction THEN 2 ELSE 1), others)
    IN exposure * 100 * 100 > 75 * 2 * 4 * p.equity

\* The warnings of an approved setup, those about correlation and the others.
CorrelationWarnings(s, h, p) ==
    {w \in {"moderate", "high"} :
        \/ w = "moderate" /\ Exposure(s, h) * 100 > 2 * 2 * p.equity
        \/ w = "high" /\ AnalyzerStrong(s, h, p)}
OtherWarnings(s, p) ==
    {w \in {"limit", "daily", "drawdown", "streak", "regime"} :
        \/ w = "limit" /\ s.risk * 1000 >= 18 * p.equity
        \/ w = "daily" /\ -p.dailyPnl * 100 >= 4 * p.dayStart
        \/ w = "drawdown" /\ p.drawdown * 100 >= 15 * p.peak
        \/ w = "streak" /\ p.streak = 1
        \/ w = "regime" /\ RegimeFactor(s) < 100}

\* _calculate_risk_score, in percent
RiskScore(s, p) ==
    Min({100, (500 * p.risk) \div p.equity + (150 * p.drawdown) \div p.peak
              + (20 * Min({p.streak, 3})) \div 3 + (100 - s.confidence) \div 5})

\* _should_consult_llm
ConsultsLlm(s, h, p) ==
    LET correlation == CorrelationWarnings(s, h, p) IN
    \/ correlation # {}
    \/ Cardinality(correlation \cup OtherWarnings(s, p)) >= 2
    \/ s.confidence < 75 /\ RiskScore(s, p) > 50

\* RiskRulesEngine.validate_trade with the breaker closed
EngineApproves(s, a, h) == Validates(s, a, h) /\ ~Breach(Snapshot(a, h))

\* _handle_validate_trade: breaker, calculator, then the conditions again, then
\* the advisor, which may turn an approval down.
AgentValidate(s) ==
    /\ IsAgent
    /\ IF breakerOn
       THEN approved' = FALSE /\ UNCHANGED <<account, breakerOn, cooled>>
       ELSE LET a == Rolled(account, holdings)
                p == Snapshot(a, holdings)
            IN /\ account' = a
               /\ breakerOn' = Breach(p) /\ cooled' = FALSE
               /\ \/ approved' = EngineApproves(s, a, holdings)
                  \/ /\ Validates(s, a, holdings) /\ ConsultsLlm(s, holdings, p)
                     /\ approved' = FALSE
    /\ UNCHANGED <<riskPlan, today, holdings, verdicts, disk, flag, openings, closes>>

\* trigger_circuit_breaker
TriggerBreaker ==
    /\ IsAgent
    /\ breakerOn' = TRUE /\ flag' = TRUE
    /\ cooled' = (cooled /\ breakerOn)
    /\ account' = Rolled(account, holdings)
    /\ disk' = [Saved(Rolled(account, holdings), holdings) EXCEPT !.flag = TRUE]
    /\ UNCHANGED <<riskPlan, today, holdings, verdicts, approved, openings, closes>>

\* reset_circuit_breaker: nothing happens unless the breaker is on, and, if the
\* reset is not manual, has cooled down.
ResetBreaker(manual) ==
    /\ IsAgent /\ breakerOn /\ (manual \/ cooled)
    /\ breakerOn' = FALSE /\ cooled' = FALSE /\ flag' = FALSE
    /\ IF flag THEN /\ account' = Rolled(account, holdings)
                    /\ disk' = [Saved(Rolled(account, holdings), holdings) EXCEPT !.flag = FALSE]
               ELSE UNCHANGED <<account, disk>>
    /\ UNCHANGED <<riskPlan, today, holdings, verdicts, approved, openings, closes>>

\* An hour has passed since the breaker was triggered.
CoolDown ==
    /\ breakerOn /\ ~cooled /\ cooled' = TRUE
    /\ UNCHANGED <<riskPlan, today, account, holdings, verdicts, disk, flag, breakerOn,
                   approved, openings, closes>>

-----------------------------------------------------------------------------
RiskInit ==
    /\ riskPlan \in RiskPlans
    /\ today = 1
    /\ account = FreshAccount
    /\ holdings = [i \in {} |-> NoCandidate]
    /\ verdicts = [e \in Evaluators |-> NoCandidate]
    /\ disk = [account |-> FreshAccount, holdings |-> [i \in {} |-> NoCandidate], flag |-> FALSE]
    /\ flag = FALSE /\ breakerOn = FALSE /\ cooled = FALSE /\ approved = FALSE
    /\ openings = [ever |-> 0, today |-> 0] /\ closes = 0

RiskNext ==
    \/ \E e \in Evaluators : (\E s \in Setups : Evaluate(e, s)) \/ Book(e) \/ Abandon(e)
    \/ \E id \in DOMAIN holdings :
         \/ \E pnl \in {-3, 2} : ClosePosition(id, pnl)
         \/ \E pnl \in {-21, -5, 2} : UpdatePrice(id, pnl)
    \/ \E symbols \in SUBSET {"BTC", "ETH"} : Reconcile(symbols)
    \/ \E s \in Setups : AgentValidate(s)
    \/ \E manual \in BOOLEAN : ResetBreaker(manual)
    \/ TriggerBreaker \/ CoolDown \/ Midnight \/ Restart

RiskSpec == RiskInit /\ [][RiskNext]_riskVars

-----------------------------------------------------------------------------
(* Properties. *)

\* The books of the tracker agree: wins and losses make up the trades, only one
\* streak runs, the peak is a peak.
RiskTypeOK ==
    /\ riskPlan \in RiskPlans /\ today \in 1..MaxDays
    /\ account.trades = account.wins + account.losses
    /\ account.winStreak = 0 \/ account.lossStreak = 0
    /\ account.balance <= account.peak
    /\ \A i \in DOMAIN holdings : holdings[i].symbol \in Symbols
    /\ \A e \in Evaluators : verdicts[e] # NoCandidate => verdicts[e].size \in 1..600

Waves == IF "concurrent" \in riskPlan THEN Cardinality(Evaluators) ELSE 1

\* The limits are checked when a setup is evaluated and used when it is booked,
\* an await later: what a tenant's sessions overshoot together is at most one
\* trade for each of the others.
OverbookingIsBounded ==
    [][\A e \in Evaluators : Book(e) =>
         /\ RiskOf(holdings') * 100 <= (6 + 2 * (Waves - 1)) * account.peak
         /\ Cardinality(DOMAIN holdings') <= MaxConcurrent + Waves - 1]_riskVars

\* max_daily_trades counts closes, so that a day may see more opens; the check
\* of the open positions keeps them within the sum.
DayIsBounded == ~IsAgent => openings.today <= MaxDaily + MaxConcurrent - 1 + Waves - 1

\* A restart brings back what the tracker held: each add and close is in the
\* file before the handler answers.
RestartKeepsBook ==
    [][(Restart /\ ~IsAgent) =>
         /\ holdings' = holdings
         /\ account'.balance = account.balance /\ account'.peak = account.peak
         /\ account'.lossStreak = account.lossStreak]_riskVars

\* The daily counters hold closes of the day they are for.  (After a restart on
\* a new day they hold those of the day before: the file has no date.)
CountersAreTodays ==
    ("crash" \notin riskPlan /\ account.startDay = today) => account.trades <= closes

\* portfolio_state_tracker.py, "assume full notional at risk so heat is not
\* under-counted": a position taken over without a stop blocks every approval until it is closed, through resets, closes of others and price updates.
TakenOverBlocks ==
    [][(\E s \in Setups : AgentValidate(s)) /\ (\E i \in DOMAIN holdings : ~holdings[i].stop)
         => ~approved']_riskVars

\* The breaker's two flags: the tracker's is up only while the engine's is, so
\* that a reset clears both.  (A restart keeps the tracker's and forgets the
\* engine's, which then cannot be reset.)
FlagFollowsBreaker == "crash" \notin riskPlan => (flag => breakerOn)

\* The limits of a tenant's risk book (portfolio_state_tracker.py, circuit_breaker.py) hold
\* through restarts, midnights and evaluations that wait for their executions.
BookKeepsLimits ==
    /\ OverbookingIsBounded /\ RestartKeepsBook /\ TakenOverBlocks
    /\ [](DayIsBounded /\ CountersAreTodays /\ FlagFollowsBreaker)

=============================================================================
