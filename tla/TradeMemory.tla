----------------------------- MODULE TradeMemory -----------------------------
(****************************************************************************)
(* The memory agent and its stores: the trade rows in SQL, their copies in  *)
(* the vector store, the performance figures computed from the rows in two   *)
(* places, and the volatility history the market regime is judged by, kept   *)
(* in memory and in Redis.                                                   *)
(*                                                                          *)
(* The agent handles one message at a time; a row is committed in one step   *)
(* and its vector written in a later one.                                    *)
(****************************************************************************)
EXTENDS Integers, Sequences, FiniteSetsExt, SequencesExt

CONSTANTS
  MaxTrades,     \* trades, logged in the order of their ids
  MaxMail,       \* messages waiting in the inbox
  EntryPrice, ExitPrices, Capital,
  Volatilities,  \* ATR as a share of price, the measure regimes are ranked by
  MaxHistory,    \* samples kept of it
  MaxSamples,    \* bound on the samples taken
  MemoryPlans    \* what may happen, a set of sets of words

ASSUME MemoryAssumption ==
  /\ {MaxTrades, MaxMail, EntryPrice, Capital, MaxHistory, MaxSamples} \subseteq Nat
  /\ ExitPrices \cup Volatilities \subseteq Nat
  /\ EntryPrice > 0

VARIABLES
  chance,    \* the plan of this behaviour
  orders,    \* what was published about each trade: nothing, "log", "close"
  mail,      \* memory_agent_inbox, not yet handled
  rows,      \* the trades table, status None where there is no row
  remember,  \* trade whose row was just written and whose vector is next
  vectors,   \* outcome the vector store tells of each trade
  closings,  \* exits recorded so far, the time of the next one
  samples,   \* volatility samples taken so far
  known,     \* the detector's history: <<sample number, value>>
  saved,     \* the history in Redis
  regime     \* last verdict

yvars == <<chance, orders, mail, rows, remember, vectors, closings, samples,
           known, saved, regime>>

Trades == 1..MaxTrades

None == "none"
NoTrade == 0   \* no trade
Can(event) == event \in chance
Without(events) == events \cap chance = {}

(* ------------------------------- The rows ------------------------------- *)
Sign(direction) == IF direction = "LONG" THEN 1 ELSE -1

(* What update_trade_exit computes from a row and an exit price. *)
Pnl(row, exit) == Sign(row.direction) * (exit - row.entry) * row.size

Closed(row, exit, time) ==
  [row EXCEPT !.status = "CLOSED", !.exit = exit, !.at = time,
     !.pnl = Pnl(row, exit), !.winner = Pnl(row, exit) > 0]

Opened(direction, price) ==
  [status |-> "OPEN", direction |-> direction, entry |-> price, size |-> 1,
   exit |-> 0, at |-> 0, pnl |-> 0, winner |-> FALSE]

(* The trade pipeline and the paper engine publish; nothing waits. *)
PublishLog(t) ==
  /\ "trades" \in chance /\ orders[t] = None /\ Len(mail) < MaxMail
  /\ \A earlier \in 1..t - 1 : orders[earlier] # None
  /\ chance # {"trades"} => t <= 2   \* two are enough beside a fault
  /\ orders' = [orders EXCEPT ![t] = "log"]
  /\ \E direction \in {"LONG"} \cup {"SHORT" : e \in chance \ {"trades"}},
        price \in {EntryPrice} \cup {0 : e \in chance \cap {"priceless"}} :
       mail' = Append(mail, [kind |-> "log_trade", trade |-> t,
                             direction |-> direction, price |-> price])
  /\ UNCHANGED <<chance, rows, remember, vectors, closings, samples, known,
                 saved, regime>>

PublishClose(t, exit) ==
  /\ orders[t] = "log" /\ Len(mail) < MaxMail
  /\ orders' = [orders EXCEPT ![t] = "close"]
  /\ mail' = Append(mail, [kind |-> "update_trade", trade |-> t, price |-> exit])
  /\ UNCHANGED <<chance, rows, remember, vectors, closings, samples, known,
                 saved, regime>>

(* Only an outside caller sends an entry correction; the agent takes it for a
   trade in any state. *)
PublishEntry(t, price) ==
  /\ Can("repriced") /\ rows[t].status # None /\ mail = <<>>
  /\ mail' = <<[kind |-> "update_entry", trade |-> t, price |-> price]>>
  /\ UNCHANGED <<chance, orders, rows, remember, vectors, closings, samples,
                 known, saved, regime>>

MailLost ==
  /\ Can("bus_drop") /\ mail # <<>>
  /\ mail' = Tail(mail)
  /\ UNCHANGED <<chance, orders, rows, remember, vectors, closings, samples,
                 known, saved, regime>>

Reads(kind) == mail # <<>> /\ Head(mail).kind = kind /\ remember = NoTrade

(* _handle_log_trade up to the committed row; a refused commit only makes the
   reply an error nobody waits for. *)
LogTrade ==
  /\ Reads("log_trade")
  /\ LET m == Head(mail) IN
       \/ /\ rows' = [rows EXCEPT ![m.trade] = Opened(m.direction, m.price)]
          /\ remember' = m.trade
       \/ /\ Can("db_error")
          /\ UNCHANGED <<rows, remember>>
  /\ mail' = Tail(mail)
  /\ UNCHANGED <<chance, orders, vectors, closings, samples, known, saved, regime>>

UpdateEntry ==
  /\ Reads("update_entry")
  /\ rows' = [rows EXCEPT ![Head(mail).trade].entry = Head(mail).price]
  /\ mail' = Tail(mail)
  /\ UNCHANGED <<chance, orders, remember, vectors, closings, samples, known,
                 saved, regime>>

(* A row to close, with a price to divide by. *)
Servable(m) == rows[m.trade].status # None /\ rows[m.trade].entry # 0

(* Mutant: the vector of the exit is left to a later summary. *)
AfterExitForgotten(t) == NoTrade

AfterExit(t) == t

(* _handle_update_trade: no row, or one without an entry price to divide by,
   is an error and the row stays as it is. *)
UpdateTrade ==
  /\ Reads("update_trade")
  /\ LET m == Head(mail)
         refused == ~Servable(m)
     IN  \/ /\ ~refused
            /\ rows' = [rows EXCEPT ![m.trade] = Closed(@, m.price, closings + 1)]
            /\ closings' = closings + 1
            /\ remember' = AfterExit(m.trade)
         \/ /\ refused \/ Can("db_error")
            /\ UNCHANGED <<rows, remember, closings>>
  /\ mail' = Tail(mail)
  /\ UNCHANGED <<chance, orders, vectors, samples, known, saved, regime>>

(* The text an embedding is made from says WIN or LOSS, LOSS while open. *)
Told(row) == IF row.winner THEN "WIN" ELSE "LOSS"

(* VectorMemoryStore.store_trade swallows its failures. *)
Remember ==
  /\ remember # NoTrade
  /\ \/ vectors' = [vectors EXCEPT ![remember] = Told(rows[remember])]
     \/ Can("no_embedding") /\ UNCHANGED vectors
  /\ remember' = NoTrade
  /\ UNCHANGED <<chance, orders, mail, rows, closings, samples, known, saved,
                 regime>>

(* ------------------------- The performance figures ----------------------- *)
ClosedTrades == {t \in Trades : rows[t].status # None /\ rows[t].at > 0}
Winners == {t \in ClosedTrades : rows[t].winner}
Total(ts) == MapThenSumSet(LAMBDA t : rows[t].pnl, ts)

(* TradeHistoryManager.calculate_stats. *)
TradeStats ==
  LET gain == Total(Winners)
      loss == -Total(ClosedTrades \ Winners)
  IN  [trades |-> Cardinality(ClosedTrades), wins |-> Cardinality(Winners),
       pnl |-> gain - loss, gain |-> gain, loss |-> loss,
       factor |-> IF loss > 0 THEN <<gain, loss>> ELSE <<0, 1>>]

(* PerformanceAnalyticsEngine.calculate_metrics: the same rows in the order of
   their exits, folded into a curve. *)
ByExit == SetToSortSeq(ClosedTrades, LAMBDA a, b : rows[a].at < rows[b].at)

EquityCurve ==
  FoldLeft(LAMBDA curve, t : Append(curve, Last(curve) + rows[t].pnl),
           <<Capital>>, ByExit)

MaxDrawdown(curve) ==
  FoldLeft(LAMBDA acc, e : LET peak == IF e > acc.peak THEN e ELSE acc.peak
                           IN  [peak |-> peak, fall |-> IF peak - e > acc.fall
                                                       THEN peak - e ELSE acc.fall],
           [peak |-> Head(curve), fall |-> 0], curve).fall

(* Longest runs of winners and of the others, in the order of the exits. *)
Streaks ==
  FoldLeft(LAMBDA acc, t :
             LET win  == IF rows[t].winner THEN acc.win + 1 ELSE 0
                 lose == IF rows[t].winner THEN 0 ELSE acc.lose + 1
             IN  [win |-> win, lose |-> lose, wins |-> Max({win, acc.wins}),
                  losses |-> Max({lose, acc.losses})],
           [win |-> 0, lose |-> 0, wins |-> 0, losses |-> 0], ByExit)

Metrics ==
  LET gain == Total(Winners)
      losers == ClosedTrades \ Winners
      loss == IF losers = {} THEN 1 ELSE -Total(losers)
  IN  [trades |-> Cardinality(ClosedTrades), wins |-> Cardinality(Winners),
       pnl |-> Last(EquityCurve) - Capital,
       factor |-> IF loss > 0 THEN <<gain, loss>> ELSE <<0, 1>>]

(* Half the Kelly fraction in percent, from the average win and loss, within
   0 and 25; without a loss or a win there is none. *)
HalfKelly ==
  LET s == TradeStats
      edge == s.gain - s.loss
  IN  IF s.loss = 0 \/ s.gain = 0 THEN 0
      ELSE LET half == (50 * s.wins * edge) \div (s.trades * s.gain)
           IN  Min({Max({half, 0}), 25})

(* ------------------------------ The regime ------------------------------- *)
(* Share of the history below the newest value, which is part of it. *)
Below(history, value) ==
  Cardinality({i \in DOMAIN history : history[i][2] < value})

Classify(history, value, adx, trend) ==
  LET below == Below(history, value) IN
  CASE 10 * below > 8 * Len(history) -> "VOLATILE"
    [] 10 * below < 2 * Len(history) -> "CALM"
    [] OTHER -> IF adx > 25 /\ trend = "up" THEN "TRENDING_BULLISH"
                ELSE IF adx > 25 /\ trend = "down" THEN "TRENDING_BEARISH"
                ELSE "RANGING"

(* load_history replaces what is there unless Redis has nothing. *)
Loaded == IF saved # <<>> THEN saved ELSE known

Sampled(history, value) ==
  LET longer == Append(history, <<samples + 1, value>>)
  IN  IF Len(longer) > MaxHistory THEN Tail(longer) ELSE longer

(* _handle_get_regime_analysis: load, sample, classify, persist; both ends
   with Redis are best effort. *)
DetectRegime(value, adx, trend) ==
  /\ "regime" \in chance /\ samples < MaxSamples
  /\ \E base \in {Loaded} \cup {known : e \in chance \cap {"redis"}} :
     LET history == Sampled(base, value) IN
       /\ known' = history
       /\ saved' \in {history} \cup {saved : e \in chance \cap {"redis"}}
       /\ regime' = Classify(history, value, adx, trend)
  /\ samples' = samples + 1
  /\ UNCHANGED <<chance, orders, mail, rows, remember, vectors, closings>>

(* A restart loses what was in memory: the agent's queue, the step between
   row and vector, the detector's history. *)
Restart ==
  /\ Can("crash")
  /\ mail' = <<>> /\ remember' = NoTrade /\ known' = <<>> /\ regime' = None
  /\ UNCHANGED <<chance, orders, rows, vectors, closings, samples, saved>>

MemoryInit ==
  /\ chance \in MemoryPlans
  /\ orders = [t \in Trades |-> None]
  /\ mail = <<>>
  /\ rows = [t \in Trades |-> [Opened("LONG", 0) EXCEPT !.status = None]]
  /\ remember = NoTrade
  /\ vectors = [t \in Trades |-> None]
  /\ closings = 0
  /\ samples = 0
  /\ known = <<>>
  /\ saved = <<>>
  /\ regime = None

MemoryServes == LogTrade \/ UpdateEntry \/ UpdateTrade \/ Remember

MemoryNext ==
  \/ \E t \in Trades :
       \/ PublishLog(t)
       \/ \E exit \in ExitPrices : PublishClose(t, exit) \/ PublishEntry(t, exit)
  \/ MailLost
  \/ MemoryServes
  \/ \E value \in Volatilities, adx \in {22, 30}, trend \in {"up", "down", "sideways"} :
       DetectRegime(value, adx, trend)
  \/ Restart

MemorySpec == MemoryInit /\ [][MemoryNext]_yvars

(* The agent's message loop runs as long as the process does. *)
MemoryFairness == WF_yvars(MemoryServes)

MemoryFairSpec == MemorySpec /\ MemoryFairness

-----------------------------------------------------------------------------
(* Type invariant. *)
MemoryTypeOK ==
  /\ chance \in MemoryPlans
  /\ \A t \in Trades : rows[t].status # None =>
       rows[t].status \in {"OPEN", "CLOSED"} /\ rows[t].at \in 0..closings
  /\ vectors \in [Trades -> {None, "WIN", "LOSS"}]
  /\ closings <= Cardinality(Trades)
  /\ Len(known) <= MaxHistory /\ Len(saved) <= MaxHistory
  /\ regime \in {None, "VOLATILE", "CALM", "TRENDING_BULLISH",
                 "TRENDING_BEARISH", "RANGING"}

(* A closed row's result is that of its own prices, and it is a winner exactly
   when it made money; a correction of the entry after the exit would break
   it, update_trade_entry computes nothing anew. *)
ClosedRowsAddUp ==
  Without({"repriced"}) =>
    \A t \in ClosedTrades :
      /\ rows[t].pnl = Sign(rows[t].direction) * (rows[t].exit - EntryPrice)
      /\ rows[t].winner <=> rows[t].pnl > 0

(* The two computations of the performance figures, over SQL rows and over
   the sorted curve, tell the same story; they part only over the profit
   factor of a history without a losing trade (calculate_stats,
   calculate_metrics). *)
StatsAgree ==
  LET m == Metrics
      s == TradeStats IN
    /\ m.trades = s.trades /\ m.wins = s.wins /\ m.pnl = s.pnl
    /\ s.trades > s.wins => m.factor = s.factor

(* The drawdown covers the net loss and every single losing trade
   (_calculate_max_drawdown on _calculate_equity_curve). *)
DrawdownCoversLosses ==
  LET fall == MaxDrawdown(EquityCurve) IN
    /\ fall >= -TradeStats.pnl
    /\ \A t \in ClosedTrades : fall >= -rows[t].pnl

(* Kelly asks for a stake only of a history that made money, and a losing run
   as long as the history leaves it none (_calculate_kelly_criterion,
   _calculate_streaks). *)
KellyNeedsProfit ==
  LET stake == HalfKelly
      runs == Streaks IN
    /\ stake > 0 => TradeStats.pnl > 0 /\ runs.wins > 0
    /\ runs.losses = TradeStats.trades => stake = 0

(* Once the agent has worked off its inbox the vector store tells a closed
   trade's own outcome, unless embeddings or a crash kept it from being told
   (_handle_update_trade). *)
MemoryTellsOutcome ==
  Without({"no_embedding", "crash", "repriced"}) /\ remember = NoTrade =>
    \A t \in ClosedTrades : vectors[t] = Told(rows[t])

(* The volatility history never holds a sample twice or out of order, whatever
   Redis and restarts do (_load_regime_history replaces, never merges). *)
SamplesInOrder ==
  \A history \in {known, saved} : \A i, j \in DOMAIN history :
    i < j => history[i][1] < history[j][1]

(* While Redis answers, the kept history is the newest samples without a gap,
   across restarts (_persist_regime_history). *)
HistoryIsWhole ==
  Without({"redis"}) =>
    /\ Len(saved) = Min({samples, MaxHistory})
    /\ \A i \in DOMAIN saved : saved[i][1] = samples - Len(saved) + i

(* A market is judged volatile only against at least five quieter samples:
   before that the newest value, counted among its own history, cannot rank
   that high, and the first is always calm (_calculate_percentile). *)
VolatileIsEarned ==
  /\ regime = "VOLATILE" => Len(known) > 5
  /\ Len(known) = 1 => regime = "CALM"

(* A close of a stored trade reaches its row, when no message, commit or
   process is lost and the row has a price (UpdateTrade). *)
ClosesLand ==
  \A t \in Trades :
    (Without({"bus_drop", "db_error", "crash", "priceless"}) /\ orders[t] = "close")
      ~> (rows[t].status # None /\ rows[t].status = "CLOSED")

\* What is remembered (trade_history_manager.py, memory_agent.py, regime_detector.py):
\* each closed trade by its own prices and its own outcome, the volatility by its
\* newest samples in their order, and a verdict that the samples support.
RememberedAsItWas ==
    /\ ClosedRowsAddUp /\ MemoryTellsOutcome
    /\ SamplesInOrder /\ HistoryIsWhole /\ VolatileIsEarned

\* What the history says of the trades (trade_history_manager.py, memory_agent.py,
\* performance_analytics.py): each as it ended, the sums of them, and what sizes from them.
MemoryIsTrue ==
    /\ RememberedAsItWas
    /\ ClosedTrades # {} => StatsAgree /\ DrawdownCoversLosses /\ KellyNeedsProfit

=============================================================================
