------------------------------ MODULE PaperDesk ------------------------------
(***************************************************************************)
(* One tenant's paper engine, for one of its symbols: the position, the    *)
(* bracket legs of every trade booked on it, and the three tasks that fill *)
(* and cancel them, all of one asyncio loop:                               *)
(*   desk     the command handler: books a bracket, closes the position,   *)
(*            cancels an order (multi_user_daemon.py, order_manager.py)    *)
(*   tick     the price loop: fills what the price crossed, then sweeps    *)
(*            legs that have no position (paper_tick.py)                   *)
(*   monitor  watches the position and may close it, with a supervisor     *)
(*            that respawns it (monitor_worker.py)                         *)
(* A step runs from one await to the next. A fill changes the engine at    *)
(* once and then awaits its publication.                                   *)
(***************************************************************************)
EXTENDS Integers, FiniteSets

CONSTANTS
    MaxTrades,      \* bound: how many trades are booked
    Levels,         \* prices, in steps of the distance between a bracket's levels
    Size,           \* quantity of a trade, in lots
    Targets,        \* how many take-profit legs a bracket has
    TakeSize,       \* quantity of each
    Dust,           \* _update_position drops a position of at most this many lots
    MaxDeaths,      \* bound: how often a monitor's task dies
    DeskPlans       \* which of FaultKinds may happen together

\* overlap        the other tasks may run while one awaits
\* monitor_exit   a monitor closes the position
\* monitor_dies   a monitor's task ends with an exception
\* publish_error  publishing a fill raises
\* opposite       a trade is booked against the open position's side
\* no_margin      the balance does not cover an entry
\* cancel_target  the owner cancels a take-profit leg
\* cancel_stop    the owner cancels a stop
FaultKinds == {"overlap", "monitor_exit", "monitor_dies", "publish_error",
               "opposite", "no_margin", "cancel_target", "cancel_stop"}

ASSUME DeskAssumption ==
    /\ MaxTrades \in Nat
    /\ Levels \subseteq Int
    /\ Size \in Nat \ {0}
    /\ Targets \in Nat
    /\ TakeSize \in [1..Targets -> 1..Size]
    /\ Dust \in Nat
    /\ MaxDeaths \in Nat
    /\ \A faults \in DeskPlans : faults \subseteq FaultKinds

Trades == 1..MaxTrades
Stop == 0
Legs == 0..Targets

\* An order's place in engine.orders: the n-th trade's stop, then its targets.
Orders == Trades \X Legs
Before(o, x) == o[1] < x[1] \/ (o[1] = x[1] /\ o[2] < x[2])

LegSize(l) == IF l = Stop THEN Size ELSE TakeSize[l]

NoPosition == [trade |-> 0, quantity |-> 0]

VARIABLES
    price,          \* current_prices[symbol]
    booked,         \* how many trades have been booked
    bracket,        \* each trade's side and the price its setup was made for
    leg,            \* each leg's status
    position,       \* positions[symbol]: its position_id's trade, what is left
    total_trades,   \* closing fills
    desk,           \* where the command handler is
    tick,           \* where the price loop is
    monitor,        \* where the symbol's monitor is, and what it saw
    overdue,        \* the trade held past its horizon's limit, 0 for none
    deaths,         \* monitors that died so far
    plan            \* what may go wrong in this behaviour

vars == <<price, booked, bracket, leg, position, total_trades, desk, tick,
          monitor, overdue, deaths, plan>>

-----------------------------------------------------------------------------
DeskAt(place, trade) == [at |-> place, trade |-> trade, quantity |-> 0]
RestingDesk == DeskAt("idle", 0)
RestingTick == [at |-> "idle", before |-> <<0, 0, 0>>, todo |-> {}]
MonitorAt(place) == [at |-> place, quantity |-> 0]
NoMonitor == MonitorAt("none")

TypeOK ==
    /\ price \in Levels
    /\ booked \in 0..MaxTrades
    /\ bracket \in [Trades -> [side : {"LONG", "SHORT"}, entry : Levels]]
    /\ leg \in [Trades -> [Legs -> {"none", "open", "filled", "canceled"}]]
    /\ position \in [trade : 1..booked, quantity : 1..Size] \cup {NoPosition}
    /\ total_trades \in Nat
    /\ desk \in [at : {"idle", "legs", "close", "cancel"},
                 trade : 0..booked, quantity : 0..Size]
    /\ tick \in [at : {"idle", "begun", "scan", "scanned"},
                 before : Nat \X Nat \X Nat, todo : SUBSET Orders]
    /\ monitor \in [at : {"none", "watch", "exit", "done"}, quantity : 0..Size]
    /\ overdue \in 0..booked
    /\ deaths \in 0..MaxDeaths
    /\ plan \in DeskPlans

Init ==
    /\ price \in Levels
    /\ booked = 0
    /\ bracket = [t \in Trades |->
                    [side |-> "LONG", entry |-> CHOOSE p \in Levels : TRUE]]
    /\ leg = [t \in Trades |-> [l \in Legs |-> "none"]]
    /\ position = NoPosition
    /\ total_trades = 0
    /\ desk = RestingDesk
    /\ tick = RestingTick
    /\ monitor = NoMonitor
    /\ overdue = 0
    /\ deaths = 0
    /\ plan \in DeskPlans

DeskRests == desk = RestingDesk
TickRests == tick = RestingTick
MonitorRests == monitor.at # "exit"

\* Whether a task runs while the other two are in the middle of something.
MayRun(othersRest) == "overlap" \in plan \/ othersRest

\* How awaiting a publication may end.
Published == IF "publish_error" \in plan THEN BOOLEAN ELSE {TRUE}

\* A closing fill that finds no position publishes nothing.
ReduceEnds == IF position = NoPosition THEN {TRUE} ELSE Published

-----------------------------------------------------------------------------
(* The engine. *)

OpenLegs == {o \in Orders : leg[o[1]][o[2]] = "open"}

\* legs with the given orders turned to a status
Marked(orders, status) ==
    [t \in Trades |-> [l \in Legs |->
        IF <<t, l>> \in orders THEN status ELSE leg[t][l]]]

\* A closing order of this quantity fills: of whatever position is there, on
\* whichever side, and of none at all.
Reduce(quantity) ==
    LET rest == position.quantity - quantity
    IN IF position = NoPosition
       THEN UNCHANGED <<position, total_trades>>
       ELSE /\ position' = IF rest <= Dust THEN NoPosition
                           ELSE [position EXCEPT !.quantity = rest]
            /\ total_trades' = total_trades + 1

\* A bracket's stop is one step behind the price of its setup, the targets are
\* one, two, ... steps ahead. A long's legs sell, a short's buy.
Crossed(o, p) ==
    LET b == bracket[o[1]]
        ahead == IF b.side = "LONG" THEN p - b.entry ELSE b.entry - p
    IN IF o[2] = Stop THEN ahead <= -1 ELSE ahead >= o[2]

-----------------------------------------------------------------------------
(* The command handler. *)

\* No trade adds to the open position; an entry of the other side nets.
Accepts(side) ==
    \/ position = NoPosition
    \/ /\ "opposite" \in plan
       /\ position # NoPosition
       /\ bracket[position.trade].side # side

FillEntry(t) ==
    IF position = NoPosition
    THEN position' = [trade |-> t, quantity |-> Size] /\ UNCHANGED total_trades
    ELSE Reduce(Size)

\* execute_trade_setup: the entry fills at once. When its publication raises,
\* the manager does not know the entry and has nothing to roll back.
Book(side, entry) ==
    LET t == booked + 1
    IN /\ DeskRests /\ MayRun(TickRests /\ MonitorRests)
       /\ t \in Trades
       /\ Accepts(side)
       /\ booked' = t
       /\ bracket' = [bracket EXCEPT ![t] = [side |-> side, entry |-> entry]]
       /\ FillEntry(t)
       /\ \E ok \in Published :
            desk' = IF ok THEN DeskAt("legs", t) ELSE RestingDesk
       /\ UNCHANGED <<price, leg, tick, monitor, overdue, deaths, plan>>

\* The engine refuses an entry for want of margin. place_market_order reports it
\* as NEW, so that the manager takes it for filled: the legs rest all the same.
BookRefused(side, entry) ==
    LET t == booked + 1
    IN /\ DeskRests /\ MayRun(TickRests /\ MonitorRests)
       /\ "no_margin" \in plan
       /\ t \in Trades
       /\ Accepts(side)
       /\ booked' = t
       /\ bracket' = [bracket EXCEPT ![t] = [side |-> side, entry |-> entry]]
       /\ leg' = Marked({t} \X Legs, "open")
       /\ UNCHANGED <<price, position, total_trades, desk, tick, monitor,
                      overdue, deaths, plan>>

\* Placing a resting leg awaits nothing: stop and targets appear together.
PlaceLegs ==
    /\ desk.at = "legs"
    /\ leg' = Marked({desk.trade} \X Legs, "open")
    /\ desk' = RestingDesk
    /\ UNCHANGED <<price, booked, bracket, position, total_trades, tick,
                   monitor, overdue, deaths, plan>>

\* close_position, close_all: the positions to close are read once, and closed
\* one symbol after the other.
ReadPosition ==
    /\ DeskRests /\ MayRun(TickRests /\ MonitorRests)
    /\ position # NoPosition
    /\ desk' = [at |-> "close", trade |-> 0, quantity |-> position.quantity]
    /\ UNCHANGED <<price, booked, bracket, leg, position, total_trades, tick,
                   monitor, overdue, deaths, plan>>

\* A reduce-only market order for the quantity read.
ClosePosition ==
    /\ desk.at = "close"
    /\ Reduce(desk.quantity)
    /\ \E ok \in ReduceEnds :
         desk' = IF ok THEN DeskAt("cancel", 0) ELSE RestingDesk
    /\ UNCHANGED <<price, booked, bracket, leg, tick, monitor, overdue, deaths, plan>>

\* Mutant: only the stops go.
CancelStopsOnly ==
    /\ desk.at = "cancel"
    /\ leg' = Marked({o \in OpenLegs : o[2] = Stop}, "canceled")
    /\ desk' = RestingDesk
    /\ UNCHANGED <<price, booked, bracket, position, total_trades, tick,
                   monitor, overdue, deaths, plan>>

\* Then the symbol's reduce-only orders go.
CancelLegs ==
    /\ desk.at = "cancel"
    /\ leg' = Marked(OpenLegs, "canceled")
    /\ desk' = RestingDesk
    /\ UNCHANGED <<price, booked, bracket, position, total_trades, tick,
                   monitor, overdue, deaths, plan>>

CancelOrder(o) ==
    /\ DeskRests /\ MayRun(TickRests /\ MonitorRests)
    /\ o \in OpenLegs
    /\ (IF o[2] = Stop THEN "cancel_stop" ELSE "cancel_target") \in plan
    /\ leg' = Marked({o}, "canceled")
    /\ UNCHANGED <<price, booked, bracket, position, total_trades, desk, tick,
                   monitor, overdue, deaths, plan>>

-----------------------------------------------------------------------------
(* The price loop. *)

\* _engine_snapshot: by these counts the loop tells whether anything changed.
EngineSnapshot == <<IF position = NoPosition THEN 0 ELSE 1,
                    Cardinality(OpenLegs), total_trades>>

TickBegin ==
    /\ TickRests /\ MayRun(DeskRests /\ MonitorRests)
    /\ tick' = [at |-> "begun", before |-> EngineSnapshot, todo |-> {}]
    /\ UNCHANGED <<price, booked, bracket, leg, position, total_trades, desk,
                   monitor, overdue, deaths, plan>>

\* check_limit_orders from here on: fill the first of these orders that is
\* still open and that the price p crossed. If publishing it raises, the tick
\* is over, and with it the sweep.
ScanOn(orders, p) ==
    LET hits == {o \in orders \cap OpenLegs : Crossed(o, p)}
    IN \/ /\ hits = {}
          /\ tick' = [tick EXCEPT !.at = "scanned", !.todo = {}]
          /\ UNCHANGED <<leg, position, total_trades>>
       \/ \E o \in hits :
            /\ \A x \in hits \ {o} : Before(o, x)
            /\ leg' = Marked({o}, "filled")
            /\ Reduce(LegSize(o[2]))
            /\ \E ok \in ReduceEnds :
                 tick' = IF ok
                         THEN [tick EXCEPT !.at = "scan",
                                           !.todo = {x \in orders : Before(o, x)}]
                         ELSE RestingTick

\* The loop's turn comes to this symbol, whose price may have jumped.
TickScan(p) ==
    /\ tick.at = "begun"
    /\ price' = p
    /\ ScanOn(OpenLegs, p)
    /\ UNCHANGED <<booked, bracket, desk, monitor, overdue, deaths, plan>>

TickGoOn ==
    /\ tick.at = "scan"
    /\ ScanOn(tick.todo, price)
    /\ UNCHANGED <<price, booked, bracket, desk, monitor, overdue, deaths, plan>>

\* Mutant: the sweep does not look whether the position is still open.
SweepAlways ==
    /\ tick.at = "scanned"
    /\ leg' = IF EngineSnapshot # tick.before
              THEN Marked(OpenLegs, "canceled") ELSE leg
    /\ tick' = RestingTick
    /\ UNCHANGED <<price, booked, bracket, position, total_trades, desk,
                   monitor, overdue, deaths, plan>>

\* sweep_orphaned_legs, if anything changed since the tick began, here or
\* elsewhere on the tenant's engine.
TickSweep ==
    /\ tick.at = "scanned"
    /\ \E elsewhere \in BOOLEAN :
         leg' = IF /\ elsewhere \/ EngineSnapshot # tick.before
                   /\ position = NoPosition
                THEN Marked(OpenLegs, "canceled") ELSE leg
    /\ tick' = RestingTick
    /\ UNCHANGED <<price, booked, bracket, position, total_trades, desk,
                   monitor, overdue, deaths, plan>>

-----------------------------------------------------------------------------
(* The monitor. *)

\* The position has been held for longer than its horizon allows.
HoldLimit ==
    /\ "monitor_exit" \in plan
    /\ position # NoPosition
    /\ overdue' = position.trade
    /\ UNCHANGED <<price, booked, bracket, leg, position, total_trades, desk,
                   tick, monitor, deaths, plan>>

\* Mutant: a monitor that ended keeps its place in the table.
SuperviseNoReap ==
    /\ MayRun(DeskRests /\ TickRests)
    /\ monitor.at = "none"
    /\ monitor' = IF position = NoPosition THEN NoMonitor
                  ELSE MonitorAt("watch")
    /\ UNCHANGED <<price, booked, bracket, leg, position, total_trades, desk,
                   tick, overdue, deaths, plan>>

\* discover_once: a monitor that ended is reaped, and an open position that
\* has none gets one.
Supervise ==
    /\ MayRun(DeskRests /\ TickRests)
    /\ monitor.at \in {"none", "done"}
    /\ monitor' = IF position = NoPosition THEN NoMonitor
                  ELSE MonitorAt("watch")
    /\ UNCHANGED <<price, booked, bracket, leg, position, total_trades, desk,
                   tick, overdue, deaths, plan>>

\* check_once finds no position: the monitor ends.
CheckClosed ==
    /\ MayRun(DeskRests /\ TickRests)
    /\ monitor.at = "watch" /\ position = NoPosition
    /\ monitor' = MonitorAt("done")
    /\ UNCHANGED <<price, booked, bracket, leg, position, total_trades, desk,
                   tick, overdue, deaths, plan>>

\* check_once decides to exit, on what it saw before it publishes its status.
Decide ==
    /\ MayRun(DeskRests /\ TickRests)
    /\ monitor.at = "watch" /\ position # NoPosition
    /\ monitor' = [at |-> "exit", quantity |-> position.quantity]
    /\ UNCHANGED <<price, booked, bracket, leg, position, total_trades, desk,
                   tick, overdue, deaths, plan>>

\* The time stop.
CheckOverdue == overdue = position.trade /\ Decide

\* The gates that read profit and conditions, which may hold as well.
CheckEarly == "monitor_exit" \in plan /\ Decide

\* _exit: a reduce-only market order for the quantity seen. The monitor ends
\* with it, whether it went through or raised.
MonitorExit ==
    /\ monitor.at = "exit"
    /\ Reduce(monitor.quantity)
    /\ monitor' = MonitorAt("done")
    /\ UNCHANGED <<price, booked, bracket, leg, desk, tick, overdue, deaths, plan>>

MonitorDies ==
    /\ "monitor_dies" \in plan /\ deaths < MaxDeaths
    /\ monitor.at \in {"watch", "exit"}
    /\ monitor' = MonitorAt("done")
    /\ deaths' = deaths + 1
    /\ UNCHANGED <<price, booked, bracket, leg, position, total_trades, desk,
                   tick, overdue, plan>>

-----------------------------------------------------------------------------
Commands ==
    \/ \E side \in {"LONG", "SHORT"}, entry \in Levels : Book(side, entry)
    \/ \E side \in {"LONG", "SHORT"}, entry \in Levels : BookRefused(side, entry)
    \/ PlaceLegs
    \/ ReadPosition
    \/ ClosePosition
    \/ CancelLegs
    \/ \E o \in Orders : CancelOrder(o)

Ticks ==
    \/ TickBegin
    \/ \E p \in Levels : TickScan(p)
    \/ TickGoOn
    \/ TickSweep

Monitors ==
    \/ HoldLimit
    \/ Supervise
    \/ CheckClosed
    \/ CheckOverdue
    \/ CheckEarly
    \/ MonitorExit
    \/ MonitorDies

Next == Commands \/ Ticks \/ Monitors

Spec == Init /\ [][Next]_vars

\* The supervisor's loop and the monitor's catch what their passes raise and
\* await bounded calls.
FairSpec ==
    /\ Spec
    /\ WF_vars(Supervise)
    /\ WF_vars(CheckClosed)
    /\ WF_vars(CheckOverdue)
    /\ WF_vars(MonitorExit)
-----------------------------------------------------------------------------
(* Properties. *)

\* The owner leaves stops alone, and publications succeed. Tasks may overlap,
\* monitors exit and die, trades be booked against the open position or be
\* refused.
Careful == plan \cap {"publish_error", "cancel_stop"} = {}

StopRests ==
    \/ position = NoPosition
    \/ desk = DeskAt("legs", position.trade)
    \/ leg[position.trade][Stop] = "open"

\* The position's stop rests, except between the fill of its entry and the
\* placement of its legs: neither the sweep, nor the cancelling that follows a
\* close, nor a fill of another trade's leg takes it from a position that is
\* open.
Protected == Careful => StopRests

Filling(o) == leg[o[1]][o[2]] = "open" /\ leg'[o[1]][o[2]] = "filled"

\* A leg fills into its own trade's position, never into one that was opened
\* later: engine.orders keeps legs by symbol, a reduce-only fill takes whatever
\* position is there, and only the sweep and the close command tidy up. Stated
\* for tasks that do not overlap and without monitor exits, publications that
\* fail, trades booked against the open position, and entries the engine refuses.
FillsOwnPosition ==
    [][\A o \in Orders :
         Filling(o) /\ position # NoPosition => position.trade = o[1]]_vars

\* No leg fills when there is no position, which would charge a commission for
\* nothing: when one leg closes the position, its siblings are gone before the
\* price comes to them. Stated as FillsOwnPosition.
NoPhantomFill ==
    [][\A o \in Orders : Filling(o) => position # NoPosition]_vars

\* A position held past its limit is closed in the end, by its monitor or
\* before it: also when a monitor dies, has been started for an earlier
\* position, or decided on one that was replaced while it awaited.
OverdueCloses ==
    \A t \in Trades :
        overdue = t /\ position.trade = t ~> position.trade # t
=============================================================================
