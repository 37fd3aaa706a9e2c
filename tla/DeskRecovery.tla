---------------------------- MODULE DeskRecovery ----------------------------
(***************************************************************************)
(* One tenant's desk, its rows in the `trades` table and the bus between   *)
(* them, over crashes and restarts of the daemon: what is booked is logged *)
(* by a message (multi_user.py), a closing fill updates the row by another *)
(* (paper_trading_engine.py), the ledger consumes both (trade_ledger.py),  *)
(* and a new session object gets its engine rebuilt from the rows          *)
(* (rehydration.py, UserRegistry.session, the daemon's boot). One symbol.  *)
(* A step runs from one await to the next.                                 *)
(***************************************************************************)
EXTENDS Integers, Sequences, FiniteSets

CONSTANTS
    MaxTrades,      \* bound: trades the tenant books
    MaxSessions,    \* bound: session objects built, over all restarts
    Size,           \* quantity of a trade, in lots
    FaultPlans      \* the sets of faults explored

\* crash          the daemon may end while messages are under way
\* bus_drop       the listener's connection breaks: what it carries is lost, and
\*                publishing raises until it is back
\* db_error       a write of the ledger or the read of a pass raises
\* early_command  a command comes before the ledger has subscribed
\* fast_exit      a position closes before its booking is recorded
\* partial_exit   a take-profit leg closes a part of the position
\* mode_change    the tenant changes their mode, which replaces the session
RecoveryFaults == {"crash", "bus_drop", "db_error", "early_command",
                   "fast_exit", "partial_exit", "mode_change"}

ASSUME RecoveryAssumption ==
    /\ MaxTrades \in Nat
    /\ MaxSessions \in Nat \ {0}
    /\ Size \in Nat \ {0}
    /\ FaultPlans \subseteq SUBSET RecoveryFaults

\* A trade's row is found under its position's id. A booking whose position is
\* already gone is logged under another id, the execution's.
Own(t) == 2 * t
Stray(t) == 2 * t + 1
Ids == {Own(t) : t \in 1..MaxTrades} \cup {Stray(t) : t \in 1..MaxTrades}
Builds == 1..MaxSessions

VARIABLES
    faults,     \* what may go wrong in this behaviour
    daemon,     \* how far the daemon has started
    row,        \* the trades table: each id's row
    wire,       \* memory_agent_inbox: published, not handled yet
    linked,     \* the listener's connection stands
    current,    \* the session object in the registry, 0 for none
    engine,     \* each session object's engine and its `rehydrated` flag
    pass,       \* each one's rehydration pass
    booking,    \* evaluate_and_book under way
    exits,      \* closed positions whose update_trade is not published yet
    booked,     \* how many trades have been booked
    left        \* history: what the tenant still has of each id

recoveryVars == <<faults, daemon, row, wire, linked, current, engine, pass,
                  booking, exits, booked, left>>

-----------------------------------------------------------------------------
EmptyEngine == [id |-> 0, quantity |-> 0, legs |-> {}, banked |-> {},
                state |-> "none"]
NoPass == [at |-> "none", open |-> {}, closed |-> {}, id |-> 0]
NoBooking == [at |-> "idle", g |-> 0, t |-> 0, by |-> "none"]

EngineRecords == [id : Ids \cup {0}, quantity : 0..Size,
                  legs : SUBSET (Ids \X {"stop", "target"}),
                  banked : SUBSET Ids, state : {"none", "pending", "ready"}]
PassRecords == [at : {"none", "load", "rows", "targets"}, open : SUBSET Ids,
                closed : SUBSET Ids, id : Ids \cup {0}]
BookingRecords == [at : {"idle", "execute", "record"}, g : 0..MaxSessions,
                   t : 0..MaxTrades, by : {"none", "command", "fan_out"}]
Messages == [type : {"log_trade", "update_trade"}, id : Ids]

RecoveryTypeOK ==
    /\ faults \in FaultPlans
    /\ daemon \in {"down", "boot", "commands", "up"}
    /\ row \in [Ids -> {"none", "open", "closed"}]
    /\ wire \in Seq(Messages)
    /\ linked \in BOOLEAN
    /\ current \in 0..MaxSessions
    /\ engine \in [Builds -> EngineRecords]
    /\ pass \in [Builds -> PassRecords]
    /\ booking \in BookingRecords
    /\ exits \subseteq Builds \X Ids
    /\ booked \in 0..MaxTrades
    /\ left \in [Ids -> 0..Size]

RecoveryInit ==
    /\ faults \in FaultPlans
    /\ daemon = "down"
    /\ row = [i \in Ids |-> "none"]
    /\ wire = <<>>
    /\ linked = TRUE
    /\ current = 0
    /\ engine = [g \in Builds |-> EmptyEngine]
    /\ pass = [g \in Builds |-> NoPass]
    /\ booking = NoBooking
    /\ exits = {}
    /\ booked = 0
    /\ left = [i \in Ids |-> 0]

\* A command may come once user_commands is subscribed, the loops run later.
TakesCommand == daemon = "up" \/ (daemon = "commands" /\ "early_command" \in faults)

Built == {g \in Builds : engine[g].state # "none"}
Desk == IF current = 0 THEN EmptyEngine ELSE engine[current]

\* What an engine record becomes: a position with its legs, a lot less, no position.
Holds(e, id, quantity, kinds) ==
    [e EXCEPT !.id = id, !.quantity = quantity, !.legs = @ \cup ({id} \X kinds)]
OneLotLess(e) == [e EXCEPT !.quantity = @ - 1, !.legs = @ \ {<<e.id, "target">>}]
Flattened(e) == [e EXCEPT !.id = 0, !.quantity = 0, !.legs = {}, !.banked = @ \cup {e.id}]

\* A pass's end, and its record while it restores a row.
Freed(e, closed) == [e EXCEPT !.banked = closed, !.state = "ready"]
Restoring(p, id) == [p EXCEPT !.at = "targets", !.id = id, !.open = @ \ {id}]

\* publish: lost when nobody has subscribed, raises when the link is down.
Published(message) ==
    wire' = IF linked /\ daemon = "up" THEN Append(wire, message) ELSE wire

-----------------------------------------------------------------------------
(* The daemon's life. *)

\* UserRegistry.session with the rehydration hook: the new session is marked
\* pending at once, and its pass is scheduled.
Materialize(g) ==
    /\ current' = g
    /\ engine' = [engine EXCEPT ![g].state = "pending"]
    /\ pass' = [pass EXCEPT ![g].at = "load"]

NextBuild == Cardinality(Built) + 1

\* start(): infrastructure, the registry, then _rehydrate_engines.
Boot ==
    /\ daemon = "down"
    /\ NextBuild \in Builds
    /\ daemon' = "boot"
    /\ linked' = TRUE
    /\ Materialize(NextBuild)
    /\ UNCHANGED <<faults, row, wire, booking, exits, booked, left>>

\* The boot pass has come to its end, well or badly: user_commands is subscribed.
SubscribeCommands ==
    /\ daemon = "boot"
    /\ pass[current].at = "none"
    /\ daemon' = "commands"
    /\ UNCHANGED <<faults, row, wire, linked, current, engine, pass, booking,
                   exits, booked, left>>

\* initialize_agents: the ledger subscribes, then the loops are started.
SubscribeLedger ==
    /\ daemon = "commands"
    /\ "early_command" \in faults \/ booking = NoBooking
    /\ daemon' = "up"
    /\ UNCHANGED <<faults, row, wire, linked, current, engine, pass, booking,
                   exits, booked, left>>

\* The process ends: the engines, the tasks and what is on the wire are gone.
\* Without the fault it ends once all has been delivered.
Crash ==
    /\ daemon # "down"
    /\ "crash" \in faults \/ (wire = <<>> /\ exits = {} /\ booking = NoBooking)
    /\ daemon' = "down"
    /\ wire' = <<>>
    /\ current' = 0
    /\ engine' = [g \in Builds |-> [EmptyEngine EXCEPT !.state = engine[g].state]]
    /\ pass' = [g \in Builds |-> NoPass]
    /\ booking' = NoBooking
    /\ exits' = {}
    /\ UNCHANGED <<faults, row, linked, booked, left>>

\* A lookup after the mode has changed: a new session takes the place of the old
\* one, which the tasks that hold it go on using.
ChangeMode ==
    /\ "mode_change" \in faults
    /\ daemon = "up"
    /\ NextBuild \in Builds
    /\ Materialize(NextBuild)
    /\ UNCHANGED <<faults, daemon, row, wire, linked, booking, exits, booked, left>>

-----------------------------------------------------------------------------
(* The bus and the ledger. *)

\* The connection ends: disconnect() drops both handles.
BusDrops ==
    /\ "bus_drop" \in faults
    /\ linked /\ daemon = "up"
    /\ linked' = FALSE
    /\ wire' = <<>>
    /\ UNCHANGED <<faults, daemon, row, current, engine, pass, booking, exits,
                   booked, left>>

\* The listen loop reconnects and subscribes to its channels again.
BusReturns ==
    /\ ~linked /\ daemon # "down"
    /\ linked' = TRUE
    /\ UNCHANGED <<faults, daemon, row, wire, current, engine, pass, booking,
                   exits, booked, left>>

\* A second row with the same id is refused (the column is unique).
StoreTrade(id) ==
    row' = [row EXCEPT ![id] = IF @ = "none" THEN "open" ELSE @]

\* Mutant: an exit is recorded and the row's exit_time left empty.
ForgetsExit(id) == UNCHANGED row

\* An id without a row is refused: the exit is lost.
UpdateTradeExit(id) ==
    row' = [row EXCEPT ![id] = IF @ = "none" THEN @ ELSE "closed"]

Persist(m) ==
    \/ m.type = "log_trade" /\ StoreTrade(m.id)
    \/ m.type = "update_trade" /\ UpdateTradeExit(m.id)

\* handle: never raises, so what cannot be written is dropped. The listener
\* takes one message at a time, and a user command is one of them.
LedgerHandle ==
    /\ daemon = "up" /\ wire # <<>>
    /\ booking.by # "command"
    /\ wire' = Tail(wire)
    /\ \/ Persist(Head(wire))
       \/ "db_error" \in faults /\ UNCHANGED row
    /\ UNCHANGED <<faults, daemon, linked, current, engine, pass, booking, exits,
                   booked, left>>

-----------------------------------------------------------------------------
(* Booking: evaluate_and_book, from a command or from the fan-out. *)

\* The gate and the risk check pass: the session awaits its execution.
BookBegin(by) ==
    /\ booking = NoBooking
    /\ current # 0 /\ Desk.state = "ready"
    /\ booked < MaxTrades
    /\ Desk.id = 0
    /\ IF by = "command" THEN TakesCommand ELSE daemon = "up"
    /\ booking' = [at |-> "execute", g |-> current, t |-> booked + 1, by |-> by]
    /\ UNCHANGED <<faults, daemon, row, wire, linked, current, engine, pass,
                   exits, booked, left>>

\* The bracket rests in the engine of the session that began.
BookFill ==
    LET g == booking.g
        id == Own(booking.t)
    IN /\ booking.at = "execute"
       /\ booking' = [booking EXCEPT !.at = "record"]
       /\ booked' = booking.t
       /\ engine' = [engine EXCEPT ![g] = Holds(@, id, Size, {"stop", "target"})]
       /\ left' = [left EXCEPT ![id] = Size]
       /\ UNCHANGED <<faults, daemon, row, wire, linked, current, pass, exits>>

\* _record_booking reads the position again and takes its id.
BookedId(g, t) == IF engine[g].id = Own(t) THEN Own(t) ELSE Stray(t)

\* _record_booking: best effort, a publication that raises is only logged.
BookRecord ==
    /\ booking.at = "record"
    /\ Published([type |-> "log_trade", id |-> BookedId(booking.g, booking.t)])
    /\ booking' = NoBooking
    /\ UNCHANGED <<faults, daemon, row, linked, current, engine, pass, exits,
                   booked, left>>

-----------------------------------------------------------------------------
(* Exits: a leg the price crossed, a close command, the monitor. *)

\* A take-profit leg closes one lot: no message, the position is still there.
PartialExit ==
    LET id == Desk.id
    IN /\ "partial_exit" \in faults
       /\ daemon = "up" /\ current # 0
       /\ <<id, "target">> \in Desk.legs /\ Desk.quantity > 1
       /\ engine' = [engine EXCEPT ![current] = OneLotLess(@)]
       /\ left' = [left EXCEPT ![id] = IF @ > 1 THEN @ - 1 ELSE @]
       /\ UNCHANGED <<faults, daemon, row, wire, linked, current, pass, booking,
                      exits, booked>>

\* The position closes and is deleted from the engine, its legs are swept, its
\* result is in the balance; the publication is still to come.
Exit ==
    LET id == Desk.id
    IN /\ TakesCommand
       /\ id # 0
       /\ "fast_exit" \in faults \/ booking.at # "record"
       /\ engine' = [engine EXCEPT ![current] = Flattened(@)]
       /\ left' = [left EXCEPT ![id] = 0]
       /\ exits' = exits \cup {<<current, id>>}
       /\ UNCHANGED <<faults, daemon, row, wire, linked, current, pass, booking,
                      booked>>

PublishExit(e) ==
    /\ e \in exits
    /\ Published([type |-> "update_trade", id |-> e[2]])
    /\ exits' = exits \ {e}
    /\ UNCHANGED <<faults, daemon, row, linked, current, engine, pass, booking,
                   booked, left>>

-----------------------------------------------------------------------------
(* The rehydration pass of one session: load_trades, then rehydrate_engine. *)

LiveRows == {i \in Ids : row[i] = "open"}

\* load_trades in a thread. A failed read leaves the session blocked.
PassLoad(g) ==
    /\ pass[g].at = "load"
    /\ \/ pass' = [pass EXCEPT ![g] = [at |-> "rows", open |-> LiveRows,
                        closed |-> {i \in Ids : row[i] = "closed"}, id |-> 0]]
       \/ "db_error" \in faults /\ pass' = [pass EXCEPT ![g] = NoPass]
    /\ UNCHANGED <<faults, daemon, row, wire, linked, current, engine, booking,
                   exits, booked, left>>

OldestOf(ids) == CHOOSE i \in ids : \A j \in ids : i <= j

\* Mutant: a row adds to the position that an older row has restored.
PassRowAdds(g) ==
    LET id == OldestOf(pass[g].open)
    IN /\ pass[g].at = "rows" /\ pass[g].open # {}
       /\ engine' = [engine EXCEPT ![g] = Holds(@, id, engine[g].quantity + Size, {"stop"})]
       /\ pass' = [pass EXCEPT ![g] = Restoring(@, id)]
       /\ UNCHANGED <<faults, daemon, row, wire, linked, current, booking, exits,
                      booked, left>>

\* One row, oldest first: the position at the row's whole quantity, in the place
\* of one restored before it, and its stop, whose placing is awaited.
PassRow(g) ==
    LET id == OldestOf(pass[g].open)
    IN /\ pass[g].at = "rows" /\ pass[g].open # {}
       /\ engine' = [engine EXCEPT ![g] = Holds(@, id, Size, {"stop"})]
       /\ pass' = [pass EXCEPT ![g] = Restoring(@, id)]
       /\ UNCHANGED <<faults, daemon, row, wire, linked, current, booking, exits,
                      booked, left>>

PassTargets(g) ==
    /\ pass[g].at = "targets"
    /\ engine' = [engine EXCEPT ![g].legs = @ \cup {<<pass[g].id, "target">>}]
    /\ pass' = [pass EXCEPT ![g].at = "rows"]
    /\ UNCHANGED <<faults, daemon, row, wire, linked, current, booking, exits,
                   booked, left>>

\* The balance is set from the closed rows as they were read, and the session
\* may book.
PassEnd(g) ==
    /\ pass[g].at = "rows" /\ pass[g].open = {}
    /\ engine' = [engine EXCEPT ![g] = Freed(@, pass[g].closed)]
    /\ pass' = [pass EXCEPT ![g] = NoPass]
    /\ UNCHANGED <<faults, daemon, row, wire, linked, current, booking, exits,
                   booked, left>>

-----------------------------------------------------------------------------
Pass(g) == PassLoad(g) \/ PassRow(g) \/ PassTargets(g) \/ PassEnd(g)

RecoveryNext ==
    \/ Boot \/ SubscribeCommands \/ SubscribeLedger \/ Crash \/ ChangeMode
    \/ BusDrops \/ BusReturns \/ LedgerHandle
    \/ \E by \in {"command", "fan_out"} : BookBegin(by)
    \/ BookFill \/ BookRecord
    \/ PartialExit \/ Exit
    \/ \E e \in exits : PublishExit(e)
    \/ \E g \in Builds : Pass(g)

RecoverySpec == RecoveryInit /\ [][RecoveryNext]_recoveryVars

\* The tasks of the event loop go on, the listener reconnects.
RecoveryFairness ==
    /\ WF_recoveryVars(Boot \/ SubscribeCommands \/ SubscribeLedger)
    /\ \A g \in Builds : WF_recoveryVars(Pass(g))

RecoveryFairSpec == RecoverySpec /\ RecoveryFairness

-----------------------------------------------------------------------------
Without(kinds) == faults \cap kinds = {}

\* Nothing is under way: what was published is handled, no pass, no booking.
Settled ==
    /\ daemon = "up" /\ Desk.state = "ready"
    /\ booking = NoBooking /\ exits = {} /\ wire = <<>>
    /\ \A g \in Builds : pass[g] = NoPass

StillOpen == {i \in Ids : left[i] > 0}
OverWith == {Own(t) : t \in 1..booked} \ StillOpen

\* A restart neither loses an open position nor brings back a closed one, and the
\* rows say the same (rehydration.py: "the persisted `trades` rows are the source
\* of truth"), if the daemon ends with nothing under way and no message was lost.
DeskSurvives ==
    Settled /\ Without(RecoveryFaults \ {"partial_exit"}) =>
        /\ StillOpen = IF Desk.id = 0 THEN {} ELSE {Desk.id}
        /\ LiveRows = StillOpen

\* A restored position has the quantity it had (the row keeps the entry's).
QuantitySurvives ==
    Settled /\ Without(RecoveryFaults) /\ Desk.id # 0 =>
        Desk.quantity = left[Desk.id]

\* The balance has the result of every trade that is over, once, whether it was
\* closed by this process or read from the rows (rehydrate_engine sets it).
BalanceSurvives ==
    Settled /\ Without(RecoveryFaults) => Desk.banked = OverWith

\* What rests belongs to the position that is held: a leg of another trade would
\* close or turn it. Holds over restarts if nothing is lost on the way.
LegsFitPosition ==
    Settled /\ Without({"crash", "bus_drop", "db_error", "early_command", "fast_exit",
                        "mode_change"}) =>
        \A l \in Desk.legs : l[1] = Desk.id

\* A position is never without its stop, whatever was lost on the way: neither
\* after its booking nor at any point of a pass (rehydration.py: "the one order
\* that must never be missing on a restored position").
RestoredWithStop ==
    \A g \in Builds : engine[g].id # 0 => <<engine[g].id, "stop">> \in engine[g].legs

\* No booking runs in an engine whose pass has not come to its end.
BlockedUntilRestored ==
    booking # NoBooking => pass[booking.g] = NoPass

\* A pending session is freed: its rows are read and its engine rebuilt, unless
\* reading them fails or the daemon ends.
PendingIsFreed ==
    Without({"db_error"}) =>
        \A g \in Builds :
            (current = g /\ Desk.state = "pending")
                ~> (current # g \/ Desk.state = "ready")

\* What the tenant's desk is after any number of restarts (rehydration.py and
\* trade_ledger.py): the parts above, each under the faults it can bear.
RestartRestores ==
    /\ DeskSurvives /\ QuantitySurvives /\ BalanceSurvives
    /\ LegsFitPosition /\ RestoredWithStop /\ BlockedUntilRestored

=============================================================================
