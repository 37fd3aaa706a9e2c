--------------------------- MODULE ExecutionDesk ---------------------------
(***************************************************************************)
(* The single-tenant execution agent: ExecutionAgent with its OrderManager,*)
(* OrderTracker, PositionMonitor, PendingTradesQueue, EmergencyExit and    *)
(* circuit breaker, and the exchange they trade on.  One agent, one symbol.*)
(*                                                                         *)
(* An order is a pair <<execution, leg>>.  The agent's message loop handles*)
(* one message at a time (`handler'); beside it run the exchange, the      *)
(* tracker's WebSocket and polling loops, the OCO callback, the position   *)
(* monitor loop and the pending trades loop.                               *)
(***************************************************************************)
EXTENDS Integers, Sequences, FiniteSets

CONSTANTS
    MaxExecutions,      \* execute_trade messages that get as far as an execution
    MaxMessages,    \* messages the inbox receives
    FailureThreshold,
    FaultPlans      \* the sets of faults a behaviour may be exposed to

ASSUME DeskAssumption ==
    /\ MaxExecutions \in Nat \ {0}
    /\ MaxMessages \in Nat
    /\ FailureThreshold \in Nat \ {0}
    /\ FaultPlans \subseteq SUBSET
         {"net_error",      \* a placement raises, nothing was placed
          "lost_reply",     \* a placement raises after the exchange took it
          "close_error",    \* close_position raises
          "cancel_fails",   \* cancel_order answers False
          "ws_down",        \* the WebSocket misses events
          "fast_fill",      \* a leg fills while its siblings are being placed
          "patient",        \* the price asks for a LIMIT entry
          "paper"}          \* not a fault: the agent runs in paper mode

Targets == {"tp0", "tp1"}
Legs    == {"entry", "stop"} \cup Targets
Executions  == 1..MaxExecutions
Orders  == Executions \X Legs
Size    == 2    \* a position's quantity, one unit for each target
NoPending == [trade |-> 0, confidence |-> 0, expired |-> FALSE]
NoRead    == [order |-> <<0, "entry">>, seen |-> "none"]

VARIABLES
    faults, mode,
    inbox,          \* the agent's message queue
    sent,           \* messages sent so far
    handler,        \* where the message loop is, and on which execution
    book,           \* the exchange: each order's status
    position,       \* the exchange: what is held
    held,           \* orders the agent's execution records hold
    status,         \* each execution's status
    monitored,      \* PositionMonitor.positions: execution ids, 0 the engine's own
    pending,        \* PendingTradesQueue's trade for the symbol
    tracked,        \* OrderTracker.tracked_orders: the status last seen
    emitted,        \* fills the tracker has emitted (_emitted_events)
    notified,       \* how often each order's fill callbacks have run
    feed,           \* WebSocket events not yet delivered
    poll,           \* the polling loop's answer in flight
    oco,            \* legs the OCO callback still has to cancel
    breaker         \* the circuit breaker's state and failure count

serviceVars   == <<inbox, sent, handler, held, status, monitored, pending, breaker>>
trackerVars == <<tracked, emitted, notified, poll, oco>>
deskVars == <<faults, mode, book, position, feed, serviceVars, trackerVars>>

Rest      == [at |-> "idle", trade |-> 0, patient |-> FALSE, confidence |-> 0]
At(place) == [handler EXCEPT !.at = place]
HandlerTrade == handler.trade
LiveMode      == mode = "live"

DeskTypeOK ==
    /\ faults \in FaultPlans
    /\ mode \in {"live", "paper"}
    /\ inbox \in Seq({"trade", "panic", "close"})
    /\ sent \in 0..MaxMessages
    /\ handler \in [at : {"idle", "entry", "wait", "stop", "targets", "finish",
                          "rollback", "failed", "panic"},
                    trade : 0..MaxExecutions, patient : BOOLEAN, confidence : 0..2]
    /\ book \in [Orders -> {"none", "new", "filled", "canceled"}]
    /\ position \in Nat
    /\ held \subseteq Orders
    /\ status \in [Executions -> {"none", "pending", "active", "failed", "timeout"}]
    /\ monitored \subseteq 0..MaxExecutions
    /\ pending \in [trade : 0..MaxExecutions, confidence : 0..2, expired : BOOLEAN]
    /\ tracked \in [Orders -> {"no", "new", "filled"}]
    /\ emitted \subseteq Orders
    /\ notified \in [Orders -> Nat]
    /\ feed \subseteq Orders
    /\ poll.order \in Orders \cup {NoRead.order}
    /\ oco \subseteq Orders
    /\ breaker \in [state : {"closed", "open", "half_open"}, failures : Nat, calls : 0..3]

DeskInit ==
    /\ faults \in FaultPlans
    /\ mode = IF "paper" \in faults THEN "paper" ELSE "live"
    /\ inbox = <<>> /\ sent = 0
    /\ handler = Rest
    /\ book = [o \in Orders |-> "none"]
    /\ position = 0
    /\ held = {}
    /\ status = [t \in Executions |-> "none"]
    /\ monitored = {}
    /\ pending = NoPending
    /\ tracked = [o \in Orders |-> "no"]
    /\ emitted = {}
    /\ notified = [o \in Orders |-> 0]
    /\ feed = {}
    /\ poll = NoRead
    /\ oco = {}
    /\ breaker = [state |-> "closed", failures |-> 0, calls |-> 0]

-----------------------------------------------------------------------------
(* The exchange. *)

Resting(o) == book[o] = "new"
Least(a, b) == IF a < b THEN a ELSE b
LegsOf(t, legs) == {<<t, l>> : l \in legs}

\* Terminal events go to the user-data stream of a live account, one for each
\* order and in no particular order; a stream that is down loses them.
Pushes(os) ==
    IF ~LiveMode THEN {feed}
    ELSE {feed \cup os} \cup IF "ws_down" \in faults THEN {feed} ELSE {}

\* Orders os leave the book.
Cancelled(os) == [o \in Orders |-> IF o \in os /\ Resting(o) THEN "canceled" ELSE book[o]]
Quantity(leg) == IF leg \in Targets THEN 1 ELSE Size

Placing == handler.at \in {"stop", "targets", "finish", "rollback"}

FillLeg(o) ==
    /\ Resting(o)
    /\ o[2] # "entry" => position > 0
    /\ (o[2] # "entry" /\ o[1] = HandlerTrade /\ Placing) => "fast_fill" \in faults
    /\ book' = [book EXCEPT ![o] = "filled"]
    /\ position' = IF o[2] = "entry" THEN position + Size
                   ELSE position - Least(Quantity(o[2]), position)
    /\ \E f \in Pushes({o}) : feed' = f
    /\ UNCHANGED <<faults, mode, serviceVars, trackerVars>>

\* close_position: a reduce-only market order.
FullyClosed(quantity) == position - Least(quantity, position)

-----------------------------------------------------------------------------
(* The tracker. *)

\* _on_leg_fill_oco: the siblings to cancel when o has filled.
Siblings(o) ==
    LET t == o[1]
        targets == held \cap LegsOf(t, Targets)
    IN IF o \notin held THEN {}
       ELSE CASE o[2] = "stop" -> targets
              [] o[2] \in Targets /\ Cardinality(targets) = 1 ->
                   held \cap {<<t, "stop">>}
              [] OTHER -> {}

\* _dispatch_order_event for a terminal status: callbacks at most once, then
\* the order is no longer tracked.
Dispatch(o, seen) ==
    LET fresh == seen = "filled" /\ o \notin emitted
    IN /\ notified' = IF fresh THEN [notified EXCEPT ![o] = @ + 1] ELSE notified
       /\ emitted' = IF fresh THEN emitted \cup {o} ELSE emitted
       /\ oco' = IF fresh THEN oco \cup Siblings(o) ELSE oco
       /\ tracked' = [tracked EXCEPT ![o] = "no"]

\* _ws_consume, _handle_ws_event
WsEvent ==
    /\ \E o \in feed : feed' = feed \ {o} /\ Dispatch(o, book[o])
    /\ UNCHANGED <<faults, mode, book, position, serviceVars, poll>>

\* _poll_orders asks for a tracked order.
PollRead(o) ==
    /\ poll = NoRead
    /\ tracked[o] = "new" /\ poll' = [order |-> o, seen |-> book[o]]
    /\ UNCHANGED <<faults, mode, book, position, feed, serviceVars,
                   tracked, emitted, notified, oco>>

\* The answer is used after the await: an unchanged order is cached again, even
\* if it has been untracked meanwhile.
PollApply ==
    /\ poll # NoRead
    /\ poll' = NoRead
    /\ IF poll.seen = "new"
       THEN /\ tracked' = [tracked EXCEPT ![poll.order] = "new"]
            /\ UNCHANGED <<emitted, notified, oco>>
       ELSE Dispatch(poll.order, poll.seen)
    /\ UNCHANGED <<faults, mode, book, position, feed, serviceVars>>

\* The callback's loop over to_cancel; a cancel that fails is untracked too.
OcoCancel(o) ==
    /\ o \in oco
    /\ oco' = oco \ {o}
    /\ tracked' = [tracked EXCEPT ![o] = "no"]
    /\ \/ /\ book' = Cancelled({o})
          /\ IF Resting(o) THEN \E f \in Pushes({o}) : feed' = f ELSE feed' = feed
       \/ "cancel_fails" \in faults /\ UNCHANGED <<book, feed>>
    /\ UNCHANGED <<faults, mode, position, serviceVars, emitted, notified, poll>>

-----------------------------------------------------------------------------
(* The circuit breaker. *)

Threshold(n) == n >= FailureThreshold
Failed == [breaker EXCEPT !.failures = @ + 1,
                          !.state = IF Threshold(breaker.failures + 1) THEN "open" ELSE @]

\* record_success
Succeeded ==
    CASE breaker.state = "half_open" ->
           IF breaker.calls + 1 >= 3
           THEN [state |-> "closed", failures |-> 0, calls |-> 0]
           ELSE [breaker EXCEPT !.calls = @ + 1]
      [] breaker.state = "closed" -> [breaker EXCEPT !.failures = 0]
      [] OTHER -> breaker

\* can_execute: after the recovery timeout the question itself half-opens it.
Asked ==
    CASE breaker.state = "closed" -> {[may |-> TRUE, breaker |-> breaker]}
      [] breaker.state = "open" ->
           {[may |-> FALSE, breaker |-> breaker],
            [may |-> TRUE, breaker |-> [breaker EXCEPT !.state = "half_open", !.calls = 0]]}
      [] OTHER -> {[may |-> breaker.calls < 3, breaker |-> breaker]}

-----------------------------------------------------------------------------
(* The message loop. *)

\* A message reaches the agent's inbox.
Send(message) ==
    /\ sent < MaxMessages
    /\ sent' = sent + 1
    /\ inbox' = Append(inbox, message)
    /\ UNCHANGED <<faults, mode, handler, book, position, held, status, monitored,
                   pending, feed, breaker, trackerVars>>

Take(message) ==
    /\ handler = Rest
    /\ inbox # <<>> /\ Head(inbox) = message
    /\ inbox' = Tail(inbox)

\* _cancel_pending_trade
CancelPending ==
    LET o == <<pending.trade, "entry">>
        holds == pending.trade # 0 /\ o \in held
    IN /\ pending' = NoPending
       /\ IF holds /\ Resting(o)
          THEN \/ book' = Cancelled({o}) /\ \E f \in Pushes({o}) : feed' = f
               \/ "cancel_fails" \in faults /\ UNCHANGED <<book, feed>>
          ELSE UNCHANGED <<book, feed>>

NextTrade == Cardinality({t \in Executions : status[t] # "none"}) + 1

\* should_replace
ShouldReplace(confidence) ==
    pending = NoPending \/ pending.expired \/ confidence > pending.confidence

\* _handle_execute_trade up to the entry: position check, breaker, MARKET or
\* LIMIT by the price, the pending trade replaced.
StartTrade(confidence) ==
    /\ Take("trade")
    /\ \/ /\ monitored # {}                     \* active_position_exists
          /\ handler' = handler
          /\ UNCHANGED <<book, feed, status, pending, breaker>>
       \/ /\ monitored = {}
          /\ \E asked \in Asked, patient \in BOOLEAN :
               /\ patient => "patient" \in faults
               /\ breaker' = asked.breaker
               /\ IF asked.may /\ (patient => ShouldReplace(confidence)) /\ NextTrade \in Executions
                  THEN /\ handler' = [at |-> "entry", trade |-> NextTrade, patient |-> patient,
                                      confidence |-> IF patient THEN confidence ELSE 0]
                       /\ status' = [status EXCEPT ![NextTrade] = "pending"]
                       /\ CancelPending
                  ELSE UNCHANGED <<handler, book, feed, status, pending>>
    /\ UNCHANGED <<faults, mode, sent, position, held, monitored, trackerVars>>

\* How a placement may end: the agent holds the order or not, the book has it
\* or not, the code goes on or not.
Placements ==
    {[reply |-> TRUE, placed |-> TRUE]}
    \cup (IF "net_error" \in faults THEN {[reply |-> FALSE, placed |-> FALSE]} ELSE {})
    \cup (IF "lost_reply" \in faults THEN {[reply |-> FALSE, placed |-> TRUE]} ELSE {})

\* _place_entry_order: a market order fills at once, a limit order rests.  An
\* entry that raised leaves nothing to roll back: entry_order is still None.
PlaceEntry ==
    /\ handler.at = "entry"
    /\ LET o == <<HandlerTrade, "entry">>
           market == ~handler.patient
       IN \E p \in Placements :
            /\ book' = IF p.placed THEN [book EXCEPT ![o] = IF market THEN "filled" ELSE "new"]
                                   ELSE book
            /\ position' = IF p.placed /\ market THEN position + Size ELSE position
            /\ IF p.placed /\ market THEN \E f \in Pushes({o}) : feed' = f ELSE feed' = feed
            /\ held' = IF p.reply THEN held \cup {o} ELSE held
            /\ handler' = CASE ~p.reply -> At("failed")
                            [] p.reply /\ market -> At("stop")
                            [] OTHER -> At("wait")
    /\ UNCHANGED <<faults, mode, inbox, sent, status, monitored, pending, breaker, trackerVars>>

\* _wait_for_fill sees the limit order filled.
WaitFilled ==
    /\ handler.at = "wait" /\ book[<<HandlerTrade, "entry">>] = "filled"
    /\ handler' = At("stop")
    /\ UNCHANGED <<faults, mode, inbox, sent, book, position, held, status, monitored,
                   pending, feed, breaker, trackerVars>>

\* Mutant: the wait has no end.
WaitEndsNever == handler.at = "wait" /\ UNCHANGED deskVars

\* The question about the order raised: the unfilled entry is cancelled.
WaitFails ==
    /\ handler.at = "wait" /\ "net_error" \in faults
    /\ LET o == <<HandlerTrade, "entry">> IN
         \/ /\ book' = Cancelled({o})
            /\ IF Resting(o) THEN \E f \in Pushes({o}) : feed' = f ELSE feed' = feed
         \/ "cancel_fails" \in faults /\ UNCHANGED <<book, feed>>
    /\ handler' = At("failed")
    /\ UNCHANGED <<faults, mode, inbox, sent, position, held, status, monitored, pending, breaker, trackerVars>>

\* An hour has passed since the last look: the order is cancelled, if it has not
\* filled meanwhile, and the execution is reported as timed out.
WaitEnds ==
    /\ handler.at = "wait"
    /\ LET o == <<HandlerTrade, "entry">> IN
         \/ /\ book' = Cancelled({o})
            /\ IF Resting(o) THEN \E f \in Pushes({o}) : feed' = f ELSE feed' = feed
         \/ "cancel_fails" \in faults /\ UNCHANGED <<book, feed>>
    /\ status' = [status EXCEPT ![HandlerTrade] = "timeout"]
    /\ handler' = At("finish")
    /\ UNCHANGED <<faults, mode, inbox, sent, position, held, monitored, pending, breaker, trackerVars>>

\* _place_stop_loss, then _place_take_profit for each level in order.
PlaceLeg ==
    /\ handler.at \in {"stop", "targets"}
    /\ LET leg == CASE handler.at = "stop" -> "stop"
                    [] handler.at = "targets" /\ <<HandlerTrade, "tp0">> \notin held -> "tp0"
                    [] OTHER -> "tp1"
           o == <<HandlerTrade, leg>>
       IN \E p \in Placements :
            /\ book' = IF p.placed THEN [book EXCEPT ![o] = "new"] ELSE book
            /\ held' = IF p.reply THEN held \cup {o} ELSE held
            /\ handler' = CASE ~p.reply -> At("rollback")
                            [] p.reply /\ leg = "tp1" -> At("finish")
                            [] OTHER -> At("targets")
            /\ status' = IF p.reply /\ leg = "tp1"
                         THEN [status EXCEPT ![HandlerTrade] = "active"] ELSE status
    /\ UNCHANGED <<faults, mode, inbox, sent, position, monitored, pending, feed, breaker, trackerVars>>

\* _rollback_execution: the entry is closed with a reduce-only order, the legs
\* the record holds are cancelled; an error is logged and the rest goes on.
Rollback ==
    /\ handler.at = "rollback"
    /\ handler' = At("failed")
    /\ \/ position' = FullyClosed(Size)
       \/ "close_error" \in faults /\ position' = position
    /\ LET legs == held \cap LegsOf(HandlerTrade, {"stop"} \cup Targets)
           resting == {o \in legs : Resting(o)}
       IN \/ /\ book' = Cancelled(legs)
             /\ IF resting = {} THEN feed' = feed ELSE \E f \in Pushes(resting) : feed' = f
          \/ "cancel_fails" \in faults /\ UNCHANGED <<book, feed>>
    /\ UNCHANGED <<faults, mode, inbox, sent, held, status, monitored, pending, breaker, trackerVars>>

\* What a PATIENT execution leaves behind, whatever its status: a pending trade.
AddPending ==
    pending' = [trade |-> HandlerTrade, confidence |-> handler.confidence, expired |-> FALSE]

\* The execution came back failed.
ReportFailure ==
    /\ handler.at = "failed"
    /\ handler' = Rest
    /\ status' = [status EXCEPT ![HandlerTrade] = "failed"]
    /\ IF handler.patient THEN AddPending /\ breaker' = breaker
       ELSE breaker' = Failed /\ pending' = pending
    /\ UNCHANGED <<faults, mode, inbox, sent, book, position, held, monitored, feed, trackerVars>>

\* Mutant: the position is not handed to the monitor.
FinishUnmonitored ==
    /\ handler.at = "finish" /\ handler' = Rest
    /\ IF handler.patient
       THEN AddPending /\ UNCHANGED <<tracked, breaker>>
       ELSE /\ tracked' = [o \in Orders |-> IF o \in held /\ o[1] = HandlerTrade
                             THEN IF o[2] = "entry" THEN "filled" ELSE "new" ELSE tracked[o]]
            /\ breaker' = Succeeded /\ pending' = pending
    /\ UNCHANGED <<faults, mode, inbox, sent, book, position, held, status, monitored, feed,
                   emitted, notified, poll, oco>>

\* An active MARKET execution is monitored and, live, tracked; a LIMIT one, be
\* it active or timed out, is only queued as pending.
Finish ==
    /\ handler.at = "finish"
    /\ handler' = Rest
    /\ IF handler.patient
       THEN AddPending /\ UNCHANGED <<monitored, tracked, breaker>>
       ELSE /\ monitored' = monitored \cup {HandlerTrade}
            /\ tracked' = IF ~LiveMode THEN tracked
                          ELSE [o \in Orders |->
                                  IF o \in held /\ o[1] = HandlerTrade
                                  THEN IF o[2] = "entry" THEN "filled" ELSE "new"
                                  ELSE tracked[o]]
            /\ breaker' = Succeeded
            /\ pending' = pending
    /\ UNCHANGED <<faults, mode, inbox, sent, book, position, held, status, feed,
                   emitted, notified, poll, oco>>

\* _handle_close_position: _close_one with the quantity the monitor knows.
ClosePosition ==
    /\ Take("close")
    /\ \/ position' = IF monitored = {} THEN position ELSE FullyClosed(Size)
       \/ "close_error" \in faults /\ position' = position
    /\ UNCHANGED <<faults, mode, sent, handler, book, held, status, monitored, pending,
                   feed, breaker, trackerVars>>

\* _handle_panic_close, live: EmergencyExit.cancel_all_orders on the symbol if
\* the tracker knows an active order of it.
PanicCancel ==
    /\ Take("panic")
    /\ handler' = [Rest EXCEPT !.at = "panic"]
    /\ LET resting == {o \in Orders : Resting(o)}
       IN IF LiveMode /\ resting # {} /\ \E o \in Orders : tracked[o] = "new"
          THEN \/ book' = Cancelled(Orders) /\ \E f \in Pushes(resting) : feed' = f
               \/ "cancel_fails" \in faults /\ UNCHANGED <<book, feed>>
          ELSE UNCHANGED <<book, feed>>
    /\ UNCHANGED <<faults, mode, sent, position, held, status, monitored, pending, breaker, trackerVars>>

\* panic_close_all then closes each position the monitor lists; in paper mode
\* _close_all_positions is all there is.
PanicClose ==
    /\ handler.at = "panic"
    /\ handler' = Rest
    /\ \/ position' = FullyClosed(Cardinality(monitored) * Size)
       \/ "close_error" \in faults /\ position' = position
    /\ UNCHANGED <<faults, mode, inbox, sent, book, held, status, monitored, pending,
                   feed, breaker, trackerVars>>

-----------------------------------------------------------------------------
(* The agent's loops. *)

\* Mutant: positions that are gone stay in the monitor.
MonitorTickKeeps ==
    /\ ~LiveMode /\ position > 0
    /\ monitored' = monitored \cup {0} /\ monitored' # monitored
    /\ UNCHANGED <<faults, mode, inbox, sent, handler, book, position, held, status,
                   pending, feed, breaker, trackerVars>>

\* _position_monitor_loop, paper: the monitor takes over the engine's positions
\* under the engine's ids, without their stop.  Live, the loop does nothing.
MonitorTick ==
    /\ ~LiveMode
    /\ monitored' = IF position > 0 THEN {0} ELSE {}
    /\ monitored' # monitored
    /\ UNCHANGED <<faults, mode, inbox, sent, handler, book, position, held, status,
                   pending, feed, breaker, trackerVars>>

\* A pending trade gets an hour old.
Expire ==
    /\ pending # NoPending /\ ~pending.expired
    /\ pending' = [pending EXCEPT !.expired = TRUE]
    /\ UNCHANGED <<faults, mode, inbox, sent, handler, book, position, held, status,
                   monitored, feed, breaker, trackerVars>>

\* _pending_trades_monitor_loop: cleanup_expired has popped the trade before
\* _cancel_pending_trade looks for it, so its order is not cancelled; a filled
\* one is removed.
PendingTick ==
    /\ pending # NoPending
    /\ LET o == <<pending.trade, "entry">>
       IN pending.expired \/ (o \in held /\ book[o] = "filled")
    /\ pending' = NoPending
    /\ UNCHANGED <<faults, mode, inbox, sent, handler, book, position, held, status,
                   monitored, feed, breaker, trackerVars>>

Handle ==
    \/ \E confidence \in 1..2 : StartTrade(confidence)
    \/ PlaceEntry \/ WaitFilled \/ WaitEnds \/ WaitFails \/ PlaceLeg
    \/ Rollback \/ ReportFailure \/ Finish
    \/ ClosePosition \/ PanicCancel \/ PanicClose

DeskNext ==
    \/ Handle
    \/ \E message \in {"trade", "panic", "close"} : Send(message)
    \/ \E o \in Orders : FillLeg(o) \/ OcoCancel(o) \/ PollRead(o)
    \/ WsEvent \/ PollApply
    \/ MonitorTick \/ Expire \/ PendingTick

DeskSpec == DeskInit /\ [][DeskNext]_deskVars

\* The message loop takes the next message, the loops of the tracker, the OCO
\* callback, the monitor and the queue go on, an hour passes.  A poll asks for
\* every tracked order, so a stop's turn comes again and again: strong fairness.
\* Nothing makes the exchange fill an order or a message come.
DeskFairness ==
    /\ WF_deskVars(Handle)
    /\ WF_deskVars(WsEvent)
    /\ WF_deskVars(PollApply)
    /\ \A t \in Executions : SF_deskVars(PollRead(<<t, "stop">>))
    /\ WF_deskVars(\E o \in Orders : OcoCancel(o))
    /\ WF_deskVars(MonitorTick) /\ WF_deskVars(Expire) /\ WF_deskVars(PendingTick)

DeskFairSpec == DeskSpec /\ DeskFairness

-----------------------------------------------------------------------------
(* Properties. *)

Spared(bad) == faults \cap bad = {}

\* order_tracker.py, "so a fill detected on both transports only fires callbacks
\* once": the WebSocket and the poll may both report a fill, in either order,
\* with a poll answer read before and used after the event.
FillNotifiedOnce == \A o \in Orders : notified[o] <= 1

\* Between two messages a position of a MARKET entry has a stop in the book:
\* whatever placement failed, the rollback has closed what it could not protect.
\* (A first target that fills before its sibling is placed looks like the only
\* one, and the OCO callback cancels the stop.)
IdleMeansProtected ==
    (Spared({"lost_reply", "close_error", "fast_fill", "patient"}) /\ handler = Rest /\ position > 0)
        => \E t \in Executions : Resting(<<t, "stop">>)

\* execution_agent.py, "Don't open new trades if one is already active": the
\* check reads the monitor, which lags the exchange.
OnePositionAtATime ==
    Spared({"lost_reply", "close_error", "patient"}) => position <= Size

\* A limit entry rests only while the handler waits for it: when the wait is
\* over the order has filled or has been cancelled, although the pending queue
\* later drops expired trades without cancelling anything.
NoStrayEntry ==
    Spared({"lost_reply", "cancel_fails"}) =>
        \A t \in Executions : Resting(<<t, "entry">>) =>
            handler.trade = t /\ handler.at = "wait"

\* emergency_exit.py, "Close ALL positions immediately": when a live panic close
\* is over nothing is held.  (A LIMIT entry is never handed to the monitor.)
PanicFlattens ==
    [][(handler.at = "panic" /\ handler'.at = "idle" /\ LiveMode
          /\ Spared({"lost_reply", "close_error", "patient"}))
         => position' = 0]_deskVars

\* OCO: once the stop of a live execution has filled, its targets leave the
\* book, whichever transport saw the fill and even when the WebSocket is down.
OrphanTarget ==
    \E t \in Executions : /\ book[<<t, "stop">>] = "filled"
                      /\ \E leg \in Targets : Resting(<<t, leg>>)
OcoClears ==
    (LiveMode /\ Spared({"lost_reply", "cancel_fails", "fast_fill", "patient"}) /\ OrphanTarget)
      ~> ~OrphanTarget

\* The paper monitor forgets a position that is gone, so that the agent, which
\* refuses a trade while it lists one, trades again.
PaperMonitorFollows ==
    (~LiveMode /\ position = 0 /\ monitored # {}) ~> (monitored = {} \/ position > 0)

\* A pending trade leaves the queue, so that it cannot outbid new setups forever.
PendingIsDropped == (pending # NoPending /\ handler = Rest) ~> (pending = NoPending)

\* Every message is served, a panic close behind a limit entry after its hour.
InboxIsServed == (inbox # <<>>) ~> (inbox = <<>>)

\* The single-user desk (execution_agent.py, order_manager.py): what is held is
\* protected and known, and the panic switch closes it.
DeskIsSafe ==
    /\ [](FillNotifiedOnce /\ IdleMeansProtected /\ OnePositionAtATime /\ NoStrayEntry)
    /\ PanicFlattens

\* What the desk began it ends (execution_agent.py): the legs of a closed
\* position, the paper monitor's rows and a pending entry go.
DeskClearsUp == OcoClears /\ PaperMonitorFollows /\ PendingIsDropped

=============================================================================
