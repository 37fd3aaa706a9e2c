-------------------------- MODULE PaperDeskProofs --------------------------
(***************************************************************************)
(* Theorems about PaperDesk, for any number of trades, targets and prices  *)
(* and every interleaving of the three tasks: its type invariant, and that *)
(* an open position has its stop. And, for tasks that do not overlap, that *)
(* a leg fills into the position of its own trade only.                    *)
(***************************************************************************)
EXTENDS PaperDesk, FiniteSetTheorems, TLAPS

-----------------------------------------------------------------------------
(* What the operators yield. *)

\* A closing fill leaves nothing or less of the same position, and nothing if
\* it is for the whole of it.
LEMMA ReduceResult ==
    ASSUME TypeOK, NEW q \in Nat, Reduce(q)
    PROVE  /\ \/ position' = NoPosition
              \/ /\ position' \in [trade : 1..booked, quantity : 1..Size]
                 /\ position # NoPosition
                 /\ position'.trade = position.trade
                 /\ position'.quantity <= position.quantity
           /\ position.quantity <= q => position' = NoPosition
           /\ total_trades' \in Nat
<1>1. CASE position = NoPosition
  BY <1>1 DEF Reduce, TypeOK
<1>2. CASE position # NoPosition
  <2>1. position \in [trade : 1..booked, quantity : 1..Size]
    BY <1>2 DEF TypeOK
  <2>2. total_trades' \in Nat
    BY <1>2 DEF Reduce, TypeOK
  <2>3. CASE position.quantity - q <= Dust
    BY <1>2, <2>2, <2>3 DEF Reduce
  <2>4. CASE ~(position.quantity - q <= Dust)
    <3>1. position' = [position EXCEPT !.quantity = position.quantity - q]
      BY <1>2, <2>4 DEF Reduce
    <3>2. /\ position.quantity \in 1..Size
          /\ position.quantity - q \in 1..Size
          /\ ~(position.quantity <= q)
      BY <2>1, <2>4, DeskAssumption
    <3>3. /\ position' \in [trade : 1..booked, quantity : 1..Size]
          /\ position'.trade = position.trade
          /\ position'.quantity <= position.quantity
      BY <2>1, <3>1, <3>2
    <3> QED BY <1>2, <2>2, <3>2, <3>3
  <2> QED BY <2>3, <2>4
<1> QED BY <1>1, <1>2

LEMMA OpenPosition ==
    ASSUME TypeOK, position # NoPosition
    PROVE  position.trade \in Trades /\ Stop \in Legs /\ position.quantity \in 1..Size
BY DeskAssumption DEF TypeOK, Trades, Legs, Stop

LEMMA MarkedType ==
    ASSUME TypeOK, NEW S, NEW status \in {"open", "filled", "canceled"}
    PROVE  Marked(S, status)
               \in [Trades -> [Legs -> {"none", "open", "filled", "canceled"}]]
BY DEF Marked, TypeOK

LEMMA LegSizeType ==
    ASSUME NEW l \in Legs
    PROVE  LegSize(l) \in 1..Size
BY DeskAssumption DEF LegSize, Legs, Stop

LEMMA OrderParts ==
    ASSUME NEW o \in Orders
    PROVE  o[1] \in Trades /\ o[2] \in Legs /\ o = <<o[1], o[2]>>
BY DEF Orders

LEMMA SnapshotType ==
    ASSUME TypeOK
    PROVE  EngineSnapshot \in Nat \X Nat \X Nat
<1>1. IsFiniteSet(Trades) /\ IsFiniteSet(Legs)
  BY FS_Interval, DeskAssumption DEF Trades, Legs
<1>2. IsFiniteSet(Orders)
  BY <1>1, FS_Product DEF Orders
<1>3. IsFiniteSet(OpenLegs)
  BY <1>2, FS_Subset DEF OpenLegs
<1>4. Cardinality(OpenLegs) \in Nat
  BY <1>3, FS_CardinalityType
<1> QED BY <1>4 DEF EngineSnapshot, TypeOK

-----------------------------------------------------------------------------
(* What a scan of the orders does, from either place it is made from. *)

LEMMA ScanStep ==
    ASSUME TypeOK, NEW S \in SUBSET Orders, NEW p, ScanOn(S, p)
    PROVE  /\ leg' \in [Trades -> [Legs -> {"none", "open", "filled", "canceled"}]]
           /\ \/ position' = NoPosition
              \/ /\ position' \in [trade : 1..booked, quantity : 1..Size]
                 /\ position # NoPosition
                 /\ position'.trade = position.trade
                 /\ position'.quantity <= position.quantity
                 /\ leg'[position.trade][Stop] = leg[position.trade][Stop]
           /\ total_trades' \in Nat
           /\ tick' \in [at : {"idle", "begun", "scan", "scanned"},
                         before : Nat \X Nat \X Nat, todo : SUBSET Orders]
<1> DEFINE hits == {o \in S \cap OpenLegs : Crossed(o, p)}
           Kept == position' # NoPosition =>
                     leg'[position.trade][Stop] = leg[position.trade][Stop]
<1>1. CASE /\ tick' = [tick EXCEPT !.at = "scanned", !.todo = {}]
           /\ UNCHANGED <<leg, position, total_trades>>
  <2>1. tick' \in [at : {"idle", "begun", "scan", "scanned"},
                   before : Nat \X Nat \X Nat, todo : SUBSET Orders]
    BY <1>1 DEF TypeOK
  <2>2. /\ leg' = leg /\ position' = position /\ total_trades' = total_trades
        /\ position = NoPosition \/ position \in [trade : 1..booked, quantity : 1..Size]
        /\ position # NoPosition => position.quantity \in Int
    BY <1>1, DeskAssumption DEF TypeOK
  <2> QED BY <2>1, <2>2 DEF TypeOK
<1>2. CASE \E o \in hits :
            /\ leg' = Marked({o}, "filled")
            /\ Reduce(LegSize(o[2]))
            /\ \E ok \in ReduceEnds :
                 tick' = IF ok
                         THEN [tick EXCEPT !.at = "scan",
                                           !.todo = {x \in S : Before(o, x)}]
                         ELSE RestingTick
  <2>1. PICK o \in hits :
            /\ leg' = Marked({o}, "filled")
            /\ Reduce(LegSize(o[2]))
            /\ \E ok \in ReduceEnds :
                 tick' = IF ok
                         THEN [tick EXCEPT !.at = "scan",
                                           !.todo = {x \in S : Before(o, x)}]
                         ELSE RestingTick
    BY <1>2
  <2>2. o \in Orders /\ o[1] \in Trades /\ o[2] \in Legs /\ o = <<o[1], o[2]>>
    BY OrderParts DEF OpenLegs
  <2>3. LegSize(o[2]) \in Nat
    BY <2>2, LegSizeType, DeskAssumption
  <2>4. leg' \in [Trades -> [Legs -> {"none", "open", "filled", "canceled"}]]
    BY <2>1, MarkedType
  <2>5. tick' \in [at : {"idle", "begun", "scan", "scanned"},
                   before : Nat \X Nat \X Nat, todo : SUBSET Orders]
    <3>1. {x \in S : Before(o, x)} \in SUBSET Orders
      OBVIOUS
    <3>2. CASE tick' = [tick EXCEPT !.at = "scan", !.todo = {x \in S : Before(o, x)}]
      <4> HIDE DEF hits
      <4> QED BY <3>1, <3>2 DEF TypeOK
    <3>3. CASE tick' = RestingTick
      BY <3>3 DEF RestingTick
    <3> QED BY <2>1, <3>2, <3>3
  <2>6. /\ \/ position' = NoPosition
           \/ /\ position' \in [trade : 1..booked, quantity : 1..Size]
              /\ position # NoPosition
              /\ position'.trade = position.trade
              /\ position'.quantity <= position.quantity
        /\ position.quantity <= LegSize(o[2]) => position' = NoPosition
        /\ total_trades' \in Nat
    BY <2>1, <2>3, ReduceResult
  <2>7. Kept
    <3> SUFFICES ASSUME position' # NoPosition
                 PROVE  leg'[position.trade][Stop] = leg[position.trade][Stop]
      OBVIOUS
    <3>1. /\ position.trade \in Trades /\ Stop \in Legs
          /\ position.quantity \in 1..Size
      BY <2>6, DeskAssumption DEF TypeOK, Trades, Legs, Stop
    <3>2. ~(position.quantity <= LegSize(o[2]))
      BY <2>6
    <3>3. o[2] # Stop
      BY <3>1, <3>2, DeskAssumption DEF LegSize
    <3>4. <<position.trade, Stop>> # o
      BY <3>3
    <3>5. leg'[position.trade][Stop]
            = IF <<position.trade, Stop>> \in {o} THEN "filled"
              ELSE leg[position.trade][Stop]
      BY <2>1, <3>1 DEF Marked
    <3> QED BY <3>4, <3>5
  <2> QED BY <2>4, <2>5, <2>6, <2>7
<1> QED BY <1>1, <1>2 DEF ScanOn

-----------------------------------------------------------------------------
(* Types. *)

LEMMA TypeStep ==
    ASSUME TypeOK, [Next]_vars
    PROVE  TypeOK'
<1>1. ASSUME NEW side \in {"LONG", "SHORT"}, NEW entry \in Levels, Book(side, entry)
      PROVE  TypeOK'
  <2> DEFINE t == booked + 1
  <2>1. t \in Trades /\ booked' = t /\ t \in 1..MaxTrades /\ booked \in 0..booked'
    BY <1>1, DeskAssumption DEF Book, Trades, TypeOK
  <2>2. 1..booked \subseteq 1..booked' /\ 0..booked \subseteq 0..booked'
    BY <2>1
  <2>3. bracket' \in [Trades -> [side : {"LONG", "SHORT"}, entry : Levels]]
    BY <1>1, <2>1 DEF Book, TypeOK
  <2>4. /\ position' \in [trade : 1..booked', quantity : 1..Size] \cup {NoPosition}
        /\ total_trades' \in Nat
    <3>1. CASE position = NoPosition
      <4>1. /\ position' = [trade |-> t, quantity |-> Size]
            /\ total_trades' = total_trades
        BY <1>1, <3>1 DEF Book, FillEntry
      <4>2. t \in 1..booked' /\ Size \in 1..Size
        BY <2>1, DeskAssumption
      <4> QED BY <4>1, <4>2 DEF TypeOK
    <3>2. CASE position # NoPosition
      <4>1. Reduce(Size)
        BY <1>1, <3>2 DEF Book, FillEntry
      <4>2. Size \in Nat
        BY DeskAssumption
      <4>3. /\ \/ position' = NoPosition
               \/ position' \in [trade : 1..booked, quantity : 1..Size]
            /\ total_trades' \in Nat
        BY <4>1, <4>2, ReduceResult
      <4> QED BY <2>2, <4>3
    <3> QED BY <3>1, <3>2
  <2>5. desk' \in [at : {"idle", "legs", "close", "cancel"},
                   trade : 0..booked', quantity : 0..Size]
    <3>1. t \in 0..booked' /\ 0 \in 0..booked' /\ 0 \in 0..Size
      BY <2>1, DeskAssumption
    <3>2. desk' = DeskAt("legs", t) \/ desk' = RestingDesk
      BY <1>1 DEF Book
    <3> QED BY <3>1, <3>2 DEF RestingDesk, DeskAt
  <2>6. /\ price' = price /\ leg' = leg /\ tick' = tick /\ monitor' = monitor
        /\ overdue' = overdue /\ deaths' = deaths /\ plan' = plan
    BY <1>1 DEF Book
  <2>7. booked' \in 0..MaxTrades
    BY <2>1
  <2> HIDE DEF t
  <2> QED BY <2>2, <2>3, <2>4, <2>5, <2>6, <2>7 DEF TypeOK
<1>18. ASSUME NEW side \in {"LONG", "SHORT"}, NEW entry \in Levels,
              BookRefused(side, entry)
       PROVE  TypeOK'
  <2> DEFINE t == booked + 1
  <2>1. t \in Trades /\ booked' = t /\ t \in 1..MaxTrades
    BY <1>18, DeskAssumption DEF BookRefused, Trades, TypeOK
  <2>2. 1..booked \subseteq 1..booked' /\ 0..booked \subseteq 0..booked'
    BY <2>1 DEF TypeOK
  <2>3. bracket' \in [Trades -> [side : {"LONG", "SHORT"}, entry : Levels]]
    BY <1>18, <2>1 DEF BookRefused, TypeOK
  <2>4. leg' \in [Trades -> [Legs -> {"none", "open", "filled", "canceled"}]]
    BY <1>18, MarkedType DEF BookRefused
  <2>5. booked' \in 0..MaxTrades
    BY <2>1
  <2>6. /\ price' = price /\ position' = position /\ desk' = desk
        /\ tick' = tick /\ monitor' = monitor /\ overdue' = overdue
        /\ deaths' = deaths /\ total_trades' = total_trades /\ plan' = plan
    BY <1>18 DEF BookRefused
  <2>7. /\ desk' \in [at : {"idle", "legs", "close", "cancel"},
                      trade : 0..booked', quantity : 0..Size]
        /\ position' \in [trade : 1..booked', quantity : 1..Size]
                            \cup {NoPosition}
    BY <2>2, <2>6 DEF TypeOK
  <2> QED BY <2>2, <2>3, <2>4, <2>5, <2>6, <2>7 DEF TypeOK
<1>2. CASE PlaceLegs
  <2>1. leg' \in [Trades -> [Legs -> {"none", "open", "filled", "canceled"}]]
    BY <1>2, MarkedType DEF PlaceLegs
  <2>2. desk' \in [at : {"idle", "legs", "close", "cancel"},
                   trade : 0..booked, quantity : 0..Size]
    BY <1>2, DeskAssumption DEF PlaceLegs, TypeOK, RestingDesk, DeskAt
  <2> QED BY <1>2, <2>1, <2>2 DEF PlaceLegs, TypeOK
<1>3. CASE ReadPosition
  <2>1. position.quantity \in 0..Size /\ 0 \in 0..booked
    BY <1>3, DeskAssumption DEF ReadPosition, TypeOK
  <2> QED BY <1>3, <2>1 DEF ReadPosition, TypeOK
<1>17. CASE ClosePosition
  <2>1. desk.quantity \in Nat /\ Reduce(desk.quantity)
    BY <1>17, DeskAssumption DEF ClosePosition, TypeOK
  <2>2. /\ position' \in [trade : 1..booked, quantity : 1..Size] \cup {NoPosition}
        /\ total_trades' \in Nat
    BY <2>1, ReduceResult
  <2>3. desk' \in [at : {"idle", "legs", "close", "cancel"},
                   trade : 0..booked, quantity : 0..Size]
    BY <1>17, DeskAssumption DEF ClosePosition, RestingDesk, DeskAt, TypeOK
  <2> QED BY <1>17, <2>2, <2>3 DEF ClosePosition, TypeOK
<1>4. CASE CancelLegs
  <2>1. leg' \in [Trades -> [Legs -> {"none", "open", "filled", "canceled"}]]
    BY <1>4, MarkedType DEF CancelLegs
  <2>2. desk' \in [at : {"idle", "legs", "close", "cancel"},
                   trade : 0..booked, quantity : 0..Size]
    BY <1>4, DeskAssumption DEF CancelLegs, TypeOK, RestingDesk, DeskAt
  <2> QED BY <1>4, <2>1, <2>2 DEF CancelLegs, TypeOK
<1>5. ASSUME NEW o \in Orders, CancelOrder(o)
      PROVE  TypeOK'
  <2>1. leg' \in [Trades -> [Legs -> {"none", "open", "filled", "canceled"}]]
    BY <1>5, MarkedType DEF CancelOrder
  <2> QED BY <1>5, <2>1 DEF CancelOrder, TypeOK
<1>6. CASE TickBegin
  <2>1. tick' \in [at : {"idle", "begun", "scan", "scanned"},
                   before : Nat \X Nat \X Nat, todo : SUBSET Orders]
    BY <1>6, SnapshotType DEF TickBegin
  <2> QED BY <1>6, <2>1 DEF TickBegin, TypeOK
<1>7. ASSUME NEW p \in Levels, TickScan(p)
      PROVE  TypeOK'
  <2>1. OpenLegs \in SUBSET Orders /\ ScanOn(OpenLegs, p)
    BY <1>7 DEF TickScan, OpenLegs
  <2> QED BY <1>7, <2>1, ScanStep DEF TickScan, TypeOK
<1>8. CASE TickGoOn
  <2>1. tick.todo \in SUBSET Orders /\ ScanOn(tick.todo, price)
    BY <1>8 DEF TickGoOn, TypeOK
  <2> QED BY <1>8, <2>1, ScanStep DEF TickGoOn, TypeOK
<1>9. CASE TickSweep
  <2>1. leg' \in [Trades -> [Legs -> {"none", "open", "filled", "canceled"}]]
    BY <1>9, MarkedType DEF TickSweep, TypeOK
  <2> QED BY <1>9, <2>1 DEF TickSweep, TypeOK, RestingTick
<1>10. CASE HoldLimit
  BY <1>10 DEF HoldLimit, TypeOK
<1>11. CASE Supervise
  BY <1>11, DeskAssumption DEF Supervise, TypeOK, NoMonitor, MonitorAt
<1>12. CASE CheckClosed
  BY <1>12, DeskAssumption DEF CheckClosed, TypeOK, NoMonitor, MonitorAt
<1>13. CASE Decide
  BY <1>13, DeskAssumption DEF Decide, TypeOK
<1>14. CASE MonitorExit
  <2>1. monitor.quantity \in Nat /\ Reduce(monitor.quantity)
    BY <1>14, DeskAssumption DEF MonitorExit, TypeOK
  <2>2. /\ position' \in [trade : 1..booked, quantity : 1..Size] \cup {NoPosition}
        /\ total_trades' \in Nat
    BY <2>1, ReduceResult
  <2> QED BY <1>14, <2>2, DeskAssumption DEF MonitorExit, TypeOK, NoMonitor, MonitorAt
<1>15. CASE MonitorDies
  BY <1>15, DeskAssumption DEF MonitorDies, TypeOK, NoMonitor, MonitorAt
<1>16. CASE UNCHANGED vars
  BY <1>16 DEF vars, TypeOK
<1> QED
  BY <1>1, <1>2, <1>3, <1>4, <1>5, <1>6, <1>7, <1>8, <1>9, <1>10, <1>11,
     <1>12, <1>13, <1>14, <1>15, <1>16, <1>17,
     <1>18
     DEF Next, Commands, Ticks, Monitors, CheckOverdue, CheckEarly

\* Whatever fails, cancels, dies or overlaps: a position is of a trade that was
\* booked and holds some of it, never nothing or less.
THEOREM DeskTypeInvariant == Spec => []TypeOK
<1>1. Init => TypeOK
  <2> SUFFICES ASSUME Init PROVE TypeOK
    OBVIOUS
  <2>1. bracket \in [Trades -> [side : {"LONG", "SHORT"}, entry : Levels]]
    BY DEF Init
  <2>2. leg \in [Trades -> [Legs -> {"none", "open", "filled", "canceled"}]]
    BY DEF Init
  <2> QED
    BY <2>1, <2>2, DeskAssumption
       DEF Init, TypeOK, RestingDesk, DeskAt, RestingTick, NoMonitor, MonitorAt
<1> QED BY <1>1, TypeStep, PTL DEF Spec

-----------------------------------------------------------------------------
(* An open position has its stop. *)

\* While the command handler is between a close and the cancelling of its legs,
\* no position can appear: only the command handler opens one.
ClosedWhileCanceling == desk.at = "cancel" => position = NoPosition

\* What a close read covers what is left when it fills.
CloseCovers ==
    desk.at = "close" =>
        position = NoPosition \/ position.quantity <= desk.quantity

DeskInv == StopRests /\ ClosedWhileCanceling /\ CloseCovers

\* Steps that open no position, keep the open one's stop, and leave the command
\* handler where it is, or at rest with the position's legs placed.
LEMMA KeptStop ==
    ASSUME TypeOK, TypeOK', DeskInv, desk' = desk,
           \/ position' = NoPosition
           \/ /\ position # NoPosition
              /\ position'.trade = position.trade
              /\ position'.quantity <= position.quantity
              /\ leg'[position.trade][Stop] = leg[position.trade][Stop]
    PROVE  DeskInv'
<1>1. CASE position' = NoPosition
  BY <1>1 DEF DeskInv, StopRests, ClosedWhileCanceling, CloseCovers
<1>2. CASE position' # NoPosition
  <2>1. /\ position.quantity \in Int /\ position'.quantity \in Int
        /\ desk.quantity \in Int
    BY <1>2, DeskAssumption DEF TypeOK
  <2> QED
    BY <1>2, <2>1 DEF DeskInv, StopRests, ClosedWhileCanceling, CloseCovers, DeskAt
<1> QED BY <1>1, <1>2

LEMMA ProtectedStep ==
    ASSUME Careful, TypeOK, TypeOK', DeskInv, [Next]_vars
    PROVE  DeskInv'
<1> USE DEF DeskInv, StopRests, ClosedWhileCanceling, CloseCovers, DeskAt
<1>1. ASSUME NEW side \in {"LONG", "SHORT"}, NEW entry \in Levels, Book(side, entry)
      PROVE  DeskInv'
  <2>1. /\ desk = RestingDesk /\ leg' = leg
        /\ desk' = DeskAt("legs", booked + 1)
    BY <1>1 DEF Book, DeskRests, Careful, Published
  <2>2. CASE position = NoPosition
    <3>1. position' = [trade |-> booked + 1, quantity |-> Size]
      BY <1>1, <2>2 DEF Book, FillEntry
    <3> QED BY <2>1, <3>1
  <2>3. CASE position # NoPosition
    <3>1. Reduce(Size) /\ Size \in Nat
      BY <1>1, <2>3, DeskAssumption DEF Book, FillEntry
    <3>2. position' = NoPosition \/ position'.trade = position.trade
      BY <3>1, ReduceResult
    <3>3. leg[position.trade][Stop] = "open"
      BY <2>1, <2>3 DEF RestingDesk
    <3> QED BY <2>1, <3>2, <3>3
  <2> QED BY <2>2, <2>3
<1>12. ASSUME NEW side \in {"LONG", "SHORT"}, NEW entry \in Levels,
              BookRefused(side, entry)
       PROVE  DeskInv'
  <2>1. /\ position' = position /\ desk' = desk
        /\ leg' = Marked({booked + 1} \X Legs, "open")
    BY <1>12 DEF BookRefused
  <2>2. CASE position = NoPosition
    BY <2>1, <2>2
  <2>3. CASE position # NoPosition
    <3>1. /\ position.trade \in Trades /\ Stop \in Legs
          /\ desk = RestingDesk
      BY <1>12, <2>3, OpenPosition DEF BookRefused, DeskRests
    <3>2. leg'[position.trade][Stop]
            = IF <<position.trade, Stop>> \in {booked + 1} \X Legs THEN "open"
              ELSE leg[position.trade][Stop]
      BY <2>1, <3>1 DEF Marked
    <3>3. leg'[position.trade][Stop] = "open"
      BY <2>3, <3>1, <3>2 DEF RestingDesk
    <3> QED BY <2>1, <3>1, <3>3 DEF RestingDesk
  <2> QED BY <2>2, <2>3
<1>2. CASE PlaceLegs
  <2>1. /\ position' = position /\ desk' = RestingDesk
        /\ leg' = Marked({desk.trade} \X Legs, "open")
    BY <1>2 DEF PlaceLegs
  <2>2. CASE position = NoPosition
    BY <2>1, <2>2
  <2>3. CASE position # NoPosition
    <3>1. position.trade \in Trades /\ Stop \in Legs
      BY <2>3, OpenPosition
    <3>2. leg'[position.trade][Stop]
            = IF <<position.trade, Stop>> \in {desk.trade} \X Legs THEN "open"
              ELSE leg[position.trade][Stop]
      BY <2>1, <3>1 DEF Marked
    <3>3. leg[position.trade][Stop] = "open" \/ desk.trade = position.trade
      BY <2>3
    <3>4. leg'[position.trade][Stop] = "open"
      BY <3>1, <3>2, <3>3
    <3> QED BY <2>1, <3>4 DEF RestingDesk
  <2> QED BY <2>2, <2>3
<1>3. CASE ReadPosition
  <2>1. position.quantity \in Int /\ position.quantity <= position.quantity
    BY <1>3, DeskAssumption DEF ReadPosition, TypeOK
  <2> QED BY <1>3, <2>1 DEF ReadPosition, DeskRests, RestingDesk
<1>11. CASE ClosePosition
  <2>1. desk.quantity \in Nat /\ Reduce(desk.quantity) /\ desk.at = "close"
    BY <1>11, DeskAssumption DEF ClosePosition, TypeOK
  <2>2. position' = NoPosition
    <3>1. CASE position = NoPosition
      BY <2>1, <3>1, ReduceResult
    <3>2. CASE position.quantity <= desk.quantity
      BY <2>1, <3>2, ReduceResult
    <3> QED BY <2>1, <3>1, <3>2
  <2>3. desk' = DeskAt("cancel", 0) \/ desk' = RestingDesk
    BY <1>11 DEF ClosePosition
  <2> QED BY <2>2, <2>3 DEF RestingDesk
<1>4. CASE CancelLegs
  BY <1>4 DEF CancelLegs
<1>5. ASSUME NEW o \in Orders, CancelOrder(o)
      PROVE  DeskInv'
  <2>1. /\ position' = position /\ desk' = desk /\ o[2] # Stop
        /\ leg' = Marked({o}, "canceled")
    BY <1>5 DEF CancelOrder, Careful
  <2>2. CASE position = NoPosition
    BY <2>1, <2>2
  <2>3. CASE position # NoPosition
    <3>1. position.trade \in Trades /\ Stop \in Legs
      BY <2>3, OpenPosition
    <3>2. leg'[position.trade][Stop]
            = IF <<position.trade, Stop>> \in {o} THEN "canceled"
              ELSE leg[position.trade][Stop]
      BY <2>1, <3>1 DEF Marked
    <3>3. <<position.trade, Stop>> # o
      BY <2>1
    <3> QED BY <2>1, <2>3, <3>2, <3>3, KeptStop
  <2> QED BY <2>2, <2>3
<1>6. ASSUME NEW p \in Levels, TickScan(p)
      PROVE  DeskInv'
  <2>1. OpenLegs \in SUBSET Orders /\ ScanOn(OpenLegs, p) /\ desk' = desk
    BY <1>6 DEF TickScan, OpenLegs
  <2> QED BY <2>1, ScanStep, KeptStop
<1>7. CASE TickGoOn
  <2>1. tick.todo \in SUBSET Orders /\ ScanOn(tick.todo, price) /\ desk' = desk
    BY <1>7 DEF TickGoOn, TypeOK
  <2> QED BY <2>1, ScanStep, KeptStop
<1>8. CASE TickSweep
  BY <1>8 DEF TickSweep
<1>9. CASE MonitorExit
  <2>1. monitor.quantity \in Nat /\ Reduce(monitor.quantity)
    BY <1>9, DeskAssumption DEF MonitorExit, TypeOK
  <2>2. \/ position' = NoPosition
        \/ /\ position # NoPosition /\ position'.trade = position.trade
           /\ position'.quantity <= position.quantity
    BY <2>1, ReduceResult
  <2>3. desk' = desk /\ leg' = leg
    BY <1>9 DEF MonitorExit
  <2> QED BY <2>2, <2>3, KeptStop
<1>10. CASE \/ TickBegin \/ HoldLimit \/ Supervise \/ CheckClosed \/ Decide
            \/ MonitorDies \/ UNCHANGED vars
  BY <1>10 DEF TickBegin, HoldLimit, Supervise, CheckClosed, Decide, MonitorDies, vars
<1> QED
  BY <1>1, <1>2, <1>3, <1>4, <1>5, <1>6, <1>7, <1>8, <1>9, <1>10, <1>11,
     <1>12
     DEF Next, Commands, Ticks, Monitors, CheckOverdue, CheckEarly

LEMMA PlanStays ==
    ASSUME [Next]_vars
    PROVE  plan' = plan
BY DEF Next, Commands, Ticks, Monitors, Book, BookRefused, PlaceLegs, ReadPosition,
       ClosePosition, CancelLegs, CancelOrder, TickBegin, TickScan, TickGoOn, TickSweep,
       HoldLimit, Supervise, CheckClosed, CheckOverdue, CheckEarly, Decide, MonitorExit,
       MonitorDies, vars

\* Where stops are left alone and publications succeed, an open position has its
\* stop, however the three tasks interleave: the sweep and the cancelling after a
\* close take no leg of an open position, and a stop that fills leaves nothing
\* open behind it.
THEOREM OpenIsProtected == Spec => []Protected
<1> DEFINE Inv == Careful => DeskInv
<1>1. Init => Inv
  BY DEF Init, DeskInv, StopRests, ClosedWhileCanceling, CloseCovers, RestingDesk, DeskAt
<1>2. TypeOK /\ TypeOK' /\ Inv /\ [Next]_vars => Inv'
  BY ProtectedStep, PlanStays DEF Careful
<1>3. Inv => Protected
  BY DEF DeskInv, Protected
<1> QED BY <1>1, <1>2, <1>3, DeskTypeInvariant, PTL DEF Spec

-----------------------------------------------------------------------------
(***************************************************************************)
(* Legs and the position they fill into, for tasks that do not overlap and *)
(* a desk on which nothing but the monitor's task fails.                   *)
(***************************************************************************)

Ahead == 1..Targets

\* The plans FillsOwnPosition and NoPhantomFill are stated for.
Orderly == plan \subseteq {"monitor_dies", "cancel_target", "cancel_stop"}

\* after says what is left of a trade when these of its targets have filled: more
\* than dust, until the last of them has.
LeavesMore(after) ==
    /\ after[{}] = Size
    /\ \A F \in SUBSET Ahead : \A l \in Ahead \ F : after[F \cup {l}] = after[F] - TakeSize[l]
    /\ \A F \in SUBSET Ahead : F # Ahead => after[F] > Dust

FilledTargets(t) == {l \in Ahead : leg[t][l] = "filled"}

\* Legs that are open are the last trade's, and so is the position.
LegsOfLast ==
    /\ \A o \in OpenLegs : o[1] = booked
    /\ position # NoPosition => position.trade = booked
    /\ \A t \in Trades : t > booked => \A l \in Legs : leg[t][l] = "none"

\* Without a position no leg is open, but while a tick or a close tidies up.
TidyAtRest ==
    position = NoPosition /\ DeskRests /\ tick.at \in {"idle", "begun"} => OpenLegs = {}

DeskSays ==
    /\ desk.at = "legs" =>
          /\ desk.trade = booked /\ booked \in Trades /\ position # NoPosition
          /\ \A l \in Legs : leg[booked][l] = "none"
    /\ desk.at = "close" => position # NoPosition /\ desk.quantity = position.quantity
    /\ desk.at = "cancel" => position = NoPosition

\* A tick that closed the position knows that something changed, and has no leg
\* left to fill.
TickSays ==
    /\ tick.at # "idle" => tick.before[3] <= total_trades
    /\ tick.at # "idle" /\ position = NoPosition /\ OpenLegs # {} =>
          tick.before[3] < total_trades
    /\ tick.at = "scan" /\ position = NoPosition =>
          \A o \in tick.todo \cap OpenLegs : ~Crossed(o, price)

QuantityIsLeft(after) ==
    position # NoPosition => position.quantity = after[FilledTargets(booked)]

OneAtATime == (DeskRests \/ TickRests) /\ monitor.at # "exit" /\ overdue = 0

OwnInv(after) ==
    /\ LegsOfLast /\ TidyAtRest /\ DeskSays /\ TickSays /\ QuantityIsLeft(after) /\ OneAtATime

LEMMA OrderlyMeans ==
    ASSUME Orderly
    PROVE  /\ "overlap" \notin plan /\ "monitor_exit" \notin plan /\ "publish_error" \notin plan
           /\ "opposite" \notin plan /\ "no_margin" \notin plan
BY DEF Orderly

LEMMA OpenLeg ==
    ASSUME NEW o
    PROVE  o \in OpenLegs <=> o \in Orders /\ leg[o[1]][o[2]] = "open"
BY DEF OpenLegs

LEMMA MarkedLeg ==
    ASSUME NEW S, NEW status, leg' = Marked(S, status), NEW t \in Trades, NEW l \in Legs
    PROVE  leg'[t][l] = IF <<t, l>> \in S THEN status ELSE leg[t][l]
BY DEF Marked

LEMMA MarkedOrder ==
    ASSUME NEW S, NEW status, leg' = Marked(S, status), NEW o \in Orders
    PROVE  leg'[o[1]][o[2]] = IF o \in S THEN status ELSE leg[o[1]][o[2]]
BY OrderParts, MarkedLeg

\* Open legs that are canceled or filled are open no more, and no other leg is.
LEMMA FewerOpen ==
    ASSUME NEW S, NEW status \in {"filled", "canceled"}, leg' = Marked(S, status)
    PROVE  OpenLegs' = OpenLegs \ S
<1>1. ASSUME NEW o \in Orders
      PROVE  o \in OpenLegs' <=> o \in OpenLegs /\ o \notin S
  <2>1. leg'[o[1]][o[2]] = IF o \in S THEN status ELSE leg[o[1]][o[2]]
    BY MarkedOrder
  <2>2. o \in OpenLegs' <=> leg'[o[1]][o[2]] = "open"
    BY DEF OpenLegs
  <2>3. o \in OpenLegs <=> leg[o[1]][o[2]] = "open"
    BY DEF OpenLegs
  <2> QED BY <2>1, <2>2, <2>3
<1>2. OpenLegs' \subseteq Orders /\ OpenLegs \subseteq Orders
  BY DEF OpenLegs
<1> QED BY <1>1, <1>2

LEMMA AheadAreLegs == Ahead \subseteq Legs /\ Stop \notin Ahead /\ Stop \in Legs
BY DeskAssumption DEF Ahead, Legs, Stop

\* Canceling takes nothing from what has filled.
LEMMA FilledKept ==
    ASSUME NEW S, S \subseteq OpenLegs, leg' = Marked(S, "canceled"), NEW t \in Trades
    PROVE  FilledTargets(t)' = FilledTargets(t)
<1>1. ASSUME NEW l \in Ahead
      PROVE  leg'[t][l] = "filled" <=> leg[t][l] = "filled"
  <2>1. l \in Legs
    BY AheadAreLegs
  <2>2. leg'[t][l] = IF <<t, l>> \in S THEN "canceled" ELSE leg[t][l]
    BY <2>1, MarkedLeg
  <2>3. <<t, l>> \in S => leg[t][l] = "open"
    BY DEF OpenLegs
  <2> QED BY <2>2, <2>3
<1> QED BY <1>1 DEF FilledTargets

\* Legs that have not been placed are not taken from, when open ones are.
LEMMA NoneKept ==
    ASSUME NEW S, S \subseteq OpenLegs, NEW status, leg' = Marked(S, status),
           NEW t \in Trades, NEW l \in Legs, leg[t][l] = "none"
    PROVE  leg'[t][l] = "none"
<1>1. leg'[t][l] = IF <<t, l>> \in S THEN status ELSE leg[t][l]
  BY MarkedLeg
<1>2. <<t, l>> \in S => leg[t][l] = "open"
  BY DEF OpenLegs
<1> QED BY <1>1, <1>2

\* Canceling keeps what is said of the legs that are left.
LEMMA CanceledKeeps ==
    ASSUME LegsOfLast, NEW S, S \subseteq OpenLegs, leg' = Marked(S, "canceled"),
           UNCHANGED <<booked, position>>
    PROVE  LegsOfLast' /\ OpenLegs' \subseteq OpenLegs
<1>1. OpenLegs' \subseteq OpenLegs
  BY FewerOpen
<1>2. ASSUME NEW t \in Trades, t > booked, NEW l \in Legs PROVE leg'[t][l] = "none"
  BY <1>2, NoneKept DEF LegsOfLast
<1>3. \A o \in OpenLegs' : o[1] = booked'
  BY <1>1 DEF LegsOfLast
<1>4. position' # NoPosition => position'.trade = booked'
  BY DEF LegsOfLast
<1> QED BY <1>1, <1>2, <1>3, <1>4 DEF LegsOfLast

-----------------------------------------------------------------------------
(* The command handler's steps. *)

LEMMA BookOwn ==
    ASSUME TypeOK, Orderly, NEW after, LeavesMore(after), OwnInv(after),
           NEW side \in {"LONG", "SHORT"}, NEW entry \in Levels, Book(side, entry)
    PROVE  OwnInv(after)'
<1>1. PICK t : t = booked + 1
  OBVIOUS
<1>2. DeskRests /\ TickRests /\ t \in Trades /\ booked \in Nat
  BY <1>1, OrderlyMeans, DeskAssumption DEF Book, MayRun, TypeOK
<1>3. position = NoPosition
  BY OrderlyMeans DEF Book, Accepts
<1>4. booked' = t /\ position' = [trade |-> t, quantity |-> Size] /\ desk' = DeskAt("legs", t)
  BY <1>1, <1>3, OrderlyMeans DEF Book, FillEntry, Published
<1>5. UNCHANGED <<leg, tick, monitor, overdue, total_trades, price>>
  BY <1>3 DEF Book, FillEntry
<1>6. tick.at = "idle"
  BY <1>2 DEF TickRests, RestingTick
<1>7. OpenLegs = {} /\ OpenLegs' = {}
  <2>1. OpenLegs = {}
    BY <1>2, <1>3, <1>6 DEF OwnInv, TidyAtRest
  <2>2. OpenLegs' = OpenLegs
    BY <1>5 DEF OpenLegs
  <2> QED BY <2>1, <2>2
<1>8. position' # NoPosition /\ position'.trade = t /\ position'.quantity = Size
  BY <1>2, <1>4, DeskAssumption DEF NoPosition
<1>9. \A l \in Legs : leg[t][l] = "none"
  BY <1>1, <1>2 DEF OwnInv, LegsOfLast
<1>10. LegsOfLast'
  <2>1. ASSUME NEW u \in Trades, u > t PROVE \A l \in Legs : leg'[u][l] = "none"
    <3>1. u > booked
      BY <1>1, <1>2, <2>1 DEF Trades
    <3> QED BY <1>5, <3>1 DEF OwnInv, LegsOfLast
  <2> QED BY <1>4, <1>7, <1>8, <2>1 DEF LegsOfLast
<1>11. DeskSays'
  BY <1>2, <1>4, <1>5, <1>8, <1>9 DEF DeskSays, DeskAt
<1>12. TidyAtRest' /\ TickSays'
  BY <1>5, <1>6, <1>7 DEF TidyAtRest, TickSays
<1>13. QuantityIsLeft(after)'
  <2>1. FilledTargets(t) = {}
    BY <1>9, AheadAreLegs DEF FilledTargets
  <2>2. FilledTargets(booked)' = {}
    BY <1>4, <1>5, <2>1 DEF FilledTargets
  <2> QED BY <1>8, <2>2 DEF QuantityIsLeft, LeavesMore
<1>14. OneAtATime'
  BY <1>2, <1>5 DEF OwnInv, OneAtATime, TickRests
<1> QED BY <1>10, <1>11, <1>12, <1>13, <1>14 DEF OwnInv

LEMMA PlaceOwn ==
    ASSUME TypeOK, Orderly, NEW after, OwnInv(after), PlaceLegs
    PROVE  OwnInv(after)'
<1>1. desk.at = "legs" /\ desk.trade = booked /\ booked \in Trades /\ position # NoPosition
      /\ \A l \in Legs : leg[booked][l] = "none"
  BY DEF PlaceLegs, OwnInv, DeskSays
<1>2. PICK S : S = {booked} \X Legs
  OBVIOUS
<1>3. leg' = Marked(S, "open") /\ desk' = RestingDesk
      /\ UNCHANGED <<booked, position, total_trades, tick, monitor, overdue, price>>
  BY <1>1, <1>2 DEF PlaceLegs
<1>4. tick.at = "idle"
  BY <1>1 DEF OwnInv, OneAtATime, DeskRests, TickRests, RestingDesk, RestingTick, DeskAt
<1>5. \A t \in Trades : \A l \in Legs : leg'[t][l] = IF t = booked THEN "open" ELSE leg[t][l]
  <2> SUFFICES ASSUME NEW t \in Trades, NEW l \in Legs
               PROVE  leg'[t][l] = IF t = booked THEN "open" ELSE leg[t][l]
    OBVIOUS
  <2>1. leg' = Marked(S, "open")
    BY <1>3
  <2>2. leg'[t][l] = IF <<t, l>> \in S THEN "open" ELSE leg[t][l]
    BY <2>1, MarkedLeg
  <2>3. <<t, l>> \in S <=> t = booked
    BY <1>2
  <2> QED BY <2>2, <2>3
<1>6. \A o \in OpenLegs' : o[1] = booked
  <2> SUFFICES ASSUME NEW o \in OpenLegs', o[1] # booked PROVE FALSE
    OBVIOUS
  <2>1. o \in Orders /\ leg'[o[1]][o[2]] = "open"
    BY DEF OpenLegs
  <2>2. leg[o[1]][o[2]] = "open"
    BY <1>5, <2>1, OrderParts
  <2>3. o \in OpenLegs
    BY <2>1, <2>2 DEF OpenLegs
  <2> QED BY <2>3 DEF OwnInv, LegsOfLast
<1>7. LegsOfLast'
  <2>1. ASSUME NEW t \in Trades, t > booked PROVE \A l \in Legs : leg'[t][l] = "none"
    <3>1. t # booked
      BY <1>1, <2>1 DEF Trades
    <3> QED BY <1>5, <2>1, <3>1 DEF OwnInv, LegsOfLast
  <2> QED BY <1>3, <1>6, <2>1 DEF OwnInv, LegsOfLast
<1>8. TidyAtRest' /\ TickSays'
  BY <1>1, <1>3, <1>4 DEF TidyAtRest, TickSays
<1>9. DeskSays'
  BY <1>3 DEF DeskSays, RestingDesk, DeskAt
<1>10. QuantityIsLeft(after)'
  <2>1. FilledTargets(booked) = {}
    BY <1>1, AheadAreLegs DEF FilledTargets
  <2>2. FilledTargets(booked)' = {}
    BY <1>1, <1>3, <1>5, AheadAreLegs DEF FilledTargets
  <2> QED BY <1>3, <2>1, <2>2 DEF OwnInv, QuantityIsLeft
<1>11. OneAtATime'
  BY <1>3 DEF OwnInv, OneAtATime, DeskRests
<1> QED BY <1>7, <1>8, <1>9, <1>10, <1>11 DEF OwnInv

LEMMA ReadOwn ==
    ASSUME TypeOK, Orderly, NEW after, OwnInv(after), ReadPosition
    PROVE  OwnInv(after)'
<1>1. position # NoPosition /\ TickRests /\ desk'.at = "close"
      /\ desk'.quantity = position.quantity
  BY OrderlyMeans DEF ReadPosition, MayRun
<1>2. UNCHANGED <<leg, booked, position, total_trades, tick, monitor, overdue, price>>
  BY DEF ReadPosition
<1>3. LegsOfLast'
  <2>1. OpenLegs' = OpenLegs
    BY <1>2 DEF OpenLegs
  <2> QED BY <1>2, <2>1 DEF OwnInv, LegsOfLast
<1>4. TidyAtRest' /\ DeskSays'
  BY <1>1, <1>2 DEF TidyAtRest, DeskSays
<1>5. TickSays'
  BY <1>1, <1>2 DEF TickSays, TickRests, RestingTick
<1>6. QuantityIsLeft(after)'
  <2>1. FilledTargets(booked)' = FilledTargets(booked)
    BY <1>2 DEF FilledTargets
  <2> QED BY <1>2, <2>1 DEF OwnInv, QuantityIsLeft
<1>7. OneAtATime'
  BY <1>1, <1>2 DEF OwnInv, OneAtATime, TickRests
<1> QED BY <1>3, <1>4, <1>5, <1>6, <1>7 DEF OwnInv

LEMMA CloseOwn ==
    ASSUME TypeOK, Orderly, NEW after, OwnInv(after), ClosePosition
    PROVE  OwnInv(after)'
<1>1. desk.at = "close" /\ position # NoPosition /\ desk.quantity = position.quantity
  BY DEF ClosePosition, OwnInv, DeskSays
<1>2. position.quantity \in Nat
  BY <1>1, DeskAssumption DEF TypeOK
<1>3. position' = NoPosition
  BY <1>1, <1>2, DeskAssumption DEF ClosePosition, Reduce
<1>4. desk' = DeskAt("cancel", 0)
  BY <1>1, OrderlyMeans DEF ClosePosition, ReduceEnds, Published
<1>5. UNCHANGED <<leg, booked, tick, monitor, overdue, price>>
  BY DEF ClosePosition
<1>6. TickRests
  BY <1>1 DEF OwnInv, OneAtATime, DeskRests, RestingDesk, DeskAt
<1>7. LegsOfLast'
  <2>1. OpenLegs' = OpenLegs
    BY <1>5 DEF OpenLegs
  <2> QED BY <1>3, <1>5, <2>1 DEF OwnInv, LegsOfLast
<1>8. TidyAtRest'
  BY <1>4 DEF TidyAtRest, DeskRests, RestingDesk, DeskAt
<1>9. DeskSays'
  BY <1>3, <1>4 DEF DeskSays, DeskAt
<1>10. TickSays'
  BY <1>5, <1>6 DEF TickSays, TickRests, RestingTick
<1>11. QuantityIsLeft(after)'
  BY <1>3 DEF QuantityIsLeft
<1>12. OneAtATime'
  BY <1>5, <1>6 DEF OwnInv, OneAtATime, TickRests
<1> QED BY <1>7, <1>8, <1>9, <1>10, <1>11, <1>12 DEF OwnInv

LEMMA CancelLegsOwn ==
    ASSUME TypeOK, Orderly, NEW after, OwnInv(after), CancelLegs
    PROVE  OwnInv(after)'
<1>1. desk.at = "cancel" /\ position = NoPosition
  BY DEF CancelLegs, OwnInv, DeskSays
<1>2. leg' = Marked(OpenLegs, "canceled") /\ desk' = RestingDesk
      /\ UNCHANGED <<booked, position, total_trades, tick, monitor, overdue, price>>
  BY DEF CancelLegs
<1>3. OpenLegs' = {}
  BY <1>2, FewerOpen
<1>4. LegsOfLast'
  BY <1>2, CanceledKeeps DEF OwnInv
<1>5. TidyAtRest' /\ DeskSays' /\ QuantityIsLeft(after)'
  BY <1>1, <1>2, <1>3 DEF TidyAtRest, DeskSays, QuantityIsLeft, RestingDesk, DeskAt
<1>6. TickRests
  BY <1>1 DEF OwnInv, OneAtATime, DeskRests, RestingDesk, DeskAt
<1>7. TickSays' /\ OneAtATime'
  BY <1>2, <1>6 DEF OwnInv, OneAtATime, TickSays, TickRests, RestingTick
<1> QED BY <1>4, <1>5, <1>7 DEF OwnInv

LEMMA CancelOrderOwn ==
    ASSUME TypeOK, Orderly, NEW after, OwnInv(after), NEW o \in Orders, CancelOrder(o)
    PROVE  OwnInv(after)'
<1>1. DeskRests /\ TickRests /\ o \in OpenLegs
  BY OrderlyMeans DEF CancelOrder, MayRun
<1>2. leg' = Marked({o}, "canceled")
      /\ UNCHANGED <<booked, position, total_trades, desk, tick, monitor, overdue, price>>
  BY DEF CancelOrder
<1>3. LegsOfLast' /\ OpenLegs' \subseteq OpenLegs
  BY <1>1, <1>2, CanceledKeeps DEF OwnInv
<1>4. TidyAtRest'
  BY <1>2, <1>3 DEF OwnInv, TidyAtRest, DeskRests
<1>5. DeskSays'
  BY <1>1, <1>2 DEF DeskSays, DeskRests, RestingDesk, DeskAt
<1>6. TickSays' /\ OneAtATime'
  BY <1>1, <1>2 DEF OwnInv, OneAtATime, TickSays, TickRests, RestingTick
<1>7. QuantityIsLeft(after)'
  <2> SUFFICES ASSUME position # NoPosition
               PROVE  position.quantity = after[FilledTargets(booked)']
    BY <1>2 DEF QuantityIsLeft
  <2>1. booked \in Trades
    BY OpenPosition DEF OwnInv, LegsOfLast
  <2>2. FilledTargets(booked)' = FilledTargets(booked)
    BY <1>1, <1>2, <2>1, FilledKept
  <2> QED BY <2>2 DEF OwnInv, QuantityIsLeft
<1> QED BY <1>3, <1>4, <1>5, <1>6, <1>7 DEF OwnInv

-----------------------------------------------------------------------------
(* The price loop's steps. *)

LEMMA TickBeginOwn ==
    ASSUME TypeOK, Orderly, NEW after, OwnInv(after), TickBegin
    PROVE  OwnInv(after)'
<1>1. TickRests /\ DeskRests
  BY OrderlyMeans DEF TickBegin, MayRun
<1>2. UNCHANGED <<leg, booked, position, total_trades, desk, monitor, overdue, price>>
      /\ tick'.at = "begun" /\ tick'.before[3] = total_trades
  BY DEF TickBegin, EngineSnapshot
<1>3. OpenLegs' = OpenLegs /\ FilledTargets(booked)' = FilledTargets(booked)
  BY <1>2 DEF OpenLegs, FilledTargets
<1>4. position = NoPosition => OpenLegs = {}
  BY <1>1 DEF OwnInv, TidyAtRest, TickRests, RestingTick
<1>5. LegsOfLast' /\ QuantityIsLeft(after)'
  BY <1>2, <1>3 DEF OwnInv, LegsOfLast, QuantityIsLeft
<1>6. TidyAtRest' /\ DeskSays' /\ OneAtATime'
  BY <1>1, <1>2, <1>3, <1>4 DEF OwnInv, TidyAtRest, DeskSays, OneAtATime, DeskRests
<1>7. TickSays'
  BY <1>2, <1>3, <1>4 DEF TickSays, TypeOK
<1> QED BY <1>5, <1>6, <1>7 DEF OwnInv

\* What a tick finds to fill belongs to the position that is open.
LEMMA HitIsOwn ==
    ASSUME TypeOK, NEW after, OwnInv(after), NEW o \in OpenLegs, NEW p,
           Crossed(o, p), tick.at = "begun" \/ (tick.at = "scan" /\ o \in tick.todo /\ p = price)
    PROVE  position # NoPosition /\ position.trade = o[1] /\ o[1] = booked /\ DeskRests
<1>1. DeskRests
  BY DEF OwnInv, OneAtATime, TickRests, RestingTick
<1>2. position # NoPosition
  <2>1. CASE tick.at = "begun"
    BY <1>1, <2>1 DEF OwnInv, TidyAtRest
  <2>2. CASE tick.at = "scan" /\ o \in tick.todo /\ p = price
    BY <2>2 DEF OwnInv, TickSays
  <2> QED BY <2>1, <2>2
<1> QED BY <1>1, <1>2 DEF OwnInv, LegsOfLast

\* What is left of the position when a leg of its own fills.
LEMMA FillLeaves ==
    ASSUME TypeOK, NEW after, LeavesMore(after), OwnInv(after), NEW o \in OpenLegs,
           position # NoPosition, o[1] = booked, leg' = Marked({o}, "filled"),
           Reduce(LegSize(o[2])), booked' = booked
    PROVE  /\ total_trades' = total_trades + 1
           /\ QuantityIsLeft(after)'
           /\ position' = NoPosition \/ position'.trade = position.trade
           /\ position' = NoPosition =>
                 o[2] = Stop \/ FilledTargets(booked)' = Ahead
<1>1. o \in Orders /\ o[1] \in Trades /\ o[2] \in Legs /\ booked \in Trades
      /\ o = <<o[1], o[2]>> /\ leg[booked][o[2]] = "open"
  BY OrderParts DEF OpenLegs
<1>2. position.quantity \in 1..Size /\ Size \in Nat /\ Dust \in Nat
  BY OpenPosition, DeskAssumption
<1>3. PICK F : F = FilledTargets(booked)
  OBVIOUS
<1>4. F \in SUBSET Ahead /\ position.quantity = after[F]
  BY <1>3 DEF FilledTargets, OwnInv, QuantityIsLeft
<1>5. PICK rest : rest = position.quantity - LegSize(o[2])
  OBVIOUS
<1>6. total_trades' = total_trades + 1
      /\ position' = IF rest <= Dust THEN NoPosition ELSE [position EXCEPT !.quantity = rest]
  BY <1>5 DEF Reduce
<1>7. CASE o[2] = Stop
  <2>1. rest \in Int /\ rest <= Dust
    BY <1>2, <1>5, <1>7 DEF LegSize
  <2>2. position' = NoPosition
    BY <1>6, <2>1
  <2> QED BY <1>6, <1>7, <2>2 DEF QuantityIsLeft
<1>8. CASE o[2] # Stop
  <2>1. PICK l \in Ahead : l = o[2]
    BY <1>1, <1>8, DeskAssumption DEF Legs, Ahead, Stop
  <2>2. l \notin F
    BY <1>1, <1>3, <2>1 DEF FilledTargets
  <2>3. FilledTargets(booked)' = F \cup {l}
    <3>1. ASSUME NEW m \in Ahead
          PROVE  leg'[booked][m] = "filled" <=> m \in F \/ m = l
      <4>1. m \in Legs
        BY AheadAreLegs
      <4>2. PICK S : S = {o}
        OBVIOUS
      <4>3. leg' = Marked(S, "filled")
        BY <4>2
      <4>4. leg'[booked][m] = IF <<booked, m>> \in S THEN "filled" ELSE leg[booked][m]
        <5>1. PICK t \in Trades : t = booked
          BY <1>1
        <5>2. leg'[t][m] = IF <<t, m>> \in S THEN "filled" ELSE leg[t][m]
          BY <4>1, <4>3, MarkedLeg
        <5> QED BY <5>1, <5>2
      <4>5. <<booked, m>> \in S <=> m = l
        BY <1>1, <2>1, <4>2
      <4> QED BY <1>3, <4>4, <4>5 DEF FilledTargets
    <3>2. FilledTargets(booked)' = {m \in Ahead : leg'[booked][m] = "filled"}
      BY DEF FilledTargets
    <3> QED BY <1>4, <2>1, <3>1, <3>2
  <2>4. rest = after[F \cup {l}]
    <3>1. rest = position.quantity - TakeSize[l]
      BY <1>5, <1>8, <2>1 DEF LegSize
    <3>2. l \in Ahead \ F
      BY <2>2
    <3>3. after[F \cup {l}] = after[F] - TakeSize[l]
      BY <1>4, <3>2 DEF LeavesMore
    <3> QED BY <1>4, <3>1, <3>3
  <2>5. TakeSize[l] \in 1..Size
    BY <2>1, DeskAssumption DEF Ahead
  <2>6. rest \in Int
    BY <1>2, <1>5, <1>8, <2>1, <2>5 DEF LegSize
  <2>7. F \cup {l} # Ahead => rest > Dust
    <3>1. F \cup {l} \in SUBSET Ahead
      BY <1>4, <2>1
    <3> QED BY <2>4, <3>1 DEF LeavesMore
  <2>8. position' # NoPosition =>
           position'.quantity = rest /\ position'.trade = position.trade
    BY <1>6, OpenPosition DEF TypeOK, NoPosition
  <2>9. QuantityIsLeft(after)'
    BY <2>3, <2>4, <2>8 DEF QuantityIsLeft
  <2>10. position' = NoPosition => F \cup {l} = Ahead
    <3>1. rest > Dust => [position EXCEPT !.quantity = rest] # NoPosition
      <4>1. position.trade \in Nat /\ position.trade >= 1 /\ position \in [trade : Int, quantity : Int]
        BY OpenPosition DEF TypeOK, Trades
      <4> QED BY <2>6, <4>1 DEF NoPosition
    <3> QED BY <1>2, <1>6, <2>6, <2>7, <3>1
  <2> QED BY <1>6, <2>3, <2>8, <2>9, <2>10
<1> QED BY <1>7, <1>8

\* After a fill that closes the position, the price has crossed no leg that the
\* tick has still to come to.
LEMMA NothingLeftToFill ==
    ASSUME TypeOK, NEW after, OwnInv(after), NEW o \in OpenLegs, NEW p, price' = p,
           Crossed(o, p), o[1] = booked, UNCHANGED <<booked, bracket>>,
           leg' = Marked({o}, "filled"),
           o[2] = Stop \/ FilledTargets(booked)' = Ahead,
           NEW x \in Orders, Before(o, x), x \in OpenLegs'
    PROVE  ~Crossed(x, price)'
<1>1. o \in Orders /\ o[1] \in Trades /\ o[2] \in Legs /\ booked \in Trades
  BY OrderParts DEF OpenLegs
<1>2. x \in OpenLegs /\ x[1] = booked /\ x[2] \in Legs /\ leg'[booked][x[2]] = "open"
  <2>1. OpenLegs' = OpenLegs \ {o}
    BY FewerOpen
  <2>2. x \in OpenLegs
    BY <2>1
  <2>3. x[1] = booked
    BY <2>2 DEF OwnInv, LegsOfLast
  <2> QED BY <2>2, <2>3, OrderParts DEF OpenLegs
<1>3. x[2] > o[2] /\ x[2] # Stop
  BY <1>1, <1>2, DeskAssumption DEF Before, Trades, Legs, Stop
<1>4. o[2] = Stop
  <2>1. x[2] \in Ahead
    BY <1>2, <1>3, DeskAssumption DEF Legs, Ahead, Stop
  <2>2. FilledTargets(booked)' # Ahead
    BY <1>2, <2>1 DEF FilledTargets
  <2> QED BY <2>2
<1>5. PICK b : b = bracket[booked]
  OBVIOUS
<1>7. PICK ahead : ahead = IF b.side = "LONG" THEN p - b.entry ELSE b.entry - p
  OBVIOUS
<1>8. ahead <= -1
  BY <1>4, <1>5, <1>7 DEF Crossed
<1>9. Crossed(x, price)' <=> ahead >= x[2]
  BY <1>2, <1>3, <1>5, <1>7 DEF Crossed
<1>10. ahead \in Int
  BY <1>1, <1>5, <1>7, DeskAssumption DEF TypeOK
<1> QED BY <1>2, <1>3, <1>8, <1>9, <1>10, DeskAssumption DEF Legs, Stop

LEMMA FillOwn ==
    ASSUME TypeOK, Orderly, NEW after, LeavesMore(after), OwnInv(after),
           NEW p \in Levels, price' = p, NEW o \in OpenLegs, Crossed(o, p),
           tick.at = "begun" \/ (tick.at = "scan" /\ o \in tick.todo /\ p = price),
           leg' = Marked({o}, "filled"), Reduce(LegSize(o[2])),
           NEW todo, \A x \in todo : x \in Orders /\ Before(o, x),
           tick' = [tick EXCEPT !.at = "scan", !.todo = todo],
           UNCHANGED <<booked, bracket, desk, monitor, overdue>>
    PROVE  OwnInv(after)'
<1>1. position # NoPosition /\ position.trade = o[1] /\ o[1] = booked /\ DeskRests
  BY HitIsOwn
<1>2. /\ total_trades' = total_trades + 1
      /\ QuantityIsLeft(after)'
      /\ position' = NoPosition \/ position'.trade = position.trade
      /\ position' = NoPosition => o[2] = Stop \/ FilledTargets(booked)' = Ahead
  BY <1>1, FillLeaves
<1>3. OpenLegs' = OpenLegs \ {o}
  BY FewerOpen
<1>4. tick'.at = "scan" /\ tick'.todo = todo /\ tick'.before = tick.before
  BY DEF TypeOK
<1>5. LegsOfLast'
  <2>1. ASSUME NEW t \in Trades, t > booked, NEW l \in Legs PROVE leg'[t][l] = "none"
    <3>1. leg[t][l] = "none"
      BY <2>1 DEF OwnInv, LegsOfLast
    <3>2. PICK S : S = {o}
      OBVIOUS
    <3>3. S \subseteq OpenLegs /\ leg' = Marked(S, "filled")
      BY <3>2
    <3> QED BY <3>1, <3>3, NoneKept
  <2>2. \A x \in OpenLegs' : x[1] = booked'
    BY <1>3 DEF OwnInv, LegsOfLast
  <2>3. position' # NoPosition => position'.trade = booked'
    BY <1>1, <1>2
  <2> QED BY <2>1, <2>2, <2>3 DEF LegsOfLast
<1>6. TidyAtRest'
  BY <1>4 DEF TidyAtRest
<1>7. DeskSays'
  BY <1>1 DEF DeskSays, DeskRests, RestingDesk, DeskAt
<1>8. TickSays'
  <2>1. tick.before[3] <= total_trades
    BY DEF OwnInv, TickSays
  <2>2. tick'.before[3] < total_trades'
    BY <1>2, <1>4, <2>1 DEF TypeOK
  <2>3. tick'.before[3] <= total_trades'
    BY <1>2, <1>4, <2>1 DEF TypeOK
  <2>4. ASSUME position' = NoPosition, NEW x \in todo, x \in OpenLegs'
        PROVE  ~Crossed(x, price)'
    <3>1. o[2] = Stop \/ FilledTargets(booked)' = Ahead
      BY <1>2, <2>4
    <3>2. x \in Orders /\ Before(o, x)
      OBVIOUS
    <3> QED BY <1>1, <2>4, <3>1, <3>2, NothingLeftToFill
  <2>5. tick'.at = "scan" /\ position' = NoPosition =>
           \A x \in tick'.todo \cap OpenLegs' : ~Crossed(x, price)'
    BY <1>4, <2>4
  <2> QED BY <2>2, <2>3, <2>5 DEF TickSays
<1>9. OneAtATime'
  BY <1>1 DEF OwnInv, OneAtATime, DeskRests
<1> QED BY <1>2, <1>5, <1>6, <1>7, <1>8, <1>9 DEF OwnInv

\* Nothing is left that the price crossed.
LEMMA ScannedOwn ==
    ASSUME TypeOK, NEW after, OwnInv(after), tick.at \in {"begun", "scan"},
           tick' = [tick EXCEPT !.at = "scanned", !.todo = {}],
           UNCHANGED <<leg, position, total_trades, booked, bracket, desk, monitor, overdue>>
    PROVE  OwnInv(after)'
<1>1. tick'.at = "scanned" /\ tick'.before = tick.before
  BY DEF TypeOK
<1>2. DeskRests
  BY DEF OwnInv, OneAtATime, TickRests, RestingTick
<1>3. OpenLegs' = OpenLegs /\ FilledTargets(booked)' = FilledTargets(booked)
  BY DEF OpenLegs, FilledTargets
<1>4. LegsOfLast' /\ QuantityIsLeft(after)'
  BY <1>3 DEF OwnInv, LegsOfLast, QuantityIsLeft
<1>5. TidyAtRest' /\ OneAtATime' /\ DeskSays'
  BY <1>1, <1>2 DEF OwnInv, TidyAtRest, OneAtATime, DeskRests, DeskSays, RestingDesk, DeskAt
<1>6. TickSays'
  BY <1>1, <1>3 DEF OwnInv, TickSays
<1> QED BY <1>4, <1>5, <1>6 DEF OwnInv

LEMMA ScanOwn ==
    ASSUME TypeOK, Orderly, NEW after, LeavesMore(after), OwnInv(after),
           NEW p \in Levels, price' = p, NEW orders \in SUBSET Orders,
           tick.at = "begun" \/ (tick.at = "scan" /\ orders = tick.todo /\ p = price),
           ScanOn(orders, p), UNCHANGED <<booked, bracket, desk, monitor, overdue>>
    PROVE  OwnInv(after)'
<1>1. PICK hits : hits = {o \in orders \cap OpenLegs : Crossed(o, p)}
  OBVIOUS
<1>2. CASE hits = {} /\ tick' = [tick EXCEPT !.at = "scanned", !.todo = {}]
           /\ UNCHANGED <<leg, position, total_trades>>
  BY <1>2, ScannedOwn
<1>3. CASE \E o \in hits :
              /\ \A x \in hits \ {o} : Before(o, x)
              /\ leg' = Marked({o}, "filled")
              /\ Reduce(LegSize(o[2]))
              /\ tick' = [tick EXCEPT !.at = "scan", !.todo = {x \in orders : Before(o, x)}]
  <2>1. PICK o \in hits :
              /\ leg' = Marked({o}, "filled")
              /\ Reduce(LegSize(o[2]))
              /\ tick' = [tick EXCEPT !.at = "scan", !.todo = {x \in orders : Before(o, x)}]
    BY <1>3
  <2>2. o \in orders /\ o \in OpenLegs /\ Crossed(o, p)
    BY <1>1
  <2>3. PICK todo : todo = {x \in orders : Before(o, x)}
    OBVIOUS
  <2>4. \A x \in todo : x \in Orders /\ Before(o, x)
    BY <2>3
  <2>5. tick' = [tick EXCEPT !.at = "scan", !.todo = todo]
    BY <2>1, <2>3
  <2>6. tick.at = "begun" \/ (tick.at = "scan" /\ o \in tick.todo /\ p = price)
    BY <2>2
  <2> QED BY <2>1, <2>2, <2>4, <2>5, <2>6, FillOwn
<1>4. ReduceEnds = {TRUE}
  BY OrderlyMeans DEF ReduceEnds, Published
<1> QED BY <1>1, <1>2, <1>3, <1>4 DEF ScanOn

LEMMA SweepOwn ==
    ASSUME TypeOK, Orderly, NEW after, OwnInv(after), TickSweep
    PROVE  OwnInv(after)'
<1>1. tick.at = "scanned" /\ DeskRests
  BY DEF TickSweep, OwnInv, OneAtATime, TickRests, RestingTick
<1>2. UNCHANGED <<booked, position, total_trades, desk, monitor, overdue, price>>
      /\ tick' = RestingTick
  BY DEF TickSweep
<1>3. leg' = leg \/ (position = NoPosition /\ leg' = Marked(OpenLegs, "canceled"))
  BY DEF TickSweep
<1>4. leg' = leg => OpenLegs' = OpenLegs
  BY DEF OpenLegs
<1>5. LegsOfLast'
  <2>1. CASE leg' = leg
    BY <1>2, <1>4, <2>1 DEF OwnInv, LegsOfLast
  <2>2. CASE leg' = Marked(OpenLegs, "canceled")
    BY <1>2, <2>2, CanceledKeeps DEF OwnInv
  <2> QED BY <1>3, <2>1, <2>2
<1>6. position = NoPosition => OpenLegs' = {}
  <2> SUFFICES ASSUME position = NoPosition PROVE OpenLegs' = {}
    OBVIOUS
  <2>1. CASE OpenLegs = {}
    <3>1. leg' = Marked(OpenLegs, "canceled") => OpenLegs' = {}
      BY FewerOpen
    <3> QED BY <1>3, <1>4, <2>1, <3>1
  <2>2. CASE OpenLegs # {}
    <3>1. tick.before[3] < total_trades
      BY <1>1, <2>2 DEF OwnInv, TickSays
    <3>2. EngineSnapshot[3] = total_trades
      BY DEF EngineSnapshot
    <3>3. EngineSnapshot # tick.before
      BY <3>1, <3>2 DEF TypeOK
    <3>4. leg' = Marked(OpenLegs, "canceled")
      BY <3>3 DEF TickSweep
    <3> QED BY <3>4, FewerOpen
  <2> QED BY <2>1, <2>2
<1>7. TidyAtRest' /\ TickSays'
  BY <1>2, <1>6 DEF TidyAtRest, TickSays, RestingTick
<1>8. DeskSays' /\ OneAtATime'
  BY <1>1, <1>2 DEF OwnInv, DeskSays, OneAtATime, DeskRests, RestingDesk, DeskAt
<1>9. QuantityIsLeft(after)'
  <2>1. position # NoPosition => FilledTargets(booked)' = FilledTargets(booked)
    BY <1>2, <1>3 DEF FilledTargets
  <2> QED BY <1>2, <2>1 DEF OwnInv, QuantityIsLeft
<1> QED BY <1>5, <1>7, <1>8, <1>9 DEF OwnInv

\* The monitor leaves position and legs alone.
LEMMA OtherOwn ==
    ASSUME Orderly, NEW after, OwnInv(after), monitor'.at # "exit",
           UNCHANGED <<leg, booked, position, total_trades, desk, tick, overdue, price, bracket>>
    PROVE  OwnInv(after)'
<1>1. OpenLegs' = OpenLegs /\ FilledTargets(booked)' = FilledTargets(booked)
  BY DEF OpenLegs, FilledTargets
<1>2. LegsOfLast' /\ QuantityIsLeft(after)' /\ TidyAtRest'
  BY <1>1 DEF OwnInv, LegsOfLast, QuantityIsLeft, TidyAtRest, DeskRests
<1>3. DeskSays' /\ OneAtATime'
  BY DEF OwnInv, DeskSays, OneAtATime, DeskRests, TickRests
<1>4. TickSays'
  <2>1. \A o \in OpenLegs : Crossed(o, price)' <=> Crossed(o, price)
    BY DEF Crossed
  <2> QED BY <1>1, <2>1 DEF OwnInv, TickSays
<1> QED BY <1>2, <1>3, <1>4 DEF OwnInv

LEMMA MonitorsOwn ==
    ASSUME TypeOK, Orderly, NEW after, OwnInv(after), Monitors
    PROVE  OwnInv(after)'
<1>1. ~HoldLimit /\ ~CheckEarly
  BY OrderlyMeans DEF HoldLimit, CheckEarly
<1>2. ~MonitorExit
  BY DEF MonitorExit, OwnInv, OneAtATime
<1>3. ~CheckOverdue
  <2>1. position # NoPosition => position.trade # 0
    BY OpenPosition DEF Trades
  <2> QED BY <2>1 DEF CheckOverdue, Decide, OwnInv, OneAtATime
<1>4. CASE Supervise
  BY <1>4, OtherOwn DEF Supervise, MonitorAt, NoMonitor
<1>5. CASE CheckClosed
  BY <1>5, OtherOwn DEF CheckClosed, MonitorAt
<1>6. CASE MonitorDies
  BY <1>6, OtherOwn DEF MonitorDies, MonitorAt
<1> QED BY <1>1, <1>2, <1>3, <1>4, <1>5, <1>6 DEF Monitors

LEMMA StepOwn ==
    ASSUME TypeOK, Orderly, NEW after, LeavesMore(after), OwnInv(after), [Next]_vars
    PROVE  OwnInv(after)'
<1>1. CASE Commands
  <2>1. ASSUME NEW side \in {"LONG", "SHORT"}, NEW entry \in Levels
        PROVE  ~BookRefused(side, entry)
    BY OrderlyMeans DEF BookRefused
  <2> QED BY <1>1, <2>1, BookOwn, PlaceOwn, ReadOwn, CloseOwn, CancelLegsOwn, CancelOrderOwn
          DEF Commands
<1>2. CASE Ticks
  <2>1. ASSUME NEW p \in Levels, TickScan(p) PROVE OwnInv(after)'
    <3>1. OpenLegs \in SUBSET Orders
      BY DEF OpenLegs
    <3> QED BY <2>1, <3>1, ScanOwn DEF TickScan
  <2>2. ASSUME TickGoOn PROVE OwnInv(after)'
    <3>1. price \in Levels /\ tick.todo \in SUBSET Orders
      BY DEF TypeOK
    <3> QED BY <2>2, <3>1, ScanOwn DEF TickGoOn
  <2> QED BY <1>2, <2>1, <2>2, TickBeginOwn, SweepOwn DEF Ticks
<1>3. CASE UNCHANGED vars
  <2>1. monitor'.at # "exit"
    BY <1>3 DEF OwnInv, OneAtATime, vars
  <2> QED BY <1>3, <2>1, OtherOwn DEF vars
<1> QED BY <1>1, <1>2, <1>3, MonitorsOwn DEF Next

LEMMA InitOwn ==
    ASSUME Init, NEW after
    PROVE  OwnInv(after)
<1>1. OpenLegs = {}
  <2>1. ASSUME NEW o \in Orders PROVE leg[o[1]][o[2]] = "none"
    BY OrderParts DEF Init
  <2> QED BY <2>1 DEF OpenLegs
<1> QED BY <1>1 DEF Init, OwnInv, LegsOfLast, TidyAtRest, DeskSays, TickSays,
                   QuantityIsLeft, OneAtATime, RestingDesk, RestingTick, DeskAt, DeskRests,
                   NoMonitor, MonitorAt

\* A leg fills in a scan only, and is what the scan found.
LEMMA FillingIsHit ==
    ASSUME TypeOK, NEW after, OwnInv(after), [Next]_vars, NEW o \in Orders, Filling(o)
    PROVE  o \in OpenLegs /\ \E p : Crossed(o, p)
              /\ (tick.at = "begun" \/ (tick.at = "scan" /\ o \in tick.todo /\ p = price))
<1>1. o \in OpenLegs /\ leg # leg' /\ leg'[o[1]][o[2]] # "canceled" /\ leg'[o[1]][o[2]] # "open"
  BY DEF Filling, OpenLegs
<1>2. ASSUME NEW S, NEW status, leg' = Marked(S, status) PROVE status = "filled" /\ o \in S
  <2>1. leg'[o[1]][o[2]] = IF o \in S THEN status ELSE leg[o[1]][o[2]]
    BY <1>2, MarkedOrder
  <2> QED BY <2>1 DEF Filling
<1>3. ASSUME NEW p, NEW orders, ScanOn(orders, p)
      PROVE  o \in orders /\ Crossed(o, p)
  <2>1. PICK hits : hits = {x \in orders \cap OpenLegs : Crossed(x, p)}
    OBVIOUS
  <2>2. PICK x \in hits : leg' = Marked({x}, "filled")
    BY <1>1, <1>3, <2>1 DEF ScanOn
  <2>3. o \in {x}
    BY <1>2, <2>2
  <2> QED BY <2>1, <2>3
<1>4. ~Commands
  <2>1. ASSUME NEW S PROVE leg' # Marked(S, "open") /\ leg' # Marked(S, "canceled")
    BY <1>2
  <2> QED BY <1>1, <2>1 DEF Commands, Book, BookRefused, PlaceLegs, ReadPosition, ClosePosition,
                            CancelLegs, CancelOrder
<1>5. ~TickSweep /\ ~TickBegin
  <2>1. ASSUME NEW S PROVE leg' # Marked(S, "canceled")
    BY <1>2
  <2> QED BY <1>1, <2>1 DEF TickSweep, TickBegin
<1>6. ~Monitors
  BY <1>1 DEF Monitors, HoldLimit, Supervise, CheckClosed, CheckOverdue, CheckEarly, Decide,
              MonitorExit, MonitorDies
<1>7. ~UNCHANGED vars
  BY <1>1 DEF vars
<1>8. (\E p \in Levels : TickScan(p)) \/ TickGoOn
  BY <1>4, <1>5, <1>6, <1>7 DEF Next, Ticks
<1>9. ASSUME NEW p \in Levels, TickScan(p) PROVE Crossed(o, p) /\ tick.at = "begun"
  BY <1>3, <1>9 DEF TickScan
<1>10. ASSUME TickGoOn PROVE Crossed(o, price) /\ tick.at = "scan" /\ o \in tick.todo
  BY <1>3, <1>10 DEF TickGoOn
<1> QED BY <1>1, <1>8, <1>9, <1>10

LEMMA FillsOwn ==
    ASSUME TypeOK, NEW after, OwnInv(after), [Next]_vars, NEW o \in Orders, Filling(o)
    PROVE  position # NoPosition /\ position.trade = o[1]
BY FillingIsHit, HitIsOwn

\* With tasks that run one at a time, and a monitor that may die but not exit, a
\* leg of engine.orders fills into the position its own trade opened, and never
\* into none: neither one opened later, nor a flat book. For targets of any
\* sizes that leave more than dust until the last of them has filled.
THEOREM LegsFillIntoTheirOwn ==
    ASSUME NEW after \in [SUBSET Ahead -> Int], LeavesMore(after)
    PROVE  Spec /\ Orderly => FillsOwnPosition /\ NoPhantomFill
<1>1. Init => OwnInv(after)
  BY InitOwn
<1>2. TypeOK /\ Orderly /\ OwnInv(after) /\ [Next]_vars => OwnInv(after)'
  BY StepOwn
<1>3. TypeOK /\ OwnInv(after) /\ [Next]_vars =>
         [\A o \in Orders : Filling(o) /\ position # NoPosition => position.trade = o[1]]_vars
  BY FillsOwn
<1>4. TypeOK /\ OwnInv(after) /\ [Next]_vars =>
         [\A o \in Orders : Filling(o) => position # NoPosition]_vars
  BY FillsOwn
<1>5. Spec => []TypeOK
  BY DeskTypeInvariant
<1>6. Orderly /\ [Next]_vars => Orderly'
  BY PlanStays DEF Orderly
<1> QED BY <1>1, <1>2, <1>3, <1>4, <1>5, <1>6, PTL DEF Spec, FillsOwnPosition, NoPhantomFill
=============================================================================
