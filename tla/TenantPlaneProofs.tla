-------------------------- MODULE TenantPlaneProofs --------------------------
(***************************************************************************)
(* Theorems about the tenant's desk over restarts (DeskRecovery), for any  *)
(* number of trades, of session objects and of lots: what RestartRestores  *)
(* says, every part under the faults it can bear; about the sockets of the *)
(* dashboard (ApiFeed), for any number of sockets and channels; and about  *)
(* the engine switch and its guard (EngineSwitch), for every poll          *)
(* interval, memory, tombstone life and set of timers.                     *)
(***************************************************************************)
EXTENDS DeskRecovery, ApiFeed, EngineSwitch, FiniteSetTheorems, WellFoundedInduction, TLAPS

----------------------------------------------------------------------------
(* The inductive invariant: what holds under any faults ...                *)

\* Session objects are built in order, and a pass runs in a pending one.
BuildsInOrder ==
    /\ \E k \in 0..MaxSessions : \A g \in Builds : engine[g].state # "none" <=> g <= k
    /\ current # 0 => engine[current].state # "none"
    /\ \A g \in Builds : /\ pass[g] # NoPass => pass[g].at # "none" /\ engine[g].state = "pending"
                         /\ pass[g].at = "targets" => pass[g].id \in Ids

\* A booking is for a session whose engine has been restored.
BooksReadyOnly ==
    \/ booking = NoBooking
    \/ /\ booking.at # "idle" /\ booking.g # 0 /\ booking.t # 0
       /\ engine[booking.g].state = "ready"

\* ... and what holds besides while nothing is lost and no process ends with
\* something under way.
Quiet == Without(RecoveryFaults \ {"partial_exit"})

Log(i) == [type |-> "log_trade", id |-> i]
Update(i) == [type |-> "update_trade", id |-> i]
OnWire(m) == \E n \in 1..Len(wire) : wire[n] = m

\* A booking is on its way to its row, or has it; an exit likewise.
Recording(i) == booking.at = "record" /\ i = Own(booking.t)
Known(i) == row[i] # "none" \/ OnWire(Log(i)) \/ Recording(i)
Closing(i) == row[i] = "closed" \/ OnWire(Update(i)) \/ <<current, i>> \in exits

\* The daemon's parts start in order, and only the running one has a desk.
OneDesk ==
    /\ linked
    /\ daemon = "down" <=> current = 0
    /\ daemon # "up" => wire = <<>> /\ exits = {} /\ booking = NoBooking
    /\ daemon \in {"commands", "up"} => Desk.state = "ready"
    /\ \A g \in Builds : g # current => engine[g] = [EmptyEngine EXCEPT !.state = engine[g].state]
                                        /\ pass[g] = NoPass
    /\ \A e \in exits : e[1] = current
    /\ booking # NoBooking => booking.g = current
    /\ Desk.state = "pending" => pass[current].at # "none"

\* Every message is on the wire once, a booking's before its exit's, and finds the
\* row it needs.
MessagesInOrder ==
    /\ \A n, k \in 1..Len(wire) : wire[n] = wire[k] => n = k
    /\ \A i \in Ids :
         /\ OnWire(Log(i)) => row[i] = "none"
         /\ Recording(i) => row[i] = "none" /\ ~OnWire(Log(i)) /\ ~Closing(i)
         /\ OnWire(Update(i)) => row[i] # "closed" /\ <<current, i>> \notin exits
         /\ <<current, i>> \in exits => row[i] # "closed"
         /\ Closing(i) => Known(i)
    /\ \A i \in Ids, n \in 1..Len(wire) :
         wire[n] = Update(i) =>
             row[i] = "open" \/ \E k \in 1..Len(wire) : k < n /\ wire[k] = Log(i)

\* What is known of the trades: those that were booked, open until they are closing.
TradesKnown ==
    /\ \A i \in Ids : Known(i) <=> \E t \in 1..booked : i = Own(t)
    /\ \A i \in Ids : left[i] > 0 <=> Known(i) /\ ~Closing(i)
    /\ booking.at = "execute" => booking.t = booked + 1 /\ Desk.id = 0
    /\ booking.at = "record" => booking.t = booked /\ Desk.id = Own(booked)
    /\ \A i, j \in Ids : left[i] > 0 /\ left[j] > 0 => i = j

\* A restored engine holds what is open, and a pass is on its way there.
DeskHolds ==
    /\ \A l \in Desk.legs : l[1] = Desk.id
    /\ Desk.state = "ready" =>
         /\ \A i \in Ids : left[i] > 0 <=> Desk.id = i
         /\ Desk.banked = OverWith
    /\ Desk.state = "pending" =>
         LET p == pass[current] IN
         /\ p.at = "load" => Desk.id = 0
         /\ p.at # "load" => p.closed = {i \in Ids : row[i] = "closed"}
         /\ p.at = "rows" =>
               \/ p.open = LiveRows /\ Desk.id = 0
               \/ p.open = {} /\ Desk.id # 0 /\ left[Desk.id] > 0
         /\ p.at = "targets" => p.open = {} /\ Desk.id # 0 /\ left[Desk.id] > 0 /\ p.id = Desk.id

\* Without partial exits the quantities are whole.
WholeQuantities ==
    "partial_exit" \notin faults =>
        /\ \A i \in Ids : left[i] \in {0, Size}
        /\ Desk.id # 0 => Desk.quantity = Size

CalmInv == OneDesk /\ MessagesInOrder /\ TradesKnown /\ DeskHolds /\ WholeQuantities

AnyInv == RecoveryTypeOK /\ BuildsInOrder /\ BooksReadyOnly /\ RestoredWithStop

RecoveryInv == AnyInv /\ (Quiet => CalmInv)

----------------------------------------------------------------------------
(* Helpers.                                                                *)

\* Ids are numbers, and tell which trade's and which kind of id they are.
LEMMA IdsAreNumbers ==
    /\ Ids \subseteq Nat \ {0} /\ 0 \notin Ids
    /\ \A t \in 1..MaxTrades : Own(t) \in Ids /\ Stray(t) \in Ids
    /\ \A t, u \in Nat : Own(t) = Own(u) => t = u
    /\ \A t \in Nat : Own(t) \in Nat
<1>1. ASSUME NEW i \in Ids PROVE i \in Nat \ {0}
  BY RecoveryAssumption DEF Ids, Own, Stray
<1>2. \A t \in 1..MaxTrades : Own(t) \in Ids /\ Stray(t) \in Ids
  BY DEF Ids
<1>3. /\ \A t, u \in Nat : Own(t) = Own(u) => t = u
      /\ \A t \in Nat : Own(t) \in Nat
  BY DEF Own
<1> QED BY <1>1, <1>2, <1>3

LEMMA Records ==
    ASSUME RecoveryTypeOK
    PROVE  /\ engine \in [Builds -> EngineRecords] /\ pass \in [Builds -> PassRecords]
           /\ booking \in BookingRecords /\ wire \in Seq(Messages)
           /\ \A g \in Builds : engine[g] \in EngineRecords /\ pass[g] \in PassRecords
BY DEF RecoveryTypeOK

\* The engine's operations, field by field.
LEMMA HoldsRecord ==
    ASSUME NEW e \in EngineRecords, NEW i \in Ids, NEW kinds \in SUBSET {"stop", "target"}
    PROVE  LET r == Holds(e, i, Size, kinds)
           IN  /\ r \in EngineRecords /\ r.id = i /\ r.quantity = Size
               /\ r.legs = e.legs \cup ({i} \X kinds)
               /\ r.banked = e.banked /\ r.state = e.state
               /\ "stop" \in kinds => <<i, "stop">> \in r.legs
<1> DEFINE r == Holds(e, i, Size, kinds)
<1>1. e.legs \subseteq Ids \X {"stop", "target"}
  BY DEF EngineRecords
<1>2. {i} \X kinds \subseteq Ids \X {"stop", "target"}
  OBVIOUS
<1>2a. Size \in 0..Size /\ e.banked \subseteq Ids
       /\ e.id \in Ids \cup {0} /\ e.state \in {"none", "pending", "ready"}
  BY RecoveryAssumption DEF EngineRecords
<1> DEFINE ls == e.legs \cup ({i} \X kinds)
<1>2b. ls \in SUBSET (Ids \X {"stop", "target"})
  BY <1>1, <1>2
<1> HIDE DEF ls
<1>3. r \in EngineRecords
  BY <1>2a, <1>2b DEF EngineRecords, Holds, ls
<1> QED BY <1>3 DEF EngineRecords, Holds

LEMMA OneLotLessRecord ==
    ASSUME NEW e \in EngineRecords, e.quantity > 1
    PROVE  LET r == OneLotLess(e)
           IN  /\ r \in EngineRecords /\ r.id = e.id /\ r.quantity = e.quantity - 1
               /\ r.legs = e.legs \ {<<e.id, "target">>}
               /\ r.banked = e.banked /\ r.state = e.state
               /\ \A j : <<j, "stop">> \in r.legs <=> <<j, "stop">> \in e.legs
<1> DEFINE r == OneLotLess(e)
<1>2. /\ e.quantity - 1 \in 0..Size /\ e.id \in Ids \cup {0}
      /\ e.legs \ {<<e.id, "target">>} \in SUBSET (Ids \X {"stop", "target"}) /\ e.banked \in SUBSET Ids
  BY RecoveryAssumption DEF EngineRecords
<1>3. r \in EngineRecords
  BY <1>2 DEF EngineRecords, OneLotLess
<1> QED BY <1>3 DEF EngineRecords, OneLotLess

LEMMA FlattenedRecord ==
    ASSUME NEW e \in EngineRecords, e.id \in Ids
    PROVE  LET r == Flattened(e)
           IN  /\ r \in EngineRecords /\ r.id = 0 /\ r.quantity = 0 /\ r.legs = {}
               /\ r.banked = e.banked \cup {e.id} /\ r.state = e.state
<1> DEFINE r == Flattened(e)
<1>2. /\ 0 \in 0..Size /\ 0 \in Ids \cup {0}
      /\ {} \in SUBSET (Ids \X {"stop", "target"}) /\ e.banked \cup {e.id} \in SUBSET Ids
  BY RecoveryAssumption DEF EngineRecords
<1>3. r \in EngineRecords
  BY <1>2 DEF EngineRecords, Flattened
<1> QED BY <1>3 DEF EngineRecords, Flattened

LEMMA EmptyRecords ==
    /\ EmptyEngine \in EngineRecords /\ NoPass \in PassRecords /\ NoBooking \in BookingRecords
BY RecoveryAssumption DEF EngineRecords, PassRecords, BookingRecords, EmptyEngine, NoPass, NoBooking

\* The next object to be built is a new one.
LEMMA NextIsNew ==
    ASSUME RecoveryTypeOK, BuildsInOrder, NextBuild \in Builds
    PROVE  /\ engine[NextBuild].state = "none"
           /\ \A h \in Builds : h < NextBuild <=> engine[h].state # "none"
<1>1. PICK k \in 0..MaxSessions : \A g \in Builds : engine[g].state # "none" <=> g <= k
  BY DEF BuildsInOrder
<1>2. k \in Int /\ Built = 1..k
  BY <1>1, RecoveryAssumption DEF Built, Builds
<1>3. Cardinality(Built) = k
  BY <1>2, FS_Interval
<1>4. NextBuild = k + 1
  BY <1>3 DEF NextBuild
<1> QED BY <1>1, <1>4, RecoveryAssumption DEF Builds

\* A step that changes no engine's state and no pass.
LEMMA OrderKept ==
    ASSUME RecoveryTypeOK, BuildsInOrder, UNCHANGED <<current, pass>>,
           \A g \in Builds : engine'[g].state = engine[g].state
    PROVE  BuildsInOrder'
<1>1. PICK k \in 0..MaxSessions : \A g \in Builds : engine[g].state # "none" <=> g <= k
  BY DEF BuildsInOrder
<1>2. \A g \in Builds : engine'[g].state # "none" <=> g <= k
  BY <1>1
<1>3. current' # 0 => engine'[current'].state # "none"
  BY DEF BuildsInOrder, RecoveryTypeOK, Builds
<1> QED BY <1>2, <1>3 DEF BuildsInOrder

----------------------------------------------------------------------------
(* Under any faults: the types, the order of the builds, who may book, stops. *)

\* Only messages, rows or exits move.
LEMMA DeskUntouched ==
    ASSUME AnyInv, UNCHANGED <<faults, current, engine, pass, booking, booked, left>>,
           daemon' \in {"down", "boot", "commands", "up"}, linked' \in BOOLEAN,
           row' \in [Ids -> {"none", "open", "closed"}], wire' \in Seq(Messages),
           exits' \subseteq Builds \X Ids
    PROVE  AnyInv'
BY DEF AnyInv, RecoveryTypeOK, BuildsInOrder, BooksReadyOnly, RestoredWithStop

\* Publishing keeps the wire a sequence of messages.
LEMMA PublishTypes ==
    ASSUME RecoveryTypeOK, NEW m \in Messages, Published(m)
    PROVE  wire' \in Seq(Messages)
BY Records DEF Published

LEMMA RowTypes ==
    ASSUME RecoveryTypeOK, NEW m \in Messages, Persist(m)
    PROVE  row' \in [Ids -> {"none", "open", "closed"}]
<1>1. m.id \in Ids
  BY DEF Messages
<1>2. CASE StoreTrade(m.id)
  BY <1>1, <1>2 DEF RecoveryTypeOK, StoreTrade
<1>3. CASE UpdateTradeExit(m.id)
  BY <1>1, <1>3 DEF RecoveryTypeOK, UpdateTradeExit
<1> QED BY <1>2, <1>3 DEF Persist

LEMMA HeadIsMessage ==
    ASSUME RecoveryTypeOK, wire # <<>>
    PROVE  /\ Head(wire) \in Messages /\ Tail(wire) \in Seq(Messages)
           /\ Len(wire) \in Nat /\ Len(wire) > 0 /\ Head(wire) = wire[1]
BY Records

\* The daemon's life: a new session object is pending, with its pass to come.
LEMMA MaterializeAny ==
    ASSUME AnyInv, NextBuild \in Builds, Materialize(NextBuild),
           UNCHANGED <<faults, row, wire, booking, exits, booked, left>>,
           daemon' \in {"down", "boot", "commands", "up"}, linked' \in BOOLEAN
    PROVE  AnyInv'
<1> DEFINE b == NextBuild
<1> USE DEF Materialize
<1>1. /\ engine[b].state = "none" /\ b \in Builds
      /\ \A h \in Builds : h < b <=> engine[h].state # "none"
  BY NextIsNew DEF AnyInv
<1> HIDE DEF b
<1>2. /\ engine' = [engine EXCEPT ![b] = [engine[b] EXCEPT !.state = "pending"]]
      /\ pass' = [pass EXCEPT ![b] = [pass[b] EXCEPT !.at = "load"]]
      /\ current' = b
  BY DEF b
<1>3. /\ [engine[b] EXCEPT !.state = "pending"] \in EngineRecords
      /\ [engine[b] EXCEPT !.state = "pending"].state = "pending"
      /\ [engine[b] EXCEPT !.state = "pending"].id = engine[b].id
      /\ [engine[b] EXCEPT !.state = "pending"].legs = engine[b].legs
      /\ [pass[b] EXCEPT !.at = "load"] \in PassRecords
      /\ [pass[b] EXCEPT !.at = "load"].at = "load"
  BY <1>1, Records DEF AnyInv, EngineRecords, PassRecords
<1>4. /\ engine' \in [Builds -> EngineRecords] /\ pass' \in [Builds -> PassRecords]
      /\ engine'[b].state = "pending" /\ pass'[b].at = "load"
      /\ engine'[b].id = engine[b].id /\ engine'[b].legs = engine[b].legs
      /\ \A g \in Builds : g # b => engine'[g] = engine[g] /\ pass'[g] = pass[g]
  BY <1>1, <1>2, <1>3, Records DEF AnyInv
<1>5. RecoveryTypeOK'
  BY <1>1, <1>2, <1>4, RecoveryAssumption
     DEF AnyInv, RecoveryTypeOK, Builds
<1>6. BuildsInOrder'
  <2>1. \A g \in Builds : engine'[g].state # "none" <=> g <= b
    BY <1>1, <1>4 DEF Builds
  <2>2. \A g \in Builds : /\ pass'[g] # NoPass => pass'[g].at # "none" /\ engine'[g].state = "pending"
                          /\ pass'[g].at = "targets" => pass'[g].id \in Ids
    BY <1>4 DEF AnyInv, BuildsInOrder
  <2>3. engine'[current'].state # "none"
    BY <1>2, <1>4
  <2> QED BY <1>1, <2>1, <2>2, <2>3, RecoveryAssumption DEF BuildsInOrder, Builds
<1>7. BooksReadyOnly'
  BY <1>1, <1>4, Records DEF AnyInv, BooksReadyOnly, BookingRecords, Builds
<1>8. RestoredWithStop'
  BY <1>4 DEF AnyInv, RestoredWithStop
<1> QED BY <1>5, <1>6, <1>7, <1>8 DEF AnyInv

LEMMA BootAny ==
    ASSUME AnyInv, Boot PROVE AnyInv'
BY MaterializeAny DEF Boot

LEMMA ChangeModeAny ==
    ASSUME AnyInv, ChangeMode PROVE AnyInv'
BY MaterializeAny DEF ChangeMode, AnyInv, RecoveryTypeOK

LEMMA SubscribeAny ==
    ASSUME AnyInv, SubscribeCommands \/ SubscribeLedger PROVE AnyInv'
<1>1. row \in [Ids -> {"none", "open", "closed"}] /\ wire \in Seq(Messages)
      /\ exits \subseteq Builds \X Ids /\ linked \in BOOLEAN
  BY DEF AnyInv, RecoveryTypeOK
<1> QED BY <1>1, DeskUntouched DEF SubscribeCommands, SubscribeLedger

\* The process ends: every engine is empty, the objects it had stay built.
LEMMA CrashAny ==
    ASSUME AnyInv, Crash PROVE AnyInv'
<1> USE DEF Crash
<1>1. ASSUME NEW g \in Builds
      PROVE  /\ engine'[g] \in EngineRecords /\ engine'[g].id = 0
             /\ engine'[g].state = engine[g].state /\ pass'[g] = NoPass
  BY EmptyRecords, Records DEF AnyInv, EngineRecords, EmptyEngine
<1>2. engine' \in [Builds -> EngineRecords] /\ pass' \in [Builds -> PassRecords]
  BY <1>1, EmptyRecords
<1>3. RecoveryTypeOK'
  <2>1. wire' \in Seq(Messages)
    BY DEF Crash
  <2>2. booking' \in BookingRecords
    BY EmptyRecords
  <2> QED BY <1>2, <2>1, <2>2, RecoveryAssumption
      DEF AnyInv, RecoveryTypeOK
<1>4. BuildsInOrder'
  <2>1. PICK k \in 0..MaxSessions : \A g \in Builds : engine[g].state # "none" <=> g <= k
    BY DEF AnyInv, BuildsInOrder
  <2>2. \A g \in Builds : engine'[g].state # "none" <=> g <= k
    BY <1>1, <2>1
  <2>3. \A g \in Builds : /\ pass'[g] # NoPass => pass'[g].at # "none" /\ engine'[g].state = "pending"
                          /\ pass'[g].at = "targets" => pass'[g].id \in Ids
    BY <1>1 DEF NoPass
  <2> QED BY <2>2, <2>3 DEF BuildsInOrder
<1>5. BooksReadyOnly' /\ RestoredWithStop'
  BY <1>1 DEF BooksReadyOnly, RestoredWithStop
<1> QED BY <1>3, <1>4, <1>5 DEF AnyInv

LEMMA BusAny ==
    ASSUME AnyInv, BusDrops \/ BusReturns PROVE AnyInv'
<1>1. row \in [Ids -> {"none", "open", "closed"}] /\ wire \in Seq(Messages)
      /\ exits \subseteq Builds \X Ids /\ <<>> \in Seq(Messages)
      /\ daemon \in {"down", "boot", "commands", "up"}
  BY DEF AnyInv, RecoveryTypeOK
<1> QED BY <1>1, DeskUntouched DEF BusDrops, BusReturns

LEMMA LedgerHandleAny ==
    ASSUME AnyInv, LedgerHandle PROVE AnyInv'
<1>1. Head(wire) \in Messages /\ Tail(wire) \in Seq(Messages)
  BY HeadIsMessage DEF AnyInv, LedgerHandle
<1>2. row' \in [Ids -> {"none", "open", "closed"}]
  BY <1>1, RowTypes DEF LedgerHandle, AnyInv, RecoveryTypeOK
<1>3. exits \subseteq Builds \X Ids /\ daemon \in {"down", "boot", "commands", "up"}
      /\ linked \in BOOLEAN
  BY DEF AnyInv, RecoveryTypeOK
<1> QED BY <1>1, <1>2, <1>3, DeskUntouched DEF LedgerHandle

LEMMA PublishExitAny ==
    ASSUME AnyInv, NEW e \in exits, PublishExit(e) PROVE AnyInv'
<1>1. [type |-> "update_trade", id |-> e[2]] \in Messages
  BY DEF AnyInv, RecoveryTypeOK, Messages
<1>2. wire' \in Seq(Messages)
  BY <1>1, PublishTypes DEF PublishExit, AnyInv
<1>3. row \in [Ids -> {"none", "open", "closed"}] /\ exits' \subseteq Builds \X Ids
      /\ daemon \in {"down", "boot", "commands", "up"} /\ linked \in BOOLEAN
  BY DEF AnyInv, RecoveryTypeOK, PublishExit
<1> QED BY <1>2, <1>3, DeskUntouched DEF PublishExit

\* A booking begins, in a restored engine.
LEMMA BookBeginAny ==
    ASSUME AnyInv, NEW by \in {"command", "fan_out"}, BookBegin(by) PROVE AnyInv'
<1> USE DEF BookBegin
<1>1. /\ booked + 1 \in 1..MaxTrades /\ current \in Builds /\ Desk = engine[current]
      /\ current \in 0..MaxSessions
  BY RecoveryAssumption DEF AnyInv, RecoveryTypeOK, Desk, Builds
<1>2. /\ booking' \in BookingRecords /\ booking'.at = "execute" /\ booking'.g = current
      /\ booking'.t = booked + 1
  BY <1>1, RecoveryAssumption DEF BookingRecords
<1>3. RecoveryTypeOK'
  BY <1>2 DEF AnyInv, RecoveryTypeOK
<1>4. BuildsInOrder' /\ RestoredWithStop'
  BY DEF AnyInv, BuildsInOrder, RestoredWithStop
<1>5. BooksReadyOnly'
  BY <1>1, <1>2 DEF BooksReadyOnly
<1> QED BY <1>3, <1>4, <1>5 DEF AnyInv

\* What a booking under way is about.
LEMMA BookingIs ==
    ASSUME AnyInv, booking # NoBooking
    PROVE  /\ booking.g \in Builds /\ booking.t \in 1..MaxTrades /\ booking.t \in Nat
           /\ engine[booking.g] \in EngineRecords /\ engine[booking.g].state = "ready"
           /\ Own(booking.t) \in Ids /\ Stray(booking.t) \in Ids /\ 0 \notin Ids
<1>1. booking.g \in Builds /\ booking.t \in 1..MaxTrades
  BY Records, RecoveryAssumption DEF AnyInv, BooksReadyOnly, BookingRecords, Builds
<1> QED BY <1>1, Records, IdsAreNumbers DEF AnyInv, BooksReadyOnly

LEMMA Moving ==
    ASSUME booking.at # "idle" PROVE booking # NoBooking
BY DEF NoBooking

\* An engine whose record changes, its state kept and its stop in place.
LEMMA EngineMoves ==
    ASSUME AnyInv, NEW g \in Builds, NEW r \in EngineRecords,
           engine' = [engine EXCEPT ![g] = r], r.state = engine[g].state,
           r.id # 0 => <<r.id, "stop">> \in r.legs,
           UNCHANGED <<faults, daemon, row, wire, linked, current, pass>>,
           exits' \subseteq Builds \X Ids, booked' \in 0..MaxTrades,
           left' \in [Ids -> 0..Size], booking' \in BookingRecords,
           \/ booking' = NoBooking
           \/ booking # NoBooking /\ booking'.at # "idle" /\ booking'.g = booking.g
              /\ booking'.t = booking.t
    PROVE  AnyInv'
<1>1. /\ engine'[g] = r /\ \A h \in Builds : h # g => engine'[h] = engine[h]
      /\ engine' \in [Builds -> EngineRecords]
      /\ \A h \in Builds : engine'[h].state = engine[h].state
  BY Records DEF AnyInv
<1>2. RecoveryTypeOK'
  BY <1>1 DEF AnyInv, RecoveryTypeOK
<1>3. BuildsInOrder'
  <2>1. PICK k \in 0..MaxSessions : \A h \in Builds : engine[h].state # "none" <=> h <= k
    BY DEF AnyInv, BuildsInOrder
  <2>2. \A h \in Builds : engine'[h].state # "none" <=> h <= k
    BY <1>1, <2>1
  <2>3. current' # 0 => engine'[current'].state # "none"
    BY <1>1 DEF AnyInv, BuildsInOrder, RecoveryTypeOK, Builds
  <2>4. \A h \in Builds : /\ pass'[h] # NoPass => pass'[h].at # "none" /\ engine'[h].state = "pending"
                          /\ pass'[h].at = "targets" => pass'[h].id \in Ids
    BY <1>1 DEF AnyInv, BuildsInOrder, NoPass
  <2> QED BY <2>2, <2>3, <2>4 DEF BuildsInOrder
<1>4. BooksReadyOnly'
  BY <1>1, BookingIs DEF AnyInv, BooksReadyOnly
<1>5. RestoredWithStop'
  BY <1>1 DEF AnyInv, RestoredWithStop
<1> QED BY <1>2, <1>3, <1>4, <1>5 DEF AnyInv

\* The fill, with its bracket.
LEMMA BookFillAny ==
    ASSUME AnyInv, BookFill PROVE AnyInv'
<1> USE DEF BookFill
<1> DEFINE g == booking.g
           i == Own(booking.t)
           r == Holds(engine[g], i, Size, {"stop", "target"})
<1>1. booking # NoBooking
  BY Moving
<1>2. g \in Builds /\ i \in Ids /\ engine[g] \in EngineRecords /\ booking.t \in 0..MaxTrades
  BY <1>1, BookingIs
<1>3. r \in EngineRecords /\ r.id = i /\ r.state = engine[g].state /\ <<i, "stop">> \in r.legs
  BY <1>2, HoldsRecord
<1>4. engine' = [engine EXCEPT ![g] = r]
  OBVIOUS
<1>5. /\ booking' \in BookingRecords /\ booking'.at = "record" /\ booking'.g = booking.g
      /\ booking'.t = booking.t
  BY <1>1, Records DEF AnyInv, BookingRecords
<1>6. left' \in [Ids -> 0..Size]
  BY <1>2, RecoveryAssumption DEF AnyInv, RecoveryTypeOK
<1>7. /\ exits' \subseteq Builds \X Ids /\ booked' \in 0..MaxTrades
      /\ UNCHANGED <<faults, daemon, row, wire, linked, current, pass>>
  BY <1>2 DEF AnyInv, RecoveryTypeOK, BuildsInOrder
<1> HIDE DEF r, g, i, BookFill
<1> QED BY <1>1, <1>2, <1>3, <1>4, <1>5, <1>6, <1>7, EngineMoves

LEMMA BookRecordAny ==
    ASSUME AnyInv, BookRecord PROVE AnyInv'
<1> USE DEF BookRecord
<1>1. BookedId(booking.g, booking.t) \in Ids
  BY BookingIs, Moving DEF BookedId
<1>2. wire' \in Seq(Messages)
  <2>1. [type |-> "log_trade", id |-> BookedId(booking.g, booking.t)] \in Messages
    BY <1>1 DEF Messages
  <2> QED BY <2>1, PublishTypes DEF AnyInv
<1>3. RecoveryTypeOK'
  BY <1>2, EmptyRecords DEF AnyInv, RecoveryTypeOK
<1> QED BY <1>3 DEF AnyInv, BuildsInOrder, BooksReadyOnly, RestoredWithStop

LEMMA PartialExitAny ==
    ASSUME AnyInv, PartialExit PROVE AnyInv'
<1> USE DEF PartialExit
<1> DEFINE i == Desk.id
           r == OneLotLess(engine[current])
<1>1. current \in Builds /\ Desk = engine[current] /\ engine[current] \in EngineRecords
  BY RecoveryAssumption, Records DEF AnyInv, RecoveryTypeOK, Desk, Builds
<1>2. i \in Ids
  BY <1>1, RecoveryAssumption DEF EngineRecords
<1>3. /\ r \in EngineRecords /\ r.id = engine[current].id /\ r.state = engine[current].state
      /\ \A j : <<j, "stop">> \in r.legs <=> <<j, "stop">> \in engine[current].legs
  BY <1>1, OneLotLessRecord
<1>4. engine' = [engine EXCEPT ![current] = r]
  OBVIOUS
<1>5. r.id # 0 => <<r.id, "stop">> \in r.legs
  BY <1>1, <1>3 DEF AnyInv, RestoredWithStop
<1>6. left' \in [Ids -> 0..Size]
  BY <1>2, RecoveryAssumption DEF AnyInv, RecoveryTypeOK
<1>7. /\ exits' \subseteq Builds \X Ids /\ booked' \in 0..MaxTrades /\ booking' \in BookingRecords
      /\ UNCHANGED <<faults, daemon, row, wire, linked, current, pass>>
      /\ booking' = NoBooking \/ (booking # NoBooking /\ booking'.at # "idle"
                                  /\ booking'.g = booking.g /\ booking'.t = booking.t)
  BY DEF AnyInv, RecoveryTypeOK, BuildsInOrder, BooksReadyOnly
<1> HIDE DEF r, i, PartialExit
<1> QED BY <1>1, <1>3, <1>4, <1>5, <1>6, <1>7, EngineMoves

LEMMA ExitAny ==
    ASSUME AnyInv, Exit PROVE AnyInv'
<1> USE DEF Exit
<1> DEFINE i == Desk.id
           r == Flattened(engine[current])
<1>1. current \in Builds /\ Desk = engine[current] /\ engine[current] \in EngineRecords
  BY RecoveryAssumption, Records DEF AnyInv, RecoveryTypeOK, Desk, Builds, EmptyEngine
<1>2. i \in Ids
  BY <1>1 DEF EngineRecords
<1>3. r \in EngineRecords /\ r.id = 0 /\ r.state = engine[current].state
  BY <1>1, <1>2, FlattenedRecord
<1>4. engine' = [engine EXCEPT ![current] = r]
  OBVIOUS
<1>6. left' \in [Ids -> 0..Size] /\ exits' \subseteq Builds \X Ids
  BY <1>1, <1>2, RecoveryAssumption DEF AnyInv, RecoveryTypeOK
<1>7. /\ booked' \in 0..MaxTrades /\ booking' \in BookingRecords
      /\ UNCHANGED <<faults, daemon, row, wire, linked, current, pass>>
      /\ booking' = NoBooking \/ (booking # NoBooking /\ booking'.at # "idle"
                                  /\ booking'.g = booking.g /\ booking'.t = booking.t)
  BY DEF AnyInv, RecoveryTypeOK, BuildsInOrder, BooksReadyOnly
<1> HIDE DEF r, i, Exit
<1> QED BY <1>1, <1>3, <1>4, <1>6, <1>7, EngineMoves

\* Some ids have an oldest one.
LEMMA OldestIsOne ==
    ASSUME NEW S \in SUBSET Ids, S # {}
    PROVE  OldestOf(S) \in S
<1>1. S \subseteq Nat
  BY IdsAreNumbers
<1>2. PICK i \in S : \A j \in S : ~(<<j, i>> \in OpToRel(<, Nat))
  BY <1>1, NatLessThanWellFounded, WFMin
<1>3. \A j \in S : i <= j
  <2> TAKE j \in S
  <2>1. i \in Nat /\ j \in Nat /\ <<j, i>> \in Nat \X Nat
    BY <1>1
  <2>2. j < i => <<j, i>> \in OpToRel(<, Nat)
    BY <2>1 DEF OpToRel
  <2>3. ~(j < i)
    BY <1>2, <2>2, Zenon
  <2> QED BY <2>1, <2>3
<1> QED BY <1>3 DEF OldestOf

\* A pass's operations, field by field.
LEMMA FreedRecord ==
    ASSUME NEW e \in EngineRecords, NEW closed \in SUBSET Ids
    PROVE  LET r == Freed(e, closed)
           IN  /\ r \in EngineRecords /\ r.id = e.id /\ r.quantity = e.quantity
               /\ r.legs = e.legs /\ r.banked = closed /\ r.state = "ready"
BY DEF EngineRecords, Freed

LEMMA RestoringRecord ==
    ASSUME NEW p \in PassRecords, NEW i \in Ids
    PROVE  LET r == Restoring(p, i)
           IN  /\ r \in PassRecords /\ r.at = "targets" /\ r.id = i
               /\ r.open = p.open \ {i} /\ r.closed = p.closed
BY DEF PassRecords, Restoring

LEMMA TargetsRecord ==
    ASSUME NEW e \in EngineRecords, NEW i \in Ids
    PROVE  LET r == [e EXCEPT !.legs = e.legs \cup {<<i, "target">>}]
           IN  /\ r \in EngineRecords /\ r.id = e.id /\ r.quantity = e.quantity
               /\ r.legs = e.legs \cup {<<i, "target">>}
               /\ r.banked = e.banked /\ r.state = e.state
<1>1. e.legs \cup {<<i, "target">>} \in SUBSET (Ids \X {"stop", "target"})
  BY DEF EngineRecords
<1> QED BY <1>1 DEF EngineRecords

\* A pass that runs is that of a pending engine.
LEMMA PassIs ==
    ASSUME AnyInv, NEW g \in Builds
    PROVE  /\ engine[g] \in EngineRecords /\ pass[g] \in PassRecords
           /\ pass[g] # NoPass => pass[g].at # "none" /\ engine[g].state = "pending"
           /\ pass[g].at = "targets" => pass[g].id \in Ids
           /\ pass[g].at # "none" => pass[g] # NoPass
           /\ booking # NoBooking /\ pass[g] # NoPass => booking.g # g
BY Records DEF AnyInv, BuildsInOrder, BooksReadyOnly, NoPass

\* What a step of a pass leaves alone.
LEMMA PassMoves ==
    ASSUME AnyInv, NEW g \in Builds, NEW p \in PassRecords, NEW r \in EngineRecords,
           pass[g] # NoPass,
           pass' = [pass EXCEPT ![g] = p], engine' = [engine EXCEPT ![g] = r],
           UNCHANGED <<faults, daemon, row, wire, linked, current, booking, exits, booked, left>>,
           \/ p = NoPass /\ r.state \in {"pending", "ready"}
           \/ p.at # "none" /\ r.state = "pending",
           p.at = "targets" => p.id \in Ids,
           r.id # 0 => <<r.id, "stop">> \in r.legs
    PROVE  AnyInv'
<1>0. engine[g].state = "pending" /\ (booking # NoBooking => booking.g # g)
  BY PassIs
<1>1. /\ engine'[g] = r /\ \A h \in Builds : h # g => engine'[h] = engine[h] /\ pass'[h] = pass[h]
      /\ pass'[g] = p
      /\ engine' \in [Builds -> EngineRecords] /\ pass' \in [Builds -> PassRecords]
      /\ \A h \in Builds : engine'[h].state # "none" <=> engine[h].state # "none"
  BY <1>0, Records DEF AnyInv
<1>2. RecoveryTypeOK'
  BY <1>1 DEF AnyInv, RecoveryTypeOK
<1>3. BuildsInOrder'
  <2>1. PICK k \in 0..MaxSessions : \A h \in Builds : engine[h].state # "none" <=> h <= k
    BY DEF AnyInv, BuildsInOrder
  <2>2. \A h \in Builds : engine'[h].state # "none" <=> h <= k
    BY <1>1, <2>1
  <2>3. current' # 0 => engine'[current'].state # "none"
    BY <1>1 DEF AnyInv, BuildsInOrder, RecoveryTypeOK, Builds
  <2>4. \A h \in Builds : /\ pass'[h] # NoPass => pass'[h].at # "none" /\ engine'[h].state = "pending"
                          /\ pass'[h].at = "targets" => pass'[h].id \in Ids
    BY <1>1 DEF AnyInv, BuildsInOrder, NoPass
  <2> QED BY <2>2, <2>3, <2>4 DEF BuildsInOrder
<1>4. BooksReadyOnly'
  BY <1>0, <1>1, BookingIs DEF AnyInv, BooksReadyOnly
<1>5. RestoredWithStop'
  BY <1>1 DEF AnyInv, RestoredWithStop
<1> QED BY <1>2, <1>3, <1>4, <1>5 DEF AnyInv

LEMMA PassLoadAny ==
    ASSUME AnyInv, NEW g \in Builds, PassLoad(g) PROVE AnyInv'
<1> USE DEF PassLoad
<1>1. /\ pass[g] # NoPass /\ engine[g] \in EngineRecords /\ engine[g].state = "pending"
      /\ engine[g].id # 0 => <<engine[g].id, "stop">> \in engine[g].legs
  BY PassIs DEF AnyInv, RestoredWithStop
<1>1a. engine' = [engine EXCEPT ![g] = engine[g]]
  BY Records DEF AnyInv
<1>2. CASE pass' = [pass EXCEPT ![g] = NoPass]
  <2>1. NoPass \in PassRecords /\ NoPass.at # "targets"
    BY EmptyRecords DEF NoPass
  <2>2. UNCHANGED <<faults, daemon, row, wire, linked, current, booking, exits, booked, left>>
    OBVIOUS
  <2> HIDE DEF PassLoad
  <2> QED BY <1>1, <1>1a, <1>2, <2>1, <2>2, PassMoves
<1> DEFINE p == [at |-> "rows", open |-> LiveRows, closed |-> {i \in Ids : row[i] = "closed"}, id |-> 0]
<1>3. CASE pass' = [pass EXCEPT ![g] = p]
  <2>1. p \in PassRecords /\ p.at = "rows"
    BY DEF PassRecords, LiveRows
  <2> HIDE DEF p
  <2> QED BY <1>1, <1>1a, <1>3, <2>1, PassMoves
<1> QED BY <1>2, <1>3

LEMMA PassRowAny ==
    ASSUME AnyInv, NEW g \in Builds, PassRow(g) PROVE AnyInv'
<1> USE DEF PassRow
<1> DEFINE i == OldestOf(pass[g].open)
           r == Holds(engine[g], i, Size, {"stop"})
           p == Restoring(pass[g], i)
<1>1. /\ pass[g] # NoPass /\ engine[g] \in EngineRecords /\ engine[g].state = "pending"
      /\ pass[g] \in PassRecords
  BY PassIs
<1>2. i \in Ids
  BY <1>1, OldestIsOne DEF PassRecords
<1>3. r \in EngineRecords /\ r.id = i /\ r.state = "pending" /\ <<i, "stop">> \in r.legs
  BY <1>1, <1>2, HoldsRecord
<1>4. p \in PassRecords /\ p.at = "targets" /\ p.id \in Ids
  BY <1>1, <1>2, RestoringRecord
<1>5. engine' = [engine EXCEPT ![g] = r] /\ pass' = [pass EXCEPT ![g] = p]
      /\ UNCHANGED <<faults, daemon, row, wire, linked, current, booking, exits, booked, left>>
  OBVIOUS
<1> HIDE DEF r, p, i, PassRow
<1> QED BY <1>1, <1>3, <1>4, <1>5, PassMoves

LEMMA PassTargetsAny ==
    ASSUME AnyInv, NEW g \in Builds, PassTargets(g) PROVE AnyInv'
<1> USE DEF PassTargets
<1> DEFINE r == [engine[g] EXCEPT !.legs = engine[g].legs \cup {<<pass[g].id, "target">>}]
           p == [pass[g] EXCEPT !.at = "rows"]
<1>1. /\ pass[g] # NoPass /\ engine[g] \in EngineRecords /\ engine[g].state = "pending"
      /\ pass[g] \in PassRecords /\ pass[g].id \in Ids
      /\ engine[g].id # 0 => <<engine[g].id, "stop">> \in engine[g].legs
  BY PassIs DEF AnyInv, RestoredWithStop
<1>2. /\ r \in EngineRecords /\ r.id = engine[g].id /\ r.state = "pending"
      /\ r.legs = engine[g].legs \cup {<<pass[g].id, "target">>}
  BY <1>1, TargetsRecord
<1>3. p \in PassRecords /\ p.at = "rows"
  BY <1>1 DEF PassRecords
<1>4. engine' = [engine EXCEPT ![g] = r] /\ pass' = [pass EXCEPT ![g] = p]
      /\ UNCHANGED <<faults, daemon, row, wire, linked, current, booking, exits, booked, left>>
  OBVIOUS
<1> HIDE DEF r, p, PassTargets
<1> QED BY <1>1, <1>2, <1>3, <1>4, PassMoves

LEMMA PassEndAny ==
    ASSUME AnyInv, NEW g \in Builds, PassEnd(g) PROVE AnyInv'
<1> USE DEF PassEnd
<1> DEFINE r == Freed(engine[g], pass[g].closed)
<1>1. /\ pass[g] # NoPass /\ engine[g] \in EngineRecords /\ pass[g].closed \subseteq Ids
      /\ engine[g].id # 0 => <<engine[g].id, "stop">> \in engine[g].legs
  BY PassIs DEF AnyInv, RestoredWithStop, PassRecords
<1>2. r \in EngineRecords /\ r.id = engine[g].id /\ r.legs = engine[g].legs /\ r.state = "ready"
  BY <1>1, FreedRecord
<1>3. engine' = [engine EXCEPT ![g] = r] /\ pass' = [pass EXCEPT ![g] = NoPass]
      /\ UNCHANGED <<faults, daemon, row, wire, linked, current, booking, exits, booked, left>>
  OBVIOUS
<1> HIDE DEF r, PassEnd
<1> QED BY <1>1, <1>2, <1>3, EmptyRecords, PassMoves DEF NoPass

\* Initially nothing is built, and nothing is stored.
LEMMA AnyInitially == RecoveryInit => AnyInv
<1> SUFFICES ASSUME RecoveryInit PROVE AnyInv
  OBVIOUS
<1> USE DEF RecoveryInit
<1>1. \A g \in Builds : engine[g] = EmptyEngine /\ pass[g] = NoPass /\ engine[g].state = "none"
                         /\ engine[g].id = 0 /\ pass[g].at = "none"
  BY DEF EmptyEngine, NoPass
<1>2. RecoveryTypeOK
  BY EmptyRecords, RecoveryAssumption DEF RecoveryTypeOK
<1>3. BuildsInOrder
  <2>1. \A g \in Builds : engine[g].state # "none" <=> g <= 0
    BY <1>1, RecoveryAssumption DEF Builds
  <2>2. 0 \in 0..MaxSessions
    BY RecoveryAssumption
  <2> QED BY <1>1, <2>1, <2>2 DEF BuildsInOrder
<1> QED BY <1>1, <1>2, <1>3 DEF AnyInv, BooksReadyOnly, RestoredWithStop

LEMMA AnyStep == AnyInv /\ [RecoveryNext]_recoveryVars => AnyInv'
<1> SUFFICES ASSUME AnyInv, [RecoveryNext]_recoveryVars PROVE AnyInv'
  OBVIOUS
<1>1. CASE Boot \/ ChangeMode
  BY <1>1, BootAny, ChangeModeAny
<1>2. CASE SubscribeCommands \/ SubscribeLedger
  BY <1>2, SubscribeAny
<1>3. CASE Crash \/ BusDrops \/ BusReturns
  BY <1>3, CrashAny, BusAny
<1>4. CASE LedgerHandle
  BY <1>4, LedgerHandleAny
<1>5. CASE \E by \in {"command", "fan_out"} : BookBegin(by)
  BY <1>5, BookBeginAny
<1>6. CASE BookFill \/ BookRecord
  BY <1>6, BookFillAny, BookRecordAny
<1>7. CASE PartialExit \/ Exit
  BY <1>7, PartialExitAny, ExitAny
<1>8. CASE \E e \in exits : PublishExit(e)
  BY <1>8, PublishExitAny
<1>9. CASE \E g \in Builds : Pass(g)
  BY <1>9, PassLoadAny, PassRowAny, PassTargetsAny, PassEndAny DEF Pass
<1>10. CASE UNCHANGED recoveryVars
  BY <1>10 DEF recoveryVars, AnyInv, RecoveryTypeOK, BuildsInOrder, BooksReadyOnly,
               RestoredWithStop
<1> QED BY <1>1, <1>2, <1>3, <1>4, <1>5, <1>6, <1>7, <1>8, <1>9, <1>10 DEF RecoveryNext

----------------------------------------------------------------------------
(* While nothing is lost: the desk, the rows and what is between them.     *)

\* The faults that are left out in the calm.
LEMMA CalmMeans ==
    ASSUME Quiet
    PROVE  /\ "crash" \notin faults /\ "bus_drop" \notin faults /\ "db_error" \notin faults
           /\ "early_command" \notin faults /\ "fast_exit" \notin faults
           /\ "mode_change" \notin faults
BY DEF Quiet, Without, RecoveryFaults

\* The running session's engine.
LEMMA DeskIs ==
    ASSUME AnyInv, current # 0
    PROVE  /\ current \in Builds /\ Desk = engine[current] /\ Desk \in EngineRecords
           /\ Desk.state \in {"pending", "ready"}
<1>1. current \in Builds /\ Desk = engine[current] /\ engine[current] \in EngineRecords
  BY RecoveryAssumption, Records DEF AnyInv, RecoveryTypeOK, Desk, Builds
<1>2. engine[current].state # "none"
  BY DEF AnyInv, BuildsInOrder
<1> QED BY <1>1, <1>2 DEF EngineRecords

\* The daemon is up while anything moves.
LEMMA UpIs ==
    ASSUME AnyInv, CalmInv, daemon = "up"
    PROVE  /\ current # 0 /\ current \in Builds /\ Desk = engine[current]
           /\ Desk \in EngineRecords /\ Desk.state = "ready" /\ linked
BY DeskIs DEF CalmInv, OneDesk

\* A pass runs in the boot, with nothing else under way: the rows alone tell.
LEMMA BootIs ==
    ASSUME AnyInv, CalmInv, NEW g \in Builds, pass[g].at # "none"
    PROVE  /\ g = current /\ current # 0 /\ Desk = engine[g] /\ Desk \in EngineRecords
           /\ Desk.state = "pending" /\ daemon = "boot"
           /\ wire = <<>> /\ exits = {} /\ booking = NoBooking
           /\ \A i \in Ids : /\ Known(i) <=> row[i] # "none"
                             /\ Closing(i) <=> row[i] = "closed"
                             /\ left[i] > 0 <=> row[i] = "open"
<1>1. g = current /\ engine[g].state = "pending" /\ current # 0
  <2>1. pass[g] # NoPass /\ engine[g].state = "pending"
    BY PassIs
  <2>2. g = current
    BY <2>1 DEF CalmInv, OneDesk
  <2>3. g # 0
    BY RecoveryAssumption DEF Builds
  <2> QED BY <2>1, <2>2, <2>3
<1>2. daemon = "boot"
  BY <1>1, DeskIs DEF CalmInv, OneDesk, AnyInv, RecoveryTypeOK
<1>3. wire = <<>> /\ exits = {} /\ booking = NoBooking
  BY <1>2 DEF CalmInv, OneDesk
<1>4. ASSUME NEW i \in Ids
      PROVE  (Known(i) <=> row[i] # "none") /\ (Closing(i) <=> row[i] = "closed")
  BY <1>3 DEF Known, Closing, OnWire, Recording, NoBooking
<1>5. ASSUME NEW i \in Ids PROVE left[i] > 0 <=> row[i] = "open"
  <2>1. row[i] \in {"none", "open", "closed"}
    BY DEF AnyInv, RecoveryTypeOK
  <2> QED BY <1>4, <2>1 DEF CalmInv, TradesKnown
<1> QED BY <1>1, <1>2, <1>3, <1>4, <1>5, DeskIs

\* The wire grows at one end and shrinks at the other.
LEMMA Appended ==
    ASSUME RecoveryTypeOK, NEW m \in Messages, wire' = Append(wire, m)
    PROVE  /\ Len(wire) \in Nat /\ Len(wire') = Len(wire) + 1 /\ wire'[Len(wire) + 1] = m
           /\ \A n \in 1..Len(wire) : wire'[n] = wire[n]
           /\ \A x : OnWire(x)' <=> OnWire(x) \/ x = m
<1>1. /\ Len(wire) \in Nat /\ Len(wire') = Len(wire) + 1 /\ wire'[Len(wire) + 1] = m
      /\ \A n \in 1..Len(wire) : wire'[n] = wire[n]
  BY Records
<1>2. \A x : OnWire(x)' <=> OnWire(x) \/ x = m
  <2> TAKE x
  <2>1. ASSUME OnWire(x)' PROVE OnWire(x) \/ x = m
    <3>1. PICK n \in 1..Len(wire') : wire'[n] = x
      BY <2>1 DEF OnWire
    <3> QED BY <1>1, <3>1 DEF OnWire
  <2>2. ASSUME OnWire(x) PROVE OnWire(x)'
    <3>1. PICK n \in 1..Len(wire) : wire[n] = x
      BY <2>2 DEF OnWire
    <3>2. n \in 1..Len(wire') /\ wire'[n] = x
      BY <1>1, <3>1
    <3> QED BY <3>2 DEF OnWire
  <2>3. ASSUME x = m PROVE OnWire(x)'
    <3>1. Len(wire) + 1 \in 1..Len(wire')
      BY <1>1
    <3> QED BY <1>1, <2>3, <3>1 DEF OnWire
  <2> QED BY <2>1, <2>2, <2>3
<1> QED BY <1>1, <1>2

LEMMA Taken ==
    ASSUME RecoveryTypeOK, MessagesInOrder, wire # <<>>, wire' = Tail(wire)
    PROVE  /\ Len(wire) \in Nat /\ Len(wire') = Len(wire) - 1 /\ Len(wire) > 0
           /\ \A n \in 1..Len(wire') : wire'[n] = wire[n + 1]
           /\ \A x : OnWire(x)' <=> OnWire(x) /\ x # Head(wire)
<1>1. /\ Len(wire) \in Nat /\ Len(wire') = Len(wire) - 1 /\ Len(wire) > 0
      /\ \A n \in 1..Len(wire') : wire'[n] = wire[n + 1]
      /\ Head(wire) = wire[1]
  BY Records
<1>2. \A x : OnWire(x)' <=> OnWire(x) /\ x # Head(wire)
  <2> TAKE x
  <2>1. ASSUME OnWire(x)' PROVE OnWire(x) /\ x # Head(wire)
    <3>1. PICK n \in 1..Len(wire') : wire'[n] = x
      BY <2>1 DEF OnWire
    <3>2. n + 1 \in 1..Len(wire) /\ wire[n + 1] = x /\ n + 1 # 1 /\ 1 \in 1..Len(wire)
      BY <1>1, <3>1
    <3> QED BY <1>1, <3>2 DEF OnWire, MessagesInOrder
  <2>2. ASSUME OnWire(x), x # Head(wire) PROVE OnWire(x)'
    <3>1. PICK n \in 1..Len(wire) : wire[n] = x
      BY <2>2 DEF OnWire
    <3>2. n - 1 \in 1..Len(wire') /\ wire'[n - 1] = x
      BY <1>1, <2>2, <3>1
    <3> QED BY <3>2 DEF OnWire
  <2> QED BY <2>1, <2>2
<1> QED BY <1>1, <1>2

\* Messages are told apart by what they say.
LEMMA MessagesDiffer ==
    /\ \A i, j : Log(i) = Log(j) <=> i = j
    /\ \A i, j : Update(i) = Update(j) <=> i = j
    /\ \A i, j : Log(i) # Update(j)
    /\ \A i \in Ids : Log(i) \in Messages /\ Update(i) \in Messages
    /\ \A m \in Messages : m.id \in Ids /\ (m = Log(m.id) \/ m = Update(m.id))
<1>1. \A i : Log(i).id = i /\ Update(i).id = i /\ Log(i).type = "log_trade"
             /\ Update(i).type = "update_trade"
  BY DEF Log, Update
<1>2. \A i \in Ids : Log(i) \in Messages /\ Update(i) \in Messages
  BY DEF Log, Update, Messages
<1>3. ASSUME NEW m \in Messages
      PROVE  m.id \in Ids /\ (m = Log(m.id) \/ m = Update(m.id))
  BY DEF Log, Update, Messages
<1>4. \A i, j : Log(i) # Update(j)
  <2>1. "log_trade" # "update_trade"
    OBVIOUS
  <2> QED BY <1>1, <2>1
<1> QED BY <1>1, <1>2, <1>3, <1>4

\* A step that leaves the messages, the rows and the bookings alone.
LEMMA SameMessages ==
    ASSUME MessagesInOrder, UNCHANGED <<row, wire, booking>>,
           \A i \in Ids : <<current', i>> \in exits' <=> <<current, i>> \in exits
    PROVE  /\ MessagesInOrder'
           /\ \A i \in Ids : (Known(i)' <=> Known(i)) /\ (Closing(i)' <=> Closing(i))
<1>1. ASSUME NEW i \in Ids
      PROVE  /\ Known(i)' <=> Known(i)
             /\ Closing(i)' <=> Closing(i)
             /\ Recording(i)' <=> Recording(i)
             /\ OnWire(Log(i))' <=> OnWire(Log(i))
             /\ OnWire(Update(i))' <=> OnWire(Update(i))
  BY DEF Known, Closing, OnWire, Recording
<1>2. MessagesInOrder'
  BY <1>1 DEF MessagesInOrder
<1> QED BY <1>1, <1>2

LEMMA SameTrades ==
    ASSUME TradesKnown, UNCHANGED <<booking, booked, left>>,
           booking.at = "idle" \/ Desk'.id = Desk.id,
           \A i \in Ids : (Known(i)' <=> Known(i)) /\ (Closing(i)' <=> Closing(i))
    PROVE  TradesKnown' /\ OverWith' = OverWith
BY DEF TradesKnown, OverWith, StillOpen

\* The boot: an empty engine, to be restored.
LEMMA BootCalm ==
    ASSUME AnyInv, CalmInv, Boot PROVE CalmInv'
<1> USE DEF Boot, Materialize
<1> DEFINE b == NextBuild
<1>0. engine[b].state = "none" /\ b \in Builds /\ b # 0
  BY NextIsNew, RecoveryAssumption DEF AnyInv, Builds
<1> HIDE DEF b
<1>1. current = 0 /\ wire = <<>> /\ exits = {} /\ booking = NoBooking /\ booking.at = "idle"
  BY DEF CalmInv, OneDesk, NoBooking
<1>2. /\ engine' = [engine EXCEPT ![b] = [engine[b] EXCEPT !.state = "pending"]]
      /\ pass' = [pass EXCEPT ![b] = [pass[b] EXCEPT !.at = "load"]]
      /\ current' = b /\ daemon' = "boot" /\ linked'
  BY DEF b
<1>3. engine[b] = [EmptyEngine EXCEPT !.state = engine[b].state] /\ pass[b] = NoPass
  BY <1>0, <1>1 DEF CalmInv, OneDesk
<1>4. /\ engine'[b] = [engine[b] EXCEPT !.state = "pending"]
      /\ pass'[b] = [pass[b] EXCEPT !.at = "load"]
      /\ \A g \in Builds : g # b => engine'[g] = engine[g] /\ pass'[g] = pass[g]
  BY <1>0, <1>2, Records DEF AnyInv
<1>5. /\ engine'[b].id = 0 /\ engine'[b].legs = {} /\ engine'[b].state = "pending"
      /\ pass'[b].at = "load"
  BY <1>3, <1>4 DEF EmptyEngine, NoPass
<1>6. Desk' = engine'[b]
  BY <1>0, <1>2 DEF Desk
<1>7. OneDesk'
  <2>1. ASSUME NEW g \in Builds, g # current'
        PROVE  engine'[g] = [EmptyEngine EXCEPT !.state = engine'[g].state] /\ pass'[g] = NoPass
    <3>1. g # current /\ engine'[g] = engine[g] /\ pass'[g] = pass[g]
      BY <1>1, <1>2, <1>4, <2>1, RecoveryAssumption DEF Builds
    <3> QED BY <3>1 DEF CalmInv, OneDesk
  <2>2. /\ linked' /\ daemon' = "boot" /\ current' # 0 /\ wire' = <<>> /\ exits' = {}
        /\ booking' = NoBooking /\ Desk'.state = "pending" /\ pass'[current'].at = "load"
    BY <1>0, <1>1, <1>2, <1>5, <1>6
  <2> HIDE DEF Boot, Materialize
  <2> QED BY <2>1, <2>2 DEF OneDesk
<1>8. MessagesInOrder' /\ \A i \in Ids : (Known(i)' <=> Known(i)) /\ (Closing(i)' <=> Closing(i))
  BY <1>1, SameMessages DEF CalmInv
<1>9. TradesKnown'
  BY <1>1, <1>8, SameTrades DEF CalmInv
<1>10. DeskHolds' /\ WholeQuantities'
  BY <1>2, <1>5, <1>6 DEF CalmInv, DeskHolds, WholeQuantities
<1> QED BY <1>7, <1>8, <1>9, <1>10 DEF CalmInv

LEMMA SubscribeCommandsCalm ==
    ASSUME AnyInv, CalmInv, SubscribeCommands PROVE CalmInv'
<1> USE DEF SubscribeCommands
<1>1. current # 0 /\ Desk.state = "ready" /\ Desk' = Desk /\ booking.at = "idle"
  BY DeskIs DEF CalmInv, OneDesk, Desk, NoBooking
<1>2. OneDesk'
  BY <1>1 DEF CalmInv, OneDesk
<1>3. MessagesInOrder' /\ \A i \in Ids : (Known(i)' <=> Known(i)) /\ (Closing(i)' <=> Closing(i))
  BY SameMessages DEF CalmInv
<1>4. TradesKnown' /\ OverWith' = OverWith
  BY <1>1, <1>3, SameTrades DEF CalmInv
<1>5. DeskHolds' /\ WholeQuantities'
  BY <1>1, <1>4 DEF CalmInv, DeskHolds, WholeQuantities
<1> QED BY <1>2, <1>3, <1>4, <1>5 DEF CalmInv

LEMMA SubscribeLedgerCalm ==
    ASSUME AnyInv, CalmInv, SubscribeLedger PROVE CalmInv'
<1> USE DEF SubscribeLedger
<1>1. current # 0 /\ Desk.state = "ready" /\ Desk' = Desk /\ booking.at = "idle"
  BY DEF CalmInv, OneDesk, Desk, NoBooking
<1>2. OneDesk'
  BY <1>1 DEF CalmInv, OneDesk
<1>3. MessagesInOrder' /\ \A i \in Ids : (Known(i)' <=> Known(i)) /\ (Closing(i)' <=> Closing(i))
  BY SameMessages DEF CalmInv
<1>4. TradesKnown' /\ OverWith' = OverWith
  BY <1>1, <1>3, SameTrades DEF CalmInv
<1>5. DeskHolds' /\ WholeQuantities'
  BY <1>1, <1>4 DEF CalmInv, DeskHolds, WholeQuantities
<1> QED BY <1>2, <1>3, <1>4, <1>5 DEF CalmInv

\* The daemon ends once all has been delivered.
LEMMA CrashCalm ==
    ASSUME AnyInv, Quiet, CalmInv, Crash PROVE CalmInv'
<1> USE DEF Crash
<1>1. wire = <<>> /\ exits = {} /\ booking = NoBooking /\ booking.at = "idle"
  BY CalmMeans DEF NoBooking
<1>2. Desk' = EmptyEngine
  BY DEF Desk
<1>3. ASSUME NEW g \in Builds
      PROVE  engine'[g] = [EmptyEngine EXCEPT !.state = engine'[g].state] /\ pass'[g] = NoPass
  BY DEF EmptyEngine
<1>4. OneDesk'
  BY <1>1, <1>2, <1>3 DEF CalmInv, OneDesk, EmptyEngine
<1>5. MessagesInOrder' /\ \A i \in Ids : (Known(i)' <=> Known(i)) /\ (Closing(i)' <=> Closing(i))
  BY <1>1, SameMessages DEF CalmInv
<1>6. TradesKnown'
  BY <1>1, <1>5, SameTrades DEF CalmInv
<1>7. DeskHolds' /\ WholeQuantities'
  BY <1>2 DEF CalmInv, DeskHolds, WholeQuantities, EmptyEngine
<1> QED BY <1>4, <1>5, <1>6, <1>7 DEF CalmInv

\* A step that leaves the running engine's record alone but may move messages:
\* what the ledger, the publications and the beginning of a booking share.
LEMMA DeskKept ==
    ASSUME AnyInv, CalmInv, daemon = "up",
           UNCHANGED <<faults, daemon, linked, current, engine, pass, booked, left>>,
           exits' \subseteq exits,
           booking' = NoBooking \/ booking'.g = current
    PROVE  OneDesk' /\ DeskHolds' /\ WholeQuantities'
<1>1. Desk' = Desk /\ Desk.state = "ready" /\ OverWith' = OverWith
  BY UpIs DEF Desk, OverWith, StillOpen
<1>2. OneDesk'
  BY <1>1, UpIs DEF CalmInv, OneDesk
<1>3. DeskHolds'
  BY <1>1 DEF CalmInv, DeskHolds
<1>4. WholeQuantities'
  BY <1>1 DEF CalmInv, WholeQuantities
<1> QED BY <1>2, <1>3, <1>4

\* The ledger takes a booking: the id has its row.
LEMMA StoreCalm ==
    ASSUME AnyInv, CalmInv, LedgerHandle, NEW i \in Ids, Head(wire) = Log(i), StoreTrade(i)
    PROVE  MessagesInOrder' /\ TradesKnown'
<1> USE DEF LedgerHandle
<1>0. MessagesInOrder /\ TradesKnown /\ RecoveryTypeOK
  BY DEF CalmInv, AnyInv
<1>1. /\ Len(wire) \in Nat /\ Len(wire') = Len(wire) - 1 /\ Len(wire) > 0
      /\ \A n \in 1..Len(wire') : wire'[n] = wire[n + 1]
      /\ \A x : OnWire(x)' <=> OnWire(x) /\ x # Log(i)
      /\ wire[1] = Log(i)
  BY <1>0, Taken, HeadIsMessage
<1>2. OnWire(Log(i)) /\ row[i] = "none" /\ ~Recording(i)
  <2>1. 1 \in 1..Len(wire)
    BY <1>1
  <2>2. OnWire(Log(i))
    BY <1>1, <2>1 DEF OnWire
  <2> QED BY <1>0, <2>2 DEF MessagesInOrder
<1>3. row'[i] = "open" /\ \A j \in Ids : j # i => row'[j] = row[j]
  BY <1>0, <1>2 DEF StoreTrade, RecoveryTypeOK
<1>4. ASSUME NEW j \in Ids
      PROVE  /\ OnWire(Log(j))' <=> OnWire(Log(j)) /\ j # i
             /\ OnWire(Update(j))' <=> OnWire(Update(j))
             /\ Recording(j)' <=> Recording(j)
             /\ <<current', j>> \in exits' <=> <<current, j>> \in exits
  BY <1>1, MessagesDiffer DEF Recording
<1>5. ASSUME NEW j \in Ids
      PROVE  (Known(j)' <=> Known(j)) /\ (Closing(j)' <=> Closing(j))
  BY <1>2, <1>3, <1>4 DEF Known, Closing
<1>6. TradesKnown'
  BY <1>0, <1>5 DEF TradesKnown, Desk
<1>7. MessagesInOrder'
  <2>1. \A n, k \in 1..Len(wire') : wire'[n] = wire'[k] => n = k
    <3> TAKE n, k \in 1..Len(wire')
    <3>1. n + 1 \in 1..Len(wire) /\ k + 1 \in 1..Len(wire)
      BY <1>1
    <3> QED BY <1>0, <1>1, <3>1 DEF MessagesInOrder
  <2>2. ASSUME NEW j \in Ids
        PROVE  /\ OnWire(Log(j))' => row'[j] = "none"
               /\ Recording(j)' => row'[j] = "none" /\ ~OnWire(Log(j))' /\ ~Closing(j)'
               /\ OnWire(Update(j))' => row'[j] # "closed" /\ <<current', j>> \notin exits'
               /\ <<current', j>> \in exits' => row'[j] # "closed"
               /\ Closing(j)' => Known(j)'
    BY <1>0, <1>2, <1>3, <1>4, <1>5 DEF MessagesInOrder
  <2>3. ASSUME NEW j \in Ids, NEW n \in 1..Len(wire'), wire'[n] = Update(j)
        PROVE  row'[j] = "open" \/ \E k \in 1..Len(wire') : k < n /\ wire'[k] = Log(j)
    <3>1. n + 1 \in 1..Len(wire) /\ wire[n + 1] = Update(j)
      BY <1>1, <2>3
    <3>2. CASE row[j] = "open"
      BY <1>3, <3>2
    <3>3. CASE \E k \in 1..Len(wire) : k < n + 1 /\ wire[k] = Log(j)
      <4>1. PICK k \in 1..Len(wire) : k < n + 1 /\ wire[k] = Log(j)
        BY <3>3
      <4>2. CASE k = 1
        BY <1>1, <1>3, <4>1, <4>2, MessagesDiffer
      <4>3. CASE k # 1
        <5>1. k - 1 \in 1..Len(wire') /\ k - 1 < n /\ wire'[k - 1] = Log(j)
          BY <1>1, <4>1, <4>3
        <5> QED BY <5>1
      <4> QED BY <4>2, <4>3
    <3> QED BY <1>0, <3>1, <3>2, <3>3 DEF MessagesInOrder
  <2> QED BY <2>1, <2>2, <2>3 DEF MessagesInOrder
<1> QED BY <1>6, <1>7

\* The ledger takes an exit: its row is there, and open.
LEMMA UpdateCalm ==
    ASSUME AnyInv, CalmInv, LedgerHandle, NEW i \in Ids, Head(wire) = Update(i), UpdateTradeExit(i)
    PROVE  MessagesInOrder' /\ TradesKnown'
<1> USE DEF LedgerHandle
<1>0. MessagesInOrder /\ TradesKnown /\ RecoveryTypeOK
  BY DEF CalmInv, AnyInv
<1>1. /\ Len(wire) \in Nat /\ Len(wire') = Len(wire) - 1 /\ Len(wire) > 0
      /\ \A n \in 1..Len(wire') : wire'[n] = wire[n + 1]
      /\ \A x : OnWire(x)' <=> OnWire(x) /\ x # Update(i)
      /\ wire[1] = Update(i)
  BY <1>0, Taken, HeadIsMessage
<1>2. OnWire(Update(i)) /\ row[i] = "open"
  <2>1. 1 \in 1..Len(wire) /\ ~ \E k \in 1..Len(wire) : k < 1
    BY <1>1
  <2> QED BY <1>0, <1>1, <2>1 DEF MessagesInOrder, OnWire
<1>3. ~OnWire(Log(i)) /\ ~Recording(i) /\ <<current, i>> \notin exits /\ Closing(i) /\ Known(i)
  BY <1>0, <1>2 DEF MessagesInOrder, Closing, Known
<1>4. row'[i] = "closed" /\ \A j \in Ids : j # i => row'[j] = row[j]
  BY <1>0, <1>2 DEF UpdateTradeExit, RecoveryTypeOK
<1>5. ASSUME NEW j \in Ids
      PROVE  /\ OnWire(Log(j))' <=> OnWire(Log(j))
             /\ OnWire(Update(j))' <=> OnWire(Update(j)) /\ j # i
             /\ Recording(j)' <=> Recording(j)
             /\ <<current', j>> \in exits' <=> <<current, j>> \in exits
  BY <1>1, MessagesDiffer DEF Recording
<1>6. ASSUME NEW j \in Ids
      PROVE  (Known(j)' <=> Known(j)) /\ (Closing(j)' <=> Closing(j))
  BY <1>3, <1>4, <1>5 DEF Known, Closing
<1>7. TradesKnown'
  BY <1>0, <1>6 DEF TradesKnown, Desk
<1>8. MessagesInOrder'
  <2>1. \A n, k \in 1..Len(wire') : wire'[n] = wire'[k] => n = k
    <3> TAKE n, k \in 1..Len(wire')
    <3>1. n + 1 \in 1..Len(wire) /\ k + 1 \in 1..Len(wire)
      BY <1>1
    <3> QED BY <1>0, <1>1, <3>1 DEF MessagesInOrder
  <2>2. ASSUME NEW j \in Ids
        PROVE  /\ OnWire(Log(j))' => row'[j] = "none"
               /\ Recording(j)' => row'[j] = "none" /\ ~OnWire(Log(j))' /\ ~Closing(j)'
               /\ OnWire(Update(j))' => row'[j] # "closed" /\ <<current', j>> \notin exits'
               /\ <<current', j>> \in exits' => row'[j] # "closed"
               /\ Closing(j)' => Known(j)'
    BY <1>0, <1>3, <1>4, <1>5, <1>6 DEF MessagesInOrder
  <2>3. ASSUME NEW j \in Ids, NEW n \in 1..Len(wire'), wire'[n] = Update(j)
        PROVE  row'[j] = "open" \/ \E k \in 1..Len(wire') : k < n /\ wire'[k] = Log(j)
    <3>1. /\ n + 1 \in 1..Len(wire) /\ wire[n + 1] = Update(j) /\ n + 1 # 1
          /\ 1 \in 1..Len(wire)
      BY <1>1, <2>3
    <3>2. j # i
      BY <1>0, <1>1, <3>1 DEF MessagesInOrder
    <3>3. CASE row[j] = "open"
      BY <1>4, <3>2, <3>3
    <3>4. CASE \E k \in 1..Len(wire) : k < n + 1 /\ wire[k] = Log(j)
      <4>1. PICK k \in 1..Len(wire) : k < n + 1 /\ wire[k] = Log(j)
        BY <3>4
      <4>2. k # 1
        BY <1>1, <4>1, MessagesDiffer
      <4>3. k - 1 \in 1..Len(wire') /\ k - 1 < n /\ wire'[k - 1] = Log(j)
        BY <1>1, <4>1, <4>2
      <4> QED BY <4>3
    <3> QED BY <1>0, <3>1, <3>3, <3>4 DEF MessagesInOrder
  <2> QED BY <2>1, <2>2, <2>3 DEF MessagesInOrder
<1> QED BY <1>7, <1>8

LEMMA LedgerHandleCalm ==
    ASSUME AnyInv, Quiet, CalmInv, LedgerHandle PROVE CalmInv'
<1> DEFINE m == Head(wire)
<1>1. m \in Messages
  BY HeadIsMessage DEF LedgerHandle, AnyInv
<1>2. Persist(m)
  BY CalmMeans DEF LedgerHandle
<1>3. OneDesk' /\ DeskHolds' /\ WholeQuantities'
  BY DeskKept DEF LedgerHandle, CalmInv, OneDesk
<1>4. m.id \in Ids
  BY <1>1, MessagesDiffer
<1>5. CASE m.type = "log_trade" /\ StoreTrade(m.id)
  <2>1. m = Log(m.id)
    BY <1>1, <1>5 DEF Messages, Log
  <2> QED BY <1>3, <1>4, <1>5, <2>1, StoreCalm DEF CalmInv
<1>6. CASE m.type = "update_trade" /\ UpdateTradeExit(m.id)
  <2>1. m = Update(m.id)
    BY <1>1, <1>6 DEF Messages, Update
  <2> QED BY <1>3, <1>4, <1>6, <2>1, UpdateCalm DEF CalmInv
<1> QED BY <1>2, <1>5, <1>6 DEF Persist

\* A booking begins with the id that comes next.
LEMMA BookBeginCalm ==
    ASSUME AnyInv, Quiet, CalmInv, NEW by \in {"command", "fan_out"}, BookBegin(by)
    PROVE  CalmInv'
<1> USE DEF BookBegin
<1>1. daemon = "up"
  BY CalmMeans DEF TakesCommand
<1>2. booking'.at = "execute" /\ booking'.g = current /\ booking'.t = booked + 1
      /\ booking.at = "idle"
  BY DEF NoBooking
<1>3. OneDesk' /\ DeskHolds' /\ WholeQuantities'
  BY <1>1, <1>2, DeskKept
<1>4. ASSUME NEW i \in Ids
      PROVE  /\ (Known(i)' <=> Known(i)) /\ (Closing(i)' <=> Closing(i))
             /\ ~Recording(i)'
             /\ OnWire(Log(i))' <=> OnWire(Log(i))
             /\ OnWire(Update(i))' <=> OnWire(Update(i))
  BY <1>2 DEF Known, Closing, OnWire, Recording
<1>5. MessagesInOrder'
  BY <1>4 DEF CalmInv, MessagesInOrder
<1>6. TradesKnown'
  BY <1>2, <1>4 DEF CalmInv, TradesKnown, Desk
<1> QED BY <1>3, <1>5, <1>6 DEF CalmInv

\* The fill: the trade is known, and open, from here on.
LEMMA BookFillCalm ==
    ASSUME AnyInv, Quiet, CalmInv, BookFill PROVE CalmInv'
<1> USE DEF BookFill
<1> DEFINE g == booking.g
           t == booking.t
           i == Own(t)
           r == Holds(engine[g], i, Size, {"stop", "target"})
<1>0. OneDesk /\ MessagesInOrder /\ TradesKnown /\ DeskHolds /\ WholeQuantities /\ RecoveryTypeOK
  BY DEF CalmInv, AnyInv
<1>1. booking # NoBooking /\ daemon = "up" /\ g = current /\ linked
  BY <1>0, Moving DEF OneDesk
<1>2. /\ current # 0 /\ current \in Builds /\ Desk = engine[g] /\ Desk \in EngineRecords
      /\ Desk.state = "ready"
  BY <1>1, UpIs
<1>3. t = booked + 1 /\ Desk.id = 0 /\ booked \in Nat /\ t \in Nat
  BY <1>0, <1>1, BookingIs DEF TradesKnown, RecoveryTypeOK
<1>4. i \in Ids /\ i # 0 /\ 0 \notin Ids
  BY <1>1, BookingIs
<1>5. ~Known(i) /\ ~Closing(i) /\ \A j \in Ids : ~(left[j] > 0)
  <2>1. ~ \E u \in 1..booked : i = Own(u)
    BY <1>3, IdsAreNumbers
  <2>2. ~Known(i)
    BY <1>0, <1>4, <2>1 DEF TradesKnown
  <2>3. \A j \in Ids : ~(left[j] > 0)
    BY <1>0, <1>2, <1>3, <1>4 DEF DeskHolds
  <2> QED BY <1>0, <1>4, <2>2, <2>3 DEF MessagesInOrder
<1>6. Desk.legs = {}
  BY <1>0, <1>2, <1>3, <1>4 DEF DeskHolds, EngineRecords
<1>7. /\ r.id = i /\ r.quantity = Size /\ r.legs = {i} \X {"stop", "target"}
      /\ r.banked = Desk.banked /\ r.state = "ready"
  <2>1. engine[g] \in EngineRecords /\ engine[g].legs = {} /\ engine[g].state = "ready"
        /\ engine[g].banked = Desk.banked
    BY <1>2, <1>6
  <2> HIDE DEF g, i, BookFill
  <2>2. /\ r.id = i /\ r.quantity = Size /\ r.legs = engine[g].legs \cup ({i} \X {"stop", "target"})
        /\ r.banked = engine[g].banked /\ r.state = engine[g].state
    BY <2>1 DEF Holds, EngineRecords
  <2> HIDE DEF r
  <2>3. r.legs = {i} \X {"stop", "target"}
    BY <2>1, <2>2
  <2> QED BY <2>1, <2>2, <2>3
<1>8. /\ engine' = [engine EXCEPT ![g] = r] /\ booked' = t /\ left' = [left EXCEPT ![i] = Size]
      /\ UNCHANGED <<faults, daemon, row, wire, linked, current, pass, exits>>
  OBVIOUS
<1>9. /\ booking' # NoBooking /\ booking'.at = "record" /\ booking'.g = current /\ booking'.t = t
  BY <1>1, Records DEF AnyInv, BookingRecords, NoBooking
<1> HIDE DEF r, g, t, i, BookFill
<1>10. /\ engine'[g] = r /\ \A h \in Builds : h # g => engine'[h] = engine[h]
       /\ Desk' = r
  BY <1>0, <1>1, <1>2, <1>8 DEF RecoveryTypeOK, Desk
<1>11. left'[i] = Size /\ (\A j \in Ids : j # i => left'[j] = left[j]) /\ Size > 0
  BY <1>0, <1>4, <1>8, RecoveryAssumption DEF RecoveryTypeOK
<1>12. ASSUME NEW j \in Ids
       PROVE  /\ OnWire(Log(j))' <=> OnWire(Log(j))
              /\ OnWire(Update(j))' <=> OnWire(Update(j))
              /\ Recording(j)' <=> j = i
              /\ ~Recording(j)
              /\ Known(j)' <=> Known(j) \/ j = i
              /\ Closing(j)' <=> Closing(j)
              /\ left'[j] > 0 <=> j = i
  <2>1. booking.at = "execute"
    BY DEF BookFill
  <2>2. /\ OnWire(Log(j))' <=> OnWire(Log(j))
        /\ OnWire(Update(j))' <=> OnWire(Update(j))
        /\ Recording(j)' <=> j = i
        /\ ~Recording(j)
    BY <1>8, <1>9, <2>1 DEF OnWire, Recording, i
  <2> QED BY <1>5, <1>8, <1>11, <2>2 DEF Known, Closing
<1>13. OneDesk'
  BY <1>0, <1>1, <1>7, <1>8, <1>9, <1>10 DEF OneDesk
<1>14. MessagesInOrder'
  <2>1. row[i] = "none" /\ ~OnWire(Log(i))
    BY <1>5 DEF Known
  <2> QED BY <1>0, <1>5, <1>8, <1>12, <2>1 DEF MessagesInOrder
<1>15. TradesKnown'
  <2>1. ASSUME NEW j \in Ids PROVE Known(j)' <=> \E u \in 1..booked' : j = Own(u)
    BY <1>0, <1>3, <1>8, <1>12 DEF TradesKnown, i
  <2>2. ASSUME NEW j \in Ids PROVE left'[j] > 0 <=> Known(j)' /\ ~Closing(j)'
    BY <1>0, <1>5, <1>12 DEF TradesKnown
  <2>3. booking'.t = booked' /\ Desk'.id = Own(booked')
    BY <1>7, <1>8, <1>9, <1>10 DEF i
  <2> QED BY <1>9, <1>12, <2>1, <2>2, <2>3 DEF TradesKnown
<1>16. DeskHolds'
  <2>1. OverWith' = OverWith
    <3>1. StillOpen' = {i} /\ StillOpen = {}
      BY <1>4, <1>5, <1>12 DEF StillOpen
    <3>2. \A u \in 1..booked : Own(u) # i
      BY <1>3, IdsAreNumbers DEF i
    <3>3. {Own(u) : u \in 1..booked'} = {Own(u) : u \in 1..booked} \cup {i}
      BY <1>3, <1>8 DEF i
    <3> QED BY <3>1, <3>2, <3>3 DEF OverWith
  <2>2. \A l \in Desk'.legs : l[1] = Desk'.id
    BY <1>7, <1>10
  <2>3. \A j \in Ids : left'[j] > 0 <=> Desk'.id = j
    BY <1>7, <1>10, <1>12
  <2>4. Desk'.banked = OverWith'
    BY <1>0, <1>2, <1>7, <1>10, <2>1 DEF DeskHolds
  <2> QED BY <1>7, <1>10, <2>2, <2>3, <2>4 DEF DeskHolds
<1>17. WholeQuantities'
  BY <1>0, <1>7, <1>8, <1>10, <1>11 DEF WholeQuantities
<1> QED BY <1>13, <1>14, <1>15, <1>16, <1>17 DEF CalmInv

\* The booking is published under its position's own id.
LEMMA BookRecordCalm ==
    ASSUME AnyInv, Quiet, CalmInv, BookRecord PROVE CalmInv'
<1> USE DEF BookRecord
<1> DEFINE i == Own(booking.t)
<1>0. OneDesk /\ MessagesInOrder /\ TradesKnown /\ DeskHolds /\ WholeQuantities /\ RecoveryTypeOK
  BY DEF CalmInv, AnyInv
<1>1. booking # NoBooking /\ daemon = "up" /\ booking.g = current /\ linked /\ i \in Ids
  BY <1>0, Moving, BookingIs DEF OneDesk
<1>2. Desk = engine[current] /\ Desk.id = i /\ booking.t = booked
  BY <1>0, <1>1, UpIs DEF TradesKnown
<1>3. wire' = Append(wire, Log(i)) /\ Log(i) \in Messages
  BY <1>1, <1>2, MessagesDiffer DEF Published, BookedId, Log
<1>4. Recording(i) /\ row[i] = "none" /\ ~OnWire(Log(i)) /\ ~Closing(i)
  BY <1>0, <1>1 DEF Recording, MessagesInOrder
<1>5. /\ Len(wire) \in Nat /\ Len(wire') = Len(wire) + 1 /\ wire'[Len(wire) + 1] = Log(i)
      /\ \A n \in 1..Len(wire) : wire'[n] = wire[n]
      /\ \A x : OnWire(x)' <=> OnWire(x) \/ x = Log(i)
  BY <1>0, <1>3, Appended
<1>6. ASSUME NEW j \in Ids
      PROVE  /\ OnWire(Log(j))' <=> OnWire(Log(j)) \/ j = i
             /\ OnWire(Update(j))' <=> OnWire(Update(j))
             /\ Recording(j) <=> j = i
             /\ ~Recording(j)'
  BY <1>5, MessagesDiffer DEF Recording, NoBooking
<1>7. ASSUME NEW j \in Ids
      PROVE  (Known(j)' <=> Known(j)) /\ (Closing(j)' <=> Closing(j))
  BY <1>6 DEF Known, Closing
<1>8. OneDesk' /\ DeskHolds' /\ WholeQuantities'
  BY <1>1, DeskKept
<1>9. TradesKnown'
  BY <1>0, <1>7 DEF TradesKnown, Desk, NoBooking
<1>10. MessagesInOrder'
  <2>1. ASSUME NEW n \in 1..Len(wire'), NEW k \in 1..Len(wire'), wire'[n] = wire'[k]
        PROVE  n = k
    <3>1. \A a \in 1..Len(wire) : wire[a] # Log(i)
      BY <1>4 DEF OnWire
    <3>2. (n \in 1..Len(wire) \/ n = Len(wire) + 1) /\ (k \in 1..Len(wire) \/ k = Len(wire) + 1)
      BY <1>5
    <3> QED BY <1>0, <1>5, <2>1, <3>1, <3>2 DEF MessagesInOrder
  <2>2. ASSUME NEW j \in Ids
        PROVE  /\ OnWire(Log(j))' => row'[j] = "none"
               /\ Recording(j)' => row'[j] = "none" /\ ~OnWire(Log(j))' /\ ~Closing(j)'
               /\ OnWire(Update(j))' => row'[j] # "closed" /\ <<current', j>> \notin exits'
               /\ <<current', j>> \in exits' => row'[j] # "closed"
               /\ Closing(j)' => Known(j)'
    BY <1>0, <1>4, <1>6, <1>7 DEF MessagesInOrder
  <2>3. ASSUME NEW j \in Ids, NEW n \in 1..Len(wire'), wire'[n] = Update(j)
        PROVE  row'[j] = "open" \/ \E k \in 1..Len(wire') : k < n /\ wire'[k] = Log(j)
    <3>1. n \in 1..Len(wire) /\ wire[n] = Update(j)
      BY <1>5, <2>3, MessagesDiffer
    <3>2. CASE row[j] = "open"
      BY <3>2
    <3>3. CASE \E k \in 1..Len(wire) : k < n /\ wire[k] = Log(j)
      <4>1. PICK k \in 1..Len(wire) : k < n /\ wire[k] = Log(j)
        BY <3>3
      <4>2. k \in 1..Len(wire') /\ wire'[k] = Log(j)
        BY <1>5, <4>1
      <4> QED BY <4>1, <4>2
    <3> QED BY <1>0, <3>1, <3>2, <3>3 DEF MessagesInOrder
  <2> QED BY <2>1, <2>2, <2>3 DEF MessagesInOrder
<1> QED BY <1>8, <1>9, <1>10 DEF CalmInv

\* A step that changes the running engine's record only, outside a booking's record.
LEMMA RecordMoves ==
    ASSUME AnyInv, CalmInv, NEW r, current # 0,
           engine' = [engine EXCEPT ![current] = r],
           UNCHANGED <<faults, daemon, wire, linked, current, booking>>,
           \A e \in exits' : e[1] = current, exits' = {} \/ daemon = "up",
           \A g \in Builds : g # current => pass'[g] = pass[g],
           r.state = "pending" => daemon = "boot" /\ pass'[current].at # "none",
           daemon \in {"commands", "up"} => r.state = "ready"
    PROVE  OneDesk' /\ Desk' = r
<1>1. current \in Builds
  BY DeskIs
<1>2. Desk' = r /\ \A g \in Builds : g # current => engine'[g] = engine[g]
  BY <1>1, Records DEF Desk, AnyInv
<1>3. OneDesk'
  BY <1>2 DEF CalmInv, OneDesk
<1> QED BY <1>2, <1>3

\* A take-profit leg takes a lot, never the last one.
LEMMA PartialExitCalm ==
    ASSUME AnyInv, Quiet, CalmInv, PartialExit PROVE CalmInv'
<1> USE DEF PartialExit
<1> DEFINE i == Desk.id
           r == OneLotLess(engine[current])
<1>0. OneDesk /\ MessagesInOrder /\ TradesKnown /\ DeskHolds /\ RecoveryTypeOK
  BY DEF CalmInv, AnyInv
<1>1. /\ current # 0 /\ current \in Builds /\ Desk = engine[current] /\ Desk \in EngineRecords
      /\ Desk.state = "ready" /\ daemon = "up"
  BY UpIs
<1>2. i \in Ids
  BY <1>1, RecoveryAssumption DEF EngineRecords
<1>3. r.id = i /\ r.legs \subseteq Desk.legs /\ r.banked = Desk.banked /\ r.state = "ready"
  BY <1>1, OneLotLessRecord
<1>4. engine' = [engine EXCEPT ![current] = r] /\ "partial_exit" \in faults
      /\ UNCHANGED <<faults, daemon, row, wire, linked, current, pass, booking, exits, booked>>
  OBVIOUS
<1>5. ASSUME NEW j \in Ids PROVE left'[j] > 0 <=> left[j] > 0
  BY <1>0, <1>2, RecoveryAssumption DEF RecoveryTypeOK
<1> HIDE DEF r, PartialExit
<1>6. OneDesk' /\ Desk' = r
  BY <1>0, <1>1, <1>3, <1>4, RecordMoves DEF OneDesk
<1>7. MessagesInOrder' /\ \A j \in Ids : (Known(j)' <=> Known(j)) /\ (Closing(j)' <=> Closing(j))
  BY <1>0, <1>4, SameMessages
<1>8. TradesKnown'
  BY <1>0, <1>3, <1>4, <1>5, <1>6, <1>7 DEF TradesKnown
<1>9. DeskHolds'
  <2>1. OverWith' = OverWith
    BY <1>4, <1>5 DEF OverWith, StillOpen
  <2> QED BY <1>0, <1>1, <1>3, <1>5, <1>6, <2>1 DEF DeskHolds
<1>10. WholeQuantities'
  BY <1>4 DEF WholeQuantities
<1> QED BY <1>6, <1>7, <1>8, <1>9, <1>10 DEF CalmInv

\* The position closes: what is left of it is a publication to come.
LEMMA ExitCalm ==
    ASSUME AnyInv, Quiet, CalmInv, Exit PROVE CalmInv'
<1> USE DEF Exit
<1> DEFINE i == Desk.id
           r == Flattened(engine[current])
<1>0. OneDesk /\ MessagesInOrder /\ TradesKnown /\ DeskHolds /\ WholeQuantities /\ RecoveryTypeOK
  BY DEF CalmInv, AnyInv
<1>1. /\ current # 0 /\ current \in Builds /\ Desk = engine[current] /\ Desk \in EngineRecords
      /\ Desk.state = "ready" /\ daemon = "up"
  BY CalmMeans, UpIs DEF TakesCommand
<1>2. i \in Ids /\ 0 \notin Ids
  BY <1>1, IdsAreNumbers DEF EngineRecords
<1>3. r.id = 0 /\ r.legs = {} /\ r.banked = Desk.banked \cup {i} /\ r.state = "ready"
  BY <1>1, <1>2, FlattenedRecord
<1>4. /\ engine' = [engine EXCEPT ![current] = r] /\ left' = [left EXCEPT ![i] = 0]
      /\ exits' = exits \cup {<<current, i>>}
      /\ UNCHANGED <<faults, daemon, row, wire, linked, current, pass, booking, booked>>
  OBVIOUS
<1>5. booking = NoBooking /\ booking.at = "idle"
  <2>1. booking.at # "record"
    BY CalmMeans
  <2>2. booking.at # "execute"
    BY <1>0, <1>2 DEF TradesKnown
  <2>3. booking.at = "idle"
    BY <2>1, <2>2, Records DEF AnyInv, BookingRecords
  <2> QED BY <2>3 DEF AnyInv, BooksReadyOnly
<1> HIDE DEF r, i, Exit
<1>6. left[i] > 0 /\ Known(i) /\ ~Closing(i)
  BY <1>0, <1>1, <1>2 DEF DeskHolds, TradesKnown, i
<1>7. left'[i] = 0 /\ \A j \in Ids : ~(left'[j] > 0)
  <2>1. \A j \in Ids : left[j] > 0 => j = i
    BY <1>0, <1>1 DEF DeskHolds, i
  <2>2. left'[i] = 0 /\ \A j \in Ids : j # i => left'[j] = left[j]
    BY <1>0, <1>2, <1>4 DEF RecoveryTypeOK
  <2> QED BY <1>2, <2>1, <2>2
<1>8. OneDesk' /\ Desk' = r
  <2>1. \A e \in exits' : e[1] = current
    BY <1>0, <1>4 DEF OneDesk
  <2> QED BY <1>1, <1>3, <1>4, <2>1, RecordMoves
<1>9. ASSUME NEW j \in Ids
      PROVE  /\ OnWire(Log(j))' <=> OnWire(Log(j))
             /\ OnWire(Update(j))' <=> OnWire(Update(j))
             /\ ~Recording(j) /\ ~Recording(j)'
             /\ <<current', j>> \in exits' <=> <<current, j>> \in exits \/ j = i
             /\ Known(j)' <=> Known(j)
             /\ Closing(j)' <=> Closing(j) \/ j = i
  <2>1. /\ OnWire(Log(j))' <=> OnWire(Log(j))
        /\ OnWire(Update(j))' <=> OnWire(Update(j))
        /\ ~Recording(j) /\ ~Recording(j)'
        /\ <<current', j>> \in exits' <=> <<current, j>> \in exits \/ j = i
    BY <1>4, <1>5 DEF OnWire, Recording
  <2> QED BY <1>4, <2>1 DEF Known, Closing
<1>10. MessagesInOrder'
  <2>1. row[i] # "closed" /\ ~OnWire(Update(i))
    BY <1>6 DEF Closing
  <2> QED BY <1>0, <1>4, <1>6, <1>9, <2>1 DEF MessagesInOrder
<1>11. TradesKnown'
  <2>1. ASSUME NEW j \in Ids PROVE left'[j] > 0 <=> Known(j)' /\ ~Closing(j)'
    <3>1. j # i => ~(left[j] > 0)
      BY <1>0, <1>1 DEF DeskHolds, i
    <3> QED BY <1>0, <1>7, <1>9, <3>1 DEF TradesKnown
  <2> QED BY <1>0, <1>4, <1>5, <1>7, <1>9, <2>1 DEF TradesKnown
<1>12. DeskHolds'
  <2>1. OverWith' = OverWith \cup {i}
    <3>1. StillOpen = {i} /\ StillOpen' = {}
      BY <1>0, <1>1, <1>2, <1>7 DEF StillOpen, DeskHolds, i
    <3>2. i \in {Own(t) : t \in 1..booked}
      BY <1>0, <1>2, <1>6 DEF TradesKnown
    <3> QED BY <1>4, <3>1, <3>2 DEF OverWith
  <2>2. Desk'.banked = OverWith'
    BY <1>0, <1>1, <1>3, <1>8, <2>1 DEF DeskHolds
  <2> QED BY <1>2, <1>3, <1>7, <1>8, <2>2 DEF DeskHolds
<1>13. WholeQuantities'
  <2>1. ASSUME "partial_exit" \notin faults, NEW j \in Ids PROVE left'[j] \in {0, Size}
    BY <1>0, <1>2, <1>4, <2>1 DEF WholeQuantities, RecoveryTypeOK
  <2> QED BY <1>3, <1>4, <1>8, <2>1 DEF WholeQuantities
<1> QED BY <1>8, <1>10, <1>11, <1>12, <1>13 DEF CalmInv

\* The exit is published, behind its booking if that is still on the wire.
LEMMA PublishExitCalm ==
    ASSUME AnyInv, Quiet, CalmInv, NEW e \in exits, PublishExit(e) PROVE CalmInv'
<1> USE DEF PublishExit
<1> DEFINE i == e[2]
<1>0. OneDesk /\ MessagesInOrder /\ TradesKnown /\ DeskHolds /\ WholeQuantities /\ RecoveryTypeOK
  BY DEF CalmInv, AnyInv
<1>1. /\ daemon = "up" /\ linked /\ i \in Ids /\ e = <<current, i>>
  BY <1>0 DEF OneDesk, RecoveryTypeOK
<1>2. wire' = Append(wire, Update(i)) /\ Update(i) \in Messages
  BY <1>1, MessagesDiffer DEF Published, Update
<1>3. exits' = exits \ {<<current, i>>}
      /\ UNCHANGED <<faults, daemon, row, linked, current, engine, pass, booking, booked, left>>
  BY <1>1
<1> HIDE DEF i, PublishExit
<1>4. Closing(i) /\ row[i] # "closed" /\ ~OnWire(Update(i)) /\ ~Recording(i)
      /\ (row[i] = "open" \/ OnWire(Log(i)))
  <2>1. Closing(i)
    BY <1>1 DEF Closing
  <2>2. row[i] # "closed" /\ ~OnWire(Update(i)) /\ ~Recording(i) /\ Known(i)
    BY <1>0, <1>1, <2>1 DEF MessagesInOrder
  <2>3. row[i] \in {"none", "open", "closed"}
    BY <1>0, <1>1 DEF RecoveryTypeOK
  <2> QED BY <2>1, <2>2, <2>3 DEF Known
<1>5. /\ Len(wire) \in Nat /\ Len(wire') = Len(wire) + 1 /\ wire'[Len(wire) + 1] = Update(i)
      /\ \A n \in 1..Len(wire) : wire'[n] = wire[n]
      /\ \A x : OnWire(x)' <=> OnWire(x) \/ x = Update(i)
  BY <1>0, <1>2, Appended
<1>6. ASSUME NEW j \in Ids
      PROVE  /\ OnWire(Log(j))' <=> OnWire(Log(j))
             /\ OnWire(Update(j))' <=> OnWire(Update(j)) \/ j = i
             /\ Recording(j)' <=> Recording(j)
             /\ <<current', j>> \in exits' <=> <<current, j>> \in exits /\ j # i
  BY <1>3, <1>5, MessagesDiffer DEF Recording
<1>7. ASSUME NEW j \in Ids
      PROVE  (Known(j)' <=> Known(j)) /\ (Closing(j)' <=> Closing(j))
  BY <1>1, <1>3, <1>6 DEF Known, Closing
<1>8. OneDesk' /\ DeskHolds' /\ WholeQuantities'
  BY <1>0, <1>1, <1>3, DeskKept DEF OneDesk
<1>9. TradesKnown'
  BY <1>0, <1>3, <1>7 DEF TradesKnown, Desk
<1>10. MessagesInOrder'
  <2>1. ASSUME NEW n \in 1..Len(wire'), NEW k \in 1..Len(wire'), wire'[n] = wire'[k]
        PROVE  n = k
    <3>1. \A a \in 1..Len(wire) : wire[a] # Update(i)
      BY <1>4 DEF OnWire
    <3>2. (n \in 1..Len(wire) \/ n = Len(wire) + 1) /\ (k \in 1..Len(wire) \/ k = Len(wire) + 1)
      BY <1>5
    <3> QED BY <1>0, <1>5, <2>1, <3>1, <3>2 DEF MessagesInOrder
  <2>2. ASSUME NEW j \in Ids
        PROVE  /\ OnWire(Log(j))' => row'[j] = "none"
               /\ Recording(j)' => row'[j] = "none" /\ ~OnWire(Log(j))' /\ ~Closing(j)'
               /\ OnWire(Update(j))' => row'[j] # "closed" /\ <<current', j>> \notin exits'
               /\ <<current', j>> \in exits' => row'[j] # "closed"
               /\ Closing(j)' => Known(j)'
    BY <1>0, <1>3, <1>4, <1>6, <1>7 DEF MessagesInOrder
  <2>3. ASSUME NEW j \in Ids, NEW n \in 1..Len(wire'), wire'[n] = Update(j)
        PROVE  row'[j] = "open" \/ \E k \in 1..Len(wire') : k < n /\ wire'[k] = Log(j)
    <3>1. CASE n = Len(wire) + 1
      <4>1. j = i
        BY <1>5, <2>3, <3>1, MessagesDiffer
      <4>2. CASE OnWire(Log(i))
        <5>1. PICK k \in 1..Len(wire) : wire[k] = Log(i)
          BY <4>2 DEF OnWire
        <5>2. k \in 1..Len(wire') /\ k < n /\ wire'[k] = Log(j)
          BY <1>5, <3>1, <4>1, <5>1
        <5> QED BY <5>2
      <4> QED BY <1>3, <1>4, <4>1, <4>2
    <3>2. CASE n # Len(wire) + 1
      <4>1. n \in 1..Len(wire) /\ wire[n] = Update(j)
        BY <1>5, <2>3, <3>2
      <4>2. CASE row[j] = "open"
        BY <1>3, <4>2
      <4>3. CASE \E k \in 1..Len(wire) : k < n /\ wire[k] = Log(j)
        <5>1. PICK k \in 1..Len(wire) : k < n /\ wire[k] = Log(j)
          BY <4>3
        <5>2. k \in 1..Len(wire') /\ wire'[k] = Log(j)
          BY <1>5, <5>1
        <5> QED BY <5>1, <5>2
      <4> QED BY <1>0, <4>1, <4>2, <4>3 DEF MessagesInOrder
    <3> QED BY <3>1, <3>2
  <2> QED BY <2>1, <2>2, <2>3 DEF MessagesInOrder
<1> QED BY <1>8, <1>9, <1>10 DEF CalmInv

\* A step of the pass: the rest follows from what it does to the desk.
LEMMA PassCalm ==
    ASSUME AnyInv, CalmInv, NEW g \in Builds, pass[g].at # "none", NEW r, NEW p,
           engine' = [engine EXCEPT ![g] = r], pass' = [pass EXCEPT ![g] = p],
           UNCHANGED <<faults, daemon, row, wire, linked, current, booking, exits, booked, left>>,
           (r.state = "pending" /\ p.at # "none") \/ r.state = "ready",
           "partial_exit" \notin faults => r.id = 0 \/ r.quantity = Size
    PROVE  /\ OneDesk' /\ MessagesInOrder' /\ TradesKnown' /\ WholeQuantities'
           /\ Desk' = r /\ pass'[current'] = p /\ OverWith' = OverWith /\ LiveRows' = LiveRows
<1>1. /\ g = current /\ current # 0 /\ daemon = "boot" /\ wire = <<>> /\ exits = {}
      /\ booking = NoBooking /\ booking.at = "idle"
  BY BootIs DEF NoBooking
<1>2. pass'[g] = p /\ \A h \in Builds : h # g => pass'[h] = pass[h]
  BY Records DEF AnyInv
<1>3. OneDesk' /\ Desk' = r
  BY <1>1, <1>2, RecordMoves
<1>4. MessagesInOrder' /\ \A i \in Ids : (Known(i)' <=> Known(i)) /\ (Closing(i)' <=> Closing(i))
  BY SameMessages DEF CalmInv
<1>5. TradesKnown' /\ OverWith' = OverWith
  BY <1>1, <1>4, SameTrades DEF CalmInv
<1>6. WholeQuantities'
  BY <1>3 DEF CalmInv, WholeQuantities
<1> QED BY <1>1, <1>2, <1>3, <1>4, <1>5, <1>6 DEF LiveRows

\* The rows are read: the desk is empty yet.
LEMMA PassLoadCalm ==
    ASSUME AnyInv, Quiet, CalmInv, NEW g \in Builds, PassLoad(g) PROVE CalmInv'
<1> USE DEF PassLoad
<1> DEFINE p == [at |-> "rows", open |-> LiveRows, closed |-> {i \in Ids : row[i] = "closed"}, id |-> 0]
<1>1. /\ g = current /\ Desk = engine[g] /\ Desk.state = "pending" /\ pass[g].at # "none"
  BY BootIs
<1>2. Desk.id = 0 /\ \A l \in Desk.legs : l[1] = Desk.id
  BY <1>1 DEF CalmInv, DeskHolds
<1>3. engine' = [engine EXCEPT ![g] = Desk] /\ pass' = [pass EXCEPT ![g] = p]
      /\ UNCHANGED <<faults, daemon, row, wire, linked, current, booking, exits, booked, left>>
  BY <1>1, CalmMeans, Records DEF AnyInv
<1>4. p.at = "rows" /\ p.open = LiveRows /\ p.closed = {i \in Ids : row[i] = "closed"}
  OBVIOUS
<1> HIDE DEF p, PassLoad
<1>5. /\ OneDesk' /\ MessagesInOrder' /\ TradesKnown' /\ WholeQuantities'
      /\ Desk' = Desk /\ pass'[current'] = p /\ LiveRows' = LiveRows
  BY <1>1, <1>2, <1>3, <1>4, PassCalm
<1>6. DeskHolds'
  BY <1>1, <1>2, <1>3, <1>4, <1>5 DEF DeskHolds
<1> QED BY <1>5, <1>6 DEF CalmInv

\* A row restored: it is the only open one.
LEMMA PassRowCalm ==
    ASSUME AnyInv, Quiet, CalmInv, NEW g \in Builds, PassRow(g) PROVE CalmInv'
<1> USE DEF PassRow
<1> DEFINE i == OldestOf(pass[g].open)
           r == Holds(engine[g], i, Size, {"stop"})
           p == Restoring(pass[g], i)
<1>1. /\ g = current /\ Desk = engine[g] /\ Desk.state = "pending" /\ pass[g].at # "none"
      /\ Desk \in EngineRecords
      /\ \A j \in Ids : left[j] > 0 <=> row[j] = "open"
  BY BootIs
<1>2. /\ pass[g].open = LiveRows /\ Desk.id = 0 /\ \A l \in Desk.legs : l[1] = Desk.id
      /\ pass[g].closed = {j \in Ids : row[j] = "closed"}
  BY <1>1 DEF CalmInv, DeskHolds
<1>3. pass[g] \in PassRecords
  BY PassIs
<1>4. i \in pass[g].open /\ i \in Ids /\ 0 \notin Ids
  BY <1>3, OldestIsOne, IdsAreNumbers DEF PassRecords
<1>5. pass[g].open = {i} /\ left[i] > 0
  <2>1. \A j \in pass[g].open : j \in Ids /\ left[j] > 0
    BY <1>1, <1>2 DEF LiveRows
  <2>2. \A j \in pass[g].open : j = i
    BY <1>4, <2>1 DEF CalmInv, TradesKnown
  <2> QED BY <1>4, <2>1, <2>2
<1>6. Desk.legs = {}
  BY <1>1, <1>2, <1>4 DEF EngineRecords
<1>7. /\ r.id = i /\ r.quantity = Size /\ r.state = "pending"
      /\ \A l \in r.legs : l[1] = i
  <2>1. /\ r.id = i /\ r.quantity = Size /\ r.legs = engine[g].legs \cup ({i} \X {"stop"})
        /\ r.state = engine[g].state
    <3> HIDE DEF i, PassRow
    <3> QED BY <1>1 DEF Holds, EngineRecords
  <2>2. \A l \in {i} \X {"stop"} : l[1] = i
    OBVIOUS
  <2> HIDE DEF r, i, PassRow
  <2> QED BY <1>1, <1>6, <2>1, <2>2
<1>8. p.at = "targets" /\ p.id = i /\ p.open = {} /\ p.closed = pass[g].closed
  <2>1. p.at = "targets" /\ p.id = i /\ p.open = pass[g].open \ {i} /\ p.closed = pass[g].closed
    BY <1>3, <1>4, RestoringRecord
  <2> HIDE DEF p, i, PassRow
  <2> QED BY <1>5, <2>1
<1>9. engine' = [engine EXCEPT ![g] = r] /\ pass' = [pass EXCEPT ![g] = p]
      /\ UNCHANGED <<faults, daemon, row, wire, linked, current, booking, exits, booked, left>>
  OBVIOUS
<1> HIDE DEF p, r, i, PassRow
<1>10. /\ OneDesk' /\ MessagesInOrder' /\ TradesKnown' /\ WholeQuantities'
       /\ Desk' = r /\ pass'[current'] = p
  BY <1>1, <1>7, <1>8, <1>9, PassCalm
<1>11. DeskHolds'
  BY <1>2, <1>4, <1>5, <1>7, <1>8, <1>9, <1>10 DEF DeskHolds
<1> QED BY <1>10, <1>11 DEF CalmInv

LEMMA PassTargetsCalm ==
    ASSUME AnyInv, Quiet, CalmInv, NEW g \in Builds, PassTargets(g) PROVE CalmInv'
<1> USE DEF PassTargets
<1> DEFINE r == [engine[g] EXCEPT !.legs = engine[g].legs \cup {<<pass[g].id, "target">>}]
           p == [pass[g] EXCEPT !.at = "rows"]
<1>1. /\ g = current /\ Desk = engine[g] /\ Desk.state = "pending" /\ pass[g].at # "none"
      /\ Desk \in EngineRecords /\ pass[g] \in PassRecords
  BY BootIs, PassIs
<1>2. /\ pass[g].open = {} /\ Desk.id # 0 /\ left[Desk.id] > 0 /\ pass[g].id = Desk.id
      /\ \A l \in Desk.legs : l[1] = Desk.id
      /\ pass[g].closed = {j \in Ids : row[j] = "closed"}
  BY <1>1 DEF CalmInv, DeskHolds
<1>3. /\ r.id = Desk.id /\ r.quantity = Desk.quantity /\ r.state = "pending"
      /\ r.legs = Desk.legs \cup {<<Desk.id, "target">>}
  BY <1>1, <1>2 DEF EngineRecords
<1>4. p.at = "rows" /\ p.open = {} /\ p.closed = pass[g].closed
  BY <1>1, <1>2 DEF PassRecords
<1>5. engine' = [engine EXCEPT ![g] = r] /\ pass' = [pass EXCEPT ![g] = p]
      /\ UNCHANGED <<faults, daemon, row, wire, linked, current, booking, exits, booked, left>>
  OBVIOUS
<1> HIDE DEF p, r, PassTargets
<1>6. /\ OneDesk' /\ MessagesInOrder' /\ TradesKnown' /\ WholeQuantities'
      /\ Desk' = r /\ pass'[current'] = p
  <2>1. "partial_exit" \notin faults => r.id = 0 \/ r.quantity = Size
    BY <1>3 DEF CalmInv, WholeQuantities
  <2> QED BY <1>1, <1>3, <1>4, <1>5, <2>1, PassCalm
<1>7. DeskHolds'
  BY <1>2, <1>3, <1>4, <1>5, <1>6 DEF DeskHolds
<1> QED BY <1>6, <1>7 DEF CalmInv

\* The pass ends: what is held is what is open, what is banked is what is over.
LEMMA PassEndCalm ==
    ASSUME AnyInv, Quiet, CalmInv, NEW g \in Builds, PassEnd(g) PROVE CalmInv'
<1> USE DEF PassEnd
<1> DEFINE r == Freed(engine[g], pass[g].closed)
<1>1. /\ g = current /\ Desk = engine[g] /\ Desk.state = "pending" /\ pass[g].at # "none"
      /\ Desk \in EngineRecords /\ pass[g] \in PassRecords
      /\ \A j \in Ids : /\ Known(j) <=> row[j] # "none"
                        /\ Closing(j) <=> row[j] = "closed"
                        /\ left[j] > 0 <=> row[j] = "open"
  BY BootIs, PassIs
<1>2. /\ \/ LiveRows = {} /\ Desk.id = 0
         \/ Desk.id # 0 /\ left[Desk.id] > 0
      /\ \A l \in Desk.legs : l[1] = Desk.id
      /\ pass[g].closed = {j \in Ids : row[j] = "closed"}
  BY <1>1 DEF CalmInv, DeskHolds
<1>3. /\ r.id = Desk.id /\ r.quantity = Desk.quantity /\ r.legs = Desk.legs
      /\ r.banked = pass[g].closed /\ r.state = "ready"
  BY <1>1 DEF Freed, EngineRecords
<1>4. engine' = [engine EXCEPT ![g] = r] /\ pass' = [pass EXCEPT ![g] = NoPass]
      /\ UNCHANGED <<faults, daemon, row, wire, linked, current, booking, exits, booked, left>>
  OBVIOUS
<1> HIDE DEF r, PassEnd
<1>5. /\ OneDesk' /\ MessagesInOrder' /\ TradesKnown' /\ WholeQuantities'
      /\ Desk' = r /\ OverWith' = OverWith
  <2>1. "partial_exit" \notin faults => r.id = 0 \/ r.quantity = Size
    BY <1>3 DEF CalmInv, WholeQuantities
  <2> QED BY <1>1, <1>3, <1>4, <2>1, PassCalm
<1>6. ASSUME NEW j \in Ids PROVE left[j] > 0 <=> Desk.id = j
  <2>1. CASE LiveRows = {} /\ Desk.id = 0
    BY <1>1, <2>1, IdsAreNumbers DEF LiveRows
  <2>2. CASE Desk.id # 0 /\ left[Desk.id] > 0
    <3>1. Desk.id \in Ids
      BY <1>1, <2>2 DEF EngineRecords
    <3> QED BY <2>2, <3>1 DEF CalmInv, TradesKnown
  <2> QED BY <1>2, <2>1, <2>2
<1>7. pass[g].closed = OverWith
  <2>1. ASSUME NEW j \in Ids, row[j] = "closed" PROVE j \in OverWith
    BY <1>1, <2>1 DEF CalmInv, TradesKnown, OverWith, StillOpen
  <2>2. ASSUME NEW j \in OverWith PROVE j \in Ids /\ row[j] = "closed"
    <3>1. PICK t \in 1..booked : j = Own(t)
      BY <2>2 DEF OverWith
    <3>2. j \in Ids
      BY <3>1, IdsAreNumbers, RecoveryAssumption DEF AnyInv, RecoveryTypeOK
    <3>3. Known(j) /\ ~(left[j] > 0)
      BY <2>2, <3>1, <3>2 DEF CalmInv, TradesKnown, OverWith, StillOpen
    <3> QED BY <1>1, <3>2, <3>3 DEF CalmInv, TradesKnown
  <2> QED BY <1>2, <2>1, <2>2
<1>8. DeskHolds'
  BY <1>2, <1>3, <1>4, <1>5, <1>6, <1>7 DEF DeskHolds
<1> QED BY <1>5, <1>8 DEF CalmInv

LEMMA CalmInitially == RecoveryInit => CalmInv
<1> SUFFICES ASSUME RecoveryInit PROVE CalmInv
  OBVIOUS
<1> USE DEF RecoveryInit
<1>1. Desk = EmptyEngine /\ Desk.state = "none" /\ Desk.id = 0 /\ Desk.legs = {}
      /\ booking.at = "idle" /\ booked = 0 /\ Len(wire) = 0
  BY DEF Desk, EmptyEngine, NoBooking
<1>2. \A i \in Ids : ~Known(i) /\ ~Closing(i) /\ ~Recording(i) /\ ~(left[i] > 0) /\ left[i] = 0
                     /\ ~OnWire(Log(i)) /\ ~OnWire(Update(i))
  BY <1>1 DEF Known, Closing, Recording, OnWire
<1>3. OneDesk
  BY <1>1 DEF OneDesk, EmptyEngine
<1>4. MessagesInOrder
  BY <1>1, <1>2 DEF MessagesInOrder
<1>5. TradesKnown
  BY <1>1, <1>2 DEF TradesKnown
<1>6. DeskHolds /\ WholeQuantities
  BY <1>1, <1>2 DEF DeskHolds, WholeQuantities
<1> QED BY <1>3, <1>4, <1>5, <1>6 DEF CalmInv

LEMMA CalmStep == AnyInv /\ Quiet /\ CalmInv /\ [RecoveryNext]_recoveryVars => CalmInv'
<1> SUFFICES ASSUME AnyInv, Quiet, CalmInv, [RecoveryNext]_recoveryVars PROVE CalmInv'
  OBVIOUS
<1>1. CASE Boot
  BY <1>1, BootCalm
<1>2. CASE SubscribeCommands \/ SubscribeLedger
  BY <1>2, SubscribeCommandsCalm, SubscribeLedgerCalm
<1>3. CASE Crash
  BY <1>3, CrashCalm
<1>4. CASE ChangeMode \/ BusDrops \/ BusReturns
  BY <1>4, CalmMeans DEF ChangeMode, BusDrops, BusReturns, CalmInv, OneDesk
<1>5. CASE LedgerHandle
  BY <1>5, LedgerHandleCalm
<1>6. CASE \E by \in {"command", "fan_out"} : BookBegin(by)
  BY <1>6, BookBeginCalm
<1>7. CASE BookFill \/ BookRecord
  BY <1>7, BookFillCalm, BookRecordCalm
<1>8. CASE PartialExit \/ Exit
  BY <1>8, PartialExitCalm, ExitCalm
<1>9. CASE \E e \in exits : PublishExit(e)
  BY <1>9, PublishExitCalm
<1>10. CASE \E g \in Builds : Pass(g)
  BY <1>10, PassLoadCalm, PassRowCalm, PassTargetsCalm, PassEndCalm DEF Pass
<1>11. CASE UNCHANGED recoveryVars
  <2> USE <1>11 DEF recoveryVars
  <2>1. Desk' = Desk
    BY DEF Desk
  <2>2. OneDesk'
    BY <2>1 DEF CalmInv, OneDesk
  <2>3. MessagesInOrder' /\ \A i \in Ids : (Known(i)' <=> Known(i)) /\ (Closing(i)' <=> Closing(i))
    BY SameMessages DEF CalmInv
  <2>4. TradesKnown' /\ OverWith' = OverWith
    BY <2>1, <2>3, SameTrades DEF CalmInv
  <2>5. DeskHolds' /\ WholeQuantities'
    BY <2>1, <2>4 DEF CalmInv, DeskHolds, WholeQuantities, LiveRows
  <2> QED BY <2>2, <2>3, <2>4, <2>5 DEF CalmInv
<1> QED BY <1>1, <1>2, <1>3, <1>4, <1>5, <1>6, <1>7, <1>8, <1>9, <1>10, <1>11 DEF RecoveryNext

----------------------------------------------------------------------------
(* What follows.                                                           *)

\* Whatever may go wrong, it is fixed at the start of a behaviour.
LEMMA FaultsStay == [RecoveryNext]_recoveryVars => UNCHANGED faults
BY DEF RecoveryNext, Boot, Materialize, SubscribeCommands, SubscribeLedger, Crash, ChangeMode,
       BusDrops, BusReturns, LedgerHandle, BookBegin, BookFill, BookRecord, PartialExit, Exit,
       PublishExit, Pass, PassLoad, PassRow, PassTargets, PassEnd, recoveryVars

LEMMA RecoveryIsInductive == RecoverySpec => []RecoveryInv
<1>1. RecoveryInit => RecoveryInv
  BY AnyInitially, CalmInitially DEF RecoveryInv
<1>2. RecoveryInv /\ [RecoveryNext]_recoveryVars => RecoveryInv'
  <2> SUFFICES ASSUME RecoveryInv, [RecoveryNext]_recoveryVars PROVE RecoveryInv'
    OBVIOUS
  <2>1. Quiet' => Quiet
    BY FaultsStay DEF Quiet, Without
  <2> QED BY <2>1, AnyStep, CalmStep DEF RecoveryInv
<1> QED BY <1>1, <1>2, PTL DEF RecoverySpec

\* Once all is settled the rows tell what is open: nothing is on its way.
LEMMA SettledCalm ==
    ASSUME RecoveryInv, Settled, Quiet
    PROVE  /\ \A i \in Ids : left[i] > 0 <=> Desk.id = i
           /\ \A i \in Ids : left[i] > 0 <=> row[i] = "open"
           /\ Desk.banked = OverWith /\ \A l \in Desk.legs : l[1] = Desk.id
           /\ Desk.id # 0 => Desk.id \in Ids
           /\ "partial_exit" \notin faults => \A i \in Ids : left[i] \in {0, Size}
           /\ "partial_exit" \notin faults /\ Desk.id # 0 => Desk.quantity = Size
<1>1. AnyInv /\ CalmInv /\ Desk.state = "ready" /\ current # 0 /\ Desk \in EngineRecords
  BY UpIs DEF RecoveryInv, Settled
<1>2. wire = <<>> /\ exits = {} /\ booking = NoBooking
  BY DEF Settled
<1>3. ASSUME NEW i \in Ids PROVE left[i] > 0 <=> row[i] = "open"
  <2>1. (Known(i) <=> row[i] # "none") /\ (Closing(i) <=> row[i] = "closed")
    BY <1>2 DEF Known, Closing, OnWire, Recording, NoBooking
  <2>2. row[i] \in {"none", "open", "closed"}
    BY <1>1 DEF AnyInv, RecoveryTypeOK
  <2> QED BY <1>1, <2>1, <2>2 DEF CalmInv, TradesKnown
<1>4. Desk.id # 0 => Desk.id \in Ids
  BY <1>1 DEF EngineRecords
<1> QED BY <1>1, <1>3, <1>4 DEF CalmInv, DeskHolds, WholeQuantities

LEMMA InvRestores == RecoveryInv => RestartRestores
<1> SUFFICES ASSUME RecoveryInv PROVE RestartRestores
  OBVIOUS
<1>1. DeskSurvives
  <2> SUFFICES ASSUME Settled, Quiet
               PROVE  StillOpen = (IF Desk.id = 0 THEN {} ELSE {Desk.id}) /\ LiveRows = StillOpen
    BY DEF DeskSurvives, Quiet
  <2>1. LiveRows = StillOpen
    BY SettledCalm DEF LiveRows, StillOpen
  <2>2. CASE Desk.id = 0
    BY <2>1, <2>2, SettledCalm, IdsAreNumbers DEF StillOpen
  <2>3. CASE Desk.id # 0
    BY <2>1, <2>3, SettledCalm DEF StillOpen
  <2> QED BY <2>1, <2>2, <2>3
<1>2. Without(RecoveryFaults) => Quiet /\ "partial_exit" \notin faults
  BY DEF Without, Quiet, RecoveryFaults
<1>3. QuantitySurvives
  <2> SUFFICES ASSUME Settled, Quiet, "partial_exit" \notin faults, Desk.id # 0
               PROVE  Desk.quantity = left[Desk.id]
    BY <1>2 DEF QuantitySurvives
  <2>1. Desk.id \in Ids /\ left[Desk.id] > 0 /\ Desk.quantity = Size
    BY SettledCalm
  <2>2. left[Desk.id] \in {0, Size}
    BY <2>1, SettledCalm
  <2> QED BY <2>1, <2>2
<1>4. BalanceSurvives
  BY <1>2, SettledCalm DEF BalanceSurvives
<1>5. LegsFitPosition
  <2>1. Without({"crash", "bus_drop", "db_error", "early_command", "fast_exit", "mode_change"})
            => Quiet
    BY DEF Without, Quiet, RecoveryFaults
  <2> QED BY <2>1, SettledCalm DEF LegsFitPosition
<1>6. RestoredWithStop
  BY DEF RecoveryInv, AnyInv
<1>7. BlockedUntilRestored
  <2> SUFFICES ASSUME booking # NoBooking PROVE pass[booking.g] = NoPass
    BY DEF BlockedUntilRestored
  <2>1. booking.g \in Builds /\ engine[booking.g].state = "ready"
    BY BookingIs DEF RecoveryInv
  <2> QED BY <2>1 DEF RecoveryInv, AnyInv, BuildsInOrder
<1> QED BY <1>1, <1>3, <1>4, <1>5, <1>6, <1>7 DEF RestartRestores

\* A restart restores what the tenant has: the open position at its quantity, the
\* balance, the legs, the stop before all else, and no booking before the pass is
\* over (rehydrate_engine, TradeLedger.handle, evaluate_and_book), for any number
\* of trades, restarts and lots.
THEOREM RestartsRestore == RecoverySpec => []RestartRestores
BY RecoveryIsInductive, InvRestores, PTL

\* The rows, the messages and the engines keep their types under every fault.
THEOREM RecoveryTyped == RecoverySpec => []RecoveryTypeOK
<1>1. RecoveryInv => RecoveryTypeOK
  BY DEF RecoveryInv, AnyInv
<1> QED BY <1>1, RecoveryIsInductive, PTL

----------------------------------------------------------------------------
(* The dashboard's sockets (ApiFeed): the inductive invariant.           *)

\* The lock of the base feed is held once.
LockHeldOnce ==
    /\ \A c, d \in Sockets : socket[c] = "starting" /\ socket[d] = "starting" => c = d
    /\ \A c \in Sockets : socket[c] = "starting" => stopper # "sending"

\* Only a served socket watches, opens and sends.
Served == {"open", "opening", "sending"}

ListsAreServed ==
    \A c \in Sockets :
        /\ watched[c] # {} => socket[c] \in Served
        /\ todo[c] # {} => socket[c] \in {"opening", "sending"}
        /\ frame[c] # {} => socket[c] = "sending"

\* What is watched is streamed, or about to be.
WatchedIsOnItsWay ==
    ApiSpared({"send_fails"}) =>
        \A c \in Sockets : watched[c] \subseteq upstream \union todo[c] \union frame[c]

ServedHaveFeed ==
    ApiSpared({"send_fails"}) =>
        \A c \in connections : socket[c] \in Served => feed /\ stopper # "sending"

\* With room for every request, all that is opened is watched by whom it is for.
RoomForAll ==
    ApiSpared({"overflow"}) =>
        \A c \in Sockets : todo[c] \union frame[c] \subseteq watched[c] /\ frame[c] \subseteq streams

\* With the tenant's bucket at hand nothing is read from the state manager.
BucketAtHand ==
    ApiSpared({"cold"}) =>
        cache # Unknown /\ \A c \in Sockets : snapshot[c] = Unknown /\ socket[c] # "reading"

\* The type invariant but for the count of the lock's holders.
ApiTypes ==
    /\ aplan \in ApiPlans
    /\ socket \in [Sockets -> {"off", "reading", "greeting", "acquiring", "starting", "open",
                               "opening", "sending"}]
    /\ todo \in [Sockets -> SUBSET Channels] /\ frame \in [Sockets -> SUBSET Channels]
    /\ watched \in [Sockets -> SUBSET Channels] /\ connections \subseteq Sockets
    /\ upstream \union streams \union dropping \subseteq Channels
    /\ releaser \in {"none", "sleeping"} /\ feed \in BOOLEAN
    /\ stopper \in {"none", "sleeping", "ready", "sending"}
    /\ latest \in 0..MaxVersion /\ cache \in Unknown..MaxVersion /\ frames \subseteq 1..MaxVersion
    /\ snapshot \in [Sockets -> Unknown..MaxVersion] /\ shown \in [Sockets -> Unknown..MaxVersion]
    /\ connects \in 0..MaxConnects /\ ops \in 0..MaxOps
    /\ ApiSpared({"overflow"}) => upstream \subseteq streams
    /\ \A c \in Sockets : Cardinality(watched[c]) <= MaxChannels
    /\ releaser = "none" <=> dropping = {}

ApiParts ==
    /\ ApiTypes /\ LockHeldOnce /\ ListsAreServed /\ WatchedIsOnItsWay /\ ServedHaveFeed
    /\ RoomForAll /\ UnwatchedIsLeaving /\ BucketAtHand /\ ShowsNewest


\* A bound on a difference, as the code takes it.
LEMMA MaxOfTwo ==
    ASSUME NEW a \in Int, NEW b \in Int
    PROVE  /\ Max({a, b}) = IF a >= b THEN a ELSE b
           /\ Min({a, b}) = IF a <= b THEN a ELSE b
<1> DEFINE m == IF a >= b THEN a ELSE b
           n == IF a <= b THEN a ELSE b
<1>1. \A x \in {a, b} : (\A y \in {a, b} : x >= y) <=> x = m
  OBVIOUS
<1>2. \A x \in {a, b} : (\A y \in {a, b} : x =< y) <=> x = n
  OBVIOUS
<1>3. m \in {a, b} /\ n \in {a, b}
  OBVIOUS
<1> HIDE DEF m, n
<1> QED BY <1>1, <1>2, <1>3 DEF Max, Min, m, n

\* Channels are finite, and so is every list of them.
LEMMA ListsAreFinite ==
    ASSUME NEW S \in SUBSET Channels
    PROVE  /\ IsFiniteSet(S) /\ Cardinality(S) \in Nat
           /\ \A T \in SUBSET S : Cardinality(T) <= Cardinality(S)
                                  /\ (Cardinality(T) = Cardinality(S) => T = S)
<1>1. IsFiniteSet(S)
  BY ApiAssumption, FS_Subset
<1> QED BY <1>1, FS_Subset, FS_CardinalityType

\* add_channels never passes the cap, and takes all when there is room for all.
LEMMA ChannelsAdded ==
    ASSUME ApiTypes, NEW c \in Sockets, NEW r \in Requests, NEW subs \in AddChannels(c, r)
    PROVE  /\ watched[c] \subseteq subs /\ subs \subseteq watched[c] \union r
           /\ subs \in SUBSET Channels /\ Cardinality(subs) <= MaxChannels
           /\ Cardinality(watched[c]) + Cardinality(r) <= MaxChannels => r \subseteq subs
<1> DEFINE w == watched[c]
           room == Max({0, MaxChannels - Cardinality(w)})
           k == Min({room, Cardinality(r)})
<1>1. w \in SUBSET Channels /\ r \in SUBSET Channels /\ Cardinality(w) <= MaxChannels
  BY DEF ApiTypes, Requests
<1>2. Cardinality(w) \in Nat /\ Cardinality(r) \in Nat
  BY <1>1, ListsAreFinite
<1> HIDE DEF w
<1>3. room = MaxChannels - Cardinality(w) /\ room \in Nat
  BY <1>1, <1>2, MaxOfTwo, ApiAssumption
<1> HIDE DEF room
<1>4. k \in Nat /\ k <= room /\ k <= Cardinality(r)
      /\ (Cardinality(r) <= room => k = Cardinality(r))
  <2>0. room \in Int /\ Cardinality(r) \in Int
    BY <1>2, <1>3
  <2>1. k = IF room <= Cardinality(r) THEN room ELSE Cardinality(r)
    BY <2>0, MaxOfTwo, Zenon
  <2> HIDE DEF k
  <2> QED BY <1>2, <1>3, <2>1
<1> HIDE DEF k
<1>5. PICK kept \in kSubset(k, r) : subs = w \union kept
  BY DEF AddChannels, w, room, k
<1>6. kept \in SUBSET r /\ kept \in SUBSET Channels /\ Cardinality(kept) = k
  BY <1>1, <1>5 DEF kSubset
<1>7. Cardinality(subs) <= Cardinality(w) + k
  <2>1. IsFiniteSet(w) /\ IsFiniteSet(kept) /\ Cardinality(w \intersect kept) \in Nat
    BY <1>1, <1>6, ListsAreFinite
  <2>2. Cardinality(w \union kept) = Cardinality(w) + Cardinality(kept) - Cardinality(w \intersect kept)
    BY <2>1, FS_Union
  <2> QED BY <1>2, <1>4, <1>5, <1>6, <2>1, <2>2
<1>8. Cardinality(w) + Cardinality(r) <= MaxChannels => kept = r
  <2> SUFFICES ASSUME Cardinality(w) + Cardinality(r) <= MaxChannels PROVE kept = r
    OBVIOUS
  <2>1. Cardinality(kept) = Cardinality(r)
    BY <1>2, <1>3, <1>4, <1>6, ApiAssumption
  <2> QED BY <1>1, <1>6, <2>1, ListsAreFinite
<1>9. Cardinality(subs) <= MaxChannels
  <2>1. Cardinality(subs) \in Nat
    BY <1>1, <1>5, <1>6, ListsAreFinite
  <2> QED BY <1>2, <1>3, <1>4, <1>7, <2>1, ApiAssumption
<1> QED BY <1>1, <1>5, <1>6, <1>8, <1>9 DEF w

\* A part of a list is within the cap as well.
LEMMA ChannelsRemoved ==
    ASSUME ApiTypes, NEW c \in Sockets, NEW T \in SUBSET watched[c]
    PROVE  T \in SUBSET Channels /\ Cardinality(T) <= MaxChannels
<1>1. watched[c] \in SUBSET Channels /\ Cardinality(watched[c]) <= MaxChannels
  BY DEF ApiTypes
<1>2. Cardinality(T) <= Cardinality(watched[c])
      /\ Cardinality(T) \in Nat /\ Cardinality(watched[c]) \in Nat
  BY <1>1, ListsAreFinite
<1> QED BY <1>1, <1>2, ApiAssumption

\* A new connection is shown nothing yet.
LEMMA RegisterApi ==
    ASSUME ApiParts, NEW c \in Sockets, Register(c) PROVE ApiParts'
<1> USE DEF Register, marketVars, feedVars, positionVars
<1>1. ApiTypes'
  BY ApiAssumption DEF ApiParts, ApiTypes, ApiSpared
<1>2. LockHeldOnce'
  BY DEF ApiParts, ApiTypes, LockHeldOnce
<1>3. ListsAreServed'
  BY DEF ApiParts, ApiTypes, ListsAreServed, Served
<1>4. WatchedIsOnItsWay'
  BY DEF ApiParts, ApiTypes, WatchedIsOnItsWay, ApiSpared
<1>5. ServedHaveFeed'
  BY DEF ApiParts, ApiTypes, ServedHaveFeed, Served, ApiSpared
<1>6. RoomForAll'
  BY DEF ApiParts, ApiTypes, RoomForAll, ApiSpared
<1>7. UnwatchedIsLeaving'
  BY DEF ApiParts, ApiTypes, UnwatchedIsLeaving, Watchers, ApiSpared
<1>8. BucketAtHand'
  BY DEF ApiParts, ApiTypes, BucketAtHand, ApiSpared
<1>9. ShowsNewest'
  BY DEF ApiParts, ApiTypes, ShowsNewest, ApiSpared
<1> QED BY <1>1, <1>2, <1>3, <1>4, <1>5, <1>6, <1>7, <1>8, <1>9 DEF ApiParts

\* Without a bucket the positions are read.
LEMMA ReadPositionsApi ==
    ASSUME ApiParts, NEW c \in Sockets, ReadPositions(c) PROVE ApiParts'
<1> USE DEF ReadPositions, marketVars, feedVars, positionVars
<1>1. ApiTypes'
  BY ApiAssumption DEF ApiParts, ApiTypes, Unknown, ApiSpared
<1>2. LockHeldOnce'
  BY DEF ApiParts, ApiTypes, LockHeldOnce
<1>3. ListsAreServed'
  BY DEF ApiParts, ApiTypes, ListsAreServed, Served
<1>4. WatchedIsOnItsWay'
  BY DEF ApiParts, ApiTypes, WatchedIsOnItsWay, ApiSpared
<1>5. ServedHaveFeed'
  BY DEF ApiParts, ApiTypes, ServedHaveFeed, Served, ApiSpared
<1>6. RoomForAll'
  BY DEF ApiParts, ApiTypes, RoomForAll, ApiSpared
<1>7. UnwatchedIsLeaving'
  BY DEF ApiParts, ApiTypes, UnwatchedIsLeaving, Watchers, ApiSpared
<1>8. BucketAtHand'
  BY DEF ApiParts, ApiTypes, BucketAtHand, ApiSpared
<1>9. ShowsNewest'
  BY DEF ApiParts, ApiTypes, ShowsNewest, ApiSpared
<1> QED BY <1>1, <1>2, <1>3, <1>4, <1>5, <1>6, <1>7, <1>8, <1>9 DEF ApiParts

\* With the bucket at hand, what is shown is the cache as it is.
LEMMA GreetApi ==
    ASSUME ApiParts, NEW c \in Sockets, Greet(c) PROVE ApiParts'
<1> USE DEF Greet, marketVars, feedVars, positionVars
<1>1. ApiTypes'
  BY ApiAssumption DEF ApiParts, ApiTypes, Unknown, ApiSpared
<1>2. LockHeldOnce'
  BY DEF ApiParts, ApiTypes, LockHeldOnce
<1>3. ListsAreServed'
  BY DEF ApiParts, ApiTypes, ListsAreServed, Served
<1>4. WatchedIsOnItsWay'
  BY DEF ApiParts, ApiTypes, WatchedIsOnItsWay, ApiSpared
<1>5. ServedHaveFeed'
  BY DEF ApiParts, ApiTypes, ServedHaveFeed, Served, ApiSpared
<1>6. RoomForAll'
  BY DEF ApiParts, ApiTypes, RoomForAll, ApiSpared
<1>7. UnwatchedIsLeaving'
  BY DEF ApiParts, ApiTypes, UnwatchedIsLeaving, Watchers, ApiSpared
<1>8. BucketAtHand'
  BY DEF ApiParts, ApiTypes, BucketAtHand, ApiSpared
<1>9. ShowsNewest'
  BY DEF ApiParts, ApiTypes, ShowsNewest, BucketAtHand, ApiSpared
<1> QED BY <1>1, <1>2, <1>3, <1>4, <1>5, <1>6, <1>7, <1>8, <1>9 DEF ApiParts

\* A pending stop is cancelled under the lock.
LEMMA AcquireMarketFeedApi ==
    ASSUME ApiParts, NEW c \in Sockets, AcquireMarketFeed(c) PROVE ApiParts'
<1> USE DEF AcquireMarketFeed, marketVars, feedVars, positionVars
<1>1. ApiTypes'
  BY ApiAssumption DEF ApiParts, ApiTypes, ApiSpared
<1>2. LockHeldOnce'
  BY DEF ApiParts, ApiTypes, LockHeldOnce, FeedLocked
<1>3. ListsAreServed'
  BY DEF ApiParts, ApiTypes, ListsAreServed, Served
<1>4. WatchedIsOnItsWay'
  BY DEF ApiParts, ApiTypes, WatchedIsOnItsWay, ApiSpared
<1>5. ServedHaveFeed'
  BY DEF ApiParts, ApiTypes, ServedHaveFeed, Served, ApiSpared
<1>6. RoomForAll'
  BY DEF ApiParts, ApiTypes, RoomForAll, ApiSpared
<1>7. UnwatchedIsLeaving'
  BY DEF ApiParts, ApiTypes, UnwatchedIsLeaving, Watchers, ApiSpared
<1>8. BucketAtHand'
  BY DEF ApiParts, ApiTypes, BucketAtHand, ApiSpared
<1>9. ShowsNewest'
  BY DEF ApiParts, ApiTypes, ShowsNewest, ApiSpared
<1> QED BY <1>1, <1>2, <1>3, <1>4, <1>5, <1>6, <1>7, <1>8, <1>9 DEF ApiParts

\* The lock is held: no stop is under way.
LEMMA FeedStartsApi ==
    ASSUME ApiParts, NEW c \in Sockets, FeedStarts(c) PROVE ApiParts'
<1> USE DEF FeedStarts, marketVars, feedVars, positionVars
<1>1. ApiTypes'
  BY ApiAssumption DEF ApiParts, ApiTypes, ApiSpared
<1>2. LockHeldOnce'
  BY DEF ApiParts, ApiTypes, LockHeldOnce
<1>3. ListsAreServed'
  BY DEF ApiParts, ApiTypes, ListsAreServed, Served
<1>4. WatchedIsOnItsWay'
  BY DEF ApiParts, ApiTypes, WatchedIsOnItsWay, ApiSpared
<1>5. ServedHaveFeed'
  BY DEF ApiParts, ApiTypes, ServedHaveFeed, LockHeldOnce, Served, ApiSpared
<1>6. RoomForAll'
  BY DEF ApiParts, ApiTypes, RoomForAll, ApiSpared
<1>7. UnwatchedIsLeaving'
  BY DEF ApiParts, ApiTypes, UnwatchedIsLeaving, Watchers, ApiSpared
<1>8. BucketAtHand'
  BY DEF ApiParts, ApiTypes, BucketAtHand, ApiSpared
<1>9. ShowsNewest'
  BY DEF ApiParts, ApiTypes, ShowsNewest, ApiSpared
<1> QED BY <1>1, <1>2, <1>3, <1>4, <1>5, <1>6, <1>7, <1>8, <1>9 DEF ApiParts

\* A channel of the request: on the books, or its frame is sent.
LEMMA EnsureUpstreamApi ==
    ASSUME ApiParts, NEW c \in Sockets, NEW x \in Channels, EnsureUpstream(c, x) PROVE ApiParts'
<1> USE DEF EnsureUpstream, marketVars, feedVars, positionVars
<1>1. ApiTypes'
  BY ApiAssumption DEF ApiParts, ApiTypes, ApiSpared
<1>2. LockHeldOnce'
  BY DEF ApiParts, ApiTypes, LockHeldOnce
<1>3. ListsAreServed'
  BY DEF ApiParts, ApiTypes, ListsAreServed, Served
<1>4. WatchedIsOnItsWay'
  BY DEF ApiParts, ApiTypes, WatchedIsOnItsWay, ListsAreServed, ApiSpared
<1>5. ServedHaveFeed'
  BY DEF ApiParts, ApiTypes, ServedHaveFeed, Served, ApiSpared
<1>6. RoomForAll'
  BY DEF ApiParts, ApiTypes, RoomForAll, ApiSpared
<1>7. UnwatchedIsLeaving'
  BY DEF ApiParts, ApiTypes, UnwatchedIsLeaving, RoomForAll, Watchers, ApiSpared
<1>8. BucketAtHand'
  BY DEF ApiParts, ApiTypes, BucketAtHand, ApiSpared
<1>9. ShowsNewest'
  BY DEF ApiParts, ApiTypes, ShowsNewest, ApiSpared
<1> QED BY <1>1, <1>2, <1>3, <1>4, <1>5, <1>6, <1>7, <1>8, <1>9 DEF ApiParts

\* The frame is sent.
LEMMA OpenedApi ==
    ASSUME ApiParts, NEW c \in Sockets, Opened(c) PROVE ApiParts'
<1> USE DEF Opened, marketVars, feedVars, positionVars
<1>1. ApiTypes'
  BY ApiAssumption DEF ApiParts, ApiTypes, RoomForAll, ApiSpared
<1>2. LockHeldOnce'
  BY DEF ApiParts, ApiTypes, LockHeldOnce
<1>3. ListsAreServed'
  BY DEF ApiParts, ApiTypes, ListsAreServed, Served
<1>4. WatchedIsOnItsWay'
  BY DEF ApiParts, ApiTypes, WatchedIsOnItsWay, ApiSpared
<1>5. ServedHaveFeed'
  BY DEF ApiParts, ApiTypes, ServedHaveFeed, Served, ApiSpared
<1>6. RoomForAll'
  BY DEF ApiParts, ApiTypes, RoomForAll, ApiSpared
<1>7. UnwatchedIsLeaving'
  BY DEF ApiParts, ApiTypes, UnwatchedIsLeaving, RoomForAll, Watchers, ApiSpared
<1>8. BucketAtHand'
  BY DEF ApiParts, ApiTypes, BucketAtHand, ApiSpared
<1>9. ShowsNewest'
  BY DEF ApiParts, ApiTypes, ShowsNewest, ApiSpared
<1> QED BY <1>1, <1>2, <1>3, <1>4, <1>5, <1>6, <1>7, <1>8, <1>9 DEF ApiParts

\* The request is over.
LEMMA AllOpenedApi ==
    ASSUME ApiParts, NEW c \in Sockets, AllOpened(c) PROVE ApiParts'
<1> USE DEF AllOpened, marketVars, feedVars, positionVars
<1>1. ApiTypes'
  BY ApiAssumption DEF ApiParts, ApiTypes, ApiSpared
<1>2. LockHeldOnce'
  BY DEF ApiParts, ApiTypes, LockHeldOnce
<1>3. ListsAreServed'
  BY DEF ApiParts, ApiTypes, ListsAreServed, Served
<1>4. WatchedIsOnItsWay'
  BY DEF ApiParts, ApiTypes, WatchedIsOnItsWay, ApiSpared
<1>5. ServedHaveFeed'
  BY DEF ApiParts, ApiTypes, ServedHaveFeed, Served, ApiSpared
<1>6. RoomForAll'
  BY DEF ApiParts, ApiTypes, RoomForAll, ApiSpared
<1>7. UnwatchedIsLeaving'
  BY DEF ApiParts, ApiTypes, UnwatchedIsLeaving, Watchers, ApiSpared
<1>8. BucketAtHand'
  BY DEF ApiParts, ApiTypes, BucketAtHand, ApiSpared
<1>9. ShowsNewest'
  BY DEF ApiParts, ApiTypes, ShowsNewest, ApiSpared
<1> QED BY <1>1, <1>2, <1>3, <1>4, <1>5, <1>6, <1>7, <1>8, <1>9 DEF ApiParts

\* The request is put on the list before it is opened.
LEMMA SubscribeApi ==
    ASSUME ApiParts, NEW c \in Sockets, NEW r \in Requests, Subscribe(c, r) PROVE ApiParts'
<1> USE DEF Subscribe, marketVars, feedVars, positionVars
<1>0. PICK subs \in AddChannels(c, r) : watched' = [watched EXCEPT ![c] = subs]
  OBVIOUS
<1>a. /\ watched[c] \subseteq subs /\ subs \subseteq watched[c] \union r
      /\ subs \in SUBSET Channels /\ Cardinality(subs) <= MaxChannels
      /\ Cardinality(watched[c]) + Cardinality(r) <= MaxChannels => r \subseteq subs
      /\ r \in SUBSET Channels
  BY <1>0, ChannelsAdded DEF ApiParts, Requests
<1>1. ApiTypes'
  BY ApiAssumption, <1>0, <1>a DEF ApiParts, ApiTypes, ApiSpared
<1>2. LockHeldOnce'
  BY DEF ApiParts, ApiTypes, LockHeldOnce
<1>3. ListsAreServed'
  BY DEF ApiParts, ApiTypes, ListsAreServed, Served
<1>4. WatchedIsOnItsWay'
  BY ApiAssumption, <1>0, <1>a DEF ApiParts, ApiTypes, WatchedIsOnItsWay, ListsAreServed, ApiSpared
<1>5. ServedHaveFeed'
  BY DEF ApiParts, ApiTypes, ServedHaveFeed, Served, ApiSpared
<1>6. RoomForAll'
  BY ApiAssumption, <1>0, <1>a DEF ApiParts, ApiTypes, RoomForAll, ListsAreServed, ApiSpared
<1>7. UnwatchedIsLeaving'
  BY ApiAssumption, <1>0, <1>a DEF ApiParts, ApiTypes, UnwatchedIsLeaving, Watchers, ApiSpared
<1>8. BucketAtHand'
  BY DEF ApiParts, ApiTypes, BucketAtHand, ApiSpared
<1>9. ShowsNewest'
  BY DEF ApiParts, ApiTypes, ShowsNewest, ApiSpared
<1> QED BY <1>1, <1>2, <1>3, <1>4, <1>5, <1>6, <1>7, <1>8, <1>9 DEF ApiParts

\* What leaves the list becomes a candidate for release.
LEMMA UnsubscribeApi ==
    ASSUME ApiParts, NEW c \in Sockets, NEW r \in Requests, Unsubscribe(c, r) PROVE ApiParts'
<1> USE DEF Unsubscribe, marketVars, feedVars, positionVars
<1>1. ApiTypes'
  BY ApiAssumption, ChannelsRemoved DEF ApiParts, ApiTypes, ScheduleRelease, ApiSpared
<1>2. LockHeldOnce'
  BY DEF ApiParts, ApiTypes, LockHeldOnce
<1>3. ListsAreServed'
  BY DEF ApiParts, ApiTypes, ListsAreServed, Served
<1>4. WatchedIsOnItsWay'
  BY DEF ApiParts, ApiTypes, WatchedIsOnItsWay, ApiSpared
<1>5. ServedHaveFeed'
  BY DEF ApiParts, ApiTypes, ServedHaveFeed, Served, ApiSpared
<1>6. RoomForAll'
  BY DEF ApiParts, ApiTypes, RoomForAll, ListsAreServed, ApiSpared
<1>7. UnwatchedIsLeaving'
  BY DEF ApiParts, ApiTypes, UnwatchedIsLeaving, ScheduleRelease, Watchers, ApiSpared
<1>8. BucketAtHand'
  BY DEF ApiParts, ApiTypes, BucketAtHand, ApiSpared
<1>9. ShowsNewest'
  BY DEF ApiParts, ApiTypes, ShowsNewest, ApiSpared
<1> QED BY <1>1, <1>2, <1>3, <1>4, <1>5, <1>6, <1>7, <1>8, <1>9 DEF ApiParts

\* So does all that a leaving socket watched.
LEMMA LeaveApi ==
    ASSUME ApiParts, NEW c \in Sockets, Leave(c) PROVE ApiParts'
<1> USE DEF Leave, marketVars, feedVars, positionVars
<1>1. ApiTypes'
  BY ApiAssumption, ChannelsRemoved DEF ApiParts, ApiTypes, ScheduleRelease, Unknown, ApiSpared
<1>2. LockHeldOnce'
  BY DEF ApiParts, ApiTypes, LockHeldOnce
<1>3. ListsAreServed'
  BY DEF ApiParts, ApiTypes, ListsAreServed, Served
<1>4. WatchedIsOnItsWay'
  BY DEF ApiParts, ApiTypes, WatchedIsOnItsWay, ApiSpared
<1>5. ServedHaveFeed'
  BY DEF ApiParts, ApiTypes, ServedHaveFeed, Served, ApiSpared
<1>6. RoomForAll'
  BY DEF ApiParts, ApiTypes, RoomForAll, ListsAreServed, ApiSpared
<1>7. UnwatchedIsLeaving'
  BY DEF ApiParts, ApiTypes, UnwatchedIsLeaving, ScheduleRelease, Watchers, ApiSpared
<1>8. BucketAtHand'
  BY DEF ApiParts, ApiTypes, BucketAtHand, ApiSpared
<1>9. ShowsNewest'
  BY DEF ApiParts, ApiTypes, ShowsNewest, ApiSpared
<1> QED BY <1>1, <1>2, <1>3, <1>4, <1>5, <1>6, <1>7, <1>8, <1>9 DEF ApiParts

\* The release asks again who watches.
LEMMA ReleaseUpstreamApi ==
    ASSUME ApiParts, ReleaseUpstream PROVE ApiParts'
<1> USE DEF ReleaseUpstream, marketVars, feedVars, positionVars
<1>1. ApiTypes'
  BY ApiAssumption DEF ApiParts, ApiTypes, ApiSpared
<1>2. LockHeldOnce'
  BY DEF ApiParts, ApiTypes, LockHeldOnce
<1>3. ListsAreServed'
  BY DEF ApiParts, ApiTypes, ListsAreServed, Served
<1>4. WatchedIsOnItsWay'
  BY DEF ApiParts, ApiTypes, WatchedIsOnItsWay, Watchers, ApiSpared
<1>5. ServedHaveFeed'
  BY DEF ApiParts, ApiTypes, ServedHaveFeed, Served, ApiSpared
<1>6. RoomForAll'
  BY DEF ApiParts, ApiTypes, RoomForAll, Watchers, ApiSpared
<1>7. UnwatchedIsLeaving'
  BY DEF ApiParts, ApiTypes, UnwatchedIsLeaving, Watchers, ApiSpared
<1>8. BucketAtHand'
  BY DEF ApiParts, ApiTypes, BucketAtHand, ApiSpared
<1>9. ShowsNewest'
  BY DEF ApiParts, ApiTypes, ShowsNewest, ApiSpared
<1> QED BY <1>1, <1>2, <1>3, <1>4, <1>5, <1>6, <1>7, <1>8, <1>9 DEF ApiParts

\* The linger before a stop.
LEMMA StopperWakesApi ==
    ASSUME ApiParts, StopperWakes PROVE ApiParts'
<1> USE DEF StopperWakes, marketVars, feedVars, positionVars
<1>1. ApiTypes'
  BY ApiAssumption DEF ApiParts, ApiTypes, ApiSpared
<1>2. LockHeldOnce'
  BY DEF ApiParts, ApiTypes, LockHeldOnce
<1>3. ListsAreServed'
  BY DEF ApiParts, ApiTypes, ListsAreServed, Served
<1>4. WatchedIsOnItsWay'
  BY DEF ApiParts, ApiTypes, WatchedIsOnItsWay, ApiSpared
<1>5. ServedHaveFeed'
  BY DEF ApiParts, ApiTypes, ServedHaveFeed, Served, ApiSpared
<1>6. RoomForAll'
  BY DEF ApiParts, ApiTypes, RoomForAll, ApiSpared
<1>7. UnwatchedIsLeaving'
  BY DEF ApiParts, ApiTypes, UnwatchedIsLeaving, Watchers, ApiSpared
<1>8. BucketAtHand'
  BY DEF ApiParts, ApiTypes, BucketAtHand, ApiSpared
<1>9. ShowsNewest'
  BY DEF ApiParts, ApiTypes, ShowsNewest, ApiSpared
<1> QED BY <1>1, <1>2, <1>3, <1>4, <1>5, <1>6, <1>7, <1>8, <1>9 DEF ApiParts

\* Nobody is connected when the stop begins.
LEMMA StopFeedApi ==
    ASSUME ApiParts, StopFeed PROVE ApiParts'
<1> USE DEF StopFeed, marketVars, feedVars, positionVars
<1>1. ApiTypes'
  BY ApiAssumption DEF ApiParts, ApiTypes, ApiSpared
<1>2. LockHeldOnce'
  BY DEF ApiParts, ApiTypes, LockHeldOnce, FeedLocked
<1>3. ListsAreServed'
  BY DEF ApiParts, ApiTypes, ListsAreServed, Served
<1>4. WatchedIsOnItsWay'
  BY DEF ApiParts, ApiTypes, WatchedIsOnItsWay, ApiSpared
<1>5. ServedHaveFeed'
  BY DEF ApiParts, ApiTypes, ServedHaveFeed, Served, ApiSpared
<1>6. RoomForAll'
  BY DEF ApiParts, ApiTypes, RoomForAll, ApiSpared
<1>7. UnwatchedIsLeaving'
  BY DEF ApiParts, ApiTypes, UnwatchedIsLeaving, Watchers, ApiSpared
<1>8. BucketAtHand'
  BY DEF ApiParts, ApiTypes, BucketAtHand, ApiSpared
<1>9. ShowsNewest'
  BY DEF ApiParts, ApiTypes, ShowsNewest, ApiSpared
<1> QED BY <1>1, <1>2, <1>3, <1>4, <1>5, <1>6, <1>7, <1>8, <1>9 DEF ApiParts

\* Nor when it ends: the lock is held.
LEMMA FeedStopsApi ==
    ASSUME ApiParts, FeedStops PROVE ApiParts'
<1> USE DEF FeedStops, marketVars, feedVars, positionVars
<1>1. ApiTypes'
  BY ApiAssumption DEF ApiParts, ApiTypes, ApiSpared
<1>2. LockHeldOnce'
  BY DEF ApiParts, ApiTypes, LockHeldOnce
<1>3. ListsAreServed'
  BY DEF ApiParts, ApiTypes, ListsAreServed, Served
<1>4. WatchedIsOnItsWay'
  BY DEF ApiParts, ApiTypes, WatchedIsOnItsWay, ApiSpared
<1>5. ServedHaveFeed'
  BY DEF ApiParts, ApiTypes, ServedHaveFeed, Served, ApiSpared
<1>6. RoomForAll'
  BY DEF ApiParts, ApiTypes, RoomForAll, ApiSpared
<1>7. UnwatchedIsLeaving'
  BY DEF ApiParts, ApiTypes, UnwatchedIsLeaving, Watchers, ApiSpared
<1>8. BucketAtHand'
  BY DEF ApiParts, ApiTypes, BucketAtHand, ApiSpared
<1>9. ShowsNewest'
  BY DEF ApiParts, ApiTypes, ShowsNewest, ApiSpared
<1> QED BY <1>1, <1>2, <1>3, <1>4, <1>5, <1>6, <1>7, <1>8, <1>9 DEF ApiParts

\* The daemon's messages.
LEMMA PublishApi ==
    ASSUME ApiParts, Publish PROVE ApiParts'
<1> USE DEF Publish, marketVars, feedVars, positionVars
<1>1. ApiTypes'
  BY ApiAssumption DEF ApiParts, ApiTypes, ApiSpared
<1>2. LockHeldOnce'
  BY DEF ApiParts, ApiTypes, LockHeldOnce
<1>3. ListsAreServed'
  BY DEF ApiParts, ApiTypes, ListsAreServed, Served
<1>4. WatchedIsOnItsWay'
  BY DEF ApiParts, ApiTypes, WatchedIsOnItsWay, ApiSpared
<1>5. ServedHaveFeed'
  BY DEF ApiParts, ApiTypes, ServedHaveFeed, Served, ApiSpared
<1>6. RoomForAll'
  BY DEF ApiParts, ApiTypes, RoomForAll, ApiSpared
<1>7. UnwatchedIsLeaving'
  BY DEF ApiParts, ApiTypes, UnwatchedIsLeaving, Watchers, ApiSpared
<1>8. BucketAtHand'
  BY DEF ApiParts, ApiTypes, BucketAtHand, ApiSpared
<1>9. ShowsNewest'
  BY DEF ApiParts, ApiTypes, ShowsNewest, ApiSpared
<1> QED BY <1>1, <1>2, <1>3, <1>4, <1>5, <1>6, <1>7, <1>8, <1>9 DEF ApiParts

\* A dead socket is taken off the list, the others show what is cached.
LEMMA BroadcastApi ==
    ASSUME ApiParts, Broadcast PROVE ApiParts'
<1> USE DEF Broadcast, marketVars, feedVars, positionVars
<1>1. ApiTypes'
  BY ApiAssumption DEF ApiParts, ApiTypes, Unknown, ApiSpared
<1>2. LockHeldOnce'
  BY DEF ApiParts, ApiTypes, LockHeldOnce
<1>3. ListsAreServed'
  BY DEF ApiParts, ApiTypes, ListsAreServed, Served
<1>4. WatchedIsOnItsWay'
  BY DEF ApiParts, ApiTypes, WatchedIsOnItsWay, ApiSpared
<1>5. ServedHaveFeed'
  BY DEF ApiParts, ApiTypes, ServedHaveFeed, Served, ApiSpared
<1>6. RoomForAll'
  BY DEF ApiParts, ApiTypes, RoomForAll, ApiSpared
<1>7. UnwatchedIsLeaving'
  BY DEF ApiParts, ApiTypes, UnwatchedIsLeaving, Watchers, ApiSpared
<1>8. BucketAtHand'
  BY ApiAssumption DEF ApiParts, ApiTypes, BucketAtHand, Unknown, ApiSpared
<1>9. ShowsNewest'
  BY DEF ApiParts, ApiTypes, ShowsNewest, ApiSpared
<1> QED BY <1>1, <1>2, <1>3, <1>4, <1>5, <1>6, <1>7, <1>8, <1>9 DEF ApiParts

LEMMA ApiInitially == ApiInit => ApiParts
<1> SUFFICES ASSUME ApiInit PROVE ApiParts
  OBVIOUS
<1> USE DEF ApiInit, Unknown
<1>1. ApiTypes
  <2>1. Cardinality({}) <= MaxChannels
    BY ApiAssumption, FS_EmptySet
  <2>2. 0 \in 0..MaxVersion /\ 0 \in -1..MaxVersion /\ -1 \in -1..MaxVersion
        /\ 0 \in 0..MaxConnects /\ 0 \in 0..MaxOps
    BY ApiAssumption
  <2>3. \A c \in Sockets : watched[c] = {}
    OBVIOUS
  <2> QED BY <2>1, <2>2, <2>3 DEF ApiTypes
<1>2. LockHeldOnce /\ ListsAreServed /\ WatchedIsOnItsWay /\ ServedHaveFeed /\ RoomForAll
  BY DEF LockHeldOnce, ListsAreServed, WatchedIsOnItsWay, ServedHaveFeed, RoomForAll
<1>3. UnwatchedIsLeaving /\ BucketAtHand /\ ShowsNewest
  BY DEF UnwatchedIsLeaving, BucketAtHand, ShowsNewest, ApiSpared
<1> QED BY <1>1, <1>2, <1>3 DEF ApiParts

LEMMA ApiStep == ApiParts /\ [ApiNext]_avars => ApiParts'
<1> SUFFICES ASSUME ApiParts, [ApiNext]_avars PROVE ApiParts'
  OBVIOUS
<1>1. ASSUME NEW c \in Sockets, HandlerStep(c) PROVE ApiParts'
  <2>1. CASE Register(c) \/ ReadPositions(c) \/ Greet(c)
    BY <2>1, RegisterApi, ReadPositionsApi, GreetApi
  <2>2. CASE AcquireMarketFeed(c) \/ FeedStarts(c)
    BY <2>2, AcquireMarketFeedApi, FeedStartsApi
  <2>3. CASE Opened(c) \/ AllOpened(c) \/ Leave(c)
    BY <2>3, OpenedApi, AllOpenedApi, LeaveApi
  <2>4. CASE \E x \in Channels : EnsureUpstream(c, x)
    BY <2>4, EnsureUpstreamApi
  <2>5. CASE \E r \in Requests : Subscribe(c, r) \/ Unsubscribe(c, r)
    BY <2>5, SubscribeApi, UnsubscribeApi
  <2> QED BY <1>1, <2>1, <2>2, <2>3, <2>4, <2>5 DEF HandlerStep
<1>2. CASE ReleaseUpstream \/ StopperWakes \/ StopFeed \/ FeedStops
  BY <1>2, ReleaseUpstreamApi, StopperWakesApi, StopFeedApi, FeedStopsApi
<1>3. CASE Publish \/ Broadcast
  BY <1>3, PublishApi, BroadcastApi
<1>4. CASE UNCHANGED avars
  <2> USE <1>4 DEF avars
  <2>1. ApiTypes'
    BY DEF ApiParts, ApiTypes, ApiSpared
  <2>2. LockHeldOnce' /\ ListsAreServed' /\ WatchedIsOnItsWay' /\ ServedHaveFeed' /\ RoomForAll'
    BY DEF ApiParts, LockHeldOnce, ListsAreServed, WatchedIsOnItsWay, ServedHaveFeed, RoomForAll, ApiSpared
  <2>3. UnwatchedIsLeaving' /\ BucketAtHand' /\ ShowsNewest'
    BY DEF ApiParts, UnwatchedIsLeaving, Watchers, BucketAtHand, ShowsNewest, ApiSpared
  <2> QED BY <2>1, <2>2, <2>3 DEF ApiParts
<1> QED BY <1>1, <1>2, <1>3, <1>4 DEF ApiNext

\* One holder of the lock at most, as a count.
LEMMA LockCounted ==
    ASSUME ApiTypes, LockHeldOnce
    PROVE  Cardinality({c \in Sockets : socket[c] = "starting"})
             + (IF stopper = "sending" THEN 1 ELSE 0) <= 1
<1> DEFINE S == {c \in Sockets : socket[c] = "starting"}
<1>1. CASE S = {}
  BY <1>1, FS_EmptySet
<1>2. CASE S # {}
  <2>1. PICK c \in S : TRUE
    BY <1>2
  <2>2. S = {c} /\ stopper # "sending"
    BY <2>1 DEF LockHeldOnce
  <2>3. Cardinality(S) = 1
    BY <2>2, FS_Singleton
  <2> QED BY <2>2, <2>3
<1> QED BY <1>1, <1>2

LEMMA PartsServe == ApiParts => ApiTypeOK /\ SocketIsServed
<1> SUFFICES ASSUME ApiParts PROVE ApiTypeOK /\ SocketIsServed
  OBVIOUS
<1>1. ApiTypeOK
  BY LockCounted DEF ApiParts, ApiTypes, ApiTypeOK
<1>2. WatchedIsStreamed
  BY DEF ApiParts, ApiTypes, WatchedIsStreamed, WatchedIsOnItsWay, ListsAreServed, Ready
<1>3. ViewerHasFeed
  BY DEF ApiParts, ViewerHasFeed, ServedHaveFeed, Served, Ready
<1> QED BY <1>1, <1>2, <1>3 DEF ApiParts, SocketIsServed

LEMMA ApiIsInductive == ApiSpec => []ApiParts
BY ApiInitially, ApiStep, PTL DEF ApiSpec

\* A connected browser is served (server.py): what it watches is streamed, the base
\* feed runs while it looks on, what nobody watches is leaving, and it shows the
\* newest positions, for any number of sockets, channels, requests and connections.
THEOREM SocketsAreServed == ApiSpec => []SocketIsServed
BY ApiIsInductive, PartsServe, PTL

\* The types of the server's books, with one holder of the feed's lock and no list
\* above its cap.
THEOREM ApiTyped == ApiSpec => []ApiTypeOK
BY ApiIsInductive, PartsServe, PTL


----------------------------------------------------------------------------
(* The engine switch.                                                        *)

SwitchFacts ==
    /\ PollEvery \in Nat /\ PollEvery > 0
    /\ Memory \in Nat /\ Memory > 0
    /\ Tombstone \in Nat /\ Tombstone > 0
    /\ Durations \subseteq Nat
    /\ \A d \in Durations : d > 0

\* The numbers of the switch are positive.
LEMMA SwitchNumbers == SwitchFacts
  BY SwitchAssumption DEF SwitchFacts

\* Type correctness, whatever goes wrong.
THEOREM SwitchTypeInvariant == Spec => []TypeOK
<1>1. Init => TypeOK
  BY SwitchNumbers DEF SwitchFacts, Init, TypeOK, Forgotten, Oldest, OwnerPC, GuardPC, Absent, Off
<1>2. TypeOK /\ [Next]_vars => TypeOK'
  <2> SUFFICES ASSUME TypeOK, [Next]_vars PROVE TypeOK'
    OBVIOUS
  <2> USE SwitchNumbers DEF SwitchFacts, TypeOK, OwnerPC, GuardPC, Absent, Forever, Oldest
  <2>1. CASE Owner
    BY <2>1 DEF Owner, TurnOn, TurnOnClears, TurnOff, TurnOffMarks, Off, Timed, Always
  <2>2. CASE Guard
    <3>1. sincePass \in 0..Oldest
      OBVIOUS
    <3>2. CASE GuardRead
      BY <3>2 DEF GuardRead
    <3>3. CASE GuardTtl
      <4> HIDE DEF Oldest
      <4>1. (key \in {Absent, Forever}) \in BOOLEAN
        OBVIOUS
      <4>2. [always |-> key \in {Absent, Forever}, age |-> sincePass]
                \in [always : BOOLEAN, age : 0..Oldest]
        BY <3>1, <4>1, Zenon
      <4> QED
        BY <4>2, <3>3 DEF GuardTtl
    <3>4. CASE GuardCheck
      BY <3>4 DEF GuardCheck
    <3>5. CASE GuardSet
      BY <3>5 DEF GuardSet
    <3>6. CASE GuardClear
      <4> HIDE DEF Oldest
      <4> QED
        BY <3>1, <3>6 DEF GuardClear
    <3> QED
      BY <2>2, <3>2, <3>3, <3>4, <3>5, <3>6 DEF Guard
  <2>3. CASE Tick
    <3>1. sincePass' \in 0..PollEvery /\ key' \in Nat \cup {Forever} /\ tomb' \in 0..Tombstone
      BY <2>3 DEF Tick, CountDown
    <3>2. memory' \in [always : BOOLEAN, age : 0..Oldest]
      BY <2>3 DEF Tick
    <3> QED
      BY <2>3, <3>1, <3>2 DEF Tick
  <2>4. CASE EvictKey \/ EvictTombstone \/ RedisRestart \/ DaemonRestart
    <3>1. 0..PollEvery \subseteq Nat /\ 0 \in 0..PollEvery /\ 0 \in 0..Tombstone /\ Oldest \in 0..Oldest
      OBVIOUS
    <3>2. CASE EvictKey \/ EvictTombstone \/ RedisRestart
      BY <2>4, <3>1, <3>2 DEF EvictKey, EvictTombstone, RedisRestart
    <3>3. CASE DaemonRestart
      BY <3>1, <3>3, Zenon DEF DaemonRestart, Forgotten
    <3> QED
      BY <2>4, <3>2, <3>3
  <2>5. CASE UNCHANGED vars
    BY <2>5 DEF vars
  <2> QED
    BY <2>1, <2>2, <2>3, <2>4, <2>5 DEF Next
<1> QED
  BY <1>1, <1>2, PTL DEF Spec

-----------------------------------------------------------------------------
(* What the owner turned off stays off.                                    *)

\* Calls take turns, and each of them knows what it found.
CallsTakeTurns ==
  Calm =>
    /\ guard = "idle" \/ owner = "idle"
    /\ owner = "on" => intent # Off
    /\ owner = "off" => key = Absent
    /\ guard # "idle" => sincePass = 0
    /\ guard \in {"ttl", "set", "clear"} => intent # Off
    /\ guard = "absent" => Remembered(memory.age)

OffInv == TypeOK /\ OwnerOffStays /\ TombstoneOutlivesMemory /\ CallsTakeTurns

LEMMA OffInit == Init => OffInv
  BY SwitchNumbers DEF SwitchFacts, Init, OffInv, TypeOK, OwnerOffStays,
        TombstoneOutlivesMemory, CallsTakeTurns, Calm, Remembered, Forgotten, Oldest, OwnerPC,
        GuardPC, Absent, Off

LEMMA OffStep ==
  ASSUME Memory <= Tombstone, TypeOK', OffInv, [Next]_vars
  PROVE  OffInv'
<1> USE SwitchNumbers DEF SwitchFacts, OffInv, OwnerOffStays, TombstoneOutlivesMemory,
        CallsTakeTurns, Remembered, OwnerPC, GuardPC, Absent, Forever, Off, Timed,
        Always, Calm, Overlap, Oldest, TypeOK
<1>1. CASE Owner
  <2>1. CASE \E wanted \in Durations \cup {Forever} : TurnOn(wanted)
    BY <2>1 DEF TurnOn
  <2>2. CASE TurnOnClears
    BY <2>2 DEF TurnOnClears
  <2>3. CASE TurnOff
    BY <2>3 DEF TurnOff
  <2>4. CASE TurnOffMarks
    BY <2>4 DEF TurnOffMarks
  <2> QED
    BY <1>1, <2>1, <2>2, <2>3, <2>4 DEF Owner
<1>2. CASE Guard
  <2>1. CASE GuardRead
    BY <2>1 DEF GuardRead
  <2>2. CASE GuardTtl
    BY <2>2 DEF GuardTtl
  <2>3. CASE GuardCheck
    BY <2>3 DEF GuardCheck
  <2>4. CASE GuardSet
    BY <2>4 DEF GuardSet
  <2>5. CASE GuardClear
    BY <2>5 DEF GuardClear
  <2> QED
    BY <1>2, <2>1, <2>2, <2>3, <2>4, <2>5 DEF Guard
<1>3. CASE Tick
  BY <1>3 DEF Tick, CountDown
<1>4. CASE EvictKey
  BY <1>4 DEF EvictKey
<1>5. CASE EvictTombstone \/ RedisRestart
  BY <1>5 DEF EvictTombstone, RedisRestart
<1>6. CASE DaemonRestart
  BY <1>6 DEF DaemonRestart, Forgotten, Oldest
<1>7. CASE UNCHANGED vars
  BY <1>7 DEF vars
<1> QED
  BY <1>1, <1>2, <1>3, <1>4, <1>5, <1>6, <1>7 DEF Next

\* If the tombstone lives at least as long as the guard's memory: in a behaviour in
\* which the owner's calls and the guard's passes do not overlap and the tombstone is
\* not lost, an engine the owner turned off stays off: the ten minutes of turn_off cover the guard's five.
THEOREM OffStaysOff ==
  ASSUME Memory <= Tombstone
  PROVE  Spec => [](OwnerOffStays /\ TombstoneOutlivesMemory)
<1>1. OffInv /\ [Next]_vars /\ TypeOK' => OffInv'
  BY OffStep
<1>2. OffInv => OwnerOffStays /\ TombstoneOutlivesMemory
  BY DEF OffInv
<1> QED
  BY <1>1, <1>2, OffInit, SwitchTypeInvariant, PTL DEF Spec
==============================================================================
