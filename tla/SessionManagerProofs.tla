------------------------ MODULE SessionManagerProofs ------------------------
(***************************************************************************)
(* Proofs about SessionManager, for every value of its constants and, but  *)
(* for the types, for calls that do not overlap.                           *)
(***************************************************************************)
EXTENDS SessionManager, SumTheorems

-----------------------------------------------------------------------------
(* Lemmas on the row operators. *)

\* The running segment of a row is a number of seconds, never negative.
LEMMA SegmentType ==
    ASSUME NEW r \in Row, NEW at \in Nat
    PROVE  /\ Segment(r, at) \in Nat
           /\ r.clock = None => Segment(r, at) = 0
           /\ r.clock # None /\ r.clock <= at => Segment(r, at) = at - r.clock
  BY DEF Row, Time, Segment, AtLeastZero, None

\* Pausing settles the running segment and touches nothing else.
LEMMA PauseClockType ==
    ASSUME NEW r \in Row, NEW at \in Nat
    PROVE  /\ PauseClock(r, at) \in Row
           /\ PauseClock(r, at).accrued = r.accrued + Segment(r, at)
           /\ PauseClock(r, at).clock = None
           /\ PauseClock(r, at).status = r.status
           /\ PauseClock(r, at).refunded = r.refunded
           /\ PauseClock(r, at).cost = r.cost
           /\ PauseClock(r, at).why = r.why
  <1>1. Segment(r, at) \in Nat
    BY SegmentType
  <1>2. r.accrued + Segment(r, at) \in Nat /\ None \in Time
    BY <1>1 DEF Row, Time
  <1>3. QED
    BY <1>2 DEF PauseClock, Row

\* A transition leaves the clock running exactly in a metered state.
LEMMA TransitionedType ==
    ASSUME NEW r \in Row, NEW to \in Status, NEW at \in Nat, NEW why \in EndReason
    PROVE  LET e == Transitioned(r, to, at, why)
           IN  /\ e \in Row
               /\ e.status = to
               /\ e.accrued = r.accrued + Segment(r, at)
               /\ e.clock = IF to = Scanning THEN at ELSE None
               /\ e.refunded = r.refunded
               /\ e.cost = r.cost
  <1> DEFINE p == PauseClock(r, at)
             m == [p EXCEPT !.status = to, !.why = IF to = Ended THEN why ELSE @]
  <1>1. /\ p \in Row
        /\ p.clock = None
        /\ p.accrued = r.accrued + Segment(r, at)
        /\ p.refunded = r.refunded
        /\ p.cost = r.cost
    BY PauseClockType
  <1> HIDE DEF p
  <1>2. /\ m \in Row
        /\ m.status = to
        /\ m.clock = None
        /\ m.accrued = r.accrued + Segment(r, at)
        /\ m.refunded = r.refunded
        /\ m.cost = r.cost
    BY <1>1 DEF Row
  <1>3. Transitioned(r, to, at, why) = IF to = Scanning THEN [m EXCEPT !.clock = at] ELSE m
    BY <1>2 DEF Transitioned, ResumeClock, MeteredStates, p
  <1> HIDE DEF m
  <1>4. [m EXCEPT !.clock = at] \in Row
    BY <1>2 DEF Row, Time
  <1>5. QED
    BY <1>2, <1>3, <1>4 DEF Row

\* A refund moves seconds from accrued to refunded and stops the clock.
LEMMA RefundedType ==
    ASSUME NEW r \in Row, NEW at \in Nat
    PROVE  LET e == Refunded(r, at)
           IN  /\ e \in Row
               /\ e.status = r.status
               /\ e.accrued + e.refunded = r.accrued + Segment(r, at) + r.refunded
               /\ e.clock = None
               /\ e.refunded >= r.refunded
  <1> DEFINE p == PauseClock(r, at)
             mark == IF r.lastCycle # None THEN r.lastCycle ELSE r.started
             refund == AtLeastZero(AtMost(at - mark, p.accrued))
  <1>1. /\ p \in Row
        /\ p.clock = None
        /\ p.status = r.status
        /\ p.accrued = r.accrued + Segment(r, at)
        /\ p.refunded = r.refunded
    BY PauseClockType
  <1>2. mark \in Nat /\ p.accrued \in Nat
    BY <1>1 DEF Row, Time
  <1>3. refund \in 0..p.accrued
    <2> HIDE DEF mark, p
    <2>1. QED BY <1>2 DEF AtLeastZero, AtMost
  <1>4. Refunded(r, at) = [p EXCEPT !.accrued = @ - refund, !.refunded = @ + refund]
    BY DEF Refunded
  <1> HIDE DEF p, refund
  <1>5. /\ p.accrued - refund \in Nat
        /\ p.refunded + refund \in Nat
    BY <1>1, <1>3 DEF Row
  <1> DEFINE e == [p EXCEPT !.accrued = @ - refund, !.refunded = @ + refund]
  <1>6. /\ e \in Row
        /\ e.status = p.status
        /\ e.clock = p.clock
        /\ e.accrued = p.accrued - refund
        /\ e.refunded = p.refunded + refund
    BY <1>1, <1>5 DEF Row
  <1> HIDE DEF e
  <1>7. /\ r.accrued \in Nat /\ r.refunded \in Nat
        /\ Segment(r, at) \in Nat
        /\ refund \in Nat
    BY <1>1, <1>3, SegmentType DEF Row
  <1>8. Refunded(r, at) = e
    BY <1>4 DEF e
  <1>9. QED
    BY <1>1, <1>6, <1>7, <1>8

\* A commit writes a row; over an unmoved row it writes what the method edited.
LEMMA FlushType ==
    ASSUME NEW loaded \in Row, NEW edited \in Row, NEW stored \in Row
    PROVE  LET f == Flush(loaded, edited, stored)
           IN  /\ f \in Row
               /\ f.user = stored.user
               /\ f.granted = stored.granted
               /\ f.day = stored.day
               /\ f.started = stored.started
               /\ loaded = stored =>
                    /\ f.status = edited.status
                    /\ f.accrued = edited.accrued
                    /\ f.clock = edited.clock
                    /\ f.refunded = edited.refunded
  <1> DEFINE status == Column(loaded.status, edited.status, stored.status)
             accrued == Column(loaded.accrued, edited.accrued, stored.accrued)
             clock == Column(loaded.clock, edited.clock, stored.clock)
             cost == Column(loaded.cost, edited.cost, stored.cost)
             refunded == Column(loaded.refunded, edited.refunded, stored.refunded)
             why == Column(loaded.why, edited.why, stored.why)
  <1>1. /\ status \in Status \cup {Absent}
        /\ accrued \in Nat
        /\ clock \in Time
        /\ cost \in Nat
        /\ refunded \in Nat
        /\ why \in EndReason \cup {NoReason}
    BY DEF Column, Row
  <1>2. loaded = stored => /\ status = edited.status
                           /\ accrued = edited.accrued
                           /\ clock = edited.clock
                           /\ refunded = edited.refunded
    BY DEF Column
  <1> HIDE DEF status, accrued, clock, cost, refunded, why
  <1> DEFINE f == [stored EXCEPT !.status = status, !.accrued = accrued, !.clock = clock,
                                 !.cost = cost, !.refunded = refunded, !.why = why]
  <1>3. f \in Row
    BY <1>1 DEF Row
  <1>4. /\ f.status = status /\ f.accrued = accrued
        /\ f.clock = clock /\ f.refunded = refunded
        /\ f.user = stored.user /\ f.granted = stored.granted
        /\ f.started = stored.started /\ f.day = stored.day
    BY DEF Row
  <1>5. Flush(loaded, edited, stored) = f
    BY DEF Flush, status, accrued, clock, cost, refunded, why
  <1> HIDE DEF f
  <1>6. QED
    BY <1>2, <1>3, <1>4, <1>5

\* Leaving a method, and inserting a session, keep the types.
LEMMA IdleType == NoRow \in Row /\ Idle \in Call
  <1>1. \E u \in Users : TRUE
    BY ConstantsAssumption
  <1>2. \E s \in Sessions : TRUE
    BY ConstantsAssumption
  <1>3. NoRow \in Row
    BY <1>1 DEF NoRow, Row, Time, None
  <1> HIDE DEF NoRow
  <1>4. QED
    BY <1>2, <1>1, <1>3 DEF Idle, Call, PC, Status, EndReason

\* A caller that enters a method changes call[t] only, and to a Call.
LEMMA EnterType ==
    ASSUME TypeOK, NEW t \in Threads, NEW c \in Call, Enter(t, c)
    PROVE  call' \in [Threads -> Call]
  BY DEF TypeOK, Enter

LEMMA ReturnType ==
    ASSUME TypeOK, NEW t \in Threads, Return(t)
    PROVE  call' \in [Threads -> Call]
  BY EnterType, IdleType DEF Return

\* Loading a row for a transition.
LEMMA LoadType ==
    ASSUME TypeOK, NEW t \in Threads, NEW s \in Sessions, NEW to \in Status,
           NEW why \in EndReason, Load(t, s, to, why)
    PROVE  TypeOK'
  <1> DEFINE c == [Idle EXCEPT !.pc = "settle", !.sid = s, !.to = to, !.why = why,
                               !.at = now, !.loaded = row[s]]
  <1>1. row[s] \in Row /\ now \in Nat /\ "settle" \in PC
    BY DEF TypeOK, PC
  <1>2. c \in Call
    BY <1>1, IdleType DEF Call
  <1>3. Enter(t, c) /\ UNCHANGED <<now, row, proven, crashes, backsteps, straddled>>
    BY DEF Load
  <1> HIDE DEF c
  <1>4. call' \in [Threads -> Call]
    BY <1>2, <1>3, EnterType
  <1>5. QED
    BY <1>3, <1>4 DEF TypeOK

\* Reading the meters leaves every variable but call alone.
LEMMA TickReadType ==
    ASSUME TypeOK, NEW t \in Threads, NEW s \in Sessions, TickRead(t, s)
    PROVE  call' \in [Threads -> Call]
  <1> DEFINE c(w) == [Idle EXCEPT !.pc = "ending", !.sid = s, !.why = w]
  <1>1. \A w \in EndReason : c(w) \in Call
    BY IdleType DEF Call, PC
  <1>2. \/ Return(t)
        \/ Enter(t, c(CostCapped))
        \/ Enter(t, c(QuotaExhausted))
    BY DEF TickRead
  <1>3. CostCapped \in EndReason /\ QuotaExhausted \in EndReason
    BY DEF EndReason
  <1> HIDE DEF c
  <1>4. QED
    BY <1>1, <1>2, <1>3, EnterType, ReturnType

\* A commit keeps the table well typed.
LEMMA CommitType ==
    ASSUME TypeOK, NEW t \in Threads, NEW edited \in Row, Commit(t, edited)
    PROVE  row' \in [Sessions -> Row]
  <1> DEFINE s == call[t].sid
             f == Flush(call[t].loaded, edited, row[s])
  <1>1. s \in Sessions /\ call[t].loaded \in Row
    BY DEF TypeOK, Call
  <1>2. f \in Row
    BY <1>1, FlushType DEF TypeOK
  <1>3. row' = [row EXCEPT ![s] = f]
    BY DEF Commit, Write
  <1> HIDE DEF f
  <1>4. QED
    BY <1>1, <1>2, <1>3 DEF TypeOK

-----------------------------------------------------------------------------
(* Type correctness, for any number of overlapping callers. *)

\* start() keeps the types: what it grants is a number of seconds.
LEMMA StartType ==
    ASSUME TypeOK, NEW t \in Threads, Start(t)
    PROVE  TypeOK'
  <1>0. call[t] \in Call
    BY DEF TypeOK
  <1>5. CASE \E u \in Users, ask \in Asks : StartSample(t, u, ask)
    <2>1. PICK u \in Users, ask \in Asks : StartSample(t, u, ask)
      BY <1>5
    <2> DEFINE c == [Idle EXCEPT !.pc = "quota", !.user = u, !.at = now, !.left = ask]
    <2>2. c \in Call
      BY IdleType, ConstantsAssumption DEF Call, PC, TypeOK
    <2>3. Enter(t, c)
      BY <2>1 DEF StartSample
    <2> HIDE DEF c
    <2>4. QED
      BY <2>1, <2>2, <2>3, EnterType DEF StartSample, TypeOK
  <1>1. CASE StartReadQuota(t)
    <2> DEFINE c(left) == [call[t] EXCEPT !.pc = "start", !.left = Granted(@, left)]
    <2>1. Return(t) \/ \E left \in 1..DailyQuota : Enter(t, c(left))
      BY <1>1 DEF StartReadQuota
    <2>2. ASSUME NEW left \in 1..DailyQuota PROVE c(left) \in Call
      <3>1. Granted(call[t].left, left) \in Nat
        BY <1>0, ConstantsAssumption DEF Granted, AtMost, Call
      <3>2. QED
        BY <1>0, <3>1 DEF Call, PC
    <2> HIDE DEF c
    <2>3. QED
      BY <1>1, <2>1, <2>2, EnterType, ReturnType DEF StartReadQuota, TypeOK
  <1>2. CASE StartReadActive(t)
    <2> DEFINE c == [call[t] EXCEPT !.pc = "insert"]
    <2>1. c \in Call
      BY DEF TypeOK, Call, PC
    <2>2. Return(t) \/ Enter(t, c)
      BY <1>2 DEF StartReadActive
    <2> HIDE DEF c
    <2>3. QED
      BY <1>2, <2>1, <2>2, EnterType, ReturnType DEF StartReadActive, TypeOK
  <1>3. CASE StartInsert(t)
    <2> DEFINE s == CHOOSE s \in Sessions \ Stored : TRUE
               r == [NoRow EXCEPT !.user = call[t].user, !.status = Scanning,
                                  !.granted = call[t].left, !.clock = call[t].at,
                                  !.day = TradingDay(call[t].at),
                                  !.started = call[t].at]
    <2>1. s \in Sessions
      BY <1>3 DEF StartInsert
    <2>2. call[t] \in Call
      BY DEF TypeOK
    <2>3. TradingDay(call[t].at) \in Nat
      BY <2>2, ConstantsAssumption DEF TradingDay, Call
    <2>4. r \in Row
      BY <2>2, <2>3, IdleType DEF Row, Call, Time, Status
    <2>5. row' = [row EXCEPT ![s] = r]
      BY <1>3 DEF StartInsert, Write
    <2> HIDE DEF r, s
    <2>6. row' \in [Sessions -> Row]
      BY <2>1, <2>4, <2>5 DEF TypeOK
    <2>7. QED
      BY <1>3, <2>6, ReturnType DEF StartInsert, TypeOK
  <1>4. QED
    BY <1>1, <1>2, <1>3, <1>5 DEF Start

\* _transition() keeps the types.
LEMMA TransitionType ==
    ASSUME TypeOK, NEW t \in Threads, Transition(t)
    PROVE  TypeOK'
  <1>0. call[t] \in Call
    BY DEF TypeOK
  <1>1. ASSUME NEW s \in Sessions,
               \/ Propose(t, s)
               \/ Reject(t, s)
               \/ Approve(t, s)
               \/ \E why \in Reasons : End(t, s, why)
        PROVE  TypeOK'
    BY <1>1, LoadType, ConstantsAssumption
       DEF Propose, Reject, Approve, End, Status, EndReason
  <1>2. CASE EndLoad(t)
    <2>1. CASE Load(t, call[t].sid, Ended, call[t].why)
      BY <1>0, <2>1, LoadType DEF Call, Status
    <2>2. CASE Return(t) /\ UNCHANGED <<now, row, proven, crashes, backsteps, straddled>>
      BY <2>2, ReturnType DEF TypeOK
    <2>3. QED
      BY <1>2, <2>1, <2>2 DEF EndLoad
  <1>3. CASE Settle(t)
    <2> DEFINE e == Transitioned(call[t].loaded, call[t].to, call[t].at, call[t].why)
    <2>1. e \in Row
      BY <1>0, TransitionedType DEF Call
    <2>2. Commit(t, e)
      BY <1>3 DEF Settle
    <2> HIDE DEF e
    <2>3. row' \in [Sessions -> Row]
      BY <2>1, <2>2, CommitType
    <2>4. QED
      BY <1>3, <2>3, ReturnType DEF Settle, TypeOK
  <1>4. QED
    BY <1>1, <1>2, <1>3 DEF Transition

\* end_for_capacity_loss() keeps the types: the refund is at most what accrued.
LEMMA CapacityLossType ==
    ASSUME TypeOK, NEW t \in Threads, CapacityLoss(t)
    PROVE  TypeOK'
  <1>0. call[t] \in Call /\ now \in Nat
    BY DEF TypeOK
  <1>1. CASE \E s \in Sessions : CapacityObserve(t, s)
    <2>1. PICK s \in Sessions : CapacityObserve(t, s)
      BY <1>1
    <2> DEFINE c == [Idle EXCEPT !.pc = "capacity", !.sid = s]
    <2>2. c \in Call
      BY IdleType DEF Call, PC
    <2>3. Enter(t, c)
      BY <2>1 DEF CapacityObserve
    <2> HIDE DEF c
    <2>4. QED
      BY <2>1, <2>2, <2>3, EnterType DEF CapacityObserve, TypeOK
  <1>2. CASE CapacityLoad(t)
    <2> DEFINE c == [call[t] EXCEPT !.pc = "refund", !.at = now,
                                    !.loaded = row[call[t].sid]]
    <2>1. row[call[t].sid] \in Row
      BY <1>0 DEF TypeOK, Call
    <2>2. c \in Call
      BY <1>0, <2>1 DEF Call, PC
    <2>3. Return(t) \/ Enter(t, c)
      BY <1>2 DEF CapacityLoad
    <2> HIDE DEF c
    <2>4. QED
      BY <1>2, <2>2, <2>3, EnterType, ReturnType DEF CapacityLoad, TypeOK
  <1>3. CASE CapacityRefund(t)
    <2> DEFINE e == Refunded(call[t].loaded, call[t].at)
               c == [Idle EXCEPT !.pc = "ending", !.sid = call[t].sid, !.why = CapacityLost]
    <2>1. e \in Row
      BY <1>0, RefundedType DEF Call
    <2>2. Commit(t, e) /\ Enter(t, c)
      BY <1>3 DEF CapacityRefund
    <2>3. c \in Call
      BY <1>0, IdleType DEF Call, PC, EndReason
    <2> HIDE DEF e, c
    <2>4. row' \in [Sessions -> Row] /\ call' \in [Threads -> Call]
      BY <2>1, <2>2, <2>3, CommitType, EnterType
    <2>5. QED
      BY <1>3, <2>4 DEF CapacityRefund, TypeOK
  <1>4. QED
    BY <1>1, <1>2, <1>3 DEF CapacityLoss

\* tick(), record_llm_usage() and record_cycle() keep the types.
LEMMA MeterType ==
    ASSUME TypeOK, NEW t \in Threads, Meter(t)
    PROVE  TypeOK'
  <1>0. call[t] \in Call /\ now \in Nat
    BY DEF TypeOK
  <1>1. ASSUME NEW s \in Sessions, TickLoad(t, s)
        PROVE  TypeOK'
    BY <1>1, TickReadType DEF TickLoad, TypeOK
  <1>2. ASSUME NEW s \in Sessions, NEW spend \in Costs, UsageLoad(t, s, spend)
        PROVE  TypeOK'
    <2> DEFINE c == [Idle EXCEPT !.pc = "usage", !.sid = s, !.spend = spend,
                                 !.loaded = row[s]]
    <2>1. c \in Call
      BY IdleType, ConstantsAssumption DEF Call, PC, TypeOK
    <2>2. Enter(t, c)
      BY <1>2 DEF UsageLoad
    <2> HIDE DEF c
    <2>3. QED
      BY <1>2, <2>1, <2>2, EnterType DEF UsageLoad, TypeOK
  <1>3. ASSUME NEW s \in Sessions, RecordCycle(t, s)
        PROVE  TypeOK'
    <2> DEFINE r == [row[s] EXCEPT !.lastCycle = now]
    <2>1. r \in Row
      BY DEF TypeOK, Row, Time
    <2>2. Elapsed(row[s], now) \in Nat
      BY <1>0, SegmentType DEF TypeOK, Row, Elapsed
    <2>3. /\ row' = [row EXCEPT ![s] = r]
          /\ proven' = [proven EXCEPT ![s] = Elapsed(row[s], now)]
      BY <1>3 DEF RecordCycle, Write
    <2> HIDE DEF r
    <2>4. row' \in [Sessions -> Row] /\ proven' \in [Sessions -> Nat]
      BY <2>1, <2>2, <2>3 DEF TypeOK
    <2>5. QED
      BY <1>3, <2>4 DEF RecordCycle, TypeOK
  <1>4. CASE UsageCommit(t)
    <2> DEFINE e == Charged(call[t].loaded, call[t].spend)
               c == [Idle EXCEPT !.pc = "tick", !.sid = call[t].sid]
    <2>1. e \in Row
      BY <1>0 DEF Charged, Call, Row
    <2>2. Commit(t, e) /\ Enter(t, c)
      BY <1>4 DEF UsageCommit
    <2>3. c \in Call
      BY <1>0, IdleType DEF Call, PC
    <2> HIDE DEF e, c
    <2>4. row' \in [Sessions -> Row] /\ call' \in [Threads -> Call]
      BY <2>1, <2>2, <2>3, CommitType, EnterType
    <2>5. QED
      BY <1>4, <2>4 DEF UsageCommit, TypeOK
  <1>5. CASE UsageTick(t)
    BY <1>0, <1>5, TickReadType DEF UsageTick, TypeOK, Call
  <1>6. QED
    BY <1>1, <1>2, <1>3, <1>4, <1>5 DEF Meter

LEMMA TypedAtFirst == Init => TypeOK
<1> SUFFICES ASSUME Init PROVE TypeOK
  OBVIOUS
<1>1. straddled \in BOOLEAN
  BY DEF Init
<1>2. /\ now \in Nat /\ row \in [Sessions -> Row] /\ call \in [Threads -> Call]
      /\ proven \in [Sessions -> Nat] /\ crashes \in 0..MaxCrashes
      /\ backsteps \in 0..MaxBacksteps
  BY IdleType, ConstantsAssumption DEF Init
<1> QED BY <1>1, <1>2 DEF TypeOK

LEMMA TypedStep == TypeOK /\ [Next]_vars => TypeOK'
<1> SUFFICES ASSUME TypeOK, [Next]_vars
             PROVE  TypeOK'
  OBVIOUS
<1>1. ASSUME NEW t \in Threads, Start(t) PROVE TypeOK'
  BY <1>1, StartType
<1>2. ASSUME NEW t \in Threads, Transition(t) PROVE TypeOK'
  BY <1>2, TransitionType
<1>3. ASSUME NEW t \in Threads, CapacityLoss(t) PROVE TypeOK'
  BY <1>3, CapacityLossType
<1>4. ASSUME NEW t \in Threads, Meter(t) PROVE TypeOK'
  BY <1>4, MeterType
<1>5. ASSUME NEW t \in Threads, Crash(t) PROVE TypeOK'
  BY <1>5, ReturnType, ConstantsAssumption DEF Crash, TypeOK
<1>6. CASE Advance
  BY <1>6 DEF Advance, TypeOK
<1>7. CASE StepBack
  BY <1>7, ConstantsAssumption DEF StepBack, TypeOK
<1>8. CASE UNCHANGED vars
  BY <1>8 DEF vars, TypeOK
<1>9. QED
  BY <1>1, <1>2, <1>3, <1>4, <1>5, <1>6, <1>7, <1>8 DEF Next

\* Every row is always a well-typed session: no charge, refund or grant is ever
\* negative, whatever overlaps and whatever crashes.
THEOREM TypeInvariant == Spec => []TypeOK
<1>1. Init => TypeOK
  BY TypedAtFirst
<1>2. TypeOK /\ [Next]_vars => TypeOK'
  BY TypedStep
<1> QED BY <1>1, <1>2, PTL DEF Spec

-----------------------------------------------------------------------------
(* One caller at a time. *)

\* Calls do not overlap: at most one thread is ever inside the manager.
OneCaller == \A t, u \in Threads : t = u

\* The inductive invariant. The two properties of the table are preserved by a
\* commit only because the row it overwrites is still the row that was loaded.
SerialInv ==
    /\ TypeOK
    /\ CallsMatchRows
    /\ OneLivePerUser
    /\ ChargedOnlyWhileScanning

LEMMA IdleFields == Idle.pc = "idle"
  BY DEF Idle

\* A caller in no method knows nothing of the rows that could be stale.
LEMMA ReturnMatches ==
    ASSUME OneCaller, TypeOK, NEW t \in Threads, Return(t)
    PROVE  CallsMatchRows'
  <1>1. \A u \in Threads : call'[u].pc = "idle"
    BY IdleFields DEF OneCaller, TypeOK, Return, Enter
  <1>2. QED
    BY <1>1 DEF CallsMatchRows

\* The two table properties depend on the table alone.
LEMMA SameRows ==
    ASSUME OneLivePerUser, ChargedOnlyWhileScanning, UNCHANGED row
    PROVE  OneLivePerUser' /\ ChargedOnlyWhileScanning'
  BY DEF OneLivePerUser, ChargedOnlyWhileScanning, Stored, Live

\* What a commit makes of the one row it writes, when calls do not overlap.
LEMMA SerialCommit ==
    ASSUME TypeOK, CallsMatchRows, NEW t \in Threads,
           call[t].pc \in {"settle", "refund", "usage"},
           NEW edited \in Row, Commit(t, edited)
    PROVE  LET s == call[t].sid
           IN  /\ s \in Stored
               /\ call[t].loaded = row[s]
               /\ row[s] \in Row /\ row'[s] \in Row
               /\ \A o \in Sessions \ {s} : row'[o] = row[o]
               /\ row'[s].user = row[s].user
               /\ row'[s].granted = row[s].granted
               /\ row'[s].day = row[s].day
               /\ row'[s].started = row[s].started
               /\ row'[s].status = edited.status
               /\ row'[s].accrued = edited.accrued
               /\ row'[s].clock = edited.clock
               /\ row'[s].refunded = edited.refunded
  <1> DEFINE s == call[t].sid
             f == Flush(call[t].loaded, edited, row[s])
  <1>1. s \in Stored /\ call[t].loaded = row[s]
    BY DEF CallsMatchRows
  <1>2. s \in Sessions /\ row[s] \in Row
    BY <1>1 DEF Stored, TypeOK
  <1>3. row' = [row EXCEPT ![s] = f]
    BY DEF Commit, Write
  <1>4. row'[s] = f /\ \A o \in Sessions \ {s} : row'[o] = row[o]
    BY <1>2, <1>3 DEF TypeOK
  <1> HIDE DEF f
  <1>5. /\ f \in Row
        /\ f.user = row[s].user
        /\ f.granted = row[s].granted
        /\ f.day = row[s].day
        /\ f.started = row[s].started
        /\ f.status = edited.status
        /\ f.accrued = edited.accrued
        /\ f.clock = edited.clock
        /\ f.refunded = edited.refunded
    BY <1>1, <1>2, FlushType DEF f
  <1>6. QED
    BY <1>1, <1>2, <1>4, <1>5

\* LEGAL leads out of live states only, and into states.
LEMMA LegalType ==
    /\ LEGAL \in [Status -> SUBSET Status]
    /\ LEGAL[Ended] = {}
    /\ Scanning \notin LEGAL[Scanning]
    /\ \A from \in Status \ {Ended} : Ended \in LEGAL[from]
    /\ Absent \notin Status
    /\ Ended # Scanning
  BY DEF LEGAL, Status, Scanning, SetupProposed, Executing, Ended, Absent

\* _transition()'s commit, when calls do not overlap.
LEMMA SerialSettle ==
    ASSUME TypeOK, CallsMatchRows, NEW t \in Threads, Settle(t)
    PROVE  LET s == call[t].sid
               at == call[t].at
           IN  /\ s \in Stored /\ row[s] \in Row /\ row'[s] \in Row
               /\ row[s].status \in Status \ {Ended}
               /\ call[t].to \in LEGAL[row[s].status]
               /\ at \in Nat
               /\ \A o \in Sessions \ {s} : row'[o] = row[o]
               /\ row'[s].user = row[s].user
               /\ row'[s].granted = row[s].granted /\ row'[s].day = row[s].day
               /\ row'[s].started = row[s].started
               /\ row'[s].status = call[t].to
               /\ row'[s].accrued = row[s].accrued + Segment(row[s], at)
               /\ row'[s].clock = IF call[t].to = Scanning THEN at ELSE None
               /\ row'[s].refunded = row[s].refunded
  <1> DEFINE s == call[t].sid
             at == call[t].at
             e == Transitioned(call[t].loaded, call[t].to, at, call[t].why)
  <1>1. call[t].pc = "settle" /\ Commit(t, e)
    BY DEF Settle, At
  <1>2. /\ at \in Nat
        /\ call[t].loaded \in Row
        /\ call[t].to \in Status
        /\ call[t].why \in EndReason
    BY DEF TypeOK, Call
  <1>3. /\ e \in Row
        /\ e.status = call[t].to
        /\ e.accrued = call[t].loaded.accrued + Segment(call[t].loaded, at)
        /\ e.clock = IF call[t].to = Scanning THEN at ELSE None
        /\ e.refunded = call[t].loaded.refunded
    BY <1>2, TransitionedType
  <1> HIDE DEF e
  <1>4. /\ s \in Stored /\ call[t].loaded = row[s]
        /\ row[s] \in Row /\ row'[s] \in Row
        /\ \A o \in Sessions \ {s} : row'[o] = row[o]
        /\ row'[s].user = row[s].user
        /\ row'[s].granted = row[s].granted /\ row'[s].day = row[s].day
        /\ row'[s].started = row[s].started
        /\ row'[s].status = e.status
        /\ row'[s].accrued = e.accrued
        /\ row'[s].clock = e.clock
        /\ row'[s].refunded = e.refunded
    BY <1>1, <1>3, SerialCommit
  <1>5. call[t].to \in LEGAL[row[s].status]
    BY <1>1, <1>4 DEF CallsMatchRows
  <1>6. row[s].status \in Status
    BY <1>4 DEF Stored, Row
  <1>7. row[s].status # Ended
    BY <1>5, LegalType
  <1>8. QED
    BY <1>2, <1>3, <1>4, <1>5, <1>6, <1>7

\* end_for_capacity_loss()'s first commit, when calls do not overlap.
LEMMA SerialRefund ==
    ASSUME TypeOK, CallsMatchRows, NEW t \in Threads, CapacityRefund(t)
    PROVE  LET s == call[t].sid
           IN  /\ s \in Stored /\ row[s] \in Row /\ row'[s] \in Row
               /\ call[t].at \in Nat
               /\ row[s].status = Scanning
               /\ \A o \in Sessions \ {s} : row'[o] = row[o]
               /\ row'[s].user = row[s].user
               /\ row'[s].granted = row[s].granted /\ row'[s].day = row[s].day
               /\ row'[s].started = row[s].started
               /\ row'[s].status = row[s].status
               /\ row'[s].accrued + row'[s].refunded =
                    row[s].accrued + Segment(row[s], call[t].at) + row[s].refunded
               /\ row'[s].clock = None
               /\ row'[s].refunded >= row[s].refunded
  <1> DEFINE s == call[t].sid
             at == call[t].at
             e == Refunded(call[t].loaded, at)
  <1>1. call[t].pc = "refund" /\ Commit(t, e)
    BY DEF CapacityRefund, At
  <1>2. at \in Nat /\ call[t].loaded \in Row
    BY DEF TypeOK, Call
  <1>3. /\ e \in Row
        /\ e.status = call[t].loaded.status
        /\ e.accrued + e.refunded = call[t].loaded.accrued
             + Segment(call[t].loaded, at) + call[t].loaded.refunded
        /\ e.clock = None
        /\ e.refunded >= call[t].loaded.refunded
    BY <1>2, RefundedType
  <1> HIDE DEF e
  <1>4. /\ s \in Stored /\ call[t].loaded = row[s]
        /\ row[s] \in Row /\ row'[s] \in Row
        /\ \A o \in Sessions \ {s} : row'[o] = row[o]
        /\ row'[s].user = row[s].user
        /\ row'[s].granted = row[s].granted /\ row'[s].day = row[s].day
        /\ row'[s].started = row[s].started
        /\ row'[s].status = e.status
        /\ row'[s].accrued = e.accrued
        /\ row'[s].clock = e.clock
        /\ row'[s].refunded = e.refunded
    BY <1>1, <1>3, SerialCommit
  <1>5. row[s].status = Scanning
    BY <1>1 DEF CallsMatchRows
  <1>6. QED
    BY <1>2, <1>3, <1>4, <1>5

\* record_llm_usage()'s commit, when calls do not overlap: only spend changes.
LEMMA SerialUsage ==
    ASSUME TypeOK, CallsMatchRows, NEW t \in Threads, UsageCommit(t)
    PROVE  LET s == call[t].sid
           IN  /\ s \in Stored /\ row[s] \in Row /\ row'[s] \in Row
               /\ \A o \in Sessions \ {s} : row'[o] = row[o]
               /\ row'[s].user = row[s].user
               /\ row'[s].granted = row[s].granted /\ row'[s].day = row[s].day
               /\ row'[s].started = row[s].started
               /\ row'[s].status = row[s].status
               /\ row'[s].accrued = row[s].accrued
               /\ row'[s].clock = row[s].clock
               /\ row'[s].refunded = row[s].refunded
  <1> DEFINE e == Charged(call[t].loaded, call[t].spend)
  <1>1. call[t].pc = "usage" /\ Commit(t, e)
    BY DEF UsageCommit, At
  <1>2. call[t].loaded \in Row /\ call[t].spend \in Nat
    BY DEF TypeOK, Call
  <1>3. /\ e \in Row
        /\ e.status = call[t].loaded.status
        /\ e.accrued = call[t].loaded.accrued
        /\ e.clock = call[t].loaded.clock
        /\ e.refunded = call[t].loaded.refunded
    BY <1>2 DEF Charged, Row
  <1> HIDE DEF e
  <1>4. QED
    BY <1>1, <1>3, SerialCommit

\* A commit that leaves every status but one alone, and moves that one from a
\* live status, keeps tenants to one live session.
LEMMA OneLiveKept ==
    ASSUME OneLivePerUser, NEW s \in Stored, Live(s),
           \A o \in Sessions \ {s} : row'[o] = row[o],
           row'[s].user = row[s].user
    PROVE  OneLivePerUser'
  <1> SUFFICES ASSUME NEW p \in Stored', NEW q \in Stored',
                      Live(p)', Live(q)', row'[p].user = row'[q].user
               PROVE  p = q
    BY DEF OneLivePerUser
  <1>1. p \in Stored /\ Live(p) /\ row[p].user = row'[p].user
    BY DEF Stored, Live
  <1>2. q \in Stored /\ Live(q) /\ row[q].user = row'[q].user
    BY DEF Stored, Live
  <1>3. QED
    BY <1>1, <1>2 DEF OneLivePerUser

\* start() keeps the invariant: it inserts only what it saw missing.
LEMMA StartSerial ==
    ASSUME OneCaller, SerialInv, NEW t \in Threads, Start(t)
    PROVE  SerialInv'
  <1>0. TypeOK' /\ (\A u \in Threads : u = t) /\ call[t] \in Call
    BY StartType DEF SerialInv, OneCaller, TypeOK
  <1>1. CASE (\E u \in Users, ask \in Asks : StartSample(t, u, ask)) \/ StartReadQuota(t)
    <2>1. UNCHANGED row /\ call'[t].pc \in {"idle", "quota", "start"}
      <3>1. CASE \E u \in Users, ask \in Asks : StartSample(t, u, ask)
        BY <3>1 DEF StartSample, Enter, SerialInv, TypeOK, Idle
      <3>2. ASSUME NEW left \in Nat,
                   Enter(t, [call[t] EXCEPT !.pc = "start", !.left = Granted(@, left)])
            PROVE  call'[t].pc = "start"
        BY <1>0, <3>2 DEF Enter, SerialInv, TypeOK, Call
      <3>3. Return(t) => call'[t].pc = "idle"
        BY IdleFields DEF Return, Enter, SerialInv, TypeOK
      <3>4. CASE StartReadQuota(t)
        <4>1. UNCHANGED row
          BY <3>4 DEF StartReadQuota
        <4>2. Return(t) \/ \E left \in 1..DailyQuota :
                Enter(t, [call[t] EXCEPT !.pc = "start", !.left = Granted(@, left)])
          BY <3>4 DEF StartReadQuota
        <4>3. 1..DailyQuota \subseteq Nat
          BY ConstantsAssumption
        <4>4. QED
          BY <3>2, <3>3, <4>1, <4>2, <4>3
      <3>5. QED
        BY <1>1, <3>1, <3>4
    <2>2. CallsMatchRows'
      BY <1>0, <2>1 DEF CallsMatchRows
    <2>3. QED
      BY <1>0, <2>1, <2>2, SameRows DEF SerialInv
  <1>2. CASE StartReadActive(t)
    <2>1. UNCHANGED row
      BY <1>2 DEF StartReadActive
    <2>2. CASE \E s \in Sessions : Live(s) /\ row[s].user = call[t].user
      BY <1>0, <1>2, <2>1, <2>2, SameRows, ReturnMatches DEF StartReadActive, SerialInv
    <2>3. CASE ~\E s \in Sessions : Live(s) /\ row[s].user = call[t].user
      <3>1. call'[t].pc = "insert" /\ call'[t].user = call[t].user
        BY <1>0, <1>2, <2>3 DEF StartReadActive, Enter, SerialInv, TypeOK, Call
      <3>2. \A s \in Stored' : ~(Live(s)' /\ row'[s].user = call'[t].user)
        BY <2>1, <2>3, <3>1 DEF Stored, Live
      <3>3. CallsMatchRows'
        BY <1>0, <3>1, <3>2 DEF CallsMatchRows
      <3>4. QED
        BY <1>0, <2>1, <3>3, SameRows DEF SerialInv
    <2>4. QED
      BY <2>2, <2>3
  <1>3. CASE StartInsert(t)
    <2> DEFINE s == CHOOSE s \in Sessions \ Stored : TRUE
    <2>1. s \in Sessions /\ s \notin Stored
      BY <1>3 DEF StartInsert
    <2>2. /\ row'[s].status = Scanning
          /\ row'[s].user = call[t].user
          /\ \A o \in Sessions \ {s} : row'[o] = row[o]
      BY <1>3, <2>1 DEF StartInsert, Write, SerialInv, TypeOK, NoRow
    <2> HIDE DEF s
    <2>3. \A o \in Stored : ~(Live(o) /\ row[o].user = call[t].user)
      BY <1>3 DEF StartInsert, At, SerialInv, CallsMatchRows
    <2>4. \A o \in Stored' \ {s} : o \in Stored /\ row'[o] = row[o]
      BY <2>2 DEF Stored
    <2>5. OneLivePerUser'
      <3> SUFFICES ASSUME NEW p \in Stored', NEW q \in Stored',
                          Live(p)', Live(q)', row'[p].user = row'[q].user
                   PROVE  p = q
        BY DEF OneLivePerUser
      <3>1. CASE p = s /\ q # s
        BY <2>2, <2>3, <2>4, <3>1 DEF Live
      <3>2. CASE p # s /\ q = s
        BY <2>2, <2>3, <2>4, <3>2 DEF Live
      <3>3. CASE p # s /\ q # s
        BY <2>4, <3>3 DEF SerialInv, OneLivePerUser, Live
      <3>4. QED
        BY <3>1, <3>2, <3>3
    <2>6. ChargedOnlyWhileScanning'
      BY <2>2, <2>4 DEF SerialInv, ChargedOnlyWhileScanning
    <2>7. CallsMatchRows'
      BY <1>0, <1>3, ReturnMatches DEF StartInsert, SerialInv
    <2>8. QED
      BY <1>0, <2>5, <2>6, <2>7 DEF SerialInv
  <1>4. QED
    BY <1>1, <1>2, <1>3 DEF Start

\* Loading a row keeps the invariant.
LEMMA LoadSerial ==
    ASSUME OneCaller, SerialInv, NEW t \in Threads, NEW s \in Sessions,
           NEW to \in Status, NEW why \in EndReason, Load(t, s, to, why)
    PROVE  SerialInv'
  <1>1. TypeOK'
    BY LoadType DEF SerialInv
  <1>2. /\ UNCHANGED row
        /\ s \in Stored
        /\ to \in LEGAL[row[s].status]
        /\ call'[t].pc = "settle"
        /\ call'[t].sid = s
        /\ call'[t].to = to
        /\ call'[t].loaded = row[s]
    BY DEF Load, Enter, SerialInv, TypeOK, Idle
  <1>3. CallsMatchRows'
    BY <1>2 DEF CallsMatchRows, OneCaller, Stored
  <1>4. QED
    BY <1>1, <1>2, <1>3, SameRows DEF SerialInv

\* _transition() keeps the invariant.
LEMMA TransitionSerial ==
    ASSUME OneCaller, SerialInv, NEW t \in Threads, Transition(t)
    PROVE  SerialInv'
  <1>0. TypeOK' /\ call[t] \in Call
    BY TransitionType DEF SerialInv, TypeOK
  <1>1. ASSUME NEW s \in Sessions,
               \/ Propose(t, s)
               \/ Reject(t, s)
               \/ Approve(t, s)
               \/ \E why \in Reasons : End(t, s, why)
        PROVE  SerialInv'
    BY <1>1, LoadSerial, ConstantsAssumption
       DEF Propose, Reject, Approve, End, Status, EndReason
  <1>2. CASE EndLoad(t)
    <2>1. CASE Load(t, call[t].sid, Ended, call[t].why)
      BY <1>0, <2>1, LoadSerial DEF Call, Status
    <2>2. CASE Return(t) /\ UNCHANGED <<now, row, proven, crashes, backsteps, straddled>>
      BY <1>0, <2>2, ReturnMatches, SameRows DEF SerialInv
    <2>3. QED
      BY <1>2, <2>1, <2>2 DEF EndLoad
  <1>3. CASE Settle(t)
    <2> DEFINE s == call[t].sid
    <2>1. /\ s \in Stored
          /\ row[s].status \in Status \ {Ended}
          /\ call[t].to \in LEGAL[row[s].status]
          /\ \A o \in Sessions \ {s} : row'[o] = row[o]
          /\ row'[s].user = row[s].user
          /\ row'[s].status = call[t].to
          /\ row'[s].clock = IF call[t].to = Scanning THEN call[t].at ELSE None
      BY <1>3, SerialSettle DEF SerialInv
    <2>2. OneLivePerUser'
      BY <2>1, OneLiveKept DEF SerialInv, Live
    <2>3. ChargedOnlyWhileScanning'
      BY <2>1 DEF SerialInv, ChargedOnlyWhileScanning, Stored
    <2>4. CallsMatchRows'
      BY <1>3, ReturnMatches DEF Settle, SerialInv
    <2>5. QED
      BY <1>0, <2>2, <2>3, <2>4 DEF SerialInv
  <1>4. QED
    BY <1>1, <1>2, <1>3 DEF Transition

\* end_for_capacity_loss() keeps the invariant.
LEMMA CapacityLossSerial ==
    ASSUME OneCaller, SerialInv, NEW t \in Threads, CapacityLoss(t)
    PROVE  SerialInv'
  <1>0. TypeOK' /\ (\A u \in Threads : u = t) /\ call[t] \in Call
    BY CapacityLossType DEF SerialInv, OneCaller, TypeOK
  <1>1. CASE \E s \in Sessions : CapacityObserve(t, s)
    <2>1. PICK s \in Sessions : CapacityObserve(t, s)
      BY <1>1
    <2>2. /\ UNCHANGED row
          /\ row[s].status = Scanning
          /\ call'[t].pc = "capacity"
          /\ call'[t].sid = s
      BY <2>1 DEF CapacityObserve, Enter, SerialInv, TypeOK, Idle
    <2>3. CallsMatchRows'
      BY <1>0, <2>2 DEF CallsMatchRows, Stored, Scanning, Absent
    <2>4. QED
      BY <1>0, <2>2, <2>3, SameRows DEF SerialInv
  <1>2. CASE CapacityLoad(t)
    <2> DEFINE s == call[t].sid
    <2>1. s \in Stored /\ row[s].status = Scanning /\ UNCHANGED row
      BY <1>2 DEF CapacityLoad, At, SerialInv, CallsMatchRows
    <2>2. /\ call'[t].pc = "refund"
          /\ call'[t].sid = s
          /\ call'[t].loaded = row[s]
      <3>1. Enter(t, [call[t] EXCEPT !.pc = "refund", !.at = now, !.loaded = row[s]])
        BY <1>2, <2>1 DEF CapacityLoad, Scanning, Ended
      <3>2. call[t] \in Call /\ call \in [Threads -> Call]
        BY DEF SerialInv, TypeOK
      <3>3. call'[t] = [call[t] EXCEPT !.pc = "refund", !.at = now, !.loaded = row[s]]
        BY <3>1, <3>2 DEF Enter
      <3>4. QED
        BY <3>2, <3>3 DEF Call
    <2>3. CallsMatchRows'
      BY <1>0, <2>1, <2>2 DEF CallsMatchRows, Stored
    <2>4. QED
      BY <1>0, <2>1, <2>3, SameRows DEF SerialInv
  <1>3. CASE CapacityRefund(t)
    <2> DEFINE s == call[t].sid
    <2>1. /\ s \in Stored
          /\ row[s].status = Scanning
          /\ \A o \in Sessions \ {s} : row'[o] = row[o]
          /\ row'[s].user = row[s].user
          /\ row'[s].status = row[s].status
          /\ row'[s].clock = None
      BY <1>3, SerialRefund DEF SerialInv
    <2>2. call'[t].pc = "ending" /\ call'[t].sid = s
      BY <1>3 DEF CapacityRefund, Enter, SerialInv, TypeOK, Idle
    <2>3. CallsMatchRows'
      BY <1>0, <2>1, <2>2 DEF CallsMatchRows, Stored, Scanning, Ended, Absent
    <2>4. OneLivePerUser'
      BY <2>1, OneLiveKept DEF SerialInv, Live, Status, Scanning, Ended
    <2>5. ChargedOnlyWhileScanning'
      BY <2>1 DEF SerialInv, ChargedOnlyWhileScanning, Stored
    <2>6. QED
      BY <1>0, <2>3, <2>4, <2>5 DEF SerialInv
  <1>4. QED
    BY <1>1, <1>2, <1>3 DEF CapacityLoss

\* A step that changes no status, tenant or clock keeps the table properties.
LEMMA SameStatuses ==
    ASSUME OneLivePerUser, ChargedOnlyWhileScanning,
           \A s \in Sessions : /\ row'[s].status = row[s].status
                               /\ row'[s].user = row[s].user
                               /\ row'[s].clock = row[s].clock
    PROVE  OneLivePerUser' /\ ChargedOnlyWhileScanning'
  <1>1. \A s \in Stored' : s \in Stored /\ (Live(s)' <=> Live(s))
    BY DEF Stored, Live
  <1>2. \A s \in Stored' : s \in Sessions
    BY DEF Stored
  <1>3. OneLivePerUser'
    BY <1>1, <1>2 DEF OneLivePerUser
  <1>4. ChargedOnlyWhileScanning'
    BY <1>1, <1>2 DEF ChargedOnlyWhileScanning
  <1>5. QED
    BY <1>3, <1>4

\* tick() ends only a session that is not ended yet.
LEMMA TickSerial ==
    ASSUME OneCaller, TypeOK, NEW t \in Threads, NEW s \in Stored, TickRead(t, s),
           UNCHANGED row
    PROVE  CallsMatchRows'
  <1>1. CASE Return(t)
    BY <1>1, ReturnMatches
  <1>2. CASE ~Return(t)
    <2>1. /\ row[s].status # Ended
          /\ call'[t].pc = "ending"
          /\ call'[t].sid = s
      BY <1>2 DEF TickRead, Enter, TypeOK, Idle
    <2>2. s \in Sessions
      BY DEF Stored
    <2>3. QED
      BY <2>1, <2>2 DEF CallsMatchRows, OneCaller, Stored
  <1>3. QED
    BY <1>1, <1>2

\* tick(), record_llm_usage() and record_cycle() keep the invariant.
LEMMA MeterSerial ==
    ASSUME OneCaller, SerialInv, NEW t \in Threads, Meter(t)
    PROVE  SerialInv'
  <1>0. TypeOK' /\ (\A u \in Threads : u = t) /\ TypeOK
    BY MeterType DEF SerialInv, OneCaller
  <1>1. ASSUME NEW s \in Sessions, TickLoad(t, s)
        PROVE  SerialInv'
    BY <1>0, <1>1, TickSerial, SameRows DEF TickLoad, SerialInv
  <1>2. ASSUME NEW s \in Sessions, NEW spend \in Costs, UsageLoad(t, s, spend)
        PROVE  SerialInv'
    <2>1. /\ UNCHANGED row
          /\ s \in Stored
          /\ call'[t].pc = "usage"
          /\ call'[t].sid = s
          /\ call'[t].loaded = row[s]
      BY <1>2 DEF UsageLoad, Enter, SerialInv, TypeOK, Idle
    <2>2. CallsMatchRows'
      BY <1>0, <2>1 DEF CallsMatchRows, Stored
    <2>3. QED
      BY <1>0, <2>1, <2>2, SameRows DEF SerialInv
  <1>3. ASSUME NEW s \in Sessions, RecordCycle(t, s)
        PROVE  SerialInv'
    <2>1. call[t].pc = "idle" /\ UNCHANGED call
      BY <1>3 DEF RecordCycle, At
    <2>2. \A o \in Sessions : /\ row'[o].status = row[o].status
                              /\ row'[o].user = row[o].user
                              /\ row'[o].clock = row[o].clock
      BY <1>0, <1>3 DEF RecordCycle, Write, TypeOK, Row
    <2>3. CallsMatchRows'
      BY <1>0, <2>1 DEF CallsMatchRows
    <2>4. QED
      BY <1>0, <2>2, <2>3, SameStatuses DEF SerialInv
  <1>4. CASE UsageCommit(t)
    <2> DEFINE s == call[t].sid
    <2>1. /\ s \in Stored
          /\ \A o \in Sessions : /\ row'[o].status = row[o].status
                                 /\ row'[o].user = row[o].user
                                 /\ row'[o].clock = row[o].clock
      BY <1>4, SerialUsage DEF SerialInv
    <2>2. call'[t].pc = "tick" /\ call'[t].sid = s
      BY <1>0, <1>4 DEF UsageCommit, Enter, TypeOK, Idle
    <2>3. CallsMatchRows'
      BY <1>0, <2>1, <2>2 DEF CallsMatchRows, Stored
    <2>4. QED
      BY <1>0, <2>1, <2>3, SameStatuses DEF SerialInv
  <1>5. CASE UsageTick(t)
    <2>1. call[t].sid \in Stored
      BY <1>5 DEF UsageTick, At, SerialInv, CallsMatchRows
    <2>2. QED
      BY <1>0, <1>5, <2>1, TickSerial, SameRows DEF UsageTick, SerialInv
  <1>6. QED
    BY <1>1, <1>2, <1>3, <1>4, <1>5 DEF Meter

\* The invariant holds of the first state and is kept by every step.
LEMMA SerialStep ==
    ASSUME OneCaller
    PROVE  /\ Init => SerialInv
           /\ SerialInv /\ [Next]_vars => SerialInv'
  <1>1. ASSUME Init PROVE SerialInv
    <2>1. TypeOK
      BY <1>1, TypedAtFirst
    <2>2. Stored = {}
      BY <1>1 DEF Init, Stored, NoRow
    <2>3. CallsMatchRows
      BY <1>1, IdleFields DEF Init, CallsMatchRows
    <2>4. QED
      BY <2>1, <2>2, <2>3 DEF SerialInv, OneLivePerUser, ChargedOnlyWhileScanning
  <1>2. ASSUME SerialInv, [Next]_vars PROVE SerialInv'
    <2>1. ASSUME NEW t \in Threads, Start(t) PROVE SerialInv'
      BY <1>2, <2>1, StartSerial
    <2>2. ASSUME NEW t \in Threads, Transition(t) PROVE SerialInv'
      BY <1>2, <2>2, TransitionSerial
    <2>3. ASSUME NEW t \in Threads, CapacityLoss(t) PROVE SerialInv'
      BY <1>2, <2>3, CapacityLossSerial
    <2>4. ASSUME NEW t \in Threads, Meter(t) PROVE SerialInv'
      BY <1>2, <2>4, MeterSerial
    <2>5. ASSUME NEW t \in Threads, Crash(t) PROVE SerialInv'
      <3>1. Return(t) /\ UNCHANGED <<now, row, proven, backsteps, straddled>>
        BY <2>5 DEF Crash
      <3>2. TypeOK'
        BY <1>2, <2>5, ReturnType, ConstantsAssumption DEF Crash, SerialInv, TypeOK
      <3>3. QED
        BY <1>2, <3>1, <3>2, ReturnMatches, SameRows DEF SerialInv
    <2>6. CASE Advance \/ StepBack \/ UNCHANGED vars
      <3>1. UNCHANGED <<row, call>>
        BY <2>6 DEF Advance, StepBack, vars
      <3>2. TypeOK'
        BY <1>2, TypedStep DEF SerialInv
      <3>3. CallsMatchRows'
        BY <1>2, <3>1 DEF SerialInv, CallsMatchRows, Stored, Live
      <3>4. QED
        BY <1>2, <3>1, <3>2, <3>3, SameRows DEF SerialInv
    <2>7. QED
      BY <1>2, <2>1, <2>2, <2>3, <2>4, <2>5, <2>6 DEF Next
  <1>3. QED
    BY <1>1, <1>2

\* With calls that do not overlap, and whatever crashes between two commits, a
\* tenant never has two live sessions, and only a scanning session is charged.
THEOREM SerialSafety ==
    ASSUME OneCaller
    PROVE  Spec => [](OneLivePerUser /\ ChargedOnlyWhileScanning)
  <1>1. Init => SerialInv
    BY SerialStep
  <1>2. SerialInv /\ [Next]_vars => SerialInv'
    BY SerialStep
  <1>3. SerialInv => OneLivePerUser /\ ChargedOnlyWhileScanning
    BY DEF SerialInv
  <1>4. QED
    BY <1>1, <1>2, <1>3, PTL DEF Spec

\* What one step may do to the row of a session that is stored.
SettledStays(s) ==
    row'[s].accrued + row'[s].refunded >= row[s].accrued + row[s].refunded
MovesLegally(s) ==
    row'[s].status # row[s].status => row'[s].status \in LEGAL[row[s].status]

\* A step that leaves these columns of a row alone is a legal one for it.
LEMMA SameColumns ==
    ASSUME TypeOK, NEW s \in Stored,
           row'[s].status = row[s].status,
           row'[s].accrued = row[s].accrued,
           row'[s].refunded = row[s].refunded
    PROVE  SettledStays(s) /\ MovesLegally(s)
  BY DEF TypeOK, Row, Stored, SettledStays, MovesLegally

\* Each step of one caller keeps settled time and moves legally.
LEMMA SerialMoves ==
    ASSUME OneCaller, SerialInv, [Next]_vars, NEW s \in Stored
    PROVE  SettledStays(s) /\ MovesLegally(s)
  <1> USE DEF SerialInv
  <1>0. s \in Sessions /\ row[s] \in Row
    BY DEF Stored, TypeOK
  <1>1. ASSUME NEW t \in Threads, Start(t) PROVE SettledStays(s) /\ MovesLegally(s)
    <2>1. row'[s] = row[s]
      <3>1. CASE StartInsert(t)
        <4>1. (CHOOSE o \in Sessions \ Stored : TRUE) \notin Stored
          BY <3>1 DEF StartInsert
        <4>2. QED
          BY <3>1, <4>1 DEF StartInsert, Write, TypeOK
      <3>2. CASE UNCHANGED row
        BY <3>2
      <3>3. QED
        BY <1>1, <3>1, <3>2 DEF Start, StartSample, StartReadQuota, StartReadActive
    <2>2. QED
      BY <2>1, SameColumns
  <1>2. ASSUME NEW t \in Threads, Settle(t) PROVE SettledStays(s) /\ MovesLegally(s)
    <2> DEFINE o == call[t].sid
    <2>1. CASE s = o
      <3>1. row[s] \in Row /\ Segment(row[s], call[t].at) \in Nat
        BY <1>0, <1>2, <2>1, SerialSettle, SegmentType
      <3>2. /\ row'[s].accrued = row[s].accrued + Segment(row[s], call[t].at)
            /\ row'[s].refunded = row[s].refunded
            /\ row'[s].status \in LEGAL[row[s].status]
        BY <1>2, <2>1, SerialSettle
      <3>3. row[s].accrued \in Nat /\ row[s].refunded \in Nat
        BY <3>1 DEF Row
      <3>4. QED
        BY <3>1, <3>2, <3>3 DEF SettledStays, MovesLegally
    <2>2. CASE s # o
      BY <1>0, <1>2, <2>2, SerialSettle, SameColumns
    <2>3. QED
      BY <2>1, <2>2
  <1>3. ASSUME NEW t \in Threads, CapacityRefund(t) PROVE SettledStays(s) /\ MovesLegally(s)
    <2> DEFINE o == call[t].sid
    <2>1. CASE s = o
      <3>1. row[s] \in Row /\ Segment(row[s], call[t].at) \in Nat
        BY <1>0, <1>3, <2>1, SerialRefund, SegmentType
      <3>2. /\ row'[s].accrued + row'[s].refunded =
                  row[s].accrued + Segment(row[s], call[t].at) + row[s].refunded
            /\ row'[s].status = row[s].status
        BY <1>3, <2>1, SerialRefund
      <3>3. row[s].accrued \in Nat /\ row[s].refunded \in Nat
        BY <3>1 DEF Row
      <3>4. QED
        BY <3>1, <3>2, <3>3 DEF SettledStays, MovesLegally
    <2>2. CASE s # o
      BY <1>0, <1>3, <2>2, SerialRefund, SameColumns
    <2>3. QED
      BY <2>1, <2>2
  <1>4. ASSUME NEW t \in Threads, UsageCommit(t) PROVE SettledStays(s) /\ MovesLegally(s)
    BY <1>0, <1>4, SerialUsage, SameColumns
  <1>5. ASSUME NEW t \in Threads, NEW o \in Sessions, RecordCycle(t, o)
        PROVE  SettledStays(s) /\ MovesLegally(s)
    BY <1>0, <1>5, SameColumns DEF RecordCycle, Write, TypeOK, Row
  <1>6. CASE UNCHANGED row
    BY <1>6, SameColumns
  <1>7. ASSUME NEW t \in Threads, Transition(t)
        PROVE  Settle(t) \/ UNCHANGED row
    BY <1>7 DEF Transition, Propose, Reject, Approve, End, EndLoad, Load
  <1>8. ASSUME NEW t \in Threads, CapacityLoss(t)
        PROVE  CapacityRefund(t) \/ UNCHANGED row
    BY <1>8 DEF CapacityLoss, CapacityObserve, CapacityLoad
  <1>9. ASSUME NEW t \in Threads, Meter(t)
        PROVE  \/ UsageCommit(t) \/ UNCHANGED row
               \/ \E o \in Sessions : RecordCycle(t, o)
    BY <1>9 DEF Meter, TickLoad, UsageLoad, UsageTick
  <1>10. (\E t \in Threads : Crash(t)) \/ Advance \/ StepBack \/ UNCHANGED vars
            => UNCHANGED row
    BY DEF Crash, Advance, StepBack, vars
  <1>11. QED
    BY <1>1, <1>2, <1>3, <1>4, <1>5, <1>6, <1>7, <1>8, <1>9, <1>10 DEF Next

\* With calls that do not overlap, settled seconds stay on their row and every
\* stored status moves along LEGAL, whatever crashes and however the clock is set.
THEOREM SerialSteps ==
    ASSUME OneCaller
    PROVE  Spec => SettledTimeStays /\ LegalMoves
  <1>1. Init => SerialInv
    BY SerialStep
  <1>2. SerialInv /\ [Next]_vars => SerialInv'
    BY SerialStep
  <1>3. SerialInv /\ [Next]_vars =>
            [\A s \in Stored :
                row'[s].accrued + row'[s].refunded >= row[s].accrued + row[s].refunded]_vars
    BY SerialMoves DEF SettledStays
  <1>4. SerialInv /\ [Next]_vars =>
            [\A s \in Stored :
                row'[s].status # row[s].status => row'[s].status \in LEGAL[row[s].status]]_vars
    BY SerialMoves DEF MovesLegally
  <1>5. QED
    BY <1>1, <1>2, <1>3, <1>4, PTL DEF Spec, SettledTimeStays, LegalMoves

-----------------------------------------------------------------------------
(***************************************************************************)
(* What the manager meters: a session's time runs while it scans and only  *)
(* then, no second of it is charged twice, and the rows implement the      *)
(* abstract lifecycle.                                                     *)
(***************************************************************************)

-----------------------------------------------------------------------------
(* The inductive invariant. *)

\* At `at`, the row charges and refunds no more than its age.
ChargedBy(r, at) ==
    /\ r.clock # None => r.clock <= at
    /\ r.started <= at
    /\ Elapsed(r, at) + r.refunded <= at - r.started

\* Until the wall clock goes back, every row is in time, and so is the row a
\* caller holds at the moment that caller will settle it.
MetersInTime ==
    backsteps = 0 =>
        /\ \A s \in Stored : ChargedBy(row[s], now)
        /\ \A t \in Threads :
            /\ call[t].at <= now
            /\ call[t].pc \in {"settle", "refund"} => ChargedBy(row[call[t].sid], call[t].at)

MeterInv ==
    /\ SerialInv
    /\ ScanningIsMetered
    /\ MetersInTime

-----------------------------------------------------------------------------
(* Rows in time. *)

\* What a row charges is its settled seconds and its running segment.
LEMMA ElapsedIs ==
    ASSUME NEW r \in Row, NEW at \in Nat
    PROVE  /\ Elapsed(r, at) = r.accrued + Segment(r, at)
           /\ Segment(r, at) \in Nat
           /\ r.accrued \in Nat /\ r.refunded \in Nat /\ r.started \in Nat
           /\ r.clock # None => r.clock \in Nat
           /\ r.clock = None => Segment(r, at) = 0
           /\ r.clock # None /\ r.clock <= at => Segment(r, at) = at - r.clock
  BY SegmentType DEF Elapsed, Row, Time

\* A row in time stays so while time passes.
LEMMA ChargedLater ==
    ASSUME NEW r \in Row, NEW at \in Nat, NEW later \in Nat, at <= later,
           ChargedBy(r, at)
    PROVE  ChargedBy(r, later)
  <1>1. Elapsed(r, later) - Elapsed(r, at) <= later - at
    BY ElapsedIs DEF ChargedBy
  <1>2. Elapsed(r, later) \in Nat /\ Elapsed(r, at) \in Nat
    BY ElapsedIs
  <1>3. QED
    BY <1>1, <1>2, ElapsedIs DEF ChargedBy

\* Whether a row is in time depends on four of its columns.
LEMMA SameCharge ==
    ASSUME NEW r \in Row, NEW q \in Row, NEW at \in Nat, ChargedBy(r, at),
           q.clock = r.clock, q.started = r.started,
           q.accrued = r.accrued, q.refunded = r.refunded
    PROVE  ChargedBy(q, at) /\ Elapsed(q, at) = Elapsed(r, at)
  BY DEF ChargedBy, Elapsed, Segment

\* A row that is settled at `at`, its clock stopped or restarted then, and whose
\* charged and refunded seconds add up as before, is in time from `at` on.
LEMMA SettledInTime ==
    ASSUME NEW r \in Row, NEW q \in Row, NEW at \in Nat, NEW later \in Nat,
           at <= later, ChargedBy(r, at),
           q.clock \in {at, None}, q.started = r.started,
           q.accrued + q.refunded = r.accrued + Segment(r, at) + r.refunded
    PROVE  ChargedBy(q, later)
  <1>1. r.accrued + Segment(r, at) + r.refunded <= at - r.started /\ r.started <= at
    BY ElapsedIs DEF ChargedBy
  <1>2. Segment(q, later) <= later - at
    BY ElapsedIs
  <1>3. q.clock # None => q.clock <= later
    OBVIOUS
  <1>4. QED
    BY <1>1, <1>2, <1>3, ElapsedIs DEF ChargedBy

\* A caller that enters a method brings a time that is not ahead of the clock;
\* what it loads to settle is loaded now.
LEMMA EnterInTime ==
    ASSUME OneCaller, TypeOK, MetersInTime, NEW t \in Threads, NEW c \in Call,
           Enter(t, c), UNCHANGED <<now, row, backsteps>>,
           backsteps = 0 => c.at <= now,
           c.pc \in {"settle", "refund"} => c.sid \in Stored /\ c.at = now
    PROVE  MetersInTime'
  <1>1. \A u \in Threads : call'[u] = c
    BY DEF OneCaller, Enter, TypeOK
  <1>2. Stored' = Stored
    BY DEF Stored
  <1>3. QED
    BY <1>1, <1>2 DEF MetersInTime, ChargedBy, Elapsed, Segment

\* A step that writes one row leaves the table in time if that row is.
LEMMA WriteInTime ==
    ASSUME OneCaller, TypeOK, TypeOK', MetersInTime, NEW t \in Threads, NEW s \in Sessions,
           UNCHANGED <<now, backsteps>>,
           \A o \in Sessions \ {s} : row'[o] = row[o],
           backsteps = 0 => ChargedBy(row'[s], now),
           call'[t].at = 0 \/ call'[t] = call[t],
           call'[t].pc \notin {"settle", "refund"}
    PROVE  MetersInTime'
  <1> SUFFICES ASSUME backsteps = 0 PROVE /\ \A o \in Stored' : ChargedBy(row'[o], now)
                                          /\ \A u \in Threads : call'[u].at <= now
    BY DEF MetersInTime, OneCaller, ChargedBy, Elapsed, Segment
  <1>1. ASSUME NEW o \in Stored' PROVE ChargedBy(row'[o], now)
    <2>1. CASE o = s
      BY <2>1
    <2>2. CASE o # s
      <3>1. o \in Stored /\ row'[o] = row[o]
        BY <2>2 DEF Stored
      <3>2. QED
        BY <3>1 DEF MetersInTime
    <2>3. QED
      BY <2>1, <2>2
  <1>2. ASSUME NEW u \in Threads PROVE call'[u].at <= now
    BY DEF OneCaller, MetersInTime, TypeOK
  <1>3. QED
    BY <1>1, <1>2

\* A caller that leaves its method knows no time at all.
LEMMA ReturnInTime ==
    ASSUME OneCaller, TypeOK, MetersInTime, NEW t \in Threads, Return(t),
           UNCHANGED <<now, row, backsteps>>
    PROVE  MetersInTime'
  <1>1. Idle \in Call /\ Idle.at = 0 /\ Idle.pc = "idle"
    BY IdleType DEF Idle
  <1>2. QED
    BY <1>1, EnterInTime DEF Return, TypeOK

\* A step that neither starts a session, nor stops a clock, nor drops the call
\* that ends a session for lost capacity keeps every scanning session metered.
LEMMA StillMetered ==
    ASSUME ScanningIsMetered, NEW s \in Sessions, crashes' = 0 => crashes = 0,
           \A o \in Sessions \ {s} : row'[o] = row[o],
           \A o \in Stored : EndingForCapacity(o) /\ row[o].status = Scanning
                                => EndingForCapacity(o)' \/ o = s,
           row'[s].status = Scanning =>
                \/ row'[s].clock # None
                \/ EndingForCapacity(s)'
                \/ row'[s] = row[s] /\ ~EndingForCapacity(s)
    PROVE  ScanningIsMetered'
  <1> SUFFICES ASSUME crashes' = 0, NEW o \in Stored', row'[o].status = Scanning
               PROVE  row'[o].clock # None \/ EndingForCapacity(o)'
    BY DEF ScanningIsMetered
  <1>1. CASE o = s
    BY <1>1 DEF ScanningIsMetered, Stored
  <1>2. CASE o # s
    <2>1. o \in Stored /\ row'[o] = row[o]
      BY <1>2 DEF Stored
    <2>2. QED
      BY <1>2, <2>1 DEF ScanningIsMetered
  <1>3. QED
    BY <1>1, <1>2

\* The same, of a step that leaves the table alone.
LEMMA SameRowsMetered ==
    ASSUME ScanningIsMetered, UNCHANGED row, crashes' = 0 => crashes = 0,
           \A s \in Stored : EndingForCapacity(s) /\ row[s].status = Scanning
                                => EndingForCapacity(s)'
    PROVE  ScanningIsMetered'
  BY DEF ScanningIsMetered, Stored

\* A caller that is not ending a session ends none for lost capacity.
LEMMA NotEnding ==
    ASSUME OneCaller, NEW t \in Threads, call[t].pc \notin {"ending", "settle"}
    PROVE  \A s \in Sessions : ~EndingForCapacity(s)
  BY DEF OneCaller, EndingForCapacity

-----------------------------------------------------------------------------
(* Each step keeps the meters right. *)

\* start() inserts a row that is metered from its own start.
LEMMA StartMetered ==
    ASSUME OneCaller, MeterInv, NEW t \in Threads, Start(t)
    PROVE  ScanningIsMetered' /\ MetersInTime'
  <1> USE DEF MeterInv
  <1>0. /\ TypeOK /\ TypeOK' /\ call[t] \in Call /\ now \in Nat
        /\ UNCHANGED <<now, crashes, backsteps>>
    BY StartType DEF SerialInv, TypeOK, Start, StartSample, StartReadQuota,
       StartReadActive, StartInsert
  <1>1. \A s \in Sessions : ~EndingForCapacity(s)
    BY <1>0, NotEnding DEF Start, StartSample, StartReadQuota, StartReadActive,
       StartInsert, At
  <1>2. CASE \E c \in Call : /\ Enter(t, c) /\ UNCHANGED row
                             /\ c.pc \notin {"settle", "refund"}
                             /\ c.at \in {0, now, call[t].at}
    <2>1. PICK c \in Call : /\ Enter(t, c) /\ UNCHANGED row
                            /\ c.pc \notin {"settle", "refund"}
                            /\ c.at \in {0, now, call[t].at}
      BY <1>2
    <2>2. backsteps = 0 => c.at <= now
      BY <1>0, <2>1 DEF MetersInTime
    <2>3. QED
      BY <1>0, <1>1, <2>1, <2>2, EnterInTime, SameRowsMetered DEF Stored
  <1>3. ASSUME NEW u \in Users, NEW ask \in Asks, StartSample(t, u, ask)
        PROVE  ScanningIsMetered' /\ MetersInTime'
    <2> DEFINE c == [Idle EXCEPT !.pc = "quota", !.user = u, !.at = now, !.left = ask]
    <2>1. c \in Call /\ c.pc = "quota" /\ c.at = now
      BY <1>0, IdleType, ConstantsAssumption DEF Call, PC
    <2>2. Enter(t, c) /\ UNCHANGED row
      BY <1>3 DEF StartSample
    <2> HIDE DEF c
    <2>3. QED
      BY <1>2, <2>1, <2>2
  <1>4. CASE Return(t) /\ UNCHANGED row
    BY <1>0, <1>1, <1>4, ReturnInTime, SameRowsMetered DEF Stored
  <1>5. CASE StartReadQuota(t)
    <2>1. ASSUME NEW left \in 1..DailyQuota,
                 Enter(t, [call[t] EXCEPT !.pc = "start", !.left = Granted(@, left)])
          PROVE  ScanningIsMetered' /\ MetersInTime'
      <3> DEFINE c == [call[t] EXCEPT !.pc = "start", !.left = Granted(@, left)]
      <3>1. Granted(call[t].left, left) \in Nat
        BY <1>0, ConstantsAssumption DEF Granted, AtMost, Call
      <3>2. c \in Call /\ c.pc = "start" /\ c.at = call[t].at
        BY <1>0, <3>1 DEF Call, PC
      <3>3. Enter(t, c) /\ UNCHANGED row
        BY <1>5, <2>1 DEF StartReadQuota
      <3> HIDE DEF c
      <3>4. QED
        BY <1>2, <3>2, <3>3
    <2>2. QED
      BY <1>4, <1>5, <2>1 DEF StartReadQuota
  <1>6. CASE StartReadActive(t)
    <2> DEFINE c == [call[t] EXCEPT !.pc = "insert"]
    <2>1. c \in Call /\ c.pc = "insert" /\ c.at = call[t].at
      BY <1>0 DEF Call, PC
    <2>2. (Return(t) \/ Enter(t, c)) /\ UNCHANGED row
      BY <1>6 DEF StartReadActive
    <2> HIDE DEF c
    <2>3. QED
      BY <1>2, <1>4, <2>1, <2>2
  <1>7. CASE StartInsert(t)
    <2> DEFINE s == CHOOSE s \in Sessions \ Stored : TRUE
    <2>1. s \in Sessions
      BY <1>7 DEF StartInsert
    <2>2. /\ row'[s].clock = call[t].at /\ row'[s].started = call[t].at
          /\ row'[s].accrued = 0 /\ row'[s].refunded = 0
          /\ \A o \in Sessions \ {s} : row'[o] = row[o]
      BY <1>0, <1>7, <2>1 DEF StartInsert, Write, TypeOK, NoRow
    <2> HIDE DEF s
    <2>3. row'[s] \in Row /\ call[t].at \in Nat
      BY <1>0, <2>1 DEF TypeOK, Call
    <2>4. backsteps = 0 => ChargedBy(row'[s], now)
      <3>1. backsteps = 0 => call[t].at <= now
        BY DEF MetersInTime
      <3>2. QED
        BY <1>0, <2>2, <2>3, <3>1, ElapsedIs DEF ChargedBy
    <2>5. call'[t].at = 0 /\ call'[t].pc = "idle"
      BY <1>0, <1>7 DEF StartInsert, Return, Enter, TypeOK, Idle
    <2>6. row'[s].clock # None
      BY <2>2, <2>3 DEF None
    <2>7. ScanningIsMetered'
      BY <1>0, <1>1, <2>1, <2>2, <2>6, StillMetered DEF Stored
    <2>8. QED
      BY <1>0, <2>1, <2>2, <2>4, <2>5, <2>7, WriteInTime
  <1>8. QED
    BY <1>3, <1>5, <1>6, <1>7 DEF Start

\* Loading a row to settle it: the end of a session that lost its capacity is
\* carried on by the caller that began it.
LEMMA LoadMetered ==
    ASSUME OneCaller, MeterInv, NEW t \in Threads, NEW s \in Sessions, NEW to \in Status,
           NEW why \in EndReason, Load(t, s, to, why),
           call[t].pc \in {"ending", "settle"} => call[t].sid = s /\ call[t].why = why
    PROVE  ScanningIsMetered' /\ MetersInTime'
  <1> DEFINE c == [Idle EXCEPT !.pc = "settle", !.sid = s, !.to = to, !.why = why,
                               !.at = now, !.loaded = row[s]]
  <1>1. TypeOK /\ row[s] \in Row /\ now \in Nat
    BY DEF MeterInv, SerialInv, TypeOK
  <1>2. c \in Call /\ c.pc = "settle" /\ c.sid = s /\ c.why = why /\ c.at = now
    BY <1>1, IdleType DEF Call, PC
  <1>3. Enter(t, c) /\ s \in Stored /\ UNCHANGED <<now, row, proven, crashes, backsteps, straddled>>
    BY DEF Load
  <1> HIDE DEF c
  <1>4. MetersInTime'
    BY <1>1, <1>2, <1>3, EnterInTime DEF MeterInv
  <1>5. call'[t] = c
    BY <1>1, <1>3 DEF Enter, TypeOK
  <1>6. \A o \in Stored : EndingForCapacity(o) => EndingForCapacity(o)'
    BY <1>2, <1>5 DEF OneCaller, EndingForCapacity
  <1>7. QED
    BY <1>3, <1>4, <1>6, SameRowsMetered DEF MeterInv

\* _transition() pauses the clock, or restarts it when the session scans again.
LEMMA TransitionMetered ==
    ASSUME OneCaller, MeterInv, NEW t \in Threads, Transition(t)
    PROVE  ScanningIsMetered' /\ MetersInTime'
  <1> USE DEF MeterInv
  <1>0. /\ TypeOK /\ TypeOK' /\ call[t] \in Call /\ now \in Nat
        /\ UNCHANGED <<now, crashes, backsteps>>
    BY TransitionType DEF SerialInv, TypeOK, Transition, Propose, Reject, Approve, End,
       EndLoad, Load, Settle
  <1>1. ASSUME NEW s \in Sessions,
               \/ Propose(t, s)
               \/ Reject(t, s)
               \/ Approve(t, s)
               \/ \E why \in Reasons : End(t, s, why)
        PROVE  ScanningIsMetered' /\ MetersInTime'
    BY <1>1, LoadMetered, ConstantsAssumption
       DEF Propose, Reject, Approve, End, At, Status, EndReason
  <1>2. CASE EndLoad(t)
    <2>1. CASE Load(t, call[t].sid, Ended, call[t].why)
      BY <1>0, <2>1, LoadMetered DEF Call, Status
    <2>2. CASE /\ Ended \notin LEGAL[row[call[t].sid].status]
               /\ Return(t)
               /\ UNCHANGED <<now, row, proven, crashes, backsteps, straddled>>
      <3>1. call[t].sid \in Stored /\ row[call[t].sid].status # Ended
        BY <1>2 DEF EndLoad, At, SerialInv, CallsMatchRows
      <3>2. row[call[t].sid].status \in Status
        BY <1>0, <3>1 DEF Stored, TypeOK, Row
      <3>3. QED
        BY <2>2, <3>1, <3>2, LegalType
    <2>3. QED
      BY <1>2, <2>1, <2>2 DEF EndLoad
  <1>3. CASE Settle(t)
    <2> DEFINE s == call[t].sid
               at == call[t].at
    <2>1. /\ s \in Stored /\ row[s] \in Row /\ row'[s] \in Row /\ at \in Nat
          /\ \A o \in Sessions \ {s} : row'[o] = row[o]
          /\ row'[s].started = row[s].started
          /\ row'[s].status = call[t].to
          /\ row'[s].accrued = row[s].accrued + Segment(row[s], at)
          /\ row'[s].clock = IF call[t].to = Scanning THEN at ELSE None
          /\ row'[s].refunded = row[s].refunded
      BY <1>0, <1>3, SerialSettle DEF SerialInv
    <2>2. s \in Sessions /\ call[t].pc = "settle"
      BY <1>3, <2>1 DEF Stored, Settle, At
    <2>3. call'[t].at = 0 /\ call'[t].pc = "idle"
      BY <1>0, <1>3 DEF Settle, Return, Enter, TypeOK, Idle
    <2>4. backsteps = 0 => ChargedBy(row'[s], now)
      <3>1. backsteps = 0 => ChargedBy(row[s], at) /\ at <= now
        BY <2>2 DEF MetersInTime
      <3>2. row'[s].accrued + row'[s].refunded
                = row[s].accrued + Segment(row[s], at) + row[s].refunded
        BY <2>1, ElapsedIs
      <3>3. QED
        BY <1>0, <2>1, <3>1, <3>2, SettledInTime
    <2>5. MetersInTime'
      BY <1>0, <2>1, <2>2, <2>3, <2>4, WriteInTime
    <2>6. \A o \in Stored : EndingForCapacity(o) => o = s
      BY DEF OneCaller, EndingForCapacity
    <2>7. row'[s].status = Scanning => row'[s].clock # None
      BY <2>1 DEF None
    <2>8. ScanningIsMetered'
      BY <1>0, <2>1, <2>2, <2>6, <2>7, StillMetered
    <2>9. QED
      BY <2>5, <2>8
  <1>4. QED
    BY <1>1, <1>2, <1>3 DEF Transition

\* end_for_capacity_loss() stops the clock of a session that still scans, and
\* remembers that it has to end it.
LEMMA CapacityLossMetered ==
    ASSUME OneCaller, MeterInv, NEW t \in Threads, CapacityLoss(t)
    PROVE  ScanningIsMetered' /\ MetersInTime'
  <1> USE DEF MeterInv
  <1>0. /\ TypeOK /\ TypeOK' /\ call[t] \in Call /\ now \in Nat
        /\ UNCHANGED <<now, crashes, backsteps>>
    BY CapacityLossType DEF SerialInv, TypeOK, CapacityLoss, CapacityObserve,
       CapacityLoad, CapacityRefund
  <1>1. \A s \in Sessions : ~EndingForCapacity(s)
    BY NotEnding DEF CapacityLoss, CapacityObserve, CapacityLoad, CapacityRefund, At
  <1>2. ASSUME NEW s \in Sessions, CapacityObserve(t, s)
        PROVE  ScanningIsMetered' /\ MetersInTime'
    <2> DEFINE c == [Idle EXCEPT !.pc = "capacity", !.sid = s]
    <2>1. c \in Call /\ c.pc = "capacity" /\ c.at = 0
      BY IdleType DEF Call, PC, Idle
    <2>2. Enter(t, c) /\ UNCHANGED row
      BY <1>2 DEF CapacityObserve
    <2> HIDE DEF c
    <2>3. QED
      BY <1>0, <1>1, <2>1, <2>2, EnterInTime, SameRowsMetered DEF Stored
  <1>3. CASE CapacityLoad(t)
    <2> DEFINE c == [call[t] EXCEPT !.pc = "refund", !.at = now,
                                    !.loaded = row[call[t].sid]]
    <2>1. call[t].sid \in Stored /\ UNCHANGED row
      BY <1>3 DEF CapacityLoad, At, SerialInv, CallsMatchRows
    <2>2. row[call[t].sid] \in Row
      BY <1>0, <2>1 DEF TypeOK, Stored
    <2>3. c \in Call /\ c.pc = "refund" /\ c.at = now /\ c.sid = call[t].sid
      BY <1>0, <2>2 DEF Call, PC
    <2>4. Return(t) \/ Enter(t, c)
      BY <1>3 DEF CapacityLoad
    <2> HIDE DEF c
    <2>5. MetersInTime'
      BY <1>0, <2>1, <2>3, <2>4, EnterInTime, ReturnInTime
    <2>6. QED
      BY <1>0, <1>1, <2>1, <2>5, SameRowsMetered DEF Stored
  <1>4. CASE CapacityRefund(t)
    <2>0. PICK s \in Sessions : s = call[t].sid
      BY <1>0 DEF Call
    <2> DEFINE at == call[t].at
    <2>1. /\ s \in Stored /\ row[s] \in Row /\ row'[s] \in Row /\ at \in Nat
          /\ \A o \in Sessions \ {s} : row'[o] = row[o]
          /\ row'[s].started = row[s].started
          /\ row'[s].accrued + row'[s].refunded
                = row[s].accrued + Segment(row[s], at) + row[s].refunded
          /\ row'[s].clock = None
      BY <1>0, <1>4, <2>0, SerialRefund DEF SerialInv
    <2>2. call[t].pc = "refund"
      BY <1>4 DEF CapacityRefund, At
    <2>3. call'[t].at = 0 /\ call'[t].pc = "ending" /\ call'[t].sid = s
          /\ call'[t].why = CapacityLost
      BY <1>0, <1>4, <2>0 DEF CapacityRefund, Enter, TypeOK, Idle
    <2>4. backsteps = 0 => ChargedBy(row'[s], now)
      <3>1. backsteps = 0 => ChargedBy(row[s], at) /\ at <= now
        BY <2>0, <2>2 DEF MetersInTime
      <3>2. QED
        BY <1>0, <2>1, <3>1, SettledInTime
    <2>5. MetersInTime'
      BY <1>0, <2>1, <2>2, <2>3, <2>4, WriteInTime
    <2>6. EndingForCapacity(s)'
      BY <2>3 DEF EndingForCapacity
    <2>7. ScanningIsMetered'
      <3>1. \A o \in Stored : EndingForCapacity(o) /\ row[o].status = Scanning
                                => EndingForCapacity(o)' \/ o = s
        BY <1>1 DEF Stored
      <3>2. crashes' = crashes
        BY <1>0
      <3>3. QED
        BY <2>1, <2>2, <2>6, <3>1, <3>2, StillMetered
    <2>8. QED
      BY <2>5, <2>7
  <1>5. QED
    BY <1>2, <1>3, <1>4 DEF CapacityLoss

\* Reading the meters leaves the table alone; what it does to the call brings no time.
LEMMA TickMetered ==
    ASSUME OneCaller, MeterInv, NEW t \in Threads, NEW s \in Sessions, TickRead(t, s),
           call[t].pc \in {"idle", "tick"},
           UNCHANGED <<now, row, proven, crashes, backsteps, straddled>>
    PROVE  ScanningIsMetered' /\ MetersInTime'
  <1> DEFINE c(w) == [Idle EXCEPT !.pc = "ending", !.sid = s, !.why = w]
  <1>1. \A w \in EndReason : c(w) \in Call /\ c(w).pc = "ending" /\ c(w).at = 0
    BY IdleType DEF Call, PC, Idle
  <1>2. \/ Return(t)
        \/ Enter(t, c(CostCapped))
        \/ Enter(t, c(QuotaExhausted))
    BY DEF TickRead
  <1>3. CostCapped \in EndReason /\ QuotaExhausted \in EndReason
    BY DEF EndReason
  <1> HIDE DEF c
  <1>4. TypeOK /\ now \in Nat
    BY DEF MeterInv, SerialInv, TypeOK
  <1>5. MetersInTime'
    BY <1>1, <1>2, <1>3, <1>4, EnterInTime, ReturnInTime DEF MeterInv
  <1>6. \A o \in Sessions : ~EndingForCapacity(o)
    BY NotEnding
  <1>7. QED
    BY <1>5, <1>6, SameRowsMetered DEF MeterInv, Stored

\* tick(), record_llm_usage() and record_cycle() leave every clock alone.
LEMMA MeterMetered ==
    ASSUME OneCaller, MeterInv, NEW t \in Threads, Meter(t)
    PROVE  ScanningIsMetered' /\ MetersInTime'
  <1> USE DEF MeterInv
  <1>0. /\ TypeOK /\ TypeOK' /\ call[t] \in Call /\ now \in Nat
        /\ UNCHANGED <<now, crashes, backsteps>>
    BY MeterType DEF SerialInv, TypeOK, Meter, TickLoad, UsageLoad, RecordCycle,
       UsageCommit, UsageTick
  <1>1. \A s \in Sessions : ~EndingForCapacity(s)
    BY NotEnding DEF Meter, TickLoad, UsageLoad, RecordCycle, UsageCommit, UsageTick, At
  <1>2. ASSUME NEW s \in Sessions, TickLoad(t, s)
        PROVE  ScanningIsMetered' /\ MetersInTime'
    BY <1>2, TickMetered DEF TickLoad, At
  <1>3. CASE UsageTick(t)
    BY <1>0, <1>3, TickMetered DEF UsageTick, At, Call
  <1>4. ASSUME NEW s \in Sessions, NEW spend \in Costs, UsageLoad(t, s, spend)
        PROVE  ScanningIsMetered' /\ MetersInTime'
    <2> DEFINE c == [Idle EXCEPT !.pc = "usage", !.sid = s, !.spend = spend,
                                 !.loaded = row[s]]
    <2>1. row[s] \in Row
      BY <1>0 DEF TypeOK
    <2>2. c \in Call /\ c.pc = "usage" /\ c.at = 0
      BY <2>1, IdleType, ConstantsAssumption DEF Call, PC, Idle
    <2>3. Enter(t, c) /\ UNCHANGED row
      BY <1>4 DEF UsageLoad
    <2> HIDE DEF c
    <2>4. QED
      BY <1>0, <1>1, <2>2, <2>3, EnterInTime, SameRowsMetered DEF Stored
  <1>5. CASE UsageCommit(t)
    <2> DEFINE s == call[t].sid
    <2>1. /\ s \in Stored /\ row[s] \in Row /\ row'[s] \in Row
          /\ \A o \in Sessions \ {s} : row'[o] = row[o]
          /\ row'[s].started = row[s].started
          /\ row'[s].status = row[s].status
          /\ row'[s].accrued = row[s].accrued
          /\ row'[s].clock = row[s].clock
          /\ row'[s].refunded = row[s].refunded
      BY <1>0, <1>5, SerialUsage DEF SerialInv
    <2>2. s \in Sessions
      BY <2>1 DEF Stored
    <2>3. call'[t].at = 0 /\ call'[t].pc = "tick"
      BY <1>0, <1>5 DEF UsageCommit, Enter, TypeOK, Idle
    <2>4. backsteps = 0 => ChargedBy(row'[s], now)
      BY <1>0, <2>1, SameCharge DEF MetersInTime
    <2>5. MetersInTime'
      BY <1>0, <2>1, <2>2, <2>3, <2>4, WriteInTime
    <2>6. ScanningIsMetered'
      BY <1>0, <1>1, <2>1, <2>2, StillMetered DEF Stored, ScanningIsMetered
    <2>7. QED
      BY <2>5, <2>6
  <1>6. ASSUME NEW s \in Sessions, RecordCycle(t, s)
        PROVE  ScanningIsMetered' /\ MetersInTime'
    <2>1. row[s] \in Row /\ row'[s] \in Row /\ s \in Stored
      BY <1>0, <1>6 DEF TypeOK, RecordCycle
    <2>2. /\ row'[s].started = row[s].started
          /\ row'[s].status = row[s].status
          /\ row'[s].accrued = row[s].accrued
          /\ row'[s].clock = row[s].clock
          /\ row'[s].refunded = row[s].refunded
          /\ \A o \in Sessions \ {s} : row'[o] = row[o]
      BY <1>0, <1>6, <2>1 DEF RecordCycle, Write, TypeOK, Row
    <2>3. UNCHANGED call /\ call[t].pc = "idle"
      BY <1>6 DEF RecordCycle, At
    <2>4. backsteps = 0 => ChargedBy(row'[s], now)
      BY <1>0, <2>1, <2>2, SameCharge DEF MetersInTime
    <2>5. MetersInTime'
      BY <1>0, <2>1, <2>2, <2>3, <2>4, WriteInTime
    <2>6. ScanningIsMetered'
      BY <1>0, <1>1, <2>1, <2>2, StillMetered DEF Stored, ScanningIsMetered
    <2>7. QED
      BY <2>5, <2>6
  <1>7. QED
    BY <1>2, <1>3, <1>4, <1>5, <1>6 DEF Meter

\* The invariant holds of the first state and is kept by every step.
LEMMA MeterStep ==
    ASSUME OneCaller
    PROVE  /\ Init => MeterInv
           /\ MeterInv /\ [Next]_vars => MeterInv'
  <1>1. ASSUME Init PROVE MeterInv
    <2>1. SerialInv
      BY <1>1, SerialStep
    <2>2. Stored = {}
      BY <1>1 DEF Init, Stored, NoRow
    <2>3. \A t \in Threads : call[t].at = 0 /\ call[t].pc = "idle"
      BY <1>1 DEF Init, Idle
    <2>4. QED
      BY <1>1, <2>1, <2>2, <2>3 DEF MeterInv, ScanningIsMetered, MetersInTime, Init
  <1>2. ASSUME MeterInv, [Next]_vars PROVE MeterInv'
    <2>0. SerialInv' /\ TypeOK /\ TypeOK'
      BY <1>2, SerialStep DEF MeterInv, SerialInv
    <2> SUFFICES ScanningIsMetered' /\ MetersInTime'
      BY <2>0 DEF MeterInv
    <2>1. ASSUME NEW t \in Threads, Start(t) PROVE ScanningIsMetered' /\ MetersInTime'
      BY <1>2, <2>1, StartMetered
    <2>2. ASSUME NEW t \in Threads, Transition(t) PROVE ScanningIsMetered' /\ MetersInTime'
      BY <1>2, <2>2, TransitionMetered
    <2>3. ASSUME NEW t \in Threads, CapacityLoss(t) PROVE ScanningIsMetered' /\ MetersInTime'
      BY <1>2, <2>3, CapacityLossMetered
    <2>4. ASSUME NEW t \in Threads, Meter(t) PROVE ScanningIsMetered' /\ MetersInTime'
      BY <1>2, <2>4, MeterMetered
    <2>5. ASSUME NEW t \in Threads, Crash(t) PROVE ScanningIsMetered' /\ MetersInTime'
      <3>1. Return(t) /\ UNCHANGED <<now, row, backsteps>> /\ crashes' = crashes + 1
        BY <2>5 DEF Crash
      <3>2. crashes \in Nat
        BY <2>0, ConstantsAssumption DEF TypeOK
      <3>3. QED
        BY <1>2, <2>0, <3>1, <3>2, ReturnInTime DEF MeterInv, ScanningIsMetered
    <2>6. CASE Advance
      <3>1. UNCHANGED <<row, call, crashes, backsteps>> /\ now' = now + 1
        BY <2>6 DEF Advance
      <3>2. now \in Nat /\ now' \in Nat
        BY <2>0 DEF TypeOK
      <3>3. ASSUME backsteps = 0, NEW s \in Stored PROVE ChargedBy(row[s], now')
        <4>1. row[s] \in Row /\ ChargedBy(row[s], now)
          BY <1>2, <2>0, <3>3 DEF Stored, TypeOK, MeterInv, MetersInTime
        <4>2. QED
          BY <3>1, <3>2, <4>1, ChargedLater
      <3>4. \A t \in Threads : call[t].at \in Nat
        BY <2>0 DEF TypeOK, Call
      <3>5. MetersInTime'
        BY <1>2, <3>1, <3>2, <3>3, <3>4
           DEF MeterInv, MetersInTime, Stored, ChargedBy, Elapsed, Segment
      <3>6. QED
        BY <1>2, <3>1, <3>5, SameRowsMetered DEF MeterInv, EndingForCapacity
    <2>7. CASE StepBack
      <3>1. UNCHANGED <<row, call, crashes>> /\ backsteps' = backsteps + 1
        BY <2>7 DEF StepBack
      <3>2. backsteps \in Nat
        BY <2>0, ConstantsAssumption DEF TypeOK
      <3>3. QED
        BY <1>2, <3>1, <3>2, SameRowsMetered DEF MeterInv, EndingForCapacity, MetersInTime
    <2>8. CASE UNCHANGED vars
      BY <1>2, <2>8 DEF vars, MeterInv, ScanningIsMetered, EndingForCapacity, MetersInTime,
         Stored, ChargedBy, Elapsed, Segment
    <2>9. QED
      BY <1>2, <2>1, <2>2, <2>3, <2>4, <2>5, <2>6, <2>7, <2>8 DEF Next
  <1>3. QED
    BY <1>1, <1>2

\* With calls that do not overlap: a clock runs on scanning sessions only; until a
\* caller dies every scanning session is metered or about to end; and until the
\* wall clock goes back, what is charged and refunded fits the session's age.
THEOREM SerialMeters ==
    ASSUME OneCaller
    PROVE  Spec => []MetersAreRight
  <1>1. Init => MeterInv
    BY MeterStep
  <1>2. MeterInv /\ [Next]_vars => MeterInv'
    BY MeterStep
  <1>3. MeterInv => MetersAreRight
    <2> SUFFICES ASSUME MeterInv PROVE MetersAreRight
      OBVIOUS
    <2>1. ChargedWithinWallClock
      BY DEF MeterInv, MetersInTime, ChargedBy, ChargedWithinWallClock
    <2>2. QED
      BY <2>1 DEF MeterInv, SerialInv, MetersAreRight
  <1>4. QED
    BY <1>1, <1>2, <1>3, PTL DEF Spec

-----------------------------------------------------------------------------
(* The rows implement SessionLifecycle.                                     *)

\* A session id that was never used has no clock, so it charges nothing.
UnusedHaveNoClock == \A s \in Sessions : row[s].status = Absent => row[s].clock = None

LifeInv == SerialInv /\ UnusedHaveNoClock

status == [s \in Sessions |-> row[s].status]
owner == [s \in Sessions |-> row[s].user]
charge == [s \in Sessions |-> Elapsed(row[s], now)]

\* The mapping is the one Lifecycle is instantiated with.
LEMMA LifecycleSteps ==
    ASSUME \/ status' = status /\ owner' = owner
           \/ \E u \in Users, s \in Sessions :
                /\ status[s] = Absent
                /\ \A o \in Sessions : ~(status[o] \notin {Absent, Ended} /\ owner[o] = u)
                /\ status' = [status EXCEPT ![s] = Scanning]
                /\ owner' = [owner EXCEPT ![s] = u]
           \/ \E s \in Sessions, to \in Status :
                /\ status[s] # Absent
                /\ to \in LEGAL[status[s]]
                /\ status' = [status EXCEPT ![s] = to]
                /\ owner' = owner,
           \A s \in Sessions : charge'[s] # charge[s] => Scanning \in {status[s], status'[s]}
    PROVE  Lifecycle!Next
  <1>1. DOMAIN LEGAL = Status
    BY DEF LEGAL
  <1>2. Lifecycle!ChargesOnlyMetered
    BY DEF Lifecycle!ChargesOnlyMetered, MeteredStates, status, charge
  <1>3. \/ \E u \in Users, s \in Sessions : Lifecycle!Begin(u, s)
        \/ \E s \in Sessions, to \in DOMAIN LEGAL : Lifecycle!Move(s, to)
        \/ Lifecycle!Lapse
    BY <1>1 DEF Lifecycle!Begin, Lifecycle!Move, Lifecycle!Lapse, Lifecycle!IsLive,
       status, owner
  <1>4. QED
    BY <1>2, <1>3 DEF Lifecycle!Next

\* A session that does not scan charges the same whatever time it is.
LEMMA PausedCharge ==
    ASSUME LifeInv, NEW s \in Sessions, row[s].status # Scanning, NEW at \in Nat
    PROVE  row[s].clock = None /\ Elapsed(row[s], at) = row[s].accrued
  <1>1. row[s] \in Row
    BY DEF LifeInv, SerialInv, TypeOK
  <1>2. row[s].clock = None
    BY DEF LifeInv, SerialInv, UnusedHaveNoClock, ChargedOnlyWhileScanning, Stored
  <1>3. QED
    BY <1>1, <1>2, ElapsedIs

\* start() begins a session of a tenant that has no live one.
LEMMA InsertBegins ==
    ASSUME LifeInv, TypeOK', NEW t \in Threads, StartInsert(t)
    PROVE  Lifecycle!Next /\ UnusedHaveNoClock'
  <1> DEFINE i == CHOOSE s \in Sessions \ Stored : TRUE
  <1>0. PICK s \in Sessions : s = i
    BY DEF StartInsert
  <1>1. /\ s \notin Stored
        /\ row'[s].status = Scanning /\ row'[s].user = call[t].user
        /\ \A o \in Sessions \ {s} : row'[o] = row[o]
        /\ call[t].user \in Users /\ now' = now
    BY <1>0 DEF StartInsert, Write, LifeInv, SerialInv, TypeOK, NoRow, Call
  <1> HIDE DEF i
  <1>2. \A o \in Sessions : ~(status[o] \notin {Absent, Ended} /\ owner[o] = call[t].user)
    <2> SUFFICES ASSUME NEW o \in Sessions, row[o].status \notin {Absent, Ended},
                        row[o].user = call[t].user
                 PROVE  FALSE
      BY DEF status, owner
    <2>1. o \in Stored /\ Live(o)
      BY DEF Stored, Live, LifeInv, SerialInv, TypeOK, Row
    <2>2. QED
      BY <2>1 DEF StartInsert, At, LifeInv, SerialInv, CallsMatchRows
  <1>3. status[s] = Absent
    BY <1>1 DEF Stored, status
  <1>4. status' = [status EXCEPT ![s] = Scanning]
    BY <1>1 DEF status
  <1>5. owner' = [owner EXCEPT ![s] = call[t].user]
    BY <1>1 DEF owner
  <1>6. \A o \in Sessions : charge'[o] # charge[o] => Scanning \in {status[o], status'[o]}
    BY <1>1 DEF charge, status
  <1>7. Lifecycle!Next
    BY <1>1, <1>2, <1>3, <1>4, <1>5, <1>6, LifecycleSteps
  <1>8. UnusedHaveNoClock'
    BY <1>1 DEF LifeInv, UnusedHaveNoClock, Scanning, Absent
  <1>9. QED
    BY <1>7, <1>8

\* A transition that settles is a move, and charges only what the session scanned.
LEMMA SettleMoves ==
    ASSUME LifeInv, NEW t \in Threads, Settle(t)
    PROVE  Lifecycle!Next /\ UnusedHaveNoClock'
  <1>0. TypeOK /\ now \in Nat /\ now' = now /\ call[t] \in Call
    BY DEF LifeInv, SerialInv, TypeOK, Settle
  <1>1. PICK s \in Sessions, to \in Status, at \in Nat :
            s = call[t].sid /\ to = call[t].to /\ at = call[t].at
    BY <1>0 DEF Call
  <1>2. /\ s \in Stored /\ row[s] \in Row /\ row'[s] \in Row
        /\ row[s].status \in Status \ {Ended}
        /\ to \in LEGAL[row[s].status]
        /\ \A o \in Sessions \ {s} : row'[o] = row[o]
        /\ row'[s].user = row[s].user
        /\ row'[s].status = to
        /\ row'[s].accrued = row[s].accrued + Segment(row[s], at)
        /\ row'[s].clock = IF to = Scanning THEN at ELSE None
    BY <1>0, <1>1, SerialSettle DEF LifeInv, SerialInv
  <1>3. status' = [status EXCEPT ![s] = to] /\ owner' = owner /\ status[s] # Absent
    BY <1>2 DEF status, owner, Stored
  <1>4. charge'[s] # charge[s] => Scanning \in {status[s], status'[s]}
    <2> SUFFICES ASSUME row[s].status # Scanning, to # Scanning
                 PROVE  Elapsed(row'[s], now) = Elapsed(row[s], now)
      BY <1>0, <1>2 DEF charge, status
    <2>1. row[s].clock = None /\ Elapsed(row[s], now) = row[s].accrued
      BY <1>0, PausedCharge
    <2>2. row'[s].clock = None /\ row'[s].accrued = row[s].accrued
      BY <1>2, <2>1, ElapsedIs
    <2>3. QED
      BY <1>0, <1>2, <2>1, <2>2, ElapsedIs
  <1>5. \A o \in Sessions \ {s} : charge'[o] = charge[o]
    BY <1>0, <1>2 DEF charge
  <1>6. Lifecycle!Next
    BY <1>2, <1>3, <1>4, <1>5, LifecycleSteps DEF status
  <1>7. UnusedHaveNoClock'
    BY <1>2 DEF LifeInv, UnusedHaveNoClock, Status, Scanning, SetupProposed, Executing,
       Ended, Absent
  <1>8. QED
    BY <1>6, <1>7

\* A commit that moves no status lets the session's time lapse.
LEMMA CommitLapses ==
    ASSUME LifeInv, now' = now, NEW s \in Stored,
           \A o \in Sessions \ {s} : row'[o] = row[o],
           row'[s].status = row[s].status, row'[s].user = row[s].user,
           row[s].status # Scanning => Elapsed(row'[s], now) = Elapsed(row[s], now)
    PROVE  Lifecycle!Next /\ UnusedHaveNoClock'
  <1>1. \A o \in Sessions : row'[o].status = row[o].status /\ row'[o].user = row[o].user
    OBVIOUS
  <1>2. status' = status /\ owner' = owner
    BY <1>1 DEF status, owner
  <1>3. \A o \in Sessions : charge'[o] # charge[o] => Scanning \in {status[o], status'[o]}
    BY DEF charge, status
  <1>4. Lifecycle!Next
    BY <1>2, <1>3, LifecycleSteps
  <1>5. UnusedHaveNoClock'
    BY DEF LifeInv, UnusedHaveNoClock, Stored
  <1>6. QED
    BY <1>4, <1>5

\* The clock of the wall moves: only scanning sessions are charged.
LEMMA TimeLapses ==
    ASSUME LifeInv, UNCHANGED row, now' \in Nat
    PROVE  Lifecycle!Next /\ UnusedHaveNoClock'
  <1>1. status' = status /\ owner' = owner
    BY DEF status, owner
  <1>2. now \in Nat
    BY DEF LifeInv, SerialInv, TypeOK
  <1>3. ASSUME NEW s \in Sessions, row[s].status # Scanning
        PROVE  charge'[s] = charge[s]
    <2>1. Elapsed(row[s], now) = row[s].accrued /\ Elapsed(row[s], now') = row[s].accrued
      BY <1>2, <1>3, PausedCharge
    <2>2. QED
      BY <2>1 DEF charge
  <1>4. Lifecycle!Next
    BY <1>1, <1>3, LifecycleSteps DEF status
  <1>5. QED
    BY <1>4 DEF LifeInv, UnusedHaveNoClock

\* Every step of the rows is a step of the lifecycle.
LEMMA LifeStep ==
    ASSUME OneCaller
    PROVE  /\ Init => LifeInv /\ Lifecycle!Init
           /\ LifeInv /\ [Next]_vars => LifeInv' /\ Lifecycle!Next
  <1>1. ASSUME Init PROVE LifeInv /\ Lifecycle!Init
    <2>1. \A s \in Sessions : row[s] = NoRow
      BY <1>1 DEF Init
    <2>2. NoRow.status = Absent /\ NoRow.clock = None /\ NoRow.accrued = 0
      BY DEF NoRow
    <2>3. \A s \in Sessions : Elapsed(row[s], now) = 0
      BY <2>1, <2>2 DEF Elapsed, Segment
    <2>4. Lifecycle!Init
      BY <2>1, <2>2, <2>3 DEF Lifecycle!Init
    <2>5. QED
      BY <1>1, <2>1, <2>2, <2>4, SerialStep DEF LifeInv, UnusedHaveNoClock
  <1>2. ASSUME LifeInv, [Next]_vars PROVE LifeInv' /\ Lifecycle!Next
    <2>0. SerialInv' /\ TypeOK /\ TypeOK' /\ now' \in Nat /\ now \in Nat
      BY <1>2, SerialStep DEF LifeInv, SerialInv, TypeOK
    <2> SUFFICES UnusedHaveNoClock' /\ Lifecycle!Next
      BY <2>0 DEF LifeInv
    <2>1. CASE UNCHANGED row
      BY <1>2, <2>0, <2>1, TimeLapses
    <2>2. ASSUME NEW t \in Threads, StartInsert(t) PROVE UnusedHaveNoClock' /\ Lifecycle!Next
      BY <1>2, <2>0, <2>2, InsertBegins
    <2>3. ASSUME NEW t \in Threads, Settle(t) PROVE UnusedHaveNoClock' /\ Lifecycle!Next
      BY <1>2, <2>3, SettleMoves
    <2>4. ASSUME NEW t \in Threads, CapacityRefund(t)
          PROVE  UnusedHaveNoClock' /\ Lifecycle!Next
      <3>1. now' = now
        BY <2>4 DEF CapacityRefund
      <3>2. QED
        BY <1>2, <2>0, <2>4, <3>1, SerialRefund, CommitLapses DEF LifeInv, SerialInv
    <2>5. ASSUME NEW t \in Threads, UsageCommit(t)
          PROVE  UnusedHaveNoClock' /\ Lifecycle!Next
      <3>1. now' = now
        BY <2>5 DEF UsageCommit
      <3>2. PICK s \in Stored :
                /\ \A o \in Sessions \ {s} : row'[o] = row[o]
                /\ row'[s].user = row[s].user
                /\ row'[s].status = row[s].status
                /\ row'[s].accrued = row[s].accrued
                /\ row'[s].clock = row[s].clock
        BY <1>2, <2>5, SerialUsage DEF LifeInv, SerialInv
      <3>3. Elapsed(row'[s], now) = Elapsed(row[s], now)
        BY <3>2 DEF Elapsed, Segment
      <3>4. QED
        BY <1>2, <3>1, <3>2, <3>3, CommitLapses
    <2>6. ASSUME NEW t \in Threads, NEW s \in Sessions, RecordCycle(t, s)
          PROVE  UnusedHaveNoClock' /\ Lifecycle!Next
      <3>1. now' = now /\ s \in Stored /\ row[s] \in Row
        BY <2>0, <2>6 DEF RecordCycle, TypeOK
      <3>2. /\ \A o \in Sessions \ {s} : row'[o] = row[o]
            /\ row'[s].user = row[s].user
            /\ row'[s].status = row[s].status
            /\ row'[s].accrued = row[s].accrued
            /\ row'[s].clock = row[s].clock
        BY <2>0, <2>6, <3>1 DEF RecordCycle, Write, TypeOK, Row
      <3>3. Elapsed(row'[s], now) = Elapsed(row[s], now)
        BY <3>2 DEF Elapsed, Segment
      <3>4. QED
        BY <1>2, <3>1, <3>2, <3>3, CommitLapses
    <2>7. ASSUME NEW t \in Threads, Start(t) PROVE StartInsert(t) \/ UNCHANGED row
      BY <2>7 DEF Start, StartSample, StartReadQuota, StartReadActive
    <2>8. ASSUME NEW t \in Threads, Transition(t) PROVE Settle(t) \/ UNCHANGED row
      BY <2>8 DEF Transition, Propose, Reject, Approve, End, EndLoad, Load
    <2>9. ASSUME NEW t \in Threads, CapacityLoss(t) PROVE CapacityRefund(t) \/ UNCHANGED row
      BY <2>9 DEF CapacityLoss, CapacityObserve, CapacityLoad
    <2>10. ASSUME NEW t \in Threads, Meter(t)
           PROVE  \/ UsageCommit(t) \/ UNCHANGED row
                  \/ \E s \in Sessions : RecordCycle(t, s)
      BY <2>10 DEF Meter, TickLoad, UsageLoad, UsageTick
    <2>11. (\E t \in Threads : Crash(t)) \/ Advance \/ StepBack \/ UNCHANGED vars
                => UNCHANGED row
      BY DEF Crash, Advance, StepBack, vars
    <2>12. QED
      BY <1>2, <2>1, <2>2, <2>3, <2>4, <2>5, <2>6, <2>7, <2>8, <2>9, <2>10, <2>11 DEF Next
  <1>3. QED
    BY <1>1, <1>2

\* With calls that do not overlap, whatever dies in between and however the wall
\* clock is set, the rows implement the abstract lifecycle: a session begins for
\* a tenant without a live one, moves along LEGAL, and is charged by scanning only.
THEOREM SerialRefines ==
    ASSUME OneCaller
    PROVE  Spec => ImplementsLifecycle
  <1>1. Init => LifeInv /\ Lifecycle!Init
    BY LifeStep
  <1>2. LifeInv /\ [Next]_vars => LifeInv' /\ [Lifecycle!Next]_(Lifecycle!lifecycleVars)
    BY LifeStep
  <1>3. QED
    BY <1>1, <1>2, PTL DEF Spec, ImplementsLifecycle, Lifecycle!Spec
-----------------------------------------------------------------------------
(***************************************************************************)
(* The daily quota: what start() grants fits what the tenant's other        *)
(* sessions of the day have consumed, however they pause, resume, are       *)
(* refunded or die.                                                         *)
(***************************************************************************)

Accrued == [s \in Sessions |-> row[s].accrued]

\* What a tenant's sessions of a day have settled on their rows.
Settled(u, day) == SumFunctionOnSet(Accrued, OfDay(u, day))

NoneLives(u) == \A s \in Stored : Live(s) => row[s].user # u

\* A session was granted no more than the others of its day have left.
GrantFits(s) ==
    SumFunctionOnSet(Accrued, OfDay(row[s].user, row[s].day) \ {s}) + row[s].granted
        <= DailyQuota

GrantsMatch == \A s \in Stored : Live(s) => GrantFits(s)

\* What a start() has read still holds when it inserts, as long as no session of
\* the tenant is live: with one, the read is of no use and start() refuses.
AskFits(c) ==
    /\ c.pc = "quota" => TradingDay(c.at) = TradingDay(now)
    /\ c.pc \in {"start", "insert"} /\ NoneLives(c.user) =>
          Settled(c.user, TradingDay(c.at)) + c.left <= DailyQuota

AsksMatch == \A t \in Threads : AskFits(call[t])

QuotaInv == ~straddled => GrantsMatch /\ AsksMatch

\* A caller that is not in start() has nothing to keep.
LEMMA NoAsk ==
    ASSUME OneCaller, NEW t \in Threads, call'[t].pc \notin {"quota", "start", "insert"}
    PROVE  AsksMatch'
  <1>1. \A u \in Threads : u = t
    BY DEF OneCaller
  <1> QED
    BY <1>1 DEF AsksMatch, AskFits

\* Over the same table the same grants fit.
LEMMA SameGrants ==
    ASSUME UNCHANGED row
    PROVE  /\ GrantsMatch => GrantsMatch'
           /\ \A u, day : Settled(u, day)' = Settled(u, day)
           /\ \A u : NoneLives(u)' = NoneLives(u)
  BY DEF GrantsMatch, GrantFits, Settled, NoneLives, Accrued, OfDay, Stored, Live

\* A tenant's sessions of a day are finitely many, each with settled seconds.
LEMMA DaySums ==
    ASSUME TypeOK, NEW u, NEW day, NEW S, S \subseteq OfDay(u, day)
    PROVE  /\ IsFiniteSet(S)
           /\ \A x \in S : /\ x \in Stored /\ x \in Sessions
                           /\ row[x].user = u /\ row[x].day = day
                           /\ Accrued[x] = row[x].accrued /\ Accrued[x] \in Nat
           /\ SumFunctionOnSet(Accrued, S) \in Nat
  <1>1. IsFiniteSet(S)
    BY FS_Subset, ConstantsAssumption DEF OfDay, Stored
  <1>2. \A x \in S : /\ x \in Stored /\ x \in Sessions
                     /\ row[x].user = u /\ row[x].day = day
                     /\ Accrued[x] = row[x].accrued /\ Accrued[x] \in Nat
    BY DEF OfDay, Stored, Accrued, TypeOK, Row
  <1>3. \A x \in S : Accrued[x] \in Nat
    BY <1>2
  <1>4. SumFunctionOnSet(Accrued, S) \in Nat
    BY <1>1, <1>3, SumOfNaturals
  <1> QED
    BY <1>1, <1>2, <1>4

\* Sessions that are not live consume what they have settled, whatever time it is.
LEMMA PausedSums ==
    ASSUME TypeOK, ChargedOnlyWhileScanning, NEW u, NEW day,
           NEW S, S \subseteq OfDay(u, day), \A x \in S : ~Live(x)
    PROVE  SumFunctionOnSet(Consumed(now), S) = SumFunctionOnSet(Accrued, S)
  <1>1. PICK f : f = Consumed(now)
    OBVIOUS
  <1>2. PICK g : g = Accrued
    OBVIOUS
  <1>3. ASSUME NEW x \in S PROVE f[x] = g[x]
    <2>0. x \in Stored /\ x \in Sessions
      BY DEF OfDay, Stored
    <2>1. x \in Stored /\ x \in Sessions /\ g[x] = row[x].accrued
      BY <1>2, <2>0 DEF Accrued
    <2>2. row[x] \in Row /\ now \in Nat
      BY <2>1 DEF TypeOK
    <2>3. row[x].status # Scanning
      BY LegalType DEF Live, Status
    <2>4. row[x].clock = None
      BY <2>1, <2>3 DEF ChargedOnlyWhileScanning
    <2>5. Elapsed(row[x], now) = row[x].accrued
      BY <2>2, <2>4, ElapsedIs
    <2> QED
      BY <1>1, <2>1, <2>5 DEF Consumed
  <1>4. IsFiniteSet(S)
    BY DaySums
  <1>5. SumFunctionOnSet(f, S) = SumFunctionOnSet(g, S)
    BY <1>3, <1>4, SumAgrees
  <1> QED
    BY <1>1, <1>2, <1>5

\* Sessions whose settled seconds did not move add up to the same.
LEMMA UnmovedSums ==
    ASSUME TypeOK, NEW u, NEW day, NEW S, S \subseteq OfDay(u, day),
           \A x \in S : row'[x].accrued = row[x].accrued
    PROVE  SumFunctionOnSet(Accrued', S) = SumFunctionOnSet(Accrued, S)
  <1>1. PICK f : f = Accrued'
    OBVIOUS
  <1>2. PICK g : g = Accrued
    OBVIOUS
  <1>3. ASSUME NEW x \in S PROVE f[x] = g[x]
    BY <1>1, <1>2, DaySums DEF Accrued
  <1>4. IsFiniteSet(S)
    BY DaySums
  <1>5. SumFunctionOnSet(f, S) = SumFunctionOnSet(g, S)
    BY <1>3, <1>4, SumAgrees
  <1> QED
    BY <1>1, <1>2, <1>5

\* Only the settled seconds of a live session move, and no other live session has
\* it among the others of its day.
LEMMA GrantsKept ==
    ASSUME TypeOK, OneLivePerUser, GrantsMatch, NEW s \in Stored,
           \A o \in Sessions \ {s} : row'[o] = row[o],
           row'[s].user = row[s].user, row'[s].day = row[s].day,
           row'[s].granted = row[s].granted,
           row'[s].status # Absent,
           Live(s)' => Live(s),
           Live(s) \/ row'[s].accrued = row[s].accrued
    PROVE  GrantsMatch'
  <1>0. \A o \in Sessions : /\ row'[o].user = row[o].user /\ row'[o].day = row[o].day
                            /\ row'[o].granted = row[o].granted
                            /\ row'[o].status # Absent <=> row[o].status # Absent
                            /\ Live(o)' => Live(o)
    BY DEF Stored, Live
  <1>1. Stored' = Stored
    BY <1>0 DEF Stored
  <1>2. \A u, day : OfDay(u, day)' = OfDay(u, day)
    BY <1>0, <1>1 DEF OfDay, Stored
  <1> SUFFICES ASSUME NEW o \in Stored, Live(o)'
               PROVE  GrantFits(o)'
    BY <1>1 DEF GrantsMatch
  <1>3. o \in Sessions /\ Live(o) /\ GrantFits(o)
    BY <1>0 DEF Stored, GrantsMatch
  <1>4. PICK u, day : u = row[o].user /\ day = row[o].day
    OBVIOUS
  <1>5. PICK S : S = OfDay(u, day) \ {o}
    OBVIOUS
  <1>6. ASSUME NEW x \in S PROVE row'[x].accrued = row[x].accrued
    <2>1. x \in Stored /\ x \in Sessions /\ row[x].user = u /\ x # o
      BY <1>5 DEF OfDay, Stored
    <2>2. CASE x = s
      <3>1. ~Live(s)
        BY <1>3, <1>4, <2>1, <2>2 DEF OneLivePerUser
      <3> QED
        BY <2>2, <3>1
    <2> QED
      BY <2>1, <2>2
  <1>7. S \subseteq OfDay(u, day)
    BY <1>5
  <1>8. SumFunctionOnSet(Accrued', S) = SumFunctionOnSet(Accrued, S)
    BY <1>6, <1>7, UnmovedSums
  <1>9. row'[o].user = u /\ row'[o].day = day /\ row'[o].granted = row[o].granted
    BY <1>0, <1>3, <1>4
  <1>10. OfDay(u, day)' \ {o} = S
    BY <1>2, <1>5
  <1>11. SumFunctionOnSet(Accrued, S) + row[o].granted <= DailyQuota
    BY <1>3, <1>4, <1>5 DEF GrantFits
  <1>12. SumFunctionOnSet(Accrued', S) + row'[o].granted <= DailyQuota
    BY <1>8, <1>9, <1>11
  <1> QED
    BY <1>9, <1>10, <1>12 DEF GrantFits

\* start() grants no more than the tenant's day has left.
LEMMA ReadFits ==
    ASSUME SerialInv, AsksMatch, NEW t \in Threads, StartReadQuota(t),
           NEW left \in 1..DailyQuota, left = RemainingToday(call[t].user, now),
           NoneLives(call[t].user)
    PROVE  Settled(call[t].user, TradingDay(call[t].at)) + Granted(call[t].left, left)
             <= DailyQuota
  <1>1. TradingDay(call[t].at) = TradingDay(now)
    BY DEF AsksMatch, AskFits, StartReadQuota, At
  <1>2. PICK u, day : u = call[t].user /\ day = TradingDay(now)
    OBVIOUS
  <1>3. PICK S : S = OfDay(u, day)
    OBVIOUS
  <1>4. \A x \in S : ~Live(x)
    BY <1>2, <1>3 DEF NoneLives, OfDay
  <1>5. SumFunctionOnSet(Consumed(now), S) = SumFunctionOnSet(Accrued, S)
    BY <1>3, <1>4, PausedSums DEF SerialInv
  <1>6. PICK n : n = SumFunctionOnSet(Accrued, S)
    OBVIOUS
  <1>7. n \in Nat
    BY <1>3, <1>6, DaySums DEF SerialInv
  <1>8. UsedToday(u, now) = n
    BY <1>2, <1>3, <1>5, <1>6 DEF UsedToday
  <1>9. left = AtLeastZero(DailyQuota - n)
    BY <1>2, <1>8 DEF RemainingToday
  <1>10. left \in Nat /\ n + left <= DailyQuota
    BY <1>7, <1>9, ConstantsAssumption DEF AtLeastZero
  <1>11. call[t].left \in Nat
    BY DEF SerialInv, TypeOK, Call
  <1>12. Granted(call[t].left, left) \in Nat /\ Granted(call[t].left, left) <= left
    BY <1>10, <1>11 DEF Granted, AtMost
  <1>13. Settled(call[t].user, TradingDay(call[t].at)) = n
    BY <1>1, <1>2, <1>3, <1>6 DEF Settled
  <1> QED
    BY <1>7, <1>10, <1>12, <1>13, ConstantsAssumption

\* start() keeps the quota: what it inserts is what the others of the day left.
LEMMA InsertFits ==
    ASSUME OneCaller, SerialInv, GrantsMatch, AsksMatch, NEW t \in Threads, StartInsert(t)
    PROVE  GrantsMatch'
  <1> DEFINE i == CHOOSE s \in Sessions \ Stored : TRUE
  <1>0. PICK s \in Sessions : s = i /\ s \notin Stored
    BY DEF StartInsert
  <1>1. PICK u, day, left : /\ u = call[t].user /\ day = TradingDay(call[t].at)
                            /\ left = call[t].left
    OBVIOUS
  <1>2. /\ row'[s].status = Scanning
        /\ row'[s].user = u /\ row'[s].day = day /\ row'[s].granted = left
        /\ \A o \in Sessions \ {s} : row'[o] = row[o]
    BY <1>0, <1>1 DEF StartInsert, Write, SerialInv, TypeOK, NoRow
  <1> HIDE DEF i
  <1>3. \A o \in Stored : ~(Live(o) /\ row[o].user = u)
    BY <1>1 DEF StartInsert, At, SerialInv, CallsMatchRows
  <1>4. SumFunctionOnSet(Accrued, OfDay(u, day)) + left <= DailyQuota
    BY <1>1, <1>3 DEF StartInsert, At, AsksMatch, AskFits, NoneLives, Settled
  <1>5. Stored' = Stored \cup {s}
    BY <1>2 DEF Stored, Scanning, Absent
  <1>6. \A v, d : OfDay(v, d)' \ {s} = OfDay(v, d)
    BY <1>0, <1>2, <1>5 DEF OfDay, Stored
  <1> SUFFICES ASSUME NEW o \in Stored', Live(o)'
               PROVE  GrantFits(o)'
    BY DEF GrantsMatch
  <1>7. CASE o = s
    <2>1. PICK S : S = OfDay(u, day)
      OBVIOUS
    <2>2. \A x \in S : row'[x].accrued = row[x].accrued
      BY <1>0, <1>2, <2>1 DEF OfDay, Stored
    <2>3. SumFunctionOnSet(Accrued', S) = SumFunctionOnSet(Accrued, S)
      BY <2>1, <2>2, UnmovedSums DEF SerialInv
    <2>4. SumFunctionOnSet(Accrued', S) + row'[s].granted <= DailyQuota
      BY <1>2, <1>4, <2>1, <2>3
    <2>5. OfDay(u, day)' \ {s} = S
      BY <1>6, <2>1
    <2> QED
      BY <1>2, <1>7, <2>4, <2>5 DEF GrantFits
  <1>8. CASE o # s
    <2>1. o \in Stored /\ o \in Sessions /\ row'[o] = row[o] /\ Live(o) /\ row[o].user # u
      BY <1>2, <1>3, <1>5, <1>8 DEF Stored, Live
    <2>2. PICK v, d : v = row[o].user /\ d = row[o].day
      OBVIOUS
    <2>3. PICK S : S = OfDay(v, d) \ {o}
      OBVIOUS
    <2>4. S \subseteq OfDay(v, d)
      BY <2>3
    <2>5. \A x \in S : row'[x].accrued = row[x].accrued
      BY <1>0, <1>2, <2>3 DEF OfDay, Stored
    <2>6. SumFunctionOnSet(Accrued', S) = SumFunctionOnSet(Accrued, S)
      BY <2>4, <2>5, UnmovedSums DEF SerialInv
    <2>7. SumFunctionOnSet(Accrued, S) + row[o].granted <= DailyQuota
      BY <2>1, <2>2, <2>3 DEF GrantsMatch, GrantFits
    <2>8. OfDay(v, d)' = OfDay(v, d)
      <3>1. s \notin OfDay(v, d)'
        BY <1>2, <2>1, <2>2 DEF OfDay
      <3> QED
        BY <1>6, <3>1
    <2>9. OfDay(v, d)' \ {o} = S
      BY <2>3, <2>8
    <2>10. SumFunctionOnSet(Accrued', S) + row'[o].granted <= DailyQuota
      BY <2>1, <2>6, <2>7
    <2> QED
      BY <2>1, <2>2, <2>9, <2>10 DEF GrantFits
  <1> QED
    BY <1>7, <1>8
-----------------------------------------------------------------------------
(* Each step of one caller keeps the quota. *)

\* Where the callers of the other methods are after each of their steps.
LEMMA NotInStart ==
    ASSUME OneCaller, TypeOK, NEW t \in Threads,
           \/ Return(t)
           \/ \E c \in Call : c.pc \notin {"quota", "start", "insert"} /\ Enter(t, c)
    PROVE  AsksMatch'
  <1>1. call'[t].pc \notin {"quota", "start", "insert"}
    BY IdleFields DEF Return, Enter, TypeOK
  <1> QED
    BY <1>1, NoAsk

LEMMA LoadNotInStart ==
    ASSUME OneCaller, TypeOK, NEW t \in Threads, NEW s \in Sessions, NEW to \in Status,
           NEW why \in EndReason, Load(t, s, to, why)
    PROVE  AsksMatch' /\ UNCHANGED <<row, straddled>>
  <1> DEFINE c == [Idle EXCEPT !.pc = "settle", !.sid = s, !.to = to, !.why = why,
                               !.at = now, !.loaded = row[s]]
  <1>1. row[s] \in Row /\ now \in Nat /\ "settle" \in PC
    BY DEF TypeOK, PC
  <1>2. c \in Call /\ c.pc = "settle"
    BY <1>1, IdleType DEF Call
  <1>3. Enter(t, c) /\ UNCHANGED <<row, straddled>>
    BY DEF Load
  <1> HIDE DEF c
  <1> QED
    BY <1>2, <1>3, NotInStart

LEMMA TickNotInStart ==
    ASSUME OneCaller, TypeOK, NEW t \in Threads, NEW s \in Sessions, TickRead(t, s)
    PROVE  AsksMatch'
  <1> DEFINE c(w) == [Idle EXCEPT !.pc = "ending", !.sid = s, !.why = w]
  <1>1. \A w \in EndReason : c(w) \in Call /\ c(w).pc = "ending"
    BY IdleType DEF Call, PC
  <1>2. \/ Return(t)
        \/ Enter(t, c(CostCapped))
        \/ Enter(t, c(QuotaExhausted))
    BY DEF TickRead
  <1>3. CostCapped \in EndReason /\ QuotaExhausted \in EndReason
    BY DEF EndReason
  <1> HIDE DEF c
  <1> QED
    BY <1>1, <1>2, <1>3, NotInStart

LEMMA StartQuota ==
    ASSUME OneCaller, SerialInv, GrantsMatch, AsksMatch, NEW t \in Threads, Start(t)
    PROVE  GrantsMatch' /\ AsksMatch' /\ straddled' = straddled
  <1>0. call[t] \in Call /\ TypeOK /\ (\A u \in Threads : u = t)
    BY DEF SerialInv, TypeOK, OneCaller
  <1> SUFFICES GrantsMatch' /\ AsksMatch'
    BY DEF Start, StartSample, StartReadQuota, StartReadActive, StartInsert
  <1>1. ASSUME NEW u \in Users, NEW ask \in Asks, StartSample(t, u, ask)
        PROVE  GrantsMatch' /\ AsksMatch'
    <2>1. UNCHANGED <<now, row>>
      BY <1>1 DEF StartSample
    <2>2. call'[t].pc = "quota" /\ call'[t].at = now
      BY <1>0, <1>1 DEF StartSample, Enter, TypeOK, Idle
    <2>3. AskFits(call[t])'
      BY <2>1, <2>2 DEF AskFits
    <2> QED
      BY <1>0, <2>1, <2>3, SameGrants DEF AsksMatch
  <1>2. CASE StartReadQuota(t)
    <2>1. UNCHANGED <<now, row>>
      BY <1>2 DEF StartReadQuota
    <2>2. CASE Return(t)
      BY <1>0, <2>1, <2>2, NotInStart, SameGrants
    <2>3. ASSUME NEW left \in 1..DailyQuota, left = RemainingToday(call[t].user, now),
                 Enter(t, [call[t] EXCEPT !.pc = "start", !.left = Granted(@, left)])
          PROVE  AsksMatch'
      <3>1. PICK c, u, at, n : /\ c = [call[t] EXCEPT !.pc = "start",
                                                      !.left = Granted(@, left)]
                               /\ u = call[t].user /\ at = call[t].at
                               /\ n = Granted(call[t].left, left)
        OBVIOUS
      <3>2. call'[t] = c /\ c.pc = "start" /\ c.user = u /\ c.at = at /\ c.left = n
        BY <1>0, <2>3, <3>1 DEF Enter, TypeOK, Call
      <3>3. NoneLives(u) => Settled(u, TradingDay(at)) + n <= DailyQuota
        BY <1>2, <2>3, <3>1, ReadFits
      <3>4. NoneLives(u)' => Settled(u, TradingDay(at))' + n <= DailyQuota
        BY <2>1, <3>3, SameGrants
      <3>5. AskFits(c)'
        BY <3>2, <3>4 DEF AskFits
      <3> QED
        BY <1>0, <3>2, <3>5 DEF AsksMatch
    <2> QED
      BY <1>2, <2>1, <2>2, <2>3, SameGrants DEF StartReadQuota
  <1>3. CASE StartReadActive(t)
    <2>1. UNCHANGED <<now, row>>
      BY <1>3 DEF StartReadActive
    <2>2. CASE Return(t)
      BY <1>0, <2>1, <2>2, NotInStart, SameGrants
    <2>3. CASE Enter(t, [call[t] EXCEPT !.pc = "insert"])
      <3>1. PICK c, u, at, n : /\ c = [call[t] EXCEPT !.pc = "insert"]
                               /\ u = call[t].user /\ at = call[t].at /\ n = call[t].left
        OBVIOUS
      <3>2. call'[t] = c /\ c.pc = "insert" /\ c.user = u /\ c.at = at /\ c.left = n
        BY <1>0, <2>3, <3>1 DEF Enter, TypeOK, Call
      <3>3. NoneLives(u) => Settled(u, TradingDay(at)) + n <= DailyQuota
        BY <1>3, <3>1 DEF StartReadActive, At, AsksMatch, AskFits
      <3>4. NoneLives(u)' => Settled(u, TradingDay(at))' + n <= DailyQuota
        BY <2>1, <3>3, SameGrants
      <3>5. AskFits(c)'
        BY <3>2, <3>4 DEF AskFits
      <3>6. AsksMatch'
        BY <1>0, <3>2, <3>5 DEF AsksMatch
      <3> QED
        BY <2>1, <3>6, SameGrants
    <2> QED
      BY <1>3, <2>2, <2>3 DEF StartReadActive
  <1>4. CASE StartInsert(t)
    <2>1. Return(t)
      BY <1>4 DEF StartInsert
    <2> QED
      BY <1>0, <1>4, <2>1, InsertFits, NotInStart
  <1> QED
    BY <1>1, <1>2, <1>3, <1>4 DEF Start

LEMMA TransitionQuota ==
    ASSUME OneCaller, SerialInv, GrantsMatch, NEW t \in Threads, Transition(t)
    PROVE  GrantsMatch' /\ AsksMatch' /\ straddled' = straddled
  <1>0. call[t] \in Call /\ TypeOK
    BY DEF SerialInv, TypeOK
  <1>1. ASSUME NEW s \in Sessions,
               \/ Propose(t, s)
               \/ Reject(t, s)
               \/ Approve(t, s)
               \/ \E why \in Reasons : End(t, s, why)
        PROVE  AsksMatch' /\ UNCHANGED <<row, straddled>>
    BY <1>0, <1>1, LoadNotInStart, ConstantsAssumption
       DEF Propose, Reject, Approve, End, Status, EndReason
  <1>2. CASE EndLoad(t)
    <2>1. CASE Load(t, call[t].sid, Ended, call[t].why)
      <3>1. call[t].sid \in Sessions /\ call[t].why \in EndReason /\ Ended \in Status
        BY <1>0 DEF Call, Status
      <3> QED
        BY <1>0, <2>1, <3>1, LoadNotInStart, SameGrants
    <2>2. CASE Return(t) /\ UNCHANGED <<now, row, proven, crashes, backsteps, straddled>>
      BY <1>0, <2>2, NotInStart, SameGrants
    <2> QED
      BY <1>2, <2>1, <2>2 DEF EndLoad
  <1>3. CASE Settle(t)
    <2>1. PICK s : s = call[t].sid
      OBVIOUS
    <2>2. /\ s \in Stored
          /\ row[s].status \in Status \ {Ended}
          /\ call[t].to \in LEGAL[row[s].status]
          /\ \A o \in Sessions \ {s} : row'[o] = row[o]
          /\ row'[s].user = row[s].user
          /\ row'[s].granted = row[s].granted /\ row'[s].day = row[s].day
          /\ row'[s].status = call[t].to
      BY <1>0, <1>3, <2>1, SerialSettle DEF SerialInv
    <2>3. Live(s) /\ row'[s].status # Absent
      BY <2>2, LegalType DEF Live
    <2>4. GrantsMatch'
      BY <2>2, <2>3, GrantsKept DEF SerialInv
    <2>5. Return(t) /\ straddled' = straddled
      BY <1>3 DEF Settle
    <2> QED
      BY <1>0, <2>4, <2>5, NotInStart
  <1> QED
    BY <1>1, <1>2, <1>3, SameGrants DEF Transition

LEMMA CapacityLossQuota ==
    ASSUME OneCaller, SerialInv, GrantsMatch, NEW t \in Threads, CapacityLoss(t)
    PROVE  GrantsMatch' /\ AsksMatch' /\ straddled' = straddled
  <1>0. call[t] \in Call /\ TypeOK /\ now \in Nat
    BY DEF SerialInv, TypeOK
  <1>1. ASSUME NEW s \in Sessions, CapacityObserve(t, s)
        PROVE  GrantsMatch' /\ AsksMatch' /\ straddled' = straddled
    <2> DEFINE c == [Idle EXCEPT !.pc = "capacity", !.sid = s]
    <2>1. c \in Call /\ c.pc = "capacity"
      BY IdleType DEF Call, PC
    <2>2. Enter(t, c) /\ UNCHANGED <<row, straddled>>
      BY <1>1 DEF CapacityObserve
    <2> HIDE DEF c
    <2> QED
      BY <1>0, <2>1, <2>2, NotInStart, SameGrants
  <1>2. CASE CapacityLoad(t)
    <2> DEFINE c == [call[t] EXCEPT !.pc = "refund", !.at = now,
                                    !.loaded = row[call[t].sid]]
    <2>1. row[call[t].sid] \in Row
      BY <1>0 DEF TypeOK, Call
    <2>2. c \in Call /\ c.pc = "refund"
      BY <1>0, <2>1 DEF Call, PC
    <2>3. (Return(t) \/ Enter(t, c)) /\ UNCHANGED <<row, straddled>>
      BY <1>2 DEF CapacityLoad
    <2> HIDE DEF c
    <2> QED
      BY <1>0, <2>2, <2>3, NotInStart, SameGrants
  <1>3. CASE CapacityRefund(t)
    <2> DEFINE c == [Idle EXCEPT !.pc = "ending", !.sid = call[t].sid, !.why = CapacityLost]
    <2>1. c \in Call /\ c.pc = "ending"
      BY <1>0, IdleType DEF Call, PC, EndReason
    <2>2. Enter(t, c) /\ straddled' = straddled
      BY <1>3 DEF CapacityRefund
    <2> HIDE DEF c
    <2>3. PICK s : s = call[t].sid
      OBVIOUS
    <2>4. /\ s \in Stored
          /\ row[s].status = Scanning
          /\ \A o \in Sessions \ {s} : row'[o] = row[o]
          /\ row'[s].user = row[s].user
          /\ row'[s].granted = row[s].granted /\ row'[s].day = row[s].day
          /\ row'[s].status = row[s].status
      BY <1>0, <1>3, <2>3, SerialRefund DEF SerialInv
    <2>5. Live(s) /\ row'[s].status # Absent
      BY <2>4 DEF Live, Status, Scanning, Ended, Absent
    <2>6. GrantsMatch'
      BY <2>4, <2>5, GrantsKept DEF SerialInv
    <2> QED
      BY <1>0, <2>1, <2>2, <2>6, NotInStart
  <1> QED
    BY <1>1, <1>2, <1>3 DEF CapacityLoss

LEMMA MeterQuota ==
    ASSUME OneCaller, SerialInv, GrantsMatch, AsksMatch, NEW t \in Threads, Meter(t)
    PROVE  GrantsMatch' /\ AsksMatch' /\ straddled' = straddled
  <1>0. call[t] \in Call /\ TypeOK
    BY DEF SerialInv, TypeOK
  <1>1. ASSUME NEW s \in Sessions, TickLoad(t, s)
        PROVE  GrantsMatch' /\ AsksMatch' /\ straddled' = straddled
    BY <1>0, <1>1, TickNotInStart, SameGrants DEF TickLoad
  <1>2. ASSUME NEW s \in Sessions, NEW spend \in Costs, UsageLoad(t, s, spend)
        PROVE  GrantsMatch' /\ AsksMatch' /\ straddled' = straddled
    <2> DEFINE c == [Idle EXCEPT !.pc = "usage", !.sid = s, !.spend = spend,
                                 !.loaded = row[s]]
    <2>1. row[s] \in Row /\ spend \in Nat
      BY <1>0, ConstantsAssumption DEF TypeOK
    <2>2. c \in Call /\ c.pc = "usage"
      BY <2>1, IdleType DEF Call, PC
    <2>3. Enter(t, c) /\ UNCHANGED <<row, straddled>>
      BY <1>2 DEF UsageLoad
    <2> HIDE DEF c
    <2> QED
      BY <1>0, <2>2, <2>3, NotInStart, SameGrants
  <1>3. ASSUME NEW s \in Sessions, RecordCycle(t, s)
        PROVE  GrantsMatch' /\ AsksMatch' /\ straddled' = straddled
    <2>1. /\ s \in Stored /\ row[s] \in Row
          /\ row'[s] = [row[s] EXCEPT !.lastCycle = now]
          /\ \A o \in Sessions \ {s} : row'[o] = row[o]
          /\ UNCHANGED <<call, straddled>>
      BY <1>0, <1>3 DEF RecordCycle, Write, TypeOK
    <2>2. /\ row'[s].user = row[s].user /\ row'[s].day = row[s].day
          /\ row'[s].granted = row[s].granted /\ row'[s].status = row[s].status
          /\ row'[s].accrued = row[s].accrued
      BY <2>1 DEF Row
    <2>3. row'[s].status # Absent /\ (Live(s)' => Live(s))
      BY <2>1, <2>2 DEF Stored, Live
    <2>4. GrantsMatch'
      BY <2>1, <2>2, <2>3, GrantsKept DEF SerialInv
    <2>5. call'[t].pc = "idle"
      BY <1>3, <2>1 DEF RecordCycle, At
    <2>6. AsksMatch'
      BY <2>5, NoAsk
    <2> QED
      BY <2>1, <2>4, <2>6
  <1>4. CASE UsageCommit(t)
    <2> DEFINE c == [Idle EXCEPT !.pc = "tick", !.sid = call[t].sid]
    <2>1. c \in Call /\ c.pc = "tick"
      BY <1>0, IdleType DEF Call, PC
    <2>2. Enter(t, c) /\ straddled' = straddled
      BY <1>4 DEF UsageCommit
    <2> HIDE DEF c
    <2>3. PICK s : s = call[t].sid
      OBVIOUS
    <2>4. /\ s \in Stored
          /\ \A o \in Sessions \ {s} : row'[o] = row[o]
          /\ row'[s].user = row[s].user
          /\ row'[s].granted = row[s].granted /\ row'[s].day = row[s].day
          /\ row'[s].status = row[s].status
          /\ row'[s].accrued = row[s].accrued
      BY <1>0, <1>4, <2>3, SerialUsage DEF SerialInv
    <2>5. row'[s].status # Absent /\ (Live(s)' => Live(s))
      BY <2>4 DEF Stored, Live
    <2>6. GrantsMatch'
      BY <2>4, <2>5, GrantsKept DEF SerialInv
    <2> QED
      BY <1>0, <2>1, <2>2, <2>6, NotInStart
  <1>5. CASE UsageTick(t)
    <2>1. call[t].sid \in Sessions
      BY <1>0 DEF Call
    <2> QED
      BY <1>0, <1>5, <2>1, TickNotInStart, SameGrants DEF UsageTick
  <1> QED
    BY <1>1, <1>2, <1>3, <1>4, <1>5 DEF Meter

\* The wall clock moves: the day a start() has sampled is still today's, unless
\* midnight passed inside it.
LEMMA ClockQuota ==
    ASSUME GrantsMatch, AsksMatch, UNCHANGED <<row, call>>,
           straddled' = (straddled \/ Straddles), ~straddled'
    PROVE  GrantsMatch' /\ AsksMatch'
  <1>1. \A t \in Threads : At(t, "quota") => TradingDay(now') = TradingDay(now)
    BY DEF Straddles
  <1> SUFFICES ASSUME NEW t \in Threads
               PROVE  AskFits(call[t])'
    BY SameGrants DEF AsksMatch
  <1>2. PICK c : c = call[t]
    OBVIOUS
  <1>3. AskFits(c)
    BY <1>2 DEF AsksMatch
  <1>4. c.pc = "quota" => TradingDay(c.at) = TradingDay(now')
    BY <1>1, <1>2, <1>3 DEF AskFits, At
  <1>5. c.pc \in {"start", "insert"} /\ NoneLives(c.user)' =>
            Settled(c.user, TradingDay(c.at))' + c.left <= DailyQuota
    BY <1>3, SameGrants DEF AskFits
  <1>6. AskFits(c)'
    BY <1>4, <1>5 DEF AskFits
  <1>7. call'[t] = c
    BY <1>2
  <1> QED
    BY <1>6, <1>7 DEF AskFits

LEMMA QuotaStep ==
    ASSUME OneCaller
    PROVE  /\ Init => QuotaInv
           /\ SerialInv /\ QuotaInv /\ [Next]_vars => QuotaInv'
  <1>1. ASSUME Init PROVE QuotaInv
    <2>1. \A s \in Sessions : row[s].status = Absent
      BY <1>1 DEF Init, NoRow
    <2>2. \A t \in Threads : call[t].pc = "idle"
      BY <1>1, IdleFields DEF Init
    <2>3. GrantsMatch
      BY <2>1 DEF GrantsMatch, Stored
    <2>4. AsksMatch
      BY <2>2 DEF AsksMatch, AskFits
    <2> QED
      BY <2>3, <2>4 DEF QuotaInv
  <1>2. ASSUME SerialInv, QuotaInv, [Next]_vars, ~straddled' PROVE GrantsMatch' /\ AsksMatch'
    <2>0. ASSUME ~straddled PROVE GrantsMatch /\ AsksMatch
      BY <1>2, <2>0 DEF QuotaInv
    <2>1. ASSUME NEW t \in Threads, Start(t) PROVE GrantsMatch' /\ AsksMatch'
      <3>1. straddled' = straddled
        BY <2>1 DEF Start, StartSample, StartReadQuota, StartReadActive, StartInsert
      <3> QED
        BY <1>2, <2>0, <2>1, <3>1, StartQuota
    <2>2. ASSUME NEW t \in Threads, Transition(t) PROVE GrantsMatch' /\ AsksMatch'
      <3>1. straddled' = straddled
        BY <2>2 DEF Transition, Propose, Reject, Approve, End, EndLoad, Settle, Load
      <3> QED
        BY <1>2, <2>0, <2>2, <3>1, TransitionQuota
    <2>3. ASSUME NEW t \in Threads, CapacityLoss(t) PROVE GrantsMatch' /\ AsksMatch'
      <3>1. straddled' = straddled
        BY <2>3 DEF CapacityLoss, CapacityObserve, CapacityLoad, CapacityRefund
      <3> QED
        BY <1>2, <2>0, <2>3, <3>1, CapacityLossQuota
    <2>4. ASSUME NEW t \in Threads, Meter(t) PROVE GrantsMatch' /\ AsksMatch'
      <3>1. straddled' = straddled
        BY <2>4 DEF Meter, TickLoad, UsageLoad, RecordCycle, UsageCommit, UsageTick
      <3> QED
        BY <1>2, <2>0, <2>4, <3>1, MeterQuota
    <2>5. ASSUME NEW t \in Threads, Crash(t) PROVE GrantsMatch' /\ AsksMatch'
      <3>1. Return(t) /\ UNCHANGED <<row, straddled>>
        BY <2>5 DEF Crash
      <3> QED
        BY <1>2, <2>0, <3>1, NotInStart, SameGrants DEF SerialInv
    <2>6. ASSUME Advance \/ StepBack PROVE GrantsMatch' /\ AsksMatch'
      <3>1. UNCHANGED <<row, call>> /\ straddled' = (straddled \/ Straddles)
        BY <2>6 DEF Advance, StepBack
      <3>2. ~straddled
        BY <1>2, <3>1
      <3> QED
        BY <1>2, <2>0, <3>1, <3>2, ClockQuota
    <2>7. CASE UNCHANGED vars
      <3>1. UNCHANGED <<now, row, call, straddled>>
        BY <2>7 DEF vars
      <3>2. GrantsMatch /\ AsksMatch
        BY <1>2, <2>0, <3>1
      <3>3. AsksMatch'
        BY <3>1, <3>2 DEF AsksMatch, AskFits, NoneLives, Settled, Accrued, OfDay, Stored, Live
      <3> QED
        BY <3>1, <3>2, <3>3, SameGrants
    <2> QED
      BY <1>2, <2>1, <2>2, <2>3, <2>4, <2>5, <2>6, <2>7 DEF Next
  <1> QED
    BY <1>1, <1>2 DEF QuotaInv

\* The others of a live session's day are not live, so they consume what they have
\* settled.
LEMMA QuotaHolds == SerialInv /\ QuotaInv => GrantsFitDailyQuota
  <1> SUFFICES ASSUME SerialInv, GrantsMatch, NEW s \in Stored, Live(s)
               PROVE  SumFunctionOnSet(Consumed(now), OfDay(row[s].user, row[s].day) \ {s})
                        + row[s].granted <= DailyQuota
    BY DEF QuotaInv, GrantsFitDailyQuota, GrantsFit
  <1>1. PICK u, day : u = row[s].user /\ day = row[s].day
    OBVIOUS
  <1>2. PICK S : S = OfDay(u, day) \ {s}
    OBVIOUS
  <1>3. \A x \in S : ~Live(x)
    BY <1>1, <1>2 DEF OfDay, SerialInv, OneLivePerUser
  <1>4. S \subseteq OfDay(u, day)
    BY <1>2
  <1>5. SumFunctionOnSet(Consumed(now), S) = SumFunctionOnSet(Accrued, S)
    BY <1>3, <1>4, PausedSums DEF SerialInv
  <1>6. SumFunctionOnSet(Accrued, S) + row[s].granted <= DailyQuota
    BY <1>1, <1>2 DEF GrantsMatch, GrantFits
  <1> QED
    BY <1>1, <1>2, <1>5, <1>6

\* With calls that do not overlap and no midnight inside a start(), the sessions of
\* a tenant's day fit its quota: a live one was granted what the others left.
THEOREM SerialQuota ==
    ASSUME OneCaller
    PROVE  Spec => []GrantsFitDailyQuota
  <1>1. Init => SerialInv /\ QuotaInv
    BY SerialStep, QuotaStep
  <1>2. SerialInv /\ QuotaInv /\ [Next]_vars => SerialInv' /\ QuotaInv'
    BY SerialStep, QuotaStep
  <1>3. SerialInv /\ QuotaInv => GrantsFitDailyQuota
    BY QuotaHolds
  <1> QED
    BY <1>1, <1>2, <1>3, PTL DEF Spec
=============================================================================
