--------------------------- MODULE SessionManager ---------------------------
(***************************************************************************)
(* The metered sessions of src/core/session_manager.py.                    *)
(*                                                                         *)
(* A session is one row of the `sessions` table. Every method opens a      *)
(* transaction, loads the row, edits it and commits; nothing locks the row *)
(* and no version column is checked, so between the load and the commit of *)
(* one caller another caller (an API thread or the daemon, which are two   *)
(* processes on one database) may load or commit the same row. Several     *)
(* methods use two or three transactions in a row. The model keeps exactly *)
(* those boundaries: a caller in `Threads` runs one method at a time, one  *)
(* step per load and one per commit, and may crash between any two steps.  *)
(*                                                                         *)
(* Time is in whole seconds, as `int(...total_seconds())` makes it.        *)
(***************************************************************************)
EXTENDS SessionStates, Integers, FiniteSets, FiniteSetsExt, Functions

CONSTANTS
    Users,          \* tenants
    Sessions,       \* session ids that may be inserted
    Threads,        \* callers that can be inside a method at the same moment
    DailyQuota,     \* daily_quota_seconds
    CostCap,        \* cost_cap_micros, in units of spend
    Costs,          \* spends one LLM response may report
    Reasons,        \* reasons the callers of end() give
    Asks,           \* quota_seconds arguments of start(); 0 stands for None
    DayLength,      \* seconds of a trading day
    MaxTime,        \* bound: the clock stops here
    MaxCost,        \* bound: spend recorded on one session
    MaxCrashes,     \* bound: callers that die inside a method
    MaxBacksteps    \* bound: times the wall clock is set back

ASSUME ConstantsAssumption ==
    /\ Users # {}
    /\ Sessions # {}
    /\ IsFiniteSet(Sessions)
    /\ DailyQuota \in Nat \ {0}
    /\ CostCap \in Nat
    /\ Costs \subseteq Nat
    /\ Reasons \subseteq {UserEnded, TradeOpened}
    /\ Asks \subseteq Nat
    /\ DayLength \in Nat \ {0}
    /\ MaxTime \in Nat
    /\ MaxCost \in Nat
    /\ MaxCrashes \in Nat
    /\ MaxBacksteps \in Nat

VARIABLES
    now,        \* what self._now() returns
    row,        \* the sessions table
    call,       \* what each caller is in the middle of
    proven,     \* history: metered seconds of a session at its last reported cycle
    crashes,    \* callers that died so far
    backsteps,  \* times the wall clock went back so far
    straddled   \* history: the day changed between the two samples of a start()

vars == <<now, row, call, proven, crashes, backsteps, straddled>>

-----------------------------------------------------------------------------
\* A null timestamp.
None == -1

Time == Nat \cup {None}

Row == [ user      : Users,
         status    : Status \cup {Absent},
         granted   : Nat,
         accrued   : Nat,
         clock     : Time,
         cost      : Nat,
         lastCycle : Time,
         refunded  : Nat,
         day       : Nat,
         started   : Nat,
         why       : EndReason \cup {NoReason} ]

NoRow == [ user |-> CHOOSE u \in Users : TRUE, status |-> Absent, granted |-> 0,
           accrued |-> 0, clock |-> None, cost |-> 0, lastCycle |-> None,
           refunded |-> 0, day |-> 0, started |-> 0, why |-> NoReason ]

Stored == {s \in Sessions : row[s].status # Absent}
Live(s) == row[s].status \in Status \ {Ended}

-----------------------------------------------------------------------------
(* The clock of a row. *)

AtLeastZero(n) == IF n < 0 THEN 0 ELSE n
AtMost(n, m) == IF n < m THEN n ELSE m

TradingDay(at) == at \div DayLength

\* Mutant: without max(0, ...).
SegmentSigned(r, at) == IF r.clock = None THEN 0 ELSE at - r.clock

\* Seconds of the segment that is still running; a clock set back gives 0.
Segment(r, at) == IF r.clock = None THEN 0 ELSE AtLeastZero(at - r.clock)

Elapsed(r, at) == r.accrued + Segment(r, at)

PauseClock(r, at) == [r EXCEPT !.accrued = @ + Segment(r, at), !.clock = None]

ResumeClock(r, at) == IF r.clock = None THEN [r EXCEPT !.clock = at] ELSE r

\* What the sessions have consumed by then.
Consumed(at) == [s \in Sessions |-> Elapsed(row[s], at)]

\* A tenant's sessions of a day.
OfDay(u, day) == {s \in Stored : row[s].user = u /\ row[s].day = day}

\* Mutant: the day's ended sessions are forgotten.
UsedTodayByLive(u, at) ==
    SumFunctionOnSet(Consumed(at), {s \in OfDay(u, TradingDay(at)) : Live(s)})

UsedToday(u, at) == SumFunctionOnSet(Consumed(at), OfDay(u, TradingDay(at)))

RemainingToday(u, at) == AtLeastZero(DailyQuota - UsedToday(u, at))

-----------------------------------------------------------------------------
(* The edits the methods make to the row they loaded.                      *)

\* Mutant: coming back to a metered state does not restart the clock.
TransitionedUnresumed(r, to, at, why) ==
    [PauseClock(r, at) EXCEPT !.status = to, !.why = IF to = Ended THEN why ELSE @]

Transitioned(r, to, at, why) ==
    LET paused  == PauseClock(r, at)
        moved   == [paused EXCEPT !.status = to,
                                  !.why = IF to = Ended THEN why ELSE @]
    IN  IF to \in MeteredStates THEN ResumeClock(moved, at) ELSE moved

\* Mutant: the refund is not limited to what was accrued.
RefundedUnlimited(r, at) ==
    LET paused == PauseClock(r, at)
        mark   == IF r.lastCycle # None THEN r.lastCycle ELSE r.started
        refund == AtLeastZero(at - mark)
    IN  [paused EXCEPT !.accrued = @ - refund, !.refunded = @ + refund]

\* The dead time runs from the last reported cycle, or from the start.
Refunded(r, at) ==
    LET paused == PauseClock(r, at)
        mark   == IF r.lastCycle # None THEN r.lastCycle ELSE r.started
        refund == AtLeastZero(AtMost(at - mark, paused.accrued))
    IN  [paused EXCEPT !.accrued = @ - refund, !.refunded = @ + refund]

Charged(r, spend) == [r EXCEPT !.cost = @ + spend]

\* The commit writes the columns whose value the method changed, over whatever
\* the row holds by then. (No method edits the other columns.)
Column(loaded, edited, stored) == IF edited = loaded THEN stored ELSE edited

Flush(loaded, edited, stored) ==
    [stored EXCEPT
        !.status   = Column(loaded.status, edited.status, stored.status),
        !.accrued  = Column(loaded.accrued, edited.accrued, stored.accrued),
        !.clock    = Column(loaded.clock, edited.clock, stored.clock),
        !.cost     = Column(loaded.cost, edited.cost, stored.cost),
        !.refunded = Column(loaded.refunded, edited.refunded, stored.refunded),
        !.why      = Column(loaded.why, edited.why, stored.why)]

-----------------------------------------------------------------------------
(* Callers. pc names the next transaction step of the method a caller is in: *)
(*   idle      in no method                                                  *)
(*   quota     start(): its `now` is sampled, the quota is still to be read  *)
(*   start     start(): the quota is read, the live session is not           *)
(*   insert    start(): about to insert the row                              *)
(*   settle    _transition(): the row is loaded and edited, not committed    *)
(*   ending    about to call end(): from tick() or end_for_capacity_loss()   *)
(*   capacity  a scanning session was seen while analysis is down            *)
(*   refund    end_for_capacity_loss(): loaded, not committed                *)
(*   usage     record_llm_usage(): loaded, not committed                     *)
(*   tick      record_llm_usage(): committed, tick() still to run            *)

PC == {"idle", "quota", "start", "insert", "settle", "ending", "capacity",
       "refund", "usage", "tick"}

Call == [ pc     : PC,
          sid    : Sessions,
          user   : Users,
          left   : Nat,          \* start(): what was asked for, then what is granted
          to     : Status,
          why    : EndReason,
          at     : Nat,          \* the `now` the method sampled
          spend  : Nat,
          loaded : Row ]

Idle == [ pc |-> "idle", sid |-> CHOOSE s \in Sessions : TRUE,
          user |-> CHOOSE u \in Users : TRUE, left |-> 0, to |-> Ended,
          why |-> UserEnded, at |-> 0, spend |-> 0, loaded |-> NoRow ]

At(t, pc) == call[t].pc = pc

Enter(t, c) == call' = [call EXCEPT ![t] = c]

Return(t) == Enter(t, Idle)

Write(s, r) == row' = [row EXCEPT ![s] = r]

\* Commit the edit a caller holds.
Commit(t, edited) ==
    Write(call[t].sid, Flush(call[t].loaded, edited, row[call[t].sid]))

-----------------------------------------------------------------------------
TypeOK ==
    /\ now \in Nat
    /\ row \in [Sessions -> Row]
    /\ call \in [Threads -> Call]
    /\ proven \in [Sessions -> Nat]
    /\ crashes \in 0..MaxCrashes
    /\ backsteps \in 0..MaxBacksteps
    /\ straddled \in BOOLEAN

Init ==
    /\ now = 0
    /\ row = [s \in Sessions |-> NoRow]
    /\ call = [t \in Threads |-> Idle]
    /\ proven = [s \in Sessions |-> 0]
    /\ crashes = 0
    /\ backsteps = 0
    /\ straddled = FALSE

-----------------------------------------------------------------------------
(* start(): it samples `now`, and then remaining_today (with a `now` of its  *)
(* own), get_active and the insert are three transactions. A refusal (no    *)
(* time left, a live session) raises.                                       *)

StartSample(t, u, ask) ==
    /\ At(t, "idle")
    /\ Enter(t, [Idle EXCEPT !.pc = "quota", !.user = u, !.at = now, !.left = ask])
    /\ UNCHANGED <<now, row, proven, crashes, backsteps, straddled>>

\* What start() grants, asked for `ask` seconds or (0) for all that are left.
Granted(ask, left) == IF ask = 0 THEN left ELSE AtMost(ask, left)

StartReadQuota(t) ==
    /\ At(t, "quota")
    /\ \/ RemainingToday(call[t].user, now) = 0 /\ Return(t)
       \/ \E left \in 1..DailyQuota :
            /\ left = RemainingToday(call[t].user, now)
            /\ Enter(t, [call[t] EXCEPT !.pc = "start", !.left = Granted(@, left)])
    /\ UNCHANGED <<now, row, proven, crashes, backsteps, straddled>>

\* Mutant: only a scanning session counts as live.
StartReadActiveScanning(t) ==
    /\ At(t, "start")
    /\ IF \E s \in Sessions : row[s].status = Scanning /\ row[s].user = call[t].user
       THEN Return(t)
       ELSE Enter(t, [call[t] EXCEPT !.pc = "insert"])
    /\ UNCHANGED <<now, row, proven, crashes, backsteps, straddled>>

StartReadActive(t) ==
    /\ At(t, "start")
    /\ IF \E s \in Sessions : Live(s) /\ row[s].user = call[t].user
       THEN Return(t)
       ELSE Enter(t, [call[t] EXCEPT !.pc = "insert"])
    /\ UNCHANGED <<now, row, proven, crashes, backsteps, straddled>>

StartInsert(t) ==
    /\ At(t, "insert")
    /\ Sessions \ Stored # {}
    /\ Write(CHOOSE s \in Sessions \ Stored : TRUE,
             [NoRow EXCEPT !.user = call[t].user,
                           !.status = Scanning,
                           !.granted = call[t].left,
                           !.clock = call[t].at,
                           !.day = TradingDay(call[t].at),
                           !.started = call[t].at])
    /\ Return(t)
    /\ UNCHANGED <<now, proven, crashes, backsteps, straddled>>

-----------------------------------------------------------------------------
(* _transition(): propose, reject, approve and end.                         *)

\* Mutant: LEGAL is not checked.
LoadUnchecked(t, s, to, why) ==
    /\ s \in Stored
    /\ Enter(t, [Idle EXCEPT !.pc = "settle", !.sid = s, !.to = to, !.why = why,
                             !.at = now, !.loaded = row[s]])
    /\ UNCHANGED <<now, row, proven, crashes, backsteps, straddled>>

\* Load the row and check LEGAL; an illegal transition raises.
Load(t, s, to, why) ==
    /\ s \in Stored
    /\ to \in LEGAL[row[s].status]
    /\ Enter(t, [Idle EXCEPT !.pc = "settle", !.sid = s, !.to = to, !.why = why,
                             !.at = now, !.loaded = row[s]])
    /\ UNCHANGED <<now, row, proven, crashes, backsteps, straddled>>

Propose(t, s) == At(t, "idle") /\ Load(t, s, SetupProposed, UserEnded)
Reject(t, s)  == At(t, "idle") /\ Load(t, s, Scanning, UserEnded)
Approve(t, s) == At(t, "idle") /\ Load(t, s, Executing, UserEnded)
End(t, s, why) == At(t, "idle") /\ Load(t, s, Ended, why)

\* The same end() called by tick() and end_for_capacity_loss() once their own
\* transaction is closed. On an ended session it raises, and so returns.
EndLoad(t) ==
    /\ At(t, "ending")
    /\ \/ Load(t, call[t].sid, Ended, call[t].why)
       \/ /\ Ended \notin LEGAL[row[call[t].sid].status]
          /\ Return(t)
          /\ UNCHANGED <<now, row, proven, crashes, backsteps, straddled>>

Settle(t) ==
    /\ At(t, "settle")
    /\ Commit(t, Transitioned(call[t].loaded, call[t].to, call[t].at, call[t].why))
    /\ Return(t)
    /\ UNCHANGED <<now, proven, crashes, backsteps, straddled>>

-----------------------------------------------------------------------------
(* end_for_capacity_loss(), called by the API's tick loop for a session it   *)
(* has just seen scanning while analysis is down.                            *)

CapacityObserve(t, s) ==
    /\ At(t, "idle")
    /\ row[s].status = Scanning
    /\ Enter(t, [Idle EXCEPT !.pc = "capacity", !.sid = s])
    /\ UNCHANGED <<now, row, proven, crashes, backsteps, straddled>>

CapacityLoad(t) ==
    /\ At(t, "capacity")
    /\ IF row[call[t].sid].status = Ended
       THEN Return(t)
       ELSE Enter(t, [call[t] EXCEPT !.pc = "refund", !.at = now,
                                     !.loaded = row[call[t].sid]])
    /\ UNCHANGED <<now, row, proven, crashes, backsteps, straddled>>

CapacityRefund(t) ==
    /\ At(t, "refund")
    /\ Commit(t, Refunded(call[t].loaded, call[t].at))
    /\ Enter(t, [Idle EXCEPT !.pc = "ending", !.sid = call[t].sid, !.why = CapacityLost])
    /\ UNCHANGED <<now, proven, crashes, backsteps, straddled>>

-----------------------------------------------------------------------------
(* tick() and the two meters. *)

\* Cost is looked at first. A session within both meters is left alone.
TickRead(t, s) ==
    LET r        == row[s]
        overCost == r.cost >= CostCap
        overTime == Elapsed(r, now) >= r.granted
    IN  IF r.status # Ended /\ (overCost \/ overTime)
        THEN Enter(t, [Idle EXCEPT !.pc = "ending", !.sid = s,
                        !.why = IF overCost THEN CostCapped ELSE QuotaExhausted])
        ELSE Return(t)

TickLoad(t, s) ==
    /\ At(t, "idle")
    /\ s \in Stored
    /\ TickRead(t, s)
    /\ UNCHANGED <<now, row, proven, crashes, backsteps, straddled>>

UsageLoad(t, s, spend) ==
    /\ At(t, "idle")
    /\ s \in Stored
    /\ row[s].cost + spend <= MaxCost
    /\ Enter(t, [Idle EXCEPT !.pc = "usage", !.sid = s, !.spend = spend,
                             !.loaded = row[s]])
    /\ UNCHANGED <<now, row, proven, crashes, backsteps, straddled>>

UsageCommit(t) ==
    /\ At(t, "usage")
    /\ Commit(t, Charged(call[t].loaded, call[t].spend))
    /\ Enter(t, [Idle EXCEPT !.pc = "tick", !.sid = call[t].sid])
    /\ UNCHANGED <<now, proven, crashes, backsteps, straddled>>

UsageTick(t) ==
    /\ At(t, "tick")
    /\ TickRead(t, call[t].sid)
    /\ UNCHANGED <<now, row, proven, crashes, backsteps, straddled>>

\* record_cycle(): one blind write, so one step.
RecordCycle(t, s) ==
    /\ At(t, "idle")
    /\ s \in Stored
    /\ Write(s, [row[s] EXCEPT !.lastCycle = now])
    /\ proven' = [proven EXCEPT ![s] = Elapsed(row[s], now)]
    /\ UNCHANGED <<now, call, crashes, backsteps, straddled>>

-----------------------------------------------------------------------------
(* The environment. *)

Crash(t) ==
    /\ ~At(t, "idle")
    /\ crashes < MaxCrashes
    /\ crashes' = crashes + 1
    /\ Return(t)
    /\ UNCHANGED <<now, row, proven, backsteps, straddled>>

\* Does the day change while a start() has taken one of its two samples?
Straddles == TradingDay(now') # TradingDay(now) /\ \E t \in Threads : At(t, "quota")

Advance ==
    /\ now < MaxTime
    /\ now' = now + 1
    /\ straddled' = (straddled \/ Straddles)
    /\ UNCHANGED <<row, call, proven, crashes, backsteps>>

\* An NTP correction, or a restore onto a machine with skew.
StepBack ==
    /\ backsteps < MaxBacksteps
    /\ now > 0
    /\ now' = now - 1
    /\ straddled' = (straddled \/ Straddles)
    /\ backsteps' = backsteps + 1
    /\ UNCHANGED <<row, call, proven, crashes>>

-----------------------------------------------------------------------------
Start(t) ==
    \/ \E u \in Users, ask \in Asks : StartSample(t, u, ask)
    \/ StartReadQuota(t)
    \/ StartReadActive(t)
    \/ StartInsert(t)

Transition(t) ==
    \/ \E s \in Sessions :
        \/ Propose(t, s)
        \/ Reject(t, s)
        \/ Approve(t, s)
        \/ \E why \in Reasons : End(t, s, why)
    \/ EndLoad(t)
    \/ Settle(t)

CapacityLoss(t) ==
    \/ \E s \in Sessions : CapacityObserve(t, s)
    \/ CapacityLoad(t)
    \/ CapacityRefund(t)

Meter(t) ==
    \/ \E s \in Sessions :
        \/ TickLoad(t, s)
        \/ \E spend \in Costs : UsageLoad(t, s, spend)
        \/ RecordCycle(t, s)
    \/ UsageCommit(t)
    \/ UsageTick(t)

Next ==
    \/ \E t \in Threads : \/ Start(t)
                          \/ Transition(t)
                          \/ CapacityLoss(t)
                          \/ Meter(t)
                          \/ Crash(t)
    \/ Advance
    \/ StepBack

Spec == Init /\ [][Next]_vars

-----------------------------------------------------------------------------
(* Properties. Those marked "one caller" hold when calls do not overlap; the *)
(* runs with two callers show which of them overlapping calls break.         *)

\* One caller. A tenant never has two live sessions: start() reads the live
\* session before it inserts, so nothing may insert in between.
OneLivePerUser ==
    \A r, s \in Stored :
        (Live(r) /\ Live(s) /\ row[r].user = row[s].user) => r = s

\* What the day's other sessions consumed and what the live one was granted fit
\* the daily quota together.
GrantsFit ==
    \A s \in Stored :
        LET others == OfDay(row[s].user, row[s].day) \ {s}
        IN  Live(s) => SumFunctionOnSet(Consumed(now), others) + row[s].granted <= DailyQuota

\* One caller, until midnight passes inside a start(). However sessions are
\* started, ended and refunded over a day, also when callers die or the wall clock
\* is set back, they fit its quota: start() clamps the grant to what is left.
GrantsFitDailyQuota == ~straddled => GrantsFit

\* One caller. A clock runs on no paused, executing or ended session, so those
\* go on contributing exactly what they had accrued.
ChargedOnlyWhileScanning ==
    \A s \in Stored : row[s].clock # None => row[s].status = Scanning

\* The caller that has stopped the clock to end the session for lost capacity.
EndingForCapacity(s) ==
    \E t \in Threads : /\ call[t].sid = s
                       /\ call[t].why = CapacityLost
                       /\ call[t].pc \in {"ending", "settle"}

\* One caller, until it dies. A scanning session is being metered, except
\* between the two transactions that end it for lost capacity: a session that
\* scanned with a stopped clock would have unlimited time.
ScanningIsMetered ==
    crashes = 0 =>
        \A s \in Stored :
            row[s].status = Scanning => row[s].clock # None \/ EndingForCapacity(s)

\* One caller. Charged and refunded seconds together never exceed the wall-clock
\* age of the session, through any number of pauses, resumptions and refunds.
ChargedWithinWallClock ==
    backsteps = 0 =>
        \A s \in Stored :
            Elapsed(row[s], now) + row[s].refunded <= now - row[s].started

\* One caller. A session's time runs while it scans and only then, and no second
\* of it is charged or refunded twice.
MetersAreRight ==
    /\ ChargedOnlyWhileScanning
    /\ ScanningIsMetered
    /\ ChargedWithinWallClock

\* One caller. Seconds once settled on a session stay on its row, as charged or
\* as refunded ones, also when the wall clock is set back.
SettledTimeStays ==
    [][\A s \in Stored :
        row'[s].accrued + row'[s].refunded >= row[s].accrued + row[s].refunded]_vars

\* _transition()'s promise: the stored status only ever moves along LEGAL.
LegalMoves ==
    [][\A s \in Stored :
        row'[s].status # row[s].status => row'[s].status \in LEGAL[row[s].status]]_vars

\* end_for_capacity_loss()'s promise: only time after the last reported cycle is
\* handed back, so what was metered up to that cycle stays charged.
RefundKeepsProvenTime ==
    \A s \in Stored : row[s].why = CapacityLost => row[s].accrued >= proven[s]

\* One caller. What a caller inside a method still knows of the rows: nobody
\* else moved the row it loaded, and nobody inserted a session since it looked.
\* The other one-caller properties are inductive only together with this.
CallsMatchRows ==
    \A t \in Threads :
        LET c == call[t]
        IN  /\ c.pc \notin {"idle", "quota", "start", "insert"} => c.sid \in Stored
            /\ c.pc \in {"settle", "refund", "usage"} => c.loaded = row[c.sid]
            /\ c.pc = "settle" => c.to \in LEGAL[c.loaded.status]
            /\ c.pc \in {"capacity", "refund"} => row[c.sid].status = Scanning
            /\ c.pc = "ending" => row[c.sid].status # Ended
            /\ c.pc = "insert" =>
                \A s \in Stored : ~(Live(s) /\ row[s].user = c.user)

\* One caller, dying or not. The rows implement the abstract lifecycle: one live
\* session per tenant, legal moves only, and time charged only by scanning.
Lifecycle == INSTANCE SessionLifecycle WITH
        Legal <- LEGAL, Metered <- MeteredStates,
        Initial <- Scanning, Final <- Ended,
        status <- [s \in Sessions |-> row[s].status],
        owner <- [s \in Sessions |-> row[s].user],
        charge <- [s \in Sessions |-> Elapsed(row[s], now)]

ImplementsLifecycle == Lifecycle!Spec
=============================================================================
