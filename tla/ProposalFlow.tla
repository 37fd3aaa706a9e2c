---------------------------- MODULE ProposalFlow ----------------------------
(***************************************************************************)
(* From a scan to a booked trade: the sessions of one tenant, the          *)
(* proposals of src/core/proposals.py, and the five actors that move them, *)
(* each of which awaits between its database calls:                        *)
(*   - the session's worker (src/core/session_pipeline.py): creates a      *)
(*     proposal, then pauses the session;                                  *)
(*   - the API's handlers (src/api/server.py): approve, reject, end;       *)
(*   - the daemon's command handler (src/multi_user_daemon.py), which      *)
(*     takes the commands of the `user_commands` channel one by one,       *)
(*     re-validates, books and marks the proposal;                         *)
(*   - the daemon's sweep, every 30 s;                                     *)
(*   - the meters (SessionManager.tick), which may end any live session.   *)
(* One call of the session manager or of the proposal service is one step  *)
(* here; SessionManager.tla opens the former up.                           *)
(***************************************************************************)
EXTENDS SessionStates, Integers, Sequences, FiniteSets

CONSTANTS
    NumSessions,    \* bound: sessions the tenant starts, one after another
    NumProposals,   \* bound: proposals created
    Requests,       \* API requests the tenant can have open at the same moment
    MaxQueue,       \* bound: commands waiting for the daemon
    MaxCrashes,     \* bound: deaths of the API or of the daemon
    FlowPlans       \* which of FaultKinds may happen together

\* slow_daemon       the API's 12 s wait ends before the command was answered
\* slow_scan         a scan proposes for a session that was ended meanwhile
\* slow_calls        a scan creates or proposes while a request of the tenant, or
\*                   the sweep of its session, is between two calls, or a request
\*                   comes while the scan is between the two
\* lapse_in_flight   the 180 s shelf life ends while the command is being handled
\* end_in_flight     a meter ends a session while the API handles a request for it
\* daemon_error      a call of the daemon's command handler raises
\* crash             the API or the daemon dies
FaultKinds == {"slow_daemon", "slow_scan", "slow_calls", "lapse_in_flight",
               "end_in_flight", "daemon_error", "crash"}

\* Instead of a request: its handler no longer waits for the reply.
Unheard == "unheard"

ASSUME FlowAssumption ==
    /\ NumSessions \in Nat \ {0}
    /\ NumProposals \in Nat \ {0}
    /\ MaxQueue \in Nat \ {0}
    /\ MaxCrashes \in Nat
    /\ Unheard \notin Requests
    /\ \A faults \in FlowPlans : faults \subseteq FaultKinds

Sessions == 1..NumSessions
Proposals == 1..NumProposals      \* in order of creation
Nobody == 0

\* Bound: bookings of one proposal.
MaxBookings == 2

VARIABLES
    session,    \* per session: its status
    proposal,   \* per proposal: its row
    lapsed,     \* proposals whose expires_at has passed
    booked,     \* per proposal: how often it was booked in the engine
    held,       \* proposals whose position is open in the engine
    worker,     \* per session: where its worker is in a cycle
    request,    \* per API request: where its handler is, and the reply key
    wire,       \* commands published and not yet taken by the daemon
    daemon,     \* where the daemon's command handler is
    sweep,      \* where the daemon's sweep is
    crashes,    \* deaths so far
    plan        \* what may go wrong in this behaviour

flow == <<session, proposal, lapsed, booked, held, worker, request, wire, daemon, sweep,
          crashes>>
vars == <<flow, plan>>

engine == <<booked, held>>
daemonTasks == <<worker, daemon, sweep, crashes>>

-----------------------------------------------------------------------------
ProposalStatus == {"absent", "proposed", "executed", "rejected", "expired", "invalidated"}

Worker == [pc : {"idle", "cycle", "checked", "created"}]

Replies == {"none", "approved", "declined", "retry"}

\* paused: the session was SETUP_PROPOSED when the request looked it up.
Request ==
    [pc : {"idle", "pending", "latest", "send", "await", "mark",
           "approving", "closing", "resuming", "ending"},
     kind : {"approve", "reject", "end"}, paused : BOOLEAN,
     s : Sessions \cup {Nobody}, p : Proposals \cup {Nobody}, reply : Replies]

Command == [r : Requests \cup {Unheard}, p : Proposals]

Daemon ==
    [pc : {"idle", "get", "revalidate", "recheck", "book", "mark", "reply"},
     r : Requests \cup {Unheard}, p : Proposals \cup {Nobody}, answer : Replies]

Sweep ==
    [pc : {"idle", "list", "pending", "latest", "approve", "close", "resume"},
     s : Sessions \cup {Nobody}]

TypeOK ==
    /\ session \in [Sessions -> Status \cup {Absent}]
    /\ proposal \in [Proposals ->
            [status : ProposalStatus, session : Sessions \cup {Nobody}]]
    /\ lapsed \subseteq Proposals
    /\ booked \in [Proposals -> 0..MaxBookings]
    /\ held \subseteq Proposals
    /\ worker \in [Sessions -> Worker]
    /\ request \in [Requests -> Request]
    /\ wire \in Seq(Command)
    /\ daemon \in Daemon
    /\ sweep \in Sweep
    /\ crashes \in 0..MaxCrashes
    /\ plan \in FlowPlans

WorkerIdle == [pc |-> "idle"]
NoRequest == [pc |-> "idle", kind |-> "end", paused |-> FALSE, s |-> Nobody,
              p |-> Nobody, reply |-> "none"]
DaemonIdle == [pc |-> "idle", r |-> Unheard, p |-> Nobody, answer |-> "none"]
SweepIdle == [pc |-> "idle", s |-> Nobody]

Init ==
    /\ session = [s \in Sessions |-> Absent]
    /\ proposal = [p \in Proposals |-> [status |-> "absent", session |-> Nobody]]
    /\ lapsed = {}
    /\ booked = [p \in Proposals |-> 0]
    /\ held = {}
    /\ worker = [s \in Sessions |-> WorkerIdle]
    /\ request = [r \in Requests |-> NoRequest]
    /\ wire = <<>>
    /\ daemon = DaemonIdle
    /\ sweep = SweepIdle
    /\ crashes = 0
    /\ plan \in FlowPlans

-----------------------------------------------------------------------------
(* The services, as one step of their caller sees them. *)

Live(s) == session[s] \in Status \ {Ended}

\* SessionManager._transition: raises on an illegal move; its callers in this
\* module catch that and go on.
Moves(s, to) == session[s] \in Status /\ to \in LEGAL[session[s]]

Transition(s, to) ==
    session' = IF Moves(s, to) THEN [session EXCEPT ![s] = to] ELSE session

SetStatus(p, status) == proposal' = [proposal EXCEPT ![p].status = status]

IsProposed(p) == p # Nobody /\ proposal[p].status = "proposed"

\* get_pending: the tenant's newest proposal still marked proposed, whatever its
\* session. One that lapsed is marked expired, and for the callers is no pending.
GetPending(p) ==
    LET open == {q \in Proposals : proposal[q].status = "proposed"}
    IN  \/ open = {} /\ p = Nobody /\ UNCHANGED proposal
        \/ \E new \in open :
              /\ \A o \in open : o <= new
              /\ IF new \in lapsed THEN p = Nobody /\ SetStatus(new, "expired")
                 ELSE p = new /\ UNCHANGED proposal

\* latest_for_session(s) is executed.
LatestExecuted(s) ==
    LET mine == {q \in Proposals : proposal[q].session = s}
    IN  \E q \in mine : (\A o \in mine : o <= q) /\ proposal[q].status = "executed"

-----------------------------------------------------------------------------
(* The tenant's session, its worker and its meters. *)

\* start(): one live session at a time; the ids are taken in order.
StartSession(s) ==
    /\ session[s] = Absent
    /\ \A o \in Sessions : ~Live(o) /\ (o < s => session[o] # Absent)
    /\ session' = [session EXCEPT ![s] = Scanning]
    /\ UNCHANGED <<proposal, lapsed, engine, request, wire, daemonTasks>>

\* tick() ends a session that is over a meter, paused or not; the capacity loss
\* path ends a scanning one.
MeterEnds(s) ==
    /\ Live(s)
    /\ "end_in_flight" \in plan \/ \A r \in Requests : request[r].s # s
    /\ Transition(s, Ended)
    /\ UNCHANGED <<proposal, lapsed, engine, request, wire, daemonTasks>>

WorkerGoes(s, pc) == worker' = [worker EXCEPT ![s].pc = pc]

\* run_cycle() found the session scanning.
CycleStart(s) ==
    /\ worker[s].pc = "idle"
    /\ session[s] = Scanning
    /\ WorkerGoes(s, "cycle")
    /\ UNCHANGED <<session, proposal, lapsed, engine, request, wire, daemon, sweep, crashes>>

\* analyze(): nothing is proposed while this session has a pending proposal.
CycleCheck(s) ==
    /\ worker[s].pc = "cycle"
    /\ \E p \in Proposals \cup {Nobody} :
        /\ GetPending(p)
        /\ WorkerGoes(s, IF p # Nobody /\ proposal[p].session = s THEN "idle" ELSE "checked")
    /\ UNCHANGED <<session, lapsed, engine, request, wire, daemon, sweep, crashes>>

\* No candidate, the tenant's agent declined, sizing refused the setup, or the
\* analysis failed.
CycleNothing(s) ==
    /\ worker[s].pc = "checked"
    /\ WorkerGoes(s, "idle")
    /\ UNCHANGED <<session, proposal, lapsed, engine, request, wire, daemon, sweep, crashes>>

\* The sweep has looked this session up and is not done with it, or a request any
\* session: what it decides is the tenant's newest proposal, of whichever session.
LookedUp(s) == sweep.s = s \/ \E r \in Requests : request[r].s # Nobody

CycleCreate(s) ==
    /\ worker[s].pc = "checked"
    /\ "slow_scan" \in plan \/ session[s] = Scanning
    /\ "slow_calls" \in plan \/ ~LookedUp(s)
    /\ \E p \in Proposals :
        /\ proposal[p].status = "absent"
        /\ \A o \in Proposals : o < p => proposal[o].status # "absent"
        /\ proposal' = [proposal EXCEPT ![p] = [status |-> "proposed", session |-> s]]
    /\ WorkerGoes(s, "created")
    /\ UNCHANGED <<session, lapsed, engine, request, wire, daemon, sweep, crashes>>

\* propose(): illegal if the session is no longer scanning; the cycle then fails
\* and the proposal stays.
CyclePropose(s) ==
    /\ worker[s].pc = "created"
    /\ "slow_calls" \in plan \/ ~LookedUp(s)
    /\ Transition(s, SetupProposed)
    /\ WorkerGoes(s, "idle")
    /\ UNCHANGED <<proposal, lapsed, engine, request, wire, daemon, sweep, crashes>>

-----------------------------------------------------------------------------
(* The API's handlers of /api/session/approve, reject and end. *)

Goto(r, pc) == request' = [request EXCEPT ![r].pc = pc]
Respond(r) == request' = [request EXCEPT ![r] = NoRequest]

\* _owned_session: the live session, or 404. Approving needs it to be paused.
Arrive(r, kind) ==
    /\ request[r].pc = "idle"
    /\ \E s \in Sessions :
        /\ Live(s)
        /\ "slow_calls" \in plan \/ worker[s].pc # "created"
        /\ kind = "approve" => session[s] = SetupProposed
        /\ request' = [request EXCEPT ![r] =
              [NoRequest EXCEPT !.pc = "pending", !.kind = kind, !.s = s,
                                !.paused = session[s] = SetupProposed]]
    /\ UNCHANGED <<session, proposal, lapsed, engine, wire, daemonTasks>>

\* Mutant: an approval is dispatched without looking whether anything is pending.
AfterPendingUnchecked(req, p) ==
    CASE req.kind = "approve"                 -> "send"
      [] req.kind # "approve" /\ p # Nobody   -> "mark"
      [] req.kind = "reject" /\ p = Nobody    -> IF req.paused THEN "latest" ELSE "resuming"
      [] req.kind = "end" /\ p = Nobody       -> "ending"

\* What a handler does next with the pending proposal, or without one.
AfterPending(req, p) ==
    CASE req.kind = "approve"                 -> IF p # Nobody THEN "send" ELSE "latest"
      [] req.kind # "approve" /\ p # Nobody   -> "mark"
      [] req.kind = "reject" /\ p = Nobody    -> IF req.paused THEN "latest" ELSE "resuming"
      [] req.kind = "end" /\ p = Nobody       -> "ending"

ReadPending(r) ==
    /\ request[r].pc = "pending"
    /\ \E p \in Proposals \cup {Nobody} :
        /\ GetPending(p)
        /\ request' = [request EXCEPT ![r].pc = AfterPending(request[r], p), ![r].p = p]
    /\ UNCHANGED <<session, lapsed, engine, wire, daemonTasks>>

\* Recovery of a lost approve reply, or an honest resumption.
ReadLatest(r) ==
    /\ request[r].pc = "latest"
    /\ Goto(r, IF LatestExecuted(request[r].s) THEN "approving" ELSE "resuming")
    /\ UNCHANGED <<session, proposal, lapsed, engine, wire, daemonTasks>>

\* Publish the command; a channel nobody is subscribed to drops it.
Send(r) ==
    /\ request[r].pc = "send"
    /\ \/ /\ Len(wire) < MaxQueue
          /\ wire' = Append(wire, [r |-> r, p |-> request[r].p])
       \/ UNCHANGED wire
    /\ Goto(r, "await")
    /\ UNCHANGED <<session, proposal, lapsed, engine, daemonTasks>>

ReadReply(r) ==
    /\ request[r].pc = "await"
    /\ \/ request[r].reply = "approved" /\ Goto(r, "approving")
       \/ request[r].reply = "declined" /\ Goto(r, "resuming")
       \/ request[r].reply = "retry"    /\ Respond(r)
    /\ UNCHANGED <<session, proposal, lapsed, engine, wire, daemonTasks>>

\* A command of this request is queued or being handled.
InDaemon(r) == (\E i \in 1..Len(wire) : wire[i].r = r) \/ daemon.r = r

\* Nobody will look at the reply to this request's command any more.
Unhear(r) ==
    /\ wire' = [i \in 1..Len(wire) |->
                    IF wire[i].r = r THEN [wire[i] EXCEPT !.r = Unheard] ELSE wire[i]]
    /\ daemon' = IF daemon.r = r THEN [daemon EXCEPT !.r = Unheard] ELSE daemon

\* 504 after 12 s: the handler changes nothing.
TimeOut(r) ==
    /\ request[r].pc = "await"
    /\ "slow_daemon" \in plan \/ (~InDaemon(r) /\ request[r].reply = "none")
    /\ Respond(r)
    /\ Unhear(r)
    /\ UNCHANGED <<session, proposal, lapsed, engine, worker, sweep, crashes>>

\* reject and end decide the pending proposal before they move the session.
MarkRejected(r) ==
    /\ request[r].pc = "mark"
    /\ SetStatus(request[r].p, "rejected")
    /\ Goto(r, IF request[r].kind = "end" THEN "ending" ELSE "resuming")
    /\ UNCHANGED <<session, lapsed, engine, wire, daemonTasks>>

\* Mutant: the session is approved and never ended.
CloseApproveOnly(r) ==
    /\ request[r].pc = "approving"
    /\ Transition(request[r].s, Executing)
    /\ Respond(r)
    /\ UNCHANGED <<proposal, lapsed, engine, wire, daemonTasks>>

\* mgr.approve, then mgr.end(TRADE_OPENED) unless the first was refused.
CloseApprove(r) ==
    /\ request[r].pc = "approving"
    /\ Transition(request[r].s, Executing)
    /\ IF Moves(request[r].s, Executing) THEN Goto(r, "closing") ELSE Respond(r)
    /\ UNCHANGED <<proposal, lapsed, engine, wire, daemonTasks>>

\* The handler's last call: mgr.end or mgr.reject, whose refusal it swallows or
\* reports.
Finish(r) ==
    /\ \/ request[r].pc \in {"closing", "ending"} /\ Transition(request[r].s, Ended)
       \/ request[r].pc = "resuming" /\ Transition(request[r].s, Scanning)
    /\ Respond(r)
    /\ UNCHANGED <<proposal, lapsed, engine, wire, daemonTasks>>

Dies == "crash" \in plan /\ crashes < MaxCrashes /\ crashes' = crashes + 1

ApiCrash ==
    /\ Dies
    /\ \E r \in Requests : request[r].pc # "idle"
    /\ request' = [r \in Requests |-> NoRequest]
    /\ wire' = [i \in 1..Len(wire) |-> [wire[i] EXCEPT !.r = Unheard]]
    /\ daemon' = [daemon EXCEPT !.r = Unheard]
    /\ UNCHANGED <<session, proposal, lapsed, engine, worker, sweep>>

-----------------------------------------------------------------------------
(* The daemon's command handler, one command at a time. *)

DaemonGoes(pc) == daemon' = [daemon EXCEPT !.pc = pc]
Answer(answer) == daemon' = [daemon EXCEPT !.pc = "reply", !.answer = answer]

Take ==
    /\ daemon.pc = "idle"
    /\ wire # <<>>
    /\ daemon' = [DaemonIdle EXCEPT !.pc = "get", !.r = Head(wire).r, !.p = Head(wire).p]
    /\ wire' = Tail(wire)
    /\ UNCHANGED <<session, proposal, lapsed, engine, worker, request, sweep, crashes>>

\* no_pending_proposal is final; a missing live price may be retried.
DaemonGet ==
    /\ daemon.pc = "get"
    /\ \/ ~IsProposed(daemon.p) /\ Answer("declined")
       \/ IsProposed(daemon.p) /\ (Answer("retry") \/ DaemonGoes("revalidate"))
    /\ UNCHANGED <<session, proposal, lapsed, engine, worker, request, wire, sweep, crashes>>

\* Mutant: the row's status and shelf life are not looked at again.
RevalidateStale ==
    /\ daemon.pc = "revalidate"
    /\ UNCHANGED proposal /\ (DaemonGoes("recheck") \/ DaemonGoes("book"))
    /\ UNCHANGED <<session, lapsed, engine, worker, request, wire, sweep, crashes>>

\* ProposalService.revalidate: the row again, its shelf life, the invalidation
\* price, then the checks that leave it proposed (drift, sizing).
Revalidate ==
    /\ daemon.pc = "revalidate"
    /\ \/ ~IsProposed(daemon.p) /\ UNCHANGED proposal /\ DaemonGoes("recheck")
       \/ /\ IsProposed(daemon.p) /\ daemon.p \in lapsed
          /\ SetStatus(daemon.p, "expired") /\ DaemonGoes("recheck")
       \/ /\ IsProposed(daemon.p) /\ daemon.p \notin lapsed
          /\ \/ SetStatus(daemon.p, "invalidated") /\ DaemonGoes("recheck")
             \/ UNCHANGED proposal /\ (DaemonGoes("recheck") \/ DaemonGoes("book"))
    /\ UNCHANGED <<session, lapsed, engine, worker, request, wire, sweep, crashes>>

\* A refusal is retryable when the proposal is still proposed.
Recheck ==
    /\ daemon.pc = "recheck"
    /\ Answer(IF IsProposed(daemon.p) THEN "retry" ELSE "declined")
    /\ UNCHANGED <<session, proposal, lapsed, engine, worker, request, wire, sweep, crashes>>

\* evaluate_and_book: the risk gate or the engine may refuse, and refuses a
\* second position in the direction of one it holds.
Book ==
    /\ daemon.pc = "book"
    /\ \/ /\ daemon.p \notin held
          /\ booked[daemon.p] < MaxBookings
          /\ booked' = [booked EXCEPT ![daemon.p] = @ + 1]
          /\ held' = held \cup {daemon.p}
          /\ daemon' = [daemon EXCEPT !.pc = "mark", !.answer = "approved"]
       \/ /\ UNCHANGED engine
          /\ daemon' = [daemon EXCEPT !.pc = "mark", !.answer = "declined"]
    /\ UNCHANGED <<session, proposal, lapsed, worker, request, wire, sweep, crashes>>

\* Mutant: a booked proposal is not marked executed.
DaemonMarkForgets ==
    /\ daemon.pc = "mark"
    /\ IF daemon.answer = "approved" THEN UNCHANGED proposal ELSE SetStatus(daemon.p, "rejected")
    /\ DaemonGoes("reply")
    /\ UNCHANGED <<session, lapsed, engine, worker, request, wire, sweep, crashes>>

\* mark(EXECUTED) or mark(REJECTED), over whatever the row says by now.
DaemonMark ==
    /\ daemon.pc = "mark"
    /\ SetStatus(daemon.p, IF daemon.answer = "approved" THEN "executed" ELSE "rejected")
    /\ DaemonGoes("reply")
    /\ UNCHANGED <<session, lapsed, engine, worker, request, wire, sweep, crashes>>

\* A call raised, before or after the booking, or the tenant has no engine: the
\* reply says neither approved nor retryable.
DaemonFails ==
    /\ "daemon_error" \in plan
    /\ daemon.pc \notin {"idle", "reply"}
    /\ Answer("declined")
    /\ UNCHANGED <<session, proposal, lapsed, engine, worker, request, wire, sweep, crashes>>

\* The reply key; it lives 60 s, and only the request that waits reads it.
DaemonReply ==
    /\ daemon.pc = "reply"
    /\ request' = IF daemon.r = Unheard THEN request
                  ELSE [request EXCEPT ![daemon.r].reply = daemon.answer]
    /\ daemon' = DaemonIdle
    /\ UNCHANGED <<session, proposal, lapsed, engine, worker, wire, sweep, crashes>>

\* Positions are rebuilt on restart; commands and half-done tasks are not.
DaemonCrash ==
    /\ Dies
    /\ worker' = [s \in Sessions |-> WorkerIdle]
    /\ daemon' = DaemonIdle
    /\ sweep' = SweepIdle
    /\ wire' = <<>>
    /\ UNCHANGED <<session, proposal, lapsed, engine, request>>

-----------------------------------------------------------------------------
(* The daemon's sweep. *)

\* expire_stale
SweepExpire ==
    /\ sweep.pc = "idle"
    /\ proposal' = [p \in Proposals |->
            IF IsProposed(p) /\ p \in lapsed
            THEN [proposal[p] EXCEPT !.status = "expired"] ELSE proposal[p]]
    /\ sweep' = [sweep EXCEPT !.pc = "list"]
    /\ UNCHANGED <<session, lapsed, engine, worker, request, wire, daemon, crashes>>

\* active_sessions: the tenant's paused session, if there is one.
SweepList ==
    /\ sweep.pc = "list"
    /\ \/ \E s \in Sessions : /\ session[s] = SetupProposed
                              /\ sweep' = [pc |-> "pending", s |-> s]
       \/ /\ \A s \in Sessions : session[s] # SetupProposed
          /\ sweep' = SweepIdle
    /\ UNCHANGED <<session, proposal, lapsed, engine, worker, request, wire, daemon, crashes>>

SweepPending ==
    /\ sweep.pc = "pending"
    /\ \E p \in Proposals \cup {Nobody} :
        /\ GetPending(p)
        /\ sweep' = IF p # Nobody THEN SweepIdle ELSE [sweep EXCEPT !.pc = "latest"]
    /\ UNCHANGED <<session, lapsed, engine, worker, request, wire, daemon, crashes>>

\* Mutant: the scan is resumed without asking whether the proposal was executed.
SweepLatestBlind ==
    /\ sweep.pc = "latest"
    /\ sweep' = [sweep EXCEPT !.pc = "resume"]
    /\ UNCHANGED <<session, proposal, lapsed, engine, worker, request, wire, daemon, crashes>>

SweepLatest ==
    /\ sweep.pc = "latest"
    /\ sweep' = [sweep EXCEPT !.pc = IF LatestExecuted(sweep.s) THEN "approve" ELSE "resume"]
    /\ UNCHANGED <<session, proposal, lapsed, engine, worker, request, wire, daemon, crashes>>

SweepApprove ==
    /\ sweep.pc = "approve"
    /\ Transition(sweep.s, Executing)
    /\ sweep' = IF Moves(sweep.s, Executing) THEN [sweep EXCEPT !.pc = "close"] ELSE SweepIdle
    /\ UNCHANGED <<proposal, lapsed, engine, worker, request, wire, daemon, crashes>>

SweepFinish ==
    /\ \/ sweep.pc = "close" /\ Transition(sweep.s, Ended)
       \/ sweep.pc = "resume" /\ Transition(sweep.s, Scanning)
    /\ sweep' = SweepIdle
    /\ UNCHANGED <<proposal, lapsed, engine, worker, request, wire, daemon, crashes>>

-----------------------------------------------------------------------------
(* The environment. *)

\* 180 s after its creation a proposal's shelf life is over.
Lapse(p) ==
    /\ proposal[p].status # "absent"
    /\ p \notin lapsed
    /\ \A o \in Proposals : o < p => o \in lapsed
    /\ "lapse_in_flight" \in plan \/ daemon.pc \notin {"recheck", "book", "mark"}
    /\ lapsed' = lapsed \cup {p}
    /\ UNCHANGED <<session, proposal, engine, request, wire, daemonTasks>>

\* A bracket leg or the tenant closes the position.
PositionCloses(p) ==
    /\ p \in held
    /\ held' = held \ {p}
    /\ UNCHANGED <<session, proposal, lapsed, booked, request, wire, daemonTasks>>

-----------------------------------------------------------------------------
Cycle(s) ==
    CycleStart(s) \/ CycleCheck(s) \/ CycleNothing(s) \/ CycleCreate(s) \/ CyclePropose(s)

Handle(r) ==
    \/ ReadPending(r) \/ ReadLatest(r) \/ Send(r) \/ ReadReply(r) \/ TimeOut(r)
    \/ MarkRejected(r) \/ CloseApprove(r) \/ Finish(r)

HandleCommand ==
    \/ Take \/ DaemonGet \/ Revalidate \/ Recheck \/ Book \/ DaemonMark
    \/ DaemonFails \/ DaemonReply

SweepOnce ==
    \/ SweepExpire \/ SweepList \/ SweepPending \/ SweepLatest
    \/ SweepApprove \/ SweepFinish

Next ==
    /\ \/ \E s \in Sessions : StartSession(s) \/ MeterEnds(s) \/ Cycle(s)
       \/ \E r \in Requests : \/ \E kind \in {"approve", "reject", "end"} : Arrive(r, kind)
                              \/ Handle(r)
       \/ HandleCommand
       \/ SweepOnce
       \/ ApiCrash \/ DaemonCrash
       \/ \E p \in Proposals : Lapse(p) \/ PositionCloses(p)
    /\ UNCHANGED plan

Spec == Init /\ [][Next]_vars

\* The event loops go on: handlers, commands and the 30 s sweep make their calls,
\* and a shelf life runs out. The tenant, the scans and the meters owe nothing.
FairSpec ==
    /\ Spec
    /\ \A r \in Requests : WF_flow(Handle(r))
    /\ WF_flow(HandleCommand)
    /\ WF_flow(SweepOnce)
    /\ \A p \in Proposals : WF_flow(Lapse(p))

-----------------------------------------------------------------------------
(* Properties. Those marked "calm" hold with no fault and one request at a   *)
(* time; the violation run shows a fault that breaks one of them.            *)

Calm == plan = {}

BookedIn(s) == {p \in Proposals : proposal[p].session = s /\ booked[p] > 0}

\* Calm. The free tier's promise: one executed trade per session, whatever the
\* sweep, the shelf life and the handlers do around the booking.
OneTradePerSession ==
    \A s \in Sessions : \A p, q \in BookedIn(s) : p = q

\* Calm. A session that has traded is closed as trade_opened and never resumes
\* scanning, also when the approve reply was lost and a retry, a rejection or
\* the sweep must find that out.
TradedNeverScans ==
    \A s \in Sessions : session[s] = Scanning => BookedIn(s) = {}

\* Calm. A session is only moved to executing for a trade of its own.
ClosedWithTrade ==
    \A s \in Sessions : session[s] = Executing => BookedIn(s) # {}

\* Calm. A scanning session has no pending proposal of its own, except for the
\* moment between create and propose: it could neither propose nor approve.
NoDeadZone ==
    \A p \in Proposals :
        LET s == proposal[p].session
        IN  IsProposed(p) /\ session[s] = Scanning => worker[s].pc = "created"

\* With no fault: what a session, its proposals and its bookings say of each
\* other through approvals, rejections, expiries, ends and the sweep.
SessionTradesOnce ==
    Calm => /\ OneTradePerSession
            /\ TradedNeverScans
            /\ ClosedWithTrade
            /\ NoDeadZone

\* Calm. An executed proposal stays executed: no rejection, expiry or second
\* command overwrites the record of a trade that is in the market.
ExecutedStays ==
    [][\A p \in Proposals : Calm /\ proposal[p].status = "executed" =>
            proposal'[p].status = "executed"]_vars

\* Calm. What the daemon books is still proposed when it books it, though it
\* read the row several calls earlier.
BooksOnlyProposed ==
    [][\A p \in Proposals : Calm /\ booked'[p] # booked[p] =>
            proposal[p].status = "proposed"]_vars

\* Calm. What the daemon books belongs to the session that is paused on it, never
\* to an earlier one that left a proposal behind.
BooksForPausedSession ==
    [][\A p \in Proposals : Calm /\ booked'[p] # booked[p] =>
            session[proposal[p].session] = SetupProposed]_vars

\* With no fault: every booking is of a proposal that is still pending, for the
\* session that waits for it, and its record is final.
BookingsAreRightful == ExecutedStays /\ BooksOnlyProposed /\ BooksForPausedSession

\* Before any crash, and without errors in the daemon. A proposal is booked once, also when
\* the tenant approves again after a timeout with the first command still queued.
BookedOnce ==
    crashes = 0 /\ "daemon_error" \notin plan => \A p \in Proposals : booked[p] <= 1

\* A paused session never stays paused for good, whichever reply, command or
\* process is lost: the tenant's clock is stopped and only one session may live.
PausedHasWayOut ==
    \A s \in Sessions : session[s] = SetupProposed ~> session[s] # SetupProposed

\* While nothing crashes. A session moved to executing is ended: executing has no other
\* way out, the sweep does not look at it, and its meters stand still.
ApprovedCloses ==
    \A s \in Sessions :
        session[s] = Executing ~> session[s] = Ended \/ crashes > 0

\* No session is stuck between two states, neither paused nor executing.
SessionsMoveOn == PausedHasWayOut /\ ApprovedCloses
=============================================================================
