------------------------- MODULE ProposalFlowProofs -------------------------
(***************************************************************************)
(* Theorems about ProposalFlow, for any number of sessions, proposals and  *)
(* commands: its type invariant, that a proposal is booked once whichever  *)
(* calls are slow and however many requests are open, and, of a behaviour  *)
(* with no fault and one request at a time, that a session trades once and *)
(* that what is booked is rightful.                                        *)
(***************************************************************************)
EXTENDS ProposalFlow, SequenceTheorems, TLAPS

-----------------------------------------------------------------------------
(* Types. *)

\* A handler that decides a proposal, and the daemon that handles a command, know
\* which one.
TypeInv ==
    /\ TypeOK
    /\ \A r \in Requests : request[r].pc \in {"send", "mark"} => request[r].p \in Proposals
    /\ daemon.pc # "idle" => daemon.p \in Proposals

\* The rows of the proposals.
Rows == [Proposals -> [status : ProposalStatus, session : Sessions \cup {Nobody}]]

\* mark() writes the status of one row.
LEMMA SetStatusOnly ==
    ASSUME TypeOK, NEW q \in Proposals, NEW status \in ProposalStatus, SetStatus(q, status)
    PROVE  /\ proposal' \in Rows
           /\ \A p \in Proposals \ {q} : proposal'[p] = proposal[p]
           /\ proposal'[q] = [proposal[q] EXCEPT !.status = status]
           /\ proposal'[q].status = status /\ proposal'[q].session = proposal[q].session
BY DEF SetStatus, TypeOK, Rows

\* get_pending() changes the row of a proposal whose shelf life is over, or none.
LEMMA GetPendingDecides ==
    ASSUME TypeOK, NEW q, GetPending(q)
    PROVE  \/ q \in Proposals \cup {Nobody} /\ UNCHANGED proposal
           \/ \E p \in Proposals :
                 /\ q = Nobody
                 /\ proposal[p].status = "proposed" /\ p \in lapsed
                 /\ SetStatus(p, "expired")
<1> DEFINE open == {o \in Proposals : proposal[o].status = "proposed"}
<1>1. CASE open = {} /\ q = Nobody /\ UNCHANGED proposal
  BY <1>1
<1>2. ASSUME NEW new \in open, new \in lapsed, q = Nobody, SetStatus(new, "expired")
      PROVE  \E p \in Proposals : /\ q = Nobody
                                  /\ proposal[p].status = "proposed" /\ p \in lapsed
                                  /\ SetStatus(p, "expired")
  BY <1>2
<1>3. ASSUME NEW new \in open, q = new, UNCHANGED proposal
      PROVE  q \in Proposals \cup {Nobody} /\ UNCHANGED proposal
  BY <1>3
<1> QED BY <1>1, <1>2, <1>3 DEF GetPending

\* get_pending() writes no status but "expired".
LEMMA GetPendingType ==
    ASSUME TypeOK, NEW q, GetPending(q)
    PROVE  /\ q \in Proposals \cup {Nobody}
           /\ proposal' \in Rows
<1>1. CASE q \in Proposals \cup {Nobody} /\ UNCHANGED proposal
  BY <1>1 DEF TypeOK, Rows
<1>2. ASSUME NEW p \in Proposals, q = Nobody, SetStatus(p, "expired")
      PROVE  /\ q \in Proposals \cup {Nobody}
             /\ proposal' \in Rows
  BY <1>2, SetStatusOnly DEF ProposalStatus
<1> QED BY <1>1, <1>2, GetPendingDecides

\* _transition() leaves a status, or the session as it was.
LEMMA TransitionType ==
    ASSUME TypeOK, NEW s \in Sessions \cup {Nobody}, NEW to \in Status, Transition(s, to)
    PROVE  session' \in [Sessions -> Status \cup {Absent}]
BY DEF Transition, TypeOK

\* The commands on the wire stay commands when nobody waits for them any more.
LEMMA UnheardType ==
    ASSUME TypeOK, NEW w, NEW R \in SUBSET Requests,
           w = [i \in 1..Len(wire) |->
                   IF wire[i].r \in R THEN [wire[i] EXCEPT !.r = Unheard] ELSE wire[i]]
    PROVE  w \in Seq(Command)
<1>1. /\ Len(wire) \in Nat
      /\ \A i \in 1..Len(wire) : wire[i] \in Command
  BY LenProperties DEF TypeOK
<1>2. w \in [1..Len(wire) -> Command]
  BY <1>1 DEF Command
<1> QED BY <1>1, <1>2, SeqDef

\* Every variable starts in its type.
LEMMA InitType == Init => TypeInv
BY FlowAssumption, EmptySeq DEF Init, TypeInv, TypeOK, WorkerIdle, NoRequest, DaemonIdle, SweepIdle,
   Worker, Request, Daemon, Sweep, Replies, ProposalStatus, MaxBookings

\* The session's row, its worker and its meters.
LEMMA SessionType ==
    ASSUME TypeInv, UNCHANGED plan, NEW s \in Sessions,
           StartSession(s) \/ MeterEnds(s) \/ Cycle(s)
    PROVE  TypeInv'
<1> USE DEF TypeInv
<1>1. CASE StartSession(s)
  BY <1>1 DEF StartSession, TypeOK, Status, engine, daemonTasks
<1>2. CASE MeterEnds(s)
  BY <1>2, TransitionType DEF MeterEnds, TypeOK, Status, engine, daemonTasks
<1>3. CASE CycleCheck(s)
  BY <1>3, GetPendingType DEF CycleCheck, WorkerGoes, TypeOK, Rows, Worker, engine
<1>4. CASE CycleCreate(s)
  BY <1>4 DEF CycleCreate, WorkerGoes, TypeOK, Worker, ProposalStatus, engine
<1>5. CASE CyclePropose(s)
  BY <1>5, TransitionType DEF CyclePropose, WorkerGoes, TypeOK, Worker, Status, engine
<1>6. CASE CycleStart(s) \/ CycleNothing(s)
  BY <1>6 DEF CycleStart, CycleNothing, WorkerGoes, TypeOK, Worker, engine
<1> QED BY <1>1, <1>2, <1>3, <1>4, <1>5, <1>6 DEF Cycle

\* The API's handlers.
LEMMA RequestType ==
    ASSUME TypeInv, NEW r \in Requests, NEW c \in Request,
           c.pc \in {"send", "mark"} => c.p \in Proposals,
           request' = [request EXCEPT ![r] = c]
    PROVE  /\ request' \in [Requests -> Request]
           /\ \A o \in Requests : request'[o].pc \in {"send", "mark"} =>
                                   request'[o].p \in Proposals
BY DEF TypeInv, TypeOK

\* A step of a handler.
LEMMA HandlerType ==
    ASSUME TypeInv, UNCHANGED plan, NEW r \in Requests,
           (\E kind \in {"approve", "reject", "end"} : Arrive(r, kind)) \/ Handle(r)
    PROVE  TypeInv'
<1> USE DEF TypeInv
<1>0. request[r] \in Request /\ NoRequest \in Request
  BY DEF TypeOK, NoRequest, Request, Replies
<1>1. ASSUME NEW kind \in {"approve", "reject", "end"}, Arrive(r, kind)
      PROVE  TypeInv'
  <2>1. PICK s \in Sessions : request' = [request EXCEPT ![r] =
              [NoRequest EXCEPT !.pc = "pending", !.kind = kind, !.s = s,
                                !.paused = session[s] = SetupProposed]]
    BY <1>1 DEF Arrive
  <2> DEFINE c == [NoRequest EXCEPT !.pc = "pending", !.kind = kind, !.s = s,
                                    !.paused = session[s] = SetupProposed]
  <2>2. c \in Request /\ c.pc = "pending"
    BY <1>0 DEF NoRequest, Request
  <2> HIDE DEF c
  <2>3. /\ request' \in [Requests -> Request]
        /\ \A o \in Requests : request'[o].pc \in {"send", "mark"} =>
                                request'[o].p \in Proposals
    BY <2>1, <2>2, RequestType DEF c
  <2> QED BY <1>1, <2>3 DEF Arrive, TypeOK, engine, daemonTasks
<1>2. CASE ReadPending(r)
  <2>1. PICK p \in Proposals \cup {Nobody} :
          /\ GetPending(p)
          /\ request' = [request EXCEPT ![r].pc = AfterPending(request[r], p), ![r].p = p]
    BY <1>2 DEF ReadPending
  <2>2. /\ AfterPending(request[r], p) \in {"send", "latest", "mark", "resuming", "ending"}
        /\ AfterPending(request[r], p) \in {"send", "mark"} => p \in Proposals
    BY <1>0 DEF AfterPending, Request
  <2>3. /\ request' \in [Requests -> Request]
        /\ \A o \in Requests : request'[o].pc \in {"send", "mark"} => request'[o].p \in Proposals
    BY <1>0, <2>1, <2>2 DEF TypeOK, Request
  <2> QED BY <1>2, <2>1, <2>3, GetPendingType DEF ReadPending, TypeOK, Rows, engine, daemonTasks
<1>3. CASE ReadLatest(r)
  BY <1>0, <1>3 DEF ReadLatest, Goto, TypeOK, Request, engine, daemonTasks
<1>4. CASE Send(r)
  <2>1. [r |-> r, p |-> request[r].p] \in Command
    BY <1>4 DEF Send, Command
  <2>2. wire \in Seq(Command)
    BY DEF TypeOK
  <2>3. wire' \in Seq(Command)
    <3>1. \/ wire' = Append(wire, [r |-> r, p |-> request[r].p])
          \/ wire' = wire
      BY <1>4 DEF Send
    <3> QED BY <2>1, <2>2, <3>1
  <2>4. /\ request' \in [Requests -> Request]
        /\ \A o \in Requests : request'[o].pc \in {"send", "mark"} =>
                                request'[o].p \in Proposals
    BY <1>0, <1>4 DEF Send, Goto, TypeOK, Request
  <2> QED BY <1>4, <2>3, <2>4 DEF Send, TypeOK, engine, daemonTasks
<1>5. CASE ReadReply(r)
  <2>1. /\ request' \in [Requests -> Request]
        /\ \A o \in Requests : request'[o].pc \in {"send", "mark"} =>
                                request'[o].p \in Proposals
    <3>1. ASSUME NEW pc \in {"approving", "resuming"}, Goto(r, pc)
          PROVE  /\ request' \in [Requests -> Request]
                 /\ \A o \in Requests : request'[o].pc \in {"send", "mark"} =>
                                         request'[o].p \in Proposals
      BY <1>0, <3>1 DEF Goto, TypeOK, Request
    <3>2. CASE Respond(r)
      BY <1>0, <3>2, RequestType DEF Respond, NoRequest
    <3> QED BY <1>5, <3>1, <3>2 DEF ReadReply
  <2> QED BY <1>5, <2>1 DEF ReadReply, TypeOK, engine, daemonTasks
<1>6. CASE TimeOut(r)
  <2>1. wire' \in Seq(Command)
    <3>1. wire' = [i \in 1..Len(wire) |->
                      IF wire[i].r \in {r} THEN [wire[i] EXCEPT !.r = Unheard] ELSE wire[i]]
      BY <1>6 DEF TimeOut, Unhear
    <3> QED BY <3>1, UnheardType
  <2>2. daemon' \in Daemon /\ (daemon'.pc # "idle" => daemon'.p \in Proposals)
    BY <1>6 DEF TimeOut, Unhear, TypeOK, Daemon
  <2> QED BY <1>0, <1>6, <2>1, <2>2 DEF TimeOut, Respond, TypeOK, Request, NoRequest, engine
<1>7. CASE MarkRejected(r)
  <2>1. proposal' \in Rows
    BY <1>7, SetStatusOnly DEF MarkRejected, ProposalStatus
  <2>2. /\ request' \in [Requests -> Request]
        /\ \A o \in Requests : request'[o].pc \in {"send", "mark"} =>
                                request'[o].p \in Proposals
    BY <1>0, <1>7 DEF MarkRejected, Goto, TypeOK, Request
  <2> QED BY <1>7, <2>1, <2>2 DEF MarkRejected, TypeOK, Rows, engine, daemonTasks
<1>8. CASE CloseApprove(r)
  <2>1. /\ request' \in [Requests -> Request]
        /\ \A o \in Requests : request'[o].pc \in {"send", "mark"} =>
                                request'[o].p \in Proposals
    <3>1. CASE Goto(r, "closing")
      BY <1>0, <3>1 DEF Goto, TypeOK, Request
    <3>2. CASE Respond(r)
      BY <1>0, <3>2, RequestType DEF Respond, NoRequest
    <3> QED BY <1>8, <3>1, <3>2 DEF CloseApprove
  <2>2. session' \in [Sessions -> Status \cup {Absent}]
    BY <1>0, <1>8, TransitionType DEF CloseApprove, Request, Status
  <2> QED BY <1>8, <2>1, <2>2 DEF CloseApprove, TypeOK, engine, daemonTasks
<1>9. CASE Finish(r)
  BY <1>0, <1>9, TransitionType
     DEF Finish, Respond, TypeOK, Request, NoRequest, Status, engine, daemonTasks
<1> QED BY <1>1, <1>2, <1>3, <1>4, <1>5, <1>6, <1>7, <1>8, <1>9 DEF Handle

\* The daemon's command handler.
LEMMA CommandType ==
    ASSUME TypeInv, UNCHANGED plan, HandleCommand
    PROVE  TypeInv'
<1> USE DEF TypeInv
<1>0. daemon \in Daemon
  BY DEF TypeOK
<1>1. CASE Take
  <2>1. Head(wire) \in Command /\ Tail(wire) \in Seq(Command)
    BY <1>1, HeadTailProperties DEF Take, TypeOK
  <2>2. daemon' \in Daemon /\ daemon'.p \in Proposals
    BY <1>1, <2>1 DEF Take, DaemonIdle, Daemon, Command, Replies
  <2> QED BY <1>1, <2>1, <2>2 DEF Take, TypeOK, engine
<1>2. CASE DaemonGet \/ Recheck \/ DaemonFails
  BY <1>0, <1>2 DEF DaemonGet, Recheck, DaemonFails, Answer, DaemonGoes, TypeOK, Daemon,
     Replies, engine
<1>3. CASE Revalidate
  <2>1. daemon.p \in Proposals
    BY <1>3 DEF Revalidate
  <2> QED BY <1>0, <1>3, <2>1, SetStatusOnly
          DEF Revalidate, DaemonGoes, TypeOK, Rows, Daemon, ProposalStatus, engine
<1>4. CASE Book
  <2>1. daemon.p \in Proposals
    BY <1>4 DEF Book
  <2>2. daemon' \in Daemon /\ daemon'.p \in Proposals
    BY <1>0, <1>4, <2>1 DEF Book, Daemon, Replies
  <2>3. booked' \in [Proposals -> 0..MaxBookings] /\ held' \subseteq Proposals
    BY <1>4, <2>1 DEF Book, TypeOK, engine, MaxBookings
  <2> QED BY <1>4, <2>2, <2>3 DEF Book, TypeOK
<1>5. CASE DaemonMark
  <2>1. daemon.p \in Proposals
    BY <1>5 DEF DaemonMark
  <2> QED BY <1>0, <1>5, <2>1, SetStatusOnly
          DEF DaemonMark, DaemonGoes, TypeOK, Rows, Daemon, ProposalStatus, engine
<1>6. CASE DaemonReply
  <2>1. daemon' = DaemonIdle /\ DaemonIdle \in Daemon
    BY <1>6 DEF DaemonReply, DaemonIdle, Daemon, Replies
  <2>2. /\ request' \in [Requests -> Request]
        /\ \A r \in Requests : request'[r].pc = request[r].pc /\ request'[r].p = request[r].p
    <3>1. CASE daemon.r = Unheard
      BY <1>6, <3>1 DEF DaemonReply, TypeOK
    <3>2. CASE daemon.r \in Requests
      <4>1. request' = [request EXCEPT ![daemon.r].reply = daemon.answer]
        BY <1>6, <3>2, FlowAssumption DEF DaemonReply
      <4>2. request[daemon.r] \in Request /\ daemon.answer \in Replies
        BY <1>0, <3>2 DEF TypeOK, Daemon
      <4> QED BY <3>2, <4>1, <4>2 DEF TypeOK, Request
    <3> QED BY <1>0, <3>1, <3>2 DEF Daemon
  <2> QED BY <1>6, <2>1, <2>2 DEF DaemonReply, TypeOK, DaemonIdle, engine
<1> QED BY <1>1, <1>2, <1>3, <1>4, <1>5, <1>6 DEF HandleCommand

\* The sweep.
LEMMA SweepType ==
    ASSUME TypeInv, UNCHANGED plan, SweepOnce
    PROVE  TypeInv'
<1> USE DEF TypeInv
<1>0. sweep \in Sweep /\ SweepIdle \in Sweep
  BY DEF TypeOK, SweepIdle, Sweep
<1>1. CASE SweepExpire
  BY <1>0, <1>1 DEF SweepExpire, TypeOK, Sweep, ProposalStatus, engine
<1>2. CASE SweepList
  BY <1>0, <1>2 DEF SweepList, TypeOK, Sweep, engine
<1>3. CASE SweepPending
  BY <1>0, <1>3, GetPendingType DEF SweepPending, TypeOK, Rows, Sweep, engine
<1>4. CASE SweepLatest
  BY <1>0, <1>4 DEF SweepLatest, TypeOK, Sweep, engine
<1>5. CASE SweepApprove
  BY <1>0, <1>5, TransitionType DEF SweepApprove, TypeOK, Sweep, Status, engine
<1>6. CASE SweepFinish
  BY <1>0, <1>6, TransitionType DEF SweepFinish, TypeOK, Sweep, Status, engine
<1> QED BY <1>1, <1>2, <1>3, <1>4, <1>5, <1>6 DEF SweepOnce

\* Deaths, shelf lives and positions.
LEMMA EnvironmentType ==
    ASSUME TypeInv, UNCHANGED plan,
           ApiCrash \/ DaemonCrash \/ (\E p \in Proposals : Lapse(p) \/ PositionCloses(p))
    PROVE  TypeInv'
<1> USE DEF TypeInv
<1>1. CASE ApiCrash
  <2>1. wire' \in Seq(Command)
    <3>1. \A i \in 1..Len(wire) : wire[i] \in Command
      BY LenProperties DEF TypeOK
    <3>2. Len(wire) \in Nat /\ wire' \in [1..Len(wire) -> Command]
      BY <1>1, <3>1, LenProperties DEF ApiCrash, TypeOK, Command
    <3> QED BY <3>2, SeqDef
  <2>2. crashes' \in 0..MaxCrashes
    BY <1>1, FlowAssumption DEF ApiCrash, Dies, TypeOK
  <2>3. daemon' \in Daemon /\ (daemon'.pc # "idle" => daemon'.p \in Proposals)
    BY <1>1 DEF ApiCrash, TypeOK, Daemon
  <2> QED BY <1>1, <2>1, <2>2, <2>3
          DEF ApiCrash, TypeOK, Request, NoRequest, Replies, engine
<1>2. CASE DaemonCrash
  <2>1. crashes' \in 0..MaxCrashes
    BY <1>2, FlowAssumption DEF DaemonCrash, Dies, TypeOK
  <2> QED BY <1>2, <2>1, EmptySeq
          DEF DaemonCrash, TypeOK, Worker, WorkerIdle, Daemon, DaemonIdle, Replies,
              Sweep, SweepIdle, engine
<1>3. ASSUME NEW p \in Proposals, Lapse(p)
      PROVE  TypeInv'
  BY <1>3 DEF Lapse, TypeOK, engine, daemonTasks
<1>4. ASSUME NEW p \in Proposals, PositionCloses(p)
      PROVE  TypeInv'
  BY <1>4 DEF PositionCloses, TypeOK, daemonTasks
<1> QED BY <1>1, <1>2, <1>3, <1>4

\* Every step keeps the types.
LEMMA NextType ==
    ASSUME TypeInv, [Next]_vars
    PROVE  TypeInv'
<1>1. CASE UNCHANGED vars
  BY <1>1 DEF vars, flow, TypeInv, TypeOK
<1>2. CASE Next
  BY <1>2, SessionType, HandlerType, CommandType, SweepType, EnvironmentType DEF Next
<1> QED BY <1>1, <1>2

\* Every session, row, request, command and task of the flow stays of its type,
\* whichever calls are slow, fail or die.
THEOREM FlowTypeInvariant == Spec => []TypeOK
<1>1. Spec => []TypeInv
  BY InitType, NextType, PTL DEF Spec
<1>2. TypeInv => TypeOK
  BY DEF TypeInv
<1> QED BY <1>1, <1>2, PTL

-----------------------------------------------------------------------------
(* A proposal is booked once, with any number of requests. *)

\* What is booked is no longer proposed, or the daemon is about to mark it; so a
\* second command for it, queued behind the first, finds nothing to book.
BookInv ==
    /\ TypeInv
    /\ crashes = 0 /\ "daemon_error" \notin plan =>
        /\ \A p \in Proposals : booked[p] <= 1
        /\ \A p \in Proposals : booked[p] > 0 =>
              \/ proposal[p].status \notin {"absent", "proposed"}
              \/ /\ proposal[p].status # "absent"
                 /\ daemon.pc = "mark" /\ daemon.p = p
        /\ daemon.pc \in {"book", "mark"} => proposal[daemon.p].status # "absent"
        /\ daemon.pc = "book" => booked[daemon.p] = 0

\* A step of anyone but the command handler, that makes no proposal proposed
\* again and takes none back.
LEMMA BookedByOthers ==
    ASSUME BookInv, TypeInv', UNCHANGED <<booked, daemon, plan>>, crashes' = 0 => crashes = 0,
           \A p \in Proposals :
              /\ proposal'[p].status = "absent" => proposal[p].status = "absent"
              /\ proposal'[p].status = "proposed" =>
                    proposal[p].status \in {"absent", "proposed"}
    PROVE  BookInv'
<1> SUFFICES ASSUME crashes' = 0, "daemon_error" \notin plan
             PROVE  /\ \A p \in Proposals : booked[p] <= 1
                    /\ \A p \in Proposals : booked[p] > 0 =>
                          \/ proposal'[p].status \notin {"absent", "proposed"}
                          \/ /\ proposal'[p].status # "absent"
                             /\ daemon.pc = "mark" /\ daemon.p = p
                    /\ daemon.pc \in {"book", "mark"} => proposal'[daemon.p].status # "absent"
                    /\ daemon.pc = "book" => booked[daemon.p] = 0
  BY DEF BookInv
<1>1. daemon.pc \in {"book", "mark"} => daemon.p \in Proposals
  BY DEF BookInv, TypeInv
<1> QED BY <1>1 DEF BookInv

\* get_pending() decides a proposal that was open.
LEMMA PendingDecided ==
    ASSUME TypeOK, NEW q, GetPending(q)
    PROVE  \A p \in Proposals :
              /\ proposal'[p].status = "absent" => proposal[p].status = "absent"
              /\ proposal'[p].status = "proposed" => proposal[p].status = "proposed"
<1>1. CASE UNCHANGED proposal
  BY <1>1
<1>2. ASSUME NEW p \in Proposals, SetStatus(p, "expired")
      PROVE  \A o \in Proposals : \/ proposal'[o] = proposal[o]
                                 \/ proposal'[o].status = "expired"
  BY <1>2, SetStatusOnly DEF ProposalStatus
<1> QED BY <1>1, <1>2, GetPendingDecides

\* Of the tenant, the scans, the clock and the sweep, nobody books.
LEMMA OthersBook ==
    ASSUME BookInv, TypeInv', UNCHANGED plan,
           \/ \E s \in Sessions : StartSession(s) \/ MeterEnds(s) \/ Cycle(s)
           \/ SweepOnce
           \/ DaemonCrash
           \/ \E p \in Proposals : Lapse(p) \/ PositionCloses(p)
    PROVE  BookInv'
<1>0. TypeOK
  BY DEF BookInv, TypeInv
<1>1. ASSUME NEW s \in Sessions, StartSession(s) \/ MeterEnds(s) \/ Cycle(s)
      PROVE  BookInv'
  <2>1. CASE StartSession(s) \/ MeterEnds(s)
    BY <2>1, BookedByOthers DEF StartSession, MeterEnds, engine, daemonTasks
  <2>2. CASE CycleCheck(s)
    BY <1>0, <2>2, BookedByOthers, PendingDecided DEF CycleCheck, engine
  <2>3. CASE CycleCreate(s)
    <3>1. \A p \in Proposals :
              /\ proposal'[p].status = "absent" => proposal[p].status = "absent"
              /\ proposal'[p].status = "proposed" =>
                    proposal[p].status \in {"absent", "proposed"}
      BY <1>0, <2>3 DEF CycleCreate, TypeOK
    <3> QED BY <2>3, <3>1, BookedByOthers DEF CycleCreate, engine
  <2>4. CASE CycleStart(s) \/ CycleNothing(s) \/ CyclePropose(s)
    BY <2>4, BookedByOthers DEF CycleStart, CycleNothing, CyclePropose, engine
  <2> QED BY <1>1, <2>1, <2>2, <2>3, <2>4 DEF Cycle
<1>2. CASE SweepOnce
  <2>1. CASE SweepExpire
    <3>1. \A p \in Proposals :
              /\ proposal'[p].status = "absent" => proposal[p].status = "absent"
              /\ proposal'[p].status = "proposed" => proposal[p].status = "proposed"
      BY <1>0, <2>1 DEF SweepExpire, TypeOK
    <3> QED BY <2>1, <3>1, BookedByOthers DEF SweepExpire, engine
  <2>2. CASE SweepPending
    BY <1>0, <2>2, BookedByOthers, PendingDecided DEF SweepPending, engine
  <2>3. CASE SweepList \/ SweepLatest \/ SweepApprove \/ SweepFinish
    BY <2>3, BookedByOthers DEF SweepList, SweepLatest, SweepApprove, SweepFinish, engine
  <2> QED BY <1>2, <2>1, <2>2, <2>3 DEF SweepOnce
<1>3. CASE DaemonCrash
  <2>1. crashes' # 0
    BY <1>0, <1>3 DEF DaemonCrash, Dies, TypeOK
  <2> QED BY <2>1 DEF BookInv
<1>4. ASSUME NEW p \in Proposals, Lapse(p) \/ PositionCloses(p)
      PROVE  BookInv'
  BY <1>4, BookedByOthers DEF Lapse, PositionCloses, engine, daemonTasks
<1> QED BY <1>1, <1>2, <1>3, <1>4

\* Nor does a handler.
LEMMA HandlersBook ==
    ASSUME BookInv, TypeInv', UNCHANGED plan, NEW r \in Requests,
           \/ \E kind \in {"approve", "reject", "end"} : Arrive(r, kind)
           \/ Handle(r)
    PROVE  BookInv'
<1>0. TypeOK /\ (request[r].pc = "mark" => request[r].p \in Proposals)
  BY DEF BookInv, TypeInv
<1>1. CASE ReadPending(r)
  BY <1>0, <1>1, BookedByOthers, PendingDecided DEF ReadPending, engine, daemonTasks
<1>2. CASE MarkRejected(r)
  <2>1. /\ request[r].p \in Proposals /\ "rejected" \in ProposalStatus
        /\ SetStatus(request[r].p, "rejected")
    BY <1>0, <1>2 DEF MarkRejected, ProposalStatus
  <2> QED BY <1>0, <1>2, <2>1, SetStatusOnly, BookedByOthers
          DEF MarkRejected, engine, daemonTasks
<1>3. CASE TimeOut(r)
  <2>1. daemon'.pc = daemon.pc /\ daemon'.p = daemon.p
    BY <1>0, <1>3 DEF TimeOut, Unhear, TypeOK, Daemon
  <2> QED BY <1>3, <2>1 DEF BookInv, TimeOut, engine
<1>4. CASE \/ \E kind \in {"approve", "reject", "end"} : Arrive(r, kind)
           \/ ReadLatest(r) \/ Send(r) \/ ReadReply(r) \/ CloseApprove(r) \/ Finish(r)
  BY <1>4, BookedByOthers
     DEF Arrive, ReadLatest, Send, ReadReply, CloseApprove, Finish, engine, daemonTasks
<1> QED BY <1>1, <1>2, <1>3, <1>4 DEF Handle

\* The command handler books what is proposed, once.
LEMMA CommandsBook ==
    ASSUME BookInv, TypeInv', UNCHANGED plan, HandleCommand
    PROVE  BookInv'
<1>0. TypeOK /\ daemon \in Daemon /\ (daemon.pc # "idle" => daemon.p \in Proposals)
  BY DEF BookInv, TypeInv, TypeOK
<1>1. CASE Take \/ DaemonReply
  <2>1. /\ UNCHANGED <<proposal, booked, crashes>>
        /\ daemon'.pc \notin {"book", "mark"} /\ daemon.pc # "mark"
    <3>1. CASE Take
      BY <3>1 DEF Take, DaemonIdle, engine
    <3>2. CASE DaemonReply
      BY <3>2 DEF DaemonReply, DaemonIdle, engine
    <3> QED BY <1>1, <3>1, <3>2
  <2> QED BY <2>1 DEF BookInv
<1>2. CASE DaemonGet \/ Recheck
  <2>1. daemon'.pc \notin {"book", "mark"} /\ daemon.pc # "mark"
    BY <1>0, <1>2 DEF DaemonGet, Recheck, Answer, DaemonGoes, Daemon
  <2> QED BY <1>2, <2>1 DEF BookInv, DaemonGet, Recheck, engine
<1>3. CASE DaemonFails
  BY <1>3 DEF BookInv, DaemonFails
<1>4. CASE Revalidate
  <2>1. daemon.pc = "revalidate" /\ daemon.p \in Proposals /\ UNCHANGED <<booked, crashes>>
    BY <1>0, <1>4 DEF Revalidate, engine
  <2>2. CASE UNCHANGED proposal /\ DaemonGoes("recheck")
    BY <1>0, <2>1, <2>2 DEF BookInv, DaemonGoes, Daemon
  <2>3. ASSUME NEW status \in {"expired", "invalidated"}, SetStatus(daemon.p, status),
               DaemonGoes("recheck")
        PROVE  BookInv'
    <3>1. \A p \in Proposals : \/ proposal'[p] = proposal[p]
                               \/ proposal'[p].status \notin {"absent", "proposed"}
      BY <1>0, <2>1, <2>3, SetStatusOnly DEF ProposalStatus
    <3> QED BY <1>0, <2>1, <2>3, <3>1 DEF BookInv, DaemonGoes, Daemon
  <2>4. CASE IsProposed(daemon.p) /\ UNCHANGED proposal /\ DaemonGoes("book")
    <3>1. daemon' = [daemon EXCEPT !.pc = "book"] /\ daemon'.p = daemon.p /\ daemon'.pc = "book"
      BY <1>0, <2>4 DEF DaemonGoes, Daemon
    <3>2. proposal[daemon.p].status = "proposed"
      BY <2>4 DEF IsProposed
    <3>3. booked[daemon.p] \in Nat
      BY <1>0, <2>1 DEF TypeOK
    <3> QED BY <2>1, <2>4, <3>1, <3>2, <3>3 DEF BookInv
  <2> QED BY <1>4, <2>2, <2>3, <2>4 DEF Revalidate
<1>5. CASE Book
  <2>1. /\ daemon.p \in Proposals /\ UNCHANGED <<proposal, crashes>>
        /\ daemon'.pc = "mark" /\ daemon'.p = daemon.p /\ daemon.pc = "book"
        /\ \/ UNCHANGED booked
           \/ booked' = [booked EXCEPT ![daemon.p] = @ + 1]
    BY <1>0, <1>5 DEF Book, Daemon, engine
  <2> QED BY <1>0, <2>1 DEF BookInv, TypeOK
<1>6. CASE DaemonMark
  <2>1. /\ daemon.p \in Proposals /\ UNCHANGED <<booked, crashes>> /\ daemon'.pc = "reply"
        /\ daemon.pc = "mark"
        /\ \E status \in {"executed", "rejected"} : SetStatus(daemon.p, status)
    BY <1>0, <1>6 DEF DaemonMark, DaemonGoes, Daemon, engine
  <2>2. /\ \A p \in Proposals \ {daemon.p} : proposal'[p] = proposal[p]
        /\ proposal'[daemon.p].status \notin {"absent", "proposed"}
    BY <1>0, <2>1, SetStatusOnly DEF ProposalStatus
  <2> QED BY <2>1, <2>2 DEF BookInv
<1> QED BY <1>1, <1>2, <1>3, <1>4, <1>5, <1>6 DEF HandleCommand

\* While nothing crashes and the command handler raises no error, no proposal is
\* booked twice, however often the tenant approves, rejects or ends after a
\* timeout, with any number of requests open and commands queued.
THEOREM FlowBooksOnce == Spec => []BookedOnce
<1>1. Init => BookInv
  BY InitType DEF Init, BookInv, DaemonIdle
<1>2. BookInv /\ [Next]_vars => BookInv'
  <2> SUFFICES ASSUME BookInv, [Next]_vars
               PROVE  BookInv'
    OBVIOUS
  <2>1. TypeInv'
    BY NextType DEF BookInv
  <2>2. CASE UNCHANGED vars
    BY <2>1, <2>2 DEF vars, flow, BookInv
  <2>3. CASE Next
    <3>1. CASE ApiCrash
      BY <2>1, <2>3, <3>1 DEF Next, BookInv, ApiCrash, Dies, TypeInv, TypeOK
    <3> QED BY <2>1, <2>3, <3>1, OthersBook, HandlersBook, CommandsBook DEF Next
  <2> QED BY <2>2, <2>3
<1>3. BookInv => BookedOnce
  BY DEF BookInv, BookedOnce
<1> QED BY <1>1, <1>2, <1>3, PTL DEF Spec

-----------------------------------------------------------------------------
(* With no fault and one request at a time. *)

\* One request at a time.
OneRequest == \A r, q \in Requests : r = q

Pending(p) == proposal[p].status = "proposed" /\ p \notin lapsed
NothingPending == \A p \in Proposals : ~Pending(p)
OwnOpen(s) == \E p \in Proposals : proposal[p].session = s /\ proposal[p].status = "proposed"
Newest(p) == \A o \in Proposals : proposal[o].session = proposal[p].session => o <= p
Traded(s) == \E p \in Proposals : proposal[p].session = s /\ booked[p] > 0

\* Proposals exist and lapse in the order of their creation, for one session after
\* another.
ProposalsInOrder ==
    /\ \A p \in Proposals : proposal[p].status = "absent" <=> proposal[p].session = Nobody
    /\ \A p \in Proposals :
            proposal[p].session # Nobody => session[proposal[p].session] # Absent
    /\ \A o, p \in Proposals : o < p /\ proposal[p].status # "absent" =>
            proposal[o].status # "absent" /\ proposal[o].session <= proposal[p].session
    /\ \A p \in lapsed : proposal[p].status # "absent"
    /\ \A o, p \in Proposals : o < p /\ p \in lapsed => o \in lapsed

SessionsInOrder ==
    \A o, s \in Sessions : o < s /\ session[s] # Absent => session[o] = Ended

\* A worker with no session to scan for, or a paused one, is idle.
WorkersMatch ==
    \A s \in Sessions : session[s] \in {Absent, SetupProposed} => worker[s].pc = "idle"

\* Only the newest proposal of a session may still be proposed.
OnlyNewestOpen ==
    \A p \in Proposals : proposal[p].status = "proposed" => Newest(p)

\* What is booked is executed, or the daemon is about to mark it.
BookingsMatch ==
    \A p \in Proposals :
        /\ booked[p] > 0 =>
            /\ Newest(p) /\ proposal[p].session # Nobody
            /\ \/ proposal[p].status = "executed"
               \/ daemon.pc = "mark" /\ daemon.p = p /\ daemon.answer = "approved"
        /\ proposal[p].status = "executed" => booked[p] > 0

\* A command is on the wire or in the daemon while its request waits unanswered.
CommandsMatch ==
    /\ wire # <<>> =>
        /\ Len(wire) = 1 /\ daemon.pc = "idle"
        /\ wire[1].r \in Requests /\ request[wire[1].r].pc = "await"
        /\ wire[1].p = request[wire[1].r].p
        /\ request[wire[1].r].reply = "none"
    /\ daemon.pc = "idle" => daemon.r = Unheard
    /\ daemon.pc # "idle" =>
        /\ daemon.r \in Requests /\ request[daemon.r].pc = "await"
        /\ daemon.p = request[daemon.r].p
        /\ request[daemon.r].reply = "none"
    /\ daemon.pc \in {"book", "mark"} => Pending(daemon.p)
    /\ daemon.pc = "mark" => daemon.answer \in {"approved", "declined"}
    /\ daemon.pc = "reply" => daemon.answer # "none"

Approved(r) ==
    \/ request[r].pc \in {"approving", "closing"}
    \/ /\ request[r].pc = "await"
       /\ \/ request[r].reply = "approved"
          \/ daemon.r = r /\ daemon.pc \in {"mark", "reply"} /\ daemon.answer = "approved"

Declined(r) ==
    /\ request[r].pc = "await"
    /\ \/ request[r].reply = "declined"
       \/ daemon.r = r /\ daemon.pc = "reply" /\ daemon.answer = "declined"

\* The request will take its session out of SETUP_PROPOSED.
Decided(r) ==
    \/ Approved(r) \/ Declined(r)
    \/ request[r].pc \in {"resuming", "ending"}
    \/ request[r].pc = "await" /\ daemon.r = r /\ daemon.pc \in {"recheck", "mark"}

\* While a request is open no other session is paused, nor this one if it was not.
RequestsLookUp ==
    \A r \in Requests :
        LET c == request[r] IN
        /\ c.pc = "idle" => c = NoRequest
        /\ c.pc # "idle" =>
            /\ c.s \in Sessions /\ session[c.s] # Absent
            /\ \A s \in Sessions : s # c.s => session[s] # SetupProposed
            /\ ~c.paused => session[c.s] # SetupProposed /\ c.kind # "approve"
        /\ c.pc = "latest" => c.paused
        /\ c.pc = "mark" => /\ c.p \in Proposals /\ c.kind # "approve"
                            /\ proposal[c.p].status \notin {"absent", "executed"}
        /\ c.reply # "none" => c.pc \in {"await", "approving", "closing", "resuming"}

\* What is being approved is the newest proposal of the request's own session.
ApprovesItsOwn ==
    \A r \in Requests :
        LET c == request[r] IN
        c.pc \in {"send", "await", "approving", "closing"} =>
            /\ c.p \in Proposals /\ proposal[c.p].session = c.s /\ Newest(c.p)
            /\ c.paused

\* A paused session is traded exactly when its request is approved.
ApprovedIsBooked ==
    \A r \in Requests :
        LET c == request[r] IN
        /\ Approved(r) => booked[c.p] > 0 /\ session[c.s] # Scanning
        /\ (c.pc # "idle" /\ c.paused /\ ~Approved(r)) =>
                ~Traded(c.s) /\ session[c.s] \in {SetupProposed, Scanning}

\* A session that the sweep resumed has nothing pending for the request to find.
PendingIsPaused ==
    \A r \in Requests :
        LET c == request[r] IN
        /\ (c.pc \in {"send", "await"} /\ Pending(c.p)) => session[c.s] = SetupProposed
        /\ (c.pc = "pending" /\ c.paused /\ session[c.s] = Scanning) => NothingPending

\* A paused session is resumed without an open proposal of its own.
ResumesClean ==
    \A r \in Requests :
        LET c == request[r] IN
        /\ (c.pc \in {"latest", "resuming"} /\ c.paused) => ~OwnOpen(c.s)
        /\ (c.pc = "mark" /\ c.paused) =>
                \A q \in Proposals :
                    proposal[q].session = c.s /\ proposal[q].status = "proposed" => q = c.p
        /\ Declined(r) => proposal[c.p].status # "proposed"

\* The newest pending proposal of the tenant is the paused session's own.
PausedIsProposed ==
    \A s \in Sessions : session[s] = SetupProposed =>
        \/ OwnOpen(s)
        \/ NothingPending
        \/ \E r \in Requests : request[r].s = s /\ Decided(r)

\* ... and the session's that is about to be paused, which nobody has looked up.
CreatedIsProposed ==
    \A s \in Sessions : worker[s].pc = "created" /\ session[s] = Scanning =>
        /\ OwnOpen(s) \/ NothingPending
        /\ sweep.s # s
        /\ \A r \in Requests : request[r].pc = "idle"

\* A traded session is being closed.
TradedIsClosing ==
    \A s \in Sessions : Traded(s) /\ Live(s) =>
        \/ \E r \in Requests : request[r].s = s /\ Approved(r)
        \/ sweep.pc = "close" /\ sweep.s = s /\ session[s] = Executing

ExecutingIsClosing ==
    \A s \in Sessions : session[s] = Executing =>
        /\ Traded(s)
        /\ \/ \E r \in Requests : request[r].s = s /\ request[r].pc = "closing"
           \/ sweep.pc = "close" /\ sweep.s = s

SweepMatches ==
    /\ sweep.pc \in {"idle", "list"} => sweep.s = Nobody
    /\ sweep.pc \notin {"idle", "list"} => sweep.s \in Sessions /\ session[sweep.s] # Absent
    /\ (sweep.pc \in {"latest", "approve", "close", "resume"} /\ Live(sweep.s)) =>
            NothingPending /\ ~OwnOpen(sweep.s)
    /\ sweep.pc \in {"approve", "close"} => Traded(sweep.s)
    /\ sweep.pc = "resume" /\ session[sweep.s] = SetupProposed => ~Traded(sweep.s)

CalmInv ==
    /\ ProposalsInOrder /\ SessionsInOrder /\ WorkersMatch /\ OnlyNewestOpen /\ BookingsMatch
    /\ CommandsMatch /\ RequestsLookUp /\ ApprovesItsOwn /\ ApprovedIsBooked
    /\ PendingIsPaused /\ ResumesClean /\ PausedIsProposed /\ CreatedIsProposed
    /\ TradedIsClosing /\ ExecutingIsClosing /\ SweepMatches /\ NoDeadZone

\* What every step below starts from.
Quiet == OneRequest /\ Calm /\ TypeInv /\ CalmInv

-----------------------------------------------------------------------------
(* What the invariant says of the tenant's rows. *)

\* Only one session is live.
LEMMA OneLive ==
    ASSUME TypeOK, SessionsInOrder, NEW s \in Sessions, NEW o \in Sessions, Live(s), Live(o)
    PROVE  s = o
<1>1. s \in Nat /\ o \in Nat
  BY FlowAssumption DEF Sessions
<1>2. session[s] \notin {Absent, Ended} /\ session[o] \notin {Absent, Ended}
  BY DEF Live, Status, Scanning, SetupProposed, Executing, Ended, Absent
<1> QED BY <1>1, <1>2 DEF SessionsInOrder

\* An open proposal belongs to a session.
LEMMA ProposedIsOwned ==
    ASSUME Quiet
    PROVE  \A p \in Proposals : IsProposed(p) => proposal[p].session \in Sessions
BY DEF Quiet, TypeInv, TypeOK, CalmInv, ProposalsInOrder, IsProposed, Nobody

\* The newest proposal of a live session is the tenant's newest.
LEMMA LiveNewest ==
    ASSUME TypeOK, ProposalsInOrder, SessionsInOrder, NEW p \in Proposals, NEW q \in Proposals,
           proposal[p].session \in Sessions, Live(proposal[p].session), Newest(p),
           proposal[q].status # "absent"
    PROVE  q <= p
<1> SUFFICES ASSUME p < q PROVE FALSE
  BY FlowAssumption DEF Proposals
<1> DEFINE s == proposal[p].session
           t == proposal[q].session
<1>1. t \in Sessions /\ session[t] # Absent /\ s <= t
  BY DEF ProposalsInOrder, TypeOK, Nobody
<1>2. s \in Nat /\ t \in Nat /\ p \in Nat /\ q \in Nat
  BY <1>1, FlowAssumption DEF Sessions, Proposals
<1>3. s # t
  BY <1>2 DEF Newest
<1>4. session[s] = Ended
  BY <1>1, <1>2, <1>3 DEF SessionsInOrder
<1> QED BY <1>4 DEF Live

\* ... so when its shelf life is over, so is that of every other.
LEMMA AllLapsed ==
    ASSUME TypeOK, ProposalsInOrder, SessionsInOrder, NEW p \in lapsed,
           proposal[p].session \in Sessions, Live(proposal[p].session), Newest(p)
    PROVE  NothingPending
<1> SUFFICES ASSUME NEW q \in Proposals, Pending(q) PROVE FALSE
  BY DEF NothingPending
<1>1. q <= p /\ p \in Proposals
  BY LiveNewest DEF Pending, TypeOK
<1>2. q < p \/ q = p
  BY <1>1, FlowAssumption DEF Proposals
<1> QED BY <1>1, <1>2 DEF ProposalsInOrder, Pending

\* A session with an open proposal, the newest of its own.
LEMMA OpenOfLive ==
    ASSUME Quiet, NEW s \in Sessions, Live(s), NEW p \in Proposals,
           proposal[p].session = s, proposal[p].status = "proposed"
    PROVE  /\ Newest(p)
           /\ \A q \in Proposals : proposal[q].status # "absent" => q <= p
           /\ p \in lapsed => NothingPending
BY LiveNewest, AllLapsed DEF Quiet, CalmInv, TypeInv, OnlyNewestOpen

\* While a request is open, what is on the wire and in the daemon is its own, if
\* anything.
LEMMA TheRequest ==
    ASSUME Quiet, NEW r \in Requests, request[r].pc # "idle"
    PROVE  /\ \A o \in Requests : o = r
           /\ request[r] \in Request /\ request[r].s \in Sessions
           /\ request[r].pc # "await" => wire = <<>> /\ daemon.pc = "idle"
           /\ request[r].reply # "none" => wire = <<>> /\ daemon.pc = "idle"
           /\ daemon.pc = "idle" => daemon.r # r
           /\ daemon.pc # "idle" => daemon.r = r /\ wire = <<>>
           /\ \A s \in Sessions : ~(worker[s].pc = "created" /\ session[s] = Scanning)
BY FlowAssumption DEF Quiet, OneRequest, TypeInv, TypeOK, CalmInv, CommandsMatch,
   RequestsLookUp, CreatedIsProposed

\* With none, there is neither.
LEMMA NoRequestOpen ==
    ASSUME Quiet, \A r \in Requests : request[r].pc = "idle"
    PROVE  /\ wire = <<>> /\ daemon.pc = "idle"
           /\ \A r \in Requests : ~Approved(r) /\ ~Declined(r) /\ ~Decided(r)
BY DEF Quiet, CalmInv, CommandsMatch, Approved, Declined, Decided

\* Deciding proposals disturbs no order.
LEMMA OrderKept ==
    ASSUME TypeOK, ProposalsInOrder, UNCHANGED <<session, lapsed>>,
           \A p \in Proposals : /\ proposal'[p].session = proposal[p].session
                                /\ proposal'[p].status = "absent" <=> proposal[p].status = "absent"
    PROVE  ProposalsInOrder'
<1>1. /\ \A p \in Proposals : proposal'[p].status = "absent" <=> proposal'[p].session = Nobody
      /\ \A p \in Proposals :
            proposal'[p].session # Nobody => session'[proposal'[p].session] # Absent
  BY DEF ProposalsInOrder
<1>2. \A o, p \in Proposals : o < p /\ proposal'[p].status # "absent" =>
            proposal'[o].status # "absent" /\ proposal'[o].session <= proposal'[p].session
  BY DEF ProposalsInOrder
<1>3. \A p \in lapsed' : proposal'[p].status # "absent"
  <2> SUFFICES ASSUME NEW p \in lapsed PROVE proposal'[p].status # "absent"
    OBVIOUS
  <2>1. p \in Proposals
    BY DEF TypeOK
  <2> QED BY <2>1 DEF ProposalsInOrder
<1>4. \A o, p \in Proposals : o < p /\ p \in lapsed' => o \in lapsed'
  BY DEF ProposalsInOrder
<1> QED BY <1>1, <1>2, <1>3, <1>4 DEF ProposalsInOrder

\* The rows of decided proposals: only an open one whose shelf life is over changes.
Expires ==
    \A p \in Proposals :
        \/ proposal'[p] = proposal[p]
        \/ /\ proposal[p].status = "proposed" /\ p \in lapsed
           /\ proposal'[p] = [proposal[p] EXCEPT !.status = "expired"]

\* ... which changes nothing that is pending, and opens nothing.
LEMMA ExpiryKeeps ==
    ASSUME Quiet, TypeInv', Expires, UNCHANGED <<session, lapsed, booked>>
    PROVE  /\ \A p \in Proposals :
                /\ proposal'[p].session = proposal[p].session
                /\ proposal'[p].status \in {proposal[p].status, "expired"}
                /\ proposal[p].status # "proposed" => proposal'[p].status = proposal[p].status
                /\ Pending(p)' <=> Pending(p)
                /\ Newest(p)' <=> Newest(p)
           /\ NothingPending' <=> NothingPending
           /\ \A s : (Traded(s)' <=> Traded(s)) /\ (OwnOpen(s)' => OwnOpen(s))
           /\ \A s \in Sessions : Live(s) /\ OwnOpen(s) => OwnOpen(s)' \/ NothingPending
           /\ ProposalsInOrder' /\ OnlyNewestOpen'
<1>0. \A p \in Proposals : proposal[p] \in [status : ProposalStatus, session : Sessions \cup {Nobody}]
  BY DEF Quiet, TypeInv, TypeOK
<1>1. \A p \in Proposals :
        /\ proposal'[p].session = proposal[p].session
        /\ proposal'[p].status \in {proposal[p].status, "expired"}
        /\ proposal[p].status # "proposed" => proposal'[p].status = proposal[p].status
        /\ proposal'[p].status # proposal[p].status => p \in lapsed
  BY <1>0 DEF Expires
<1>2. \A p \in Proposals : (Pending(p)' <=> Pending(p)) /\ (Newest(p)' <=> Newest(p))
  BY <1>1 DEF Pending, Newest
<1>3. NothingPending' <=> NothingPending
  BY <1>2 DEF NothingPending
<1>4. \A s : (Traded(s)' <=> Traded(s)) /\ (OwnOpen(s)' => OwnOpen(s))
  BY <1>1 DEF Traded, OwnOpen
<1>5. ASSUME NEW s \in Sessions, Live(s), OwnOpen(s)
      PROVE  OwnOpen(s)' \/ NothingPending
  <2>1. PICK p \in Proposals : proposal[p].session = s /\ proposal[p].status = "proposed"
    BY <1>5 DEF OwnOpen
  <2>2. p \in lapsed => NothingPending
    BY <1>5, <2>1, OpenOfLive
  <2> QED BY <1>1, <2>1, <2>2 DEF OwnOpen
<1>6. ProposalsInOrder'
  <2>1. \A p \in Proposals : proposal'[p].status = "absent" <=> proposal[p].status = "absent"
    BY <1>1
  <2> QED BY <1>1, <2>1, OrderKept DEF Quiet, TypeInv, CalmInv
<1>7. OnlyNewestOpen'
  BY <1>1, <1>2 DEF Quiet, CalmInv, OnlyNewestOpen
<1> QED BY <1>1, <1>2, <1>3, <1>4, <1>5, <1>6, <1>7

\* get_pending() finds the live session's proposal if it has one, or leaves nothing open
\* for a live session.
LEMMA GetPendingExpires ==
    ASSUME Quiet, TypeInv', NEW q, GetPending(q), UNCHANGED <<session, lapsed, booked>>
    PROVE  /\ Expires
           /\ q = Nobody => /\ NothingPending'
                            /\ \A s \in Sessions : Live(s) => ~OwnOpen(s)'
           /\ q # Nobody => /\ q \in Proposals /\ Pending(q) /\ UNCHANGED proposal
                            /\ \A s \in Sessions : Live(s) /\ (OwnOpen(s) \/ NothingPending) =>
                                    proposal[q].session = s
<1> DEFINE open == {o \in Proposals : proposal[o].status = "proposed"}
<1>1. CASE open = {} /\ q = Nobody /\ UNCHANGED proposal
  <2>1. NothingPending' /\ \A s \in Sessions : ~OwnOpen(s)'
    BY <1>1 DEF NothingPending, Pending, OwnOpen
  <2> QED BY <1>1, <2>1 DEF Expires
<1>2. ASSUME NEW new \in open, \A o \in open : o <= new, new \in lapsed, q = Nobody,
             SetStatus(new, "expired")
      PROVE  /\ Expires
             /\ q = Nobody /\ NothingPending'
             /\ \A s \in Sessions : Live(s) => ~OwnOpen(s)'
  <2>1. Expires
    BY <1>2, SetStatusOnly DEF Quiet, TypeInv, ProposalStatus, Expires
  <2>2. NothingPending
    <3> SUFFICES ASSUME NEW p \in Proposals, Pending(p) PROVE FALSE
      BY DEF NothingPending
    <3>1. p \in open /\ p <= new /\ p # new
      BY <1>2 DEF Pending
    <3>2. p < new
      BY <3>1, FlowAssumption DEF Proposals
    <3> QED BY <1>2, <3>1, <3>2 DEF Quiet, CalmInv, ProposalsInOrder, Pending
  <2>3. ASSUME NEW s \in Sessions, Live(s), OwnOpen(s)' PROVE FALSE
    <3>1. PICK p \in Proposals : proposal'[p].session = s /\ proposal'[p].status = "proposed"
      BY <2>3 DEF OwnOpen
    <3>2. p # new /\ proposal[p].session = s /\ proposal[p].status = "proposed"
      BY <1>2, <3>1, SetStatusOnly DEF Quiet, TypeInv, ProposalStatus
    <3>3. new <= p /\ p <= new
      BY <1>2, <2>3, <3>2, OpenOfLive
    <3> QED BY <3>2, <3>3, FlowAssumption DEF Proposals
  <2> QED BY <1>2, <2>1, <2>2, <2>3, ExpiryKeeps
<1>3. ASSUME NEW new \in open, \A o \in open : o <= new, new \notin lapsed, q = new,
             UNCHANGED proposal
      PROVE  /\ Expires
             /\ q # Nobody /\ q \in Proposals /\ Pending(q)
             /\ \A s \in Sessions : Live(s) /\ (OwnOpen(s) \/ NothingPending) =>
                    proposal[q].session = s
  <2>1. Expires /\ q # Nobody /\ Pending(q)
    BY <1>3, FlowAssumption DEF Expires, Pending, Proposals, Nobody
  <2>2. ASSUME NEW s \in Sessions, Live(s), OwnOpen(s) \/ NothingPending
        PROVE  proposal[q].session = s
    <3>1. PICK p \in Proposals : proposal[p].session = s /\ proposal[p].status = "proposed"
      BY <1>3, <2>1, <2>2 DEF OwnOpen, NothingPending
    <3>2. p <= q /\ q <= p
      BY <1>3, <2>2, <3>1, OpenOfLive
    <3> QED BY <1>3, <3>1, <3>2, FlowAssumption DEF Proposals
  <2> QED BY <1>3, <2>1, <2>2
<1> QED BY <1>1, <1>2, <1>3 DEF GetPending

-----------------------------------------------------------------------------
(* The session, its meters and its worker. *)

\* A session that starts has no proposal yet, and no other session lives.
LEMMA StartCalm ==
    ASSUME Quiet, TypeInv', UNCHANGED plan, NEW s \in Sessions, StartSession(s)
    PROVE  CalmInv'
<1> USE DEF Quiet, CalmInv
<1>1. /\ session[s] = Absent
      /\ session' = [session EXCEPT ![s] = Scanning]
      /\ session'[s] = Scanning
      /\ \A o \in Sessions : o # s => session'[o] = session[o] /\ session[o] \in {Absent, Ended}
      /\ \A o \in Sessions : o < s => session[o] = Ended
      /\ UNCHANGED <<proposal, lapsed, booked, held, request, wire, worker, daemon, sweep>>
  BY DEF StartSession, engine, daemonTasks, TypeInv, TypeOK, Live, Status, Scanning
<1>2. \A p \in Proposals : proposal[p].session # s
  <2>1. s # Nobody
    BY FlowAssumption DEF Sessions, Nobody
  <2> QED BY <1>1, <2>1 DEF ProposalsInOrder
<1>3. ProposalsInOrder' /\ OnlyNewestOpen' /\ BookingsMatch' /\ CommandsMatch' /\ ApprovesItsOwn'
  <2>1. ProposalsInOrder'
    BY <1>1, <1>2 DEF ProposalsInOrder, TypeInv, TypeOK
  <2> QED BY <1>1, <2>1 DEF OnlyNewestOpen, Newest, BookingsMatch, CommandsMatch, Pending,
             ApprovesItsOwn
<1>4. SessionsInOrder' /\ WorkersMatch'
  BY <1>1 DEF SessionsInOrder, WorkersMatch, Scanning, SetupProposed, Absent, Ended
<1>5. RequestsLookUp'
  BY <1>1 DEF RequestsLookUp, Scanning, SetupProposed, Absent
<1>6. ApprovedIsBooked' /\ PendingIsPaused' /\ ResumesClean'
  <2>1. \A r \in Requests : request[r].pc # "idle" => request[r].s # s /\ request[r].s \in Sessions
    BY <1>1 DEF RequestsLookUp
  <2> QED BY <1>1, <2>1 DEF ApprovedIsBooked, Approved, Traded, PendingIsPaused, Pending,
             NothingPending, ResumesClean, OwnOpen, Declined
<1>7. PausedIsProposed'
  BY <1>1 DEF PausedIsProposed, OwnOpen, NothingPending, Pending, Decided, Approved, Declined,
     Scanning, SetupProposed
<1>8. CreatedIsProposed'
  BY <1>1 DEF CreatedIsProposed, WorkersMatch, Scanning, Ended, Absent
<1>9. TradedIsClosing' /\ ExecutingIsClosing'
  <2>1. ~Traded(s)'
    BY <1>1, <1>2 DEF Traded
  <2>2. \A o \in Sessions : o # s => session'[o] \notin {Scanning, SetupProposed, Executing}
    BY <1>1 DEF Absent, Ended, Scanning, SetupProposed, Executing
  <2> QED BY <1>1, <2>1, <2>2 DEF TradedIsClosing, ExecutingIsClosing, Live, Status, Scanning,
             SetupProposed, Executing
<1>10. SweepMatches'
  BY <1>1 DEF SweepMatches, Live, NothingPending, Pending, OwnOpen, Traded
<1>11. NoDeadZone'
  BY <1>1, <1>2 DEF NoDeadZone, Scanning, Absent, Ended, TypeInv, TypeOK, ProposalsInOrder, IsProposed, Nobody
<1> QED BY <1>3, <1>4, <1>5, <1>6, <1>7, <1>8, <1>9, <1>10, <1>11

\* A meter ends a session that no request looked up.
LEMMA MeterCalm ==
    ASSUME Quiet, TypeInv', UNCHANGED plan, NEW s \in Sessions, MeterEnds(s)
    PROVE  CalmInv'
<1> USE DEF Quiet, CalmInv
<1>1. /\ Live(s)
      /\ session' = [session EXCEPT ![s] = Ended]
      /\ session'[s] = Ended
      /\ \A o \in Sessions : o # s => session'[o] = session[o]
      /\ \A r \in Requests : request[r].s # s
      /\ UNCHANGED <<proposal, lapsed, booked, held, request, wire, worker, daemon, sweep>>
  BY DEF MeterEnds, Transition, Moves, LEGAL, Calm, engine, daemonTasks, TypeInv, TypeOK,
     Live, Status, Scanning, SetupProposed, Executing, Ended
<1>3. ProposalsInOrder' /\ OnlyNewestOpen' /\ BookingsMatch' /\ CommandsMatch' /\ ApprovesItsOwn'
  <2>1. ProposalsInOrder'
    BY <1>1 DEF ProposalsInOrder, TypeInv, TypeOK, Ended, Absent, Nobody
  <2> QED BY <1>1, <2>1 DEF OnlyNewestOpen, Newest, BookingsMatch, CommandsMatch, Pending,
             ApprovesItsOwn
<1>4. SessionsInOrder' /\ WorkersMatch'
  BY <1>1 DEF SessionsInOrder, WorkersMatch, SetupProposed, Absent, Ended, Live, Status,
     Scanning, Executing
<1>5. RequestsLookUp'
  BY <1>1 DEF RequestsLookUp, SetupProposed, Absent, Ended
<1>6. ApprovedIsBooked' /\ PendingIsPaused' /\ ResumesClean'
  <2>1. \A r \in Requests : request[r].pc # "idle" => request[r].s # s /\ request[r].s \in Sessions
    BY <1>1 DEF RequestsLookUp
  <2> QED BY <1>1, <2>1 DEF ApprovedIsBooked, Approved, Traded, PendingIsPaused, Pending,
             NothingPending, ResumesClean, OwnOpen, Declined
<1>7. PausedIsProposed' /\ CreatedIsProposed'
  BY <1>1 DEF PausedIsProposed, CreatedIsProposed, OwnOpen, NothingPending, Pending, Decided,
     Approved, Declined, Ended, SetupProposed, Scanning
<1>9. TradedIsClosing' /\ ExecutingIsClosing'
  <2>1. \A o \in Sessions : Live(o)' => o # s /\ Live(o)
    BY <1>1 DEF Live
  <2>2. \A o \in Sessions : session'[o] = Executing => o # s
    BY <1>1 DEF Executing, Ended
  <2> QED BY <1>1, <2>1, <2>2 DEF TradedIsClosing, ExecutingIsClosing, Approved, Traded
<1>10. SweepMatches'
  <2>1. \A o \in Sessions : Live(o)' => Live(o)
    BY <1>1 DEF Live
  <2> QED BY <1>1, <2>1 DEF SweepMatches, NothingPending, Pending, OwnOpen, Traded, Absent, Ended,
             SetupProposed
<1>11. NoDeadZone'
  BY <1>1 DEF NoDeadZone, Scanning, Ended, TypeInv, TypeOK, ProposalsInOrder, IsProposed, Nobody
<1> QED BY <1>3, <1>4, <1>5, <1>6, <1>7, <1>9, <1>10, <1>11

\* A worker goes on, and no other.
LEMMA WorkerAt ==
    ASSUME TypeOK, NEW s \in Sessions, NEW pc, WorkerGoes(s, pc)
    PROVE  /\ worker'[s].pc = pc
           /\ \A o \in Sessions : o # s => worker'[o] = worker[o]
BY DEF WorkerGoes, TypeOK, Worker

\* A worker that begins a cycle, or ends one with nothing to propose.
LEMMA WorkerCalm ==
    ASSUME Quiet, TypeInv', UNCHANGED plan, NEW s \in Sessions, CycleStart(s) \/ CycleNothing(s)
    PROVE  CalmInv'
<1> USE DEF Quiet, CalmInv
<1>1. /\ worker[s].pc # "created"
      /\ worker'[s].pc # "created"
      /\ session[s] = Scanning \/ worker'[s].pc = "idle"
      /\ \A o \in Sessions : o # s => worker'[o] = worker[o]
      /\ UNCHANGED <<session, proposal, lapsed, booked, held, request, wire, daemon, sweep>>
  BY WorkerAt DEF CycleStart, CycleNothing, engine, TypeInv
<1>2. WorkersMatch'
  BY <1>1 DEF WorkersMatch, Scanning, Absent, SetupProposed
<1>3. CreatedIsProposed'
  BY <1>1 DEF CreatedIsProposed, OwnOpen, NothingPending, Pending
<1>4. NoDeadZone'
  BY <1>1 DEF NoDeadZone, IsProposed, TypeInv, TypeOK, ProposalsInOrder, Nobody
<1>5. ProposalsInOrder' /\ SessionsInOrder' /\ OnlyNewestOpen' /\ BookingsMatch' /\ CommandsMatch'
  BY <1>1 DEF ProposalsInOrder, SessionsInOrder, OnlyNewestOpen, BookingsMatch, CommandsMatch,
     Newest, Pending
<1>6. RequestsLookUp' /\ ApprovesItsOwn' /\ ApprovedIsBooked' /\ PendingIsPaused' /\ ResumesClean'
  BY <1>1 DEF RequestsLookUp, ApprovesItsOwn, ApprovedIsBooked, PendingIsPaused, ResumesClean,
     Newest, Pending, NothingPending, OwnOpen, Traded, Approved, Declined
<1>7. PausedIsProposed' /\ TradedIsClosing' /\ ExecutingIsClosing' /\ SweepMatches'
  BY <1>1 DEF PausedIsProposed, TradedIsClosing, ExecutingIsClosing, SweepMatches,
     Pending, NothingPending, OwnOpen, Traded, Approved, Declined, Decided, Live
<1> QED BY <1>2, <1>3, <1>4, <1>5, <1>6, <1>7

\* A worker that looks for a pending proposal may find it expired.
LEMMA CheckCalm ==
    ASSUME Quiet, TypeInv', UNCHANGED plan, NEW s \in Sessions, CycleCheck(s)
    PROVE  CalmInv'
<1> USE DEF Quiet, CalmInv
<1>1. /\ worker[s].pc = "cycle" /\ worker'[s].pc \in {"idle", "checked"}
      /\ \A o \in Sessions : o # s => worker'[o] = worker[o]
      /\ UNCHANGED <<session, lapsed, booked, held, request, wire, daemon, sweep>>
  BY WorkerAt DEF CycleCheck, engine, TypeInv
<1>2. Expires
  <2>1. PICK p \in Proposals \cup {Nobody} : GetPending(p)
    BY DEF CycleCheck
  <2> QED BY <1>1, <2>1, GetPendingExpires
<1>3. ProposalsInOrder' /\ SessionsInOrder' /\ OnlyNewestOpen'
  BY <1>1, <1>2, ExpiryKeeps DEF SessionsInOrder
<1>4. /\ \A p \in Proposals : worker'[s].pc # "created"
      /\ WorkersMatch' /\ NoDeadZone'
  <2>1. WorkersMatch'
    BY <1>1 DEF WorkersMatch
  <2>2. \A p \in Proposals : proposal'[p].session = proposal[p].session
                             /\ (IsProposed(p)' => IsProposed(p))
    BY <1>1, <1>2, ExpiryKeeps DEF IsProposed
  <2>3. \A p \in Proposals : IsProposed(p) => proposal[p].session \in Sessions
    BY ProposedIsOwned
  <2> QED BY <1>1, <2>1, <2>2, <2>3 DEF NoDeadZone
<1>5. BookingsMatch' /\ CommandsMatch'
  <2>1. daemon.pc # "idle" => daemon.p \in Proposals
    BY DEF TypeInv
  <2>2. BookingsMatch'
    BY <1>1, <1>2, ExpiryKeeps DEF BookingsMatch
  <2>3. CommandsMatch'
    BY <1>1, <1>2, <2>1, ExpiryKeeps DEF CommandsMatch
  <2> QED BY <2>2, <2>3
<1>6. RequestsLookUp' /\ ApprovesItsOwn' /\ ApprovedIsBooked'
  BY <1>1, <1>2, ExpiryKeeps DEF RequestsLookUp, ApprovesItsOwn, ApprovedIsBooked, Approved
<1>7. PendingIsPaused' /\ ResumesClean'
  BY <1>1, <1>2, ExpiryKeeps DEF PendingIsPaused, ResumesClean, Declined, ApprovesItsOwn
<1>8. PausedIsProposed' /\ CreatedIsProposed'
  BY <1>1, <1>2, ExpiryKeeps
     DEF PausedIsProposed, CreatedIsProposed, Decided, Declined, Approved, Live, Status,
         Scanning, SetupProposed, Ended, Executing
<1>9. TradedIsClosing' /\ ExecutingIsClosing' /\ SweepMatches'
  BY <1>1, <1>2, ExpiryKeeps
     DEF TradedIsClosing, ExecutingIsClosing, SweepMatches, Approved, Live
<1> QED BY <1>3, <1>4, <1>5, <1>6, <1>7, <1>8, <1>9

\* A proposal is created for a scanning session that nobody has looked up, newer than
\* every other.
LEMMA CreateCalm ==
    ASSUME Quiet, TypeInv', UNCHANGED plan, NEW s \in Sessions, CycleCreate(s)
    PROVE  CalmInv'
<1> USE DEF Quiet, CalmInv
<1>1. PICK p \in Proposals :
        /\ proposal[p].status = "absent"
        /\ \A o \in Proposals : o < p => proposal[o].status # "absent"
        /\ proposal' = [proposal EXCEPT ![p] = [status |-> "proposed", session |-> s]]
  BY DEF CycleCreate
<1>2. /\ worker[s].pc = "checked" /\ worker'[s].pc = "created"
      /\ \A o \in Sessions : o # s => worker'[o] = worker[o]
      /\ session[s] = Scanning /\ Live(s) /\ s # Nobody
      /\ UNCHANGED <<session, lapsed, booked, held, request, wire, daemon, sweep>>
  BY WorkerAt, FlowAssumption DEF CycleCreate, engine, TypeInv, Calm, Live, Status, Scanning, Ended,
     Sessions, Nobody
<1>3. /\ proposal'[p].status = "proposed" /\ proposal'[p].session = s
      /\ \A q \in Proposals : q # p => proposal'[q] = proposal[q]
      /\ proposal[p].session = Nobody
      /\ \A q \in Proposals : proposal[q].status # "absent" => q < p
  <2>1. \A q \in Proposals : q < p \/ q = p \/ p < q
    BY FlowAssumption DEF Proposals
  <2> QED BY <1>1, <2>1 DEF TypeInv, TypeOK, ProposalsInOrder
<1>4. /\ sweep.s # s
      /\ \A r \in Requests : request[r].pc = "idle"
      /\ \A o \in Sessions : Live(o) => o = s
  <2>1. ~LookedUp(s)
    BY DEF CycleCreate, Calm
  <2>2. \A r \in Requests : request[r].pc = "idle"
    BY <2>1, FlowAssumption DEF LookedUp, RequestsLookUp, Sessions, Nobody
  <2> QED BY <1>2, <2>1, <2>2, OneLive DEF LookedUp, TypeInv
<1>5. wire = <<>> /\ daemon.pc = "idle" /\ \A r \in Requests : ~Approved(r)
  BY <1>4, NoRequestOpen
<1>6. ~OwnOpen(s) /\ ~Traded(s)
  <2>1. ~OwnOpen(s)
    BY <1>2, FlowAssumption DEF OwnOpen, NoDeadZone, IsProposed, Proposals, Nobody
  <2>2. ~Traded(s)
    BY <1>2, <1>5 DEF TradedIsClosing, Scanning, Executing
  <2> QED BY <2>1, <2>2
<1>7. /\ \A q \in Proposals : proposal[q].session # s => (Newest(q) => Newest(q)')
      /\ \A o \in Sessions : Traded(o) => Traded(o)'
      /\ \A o \in Sessions : Traded(o)' => Traded(o)
      /\ Newest(p)'
  <2>1. booked[p] = 0
    <3>1. ~(booked[p] > 0) /\ booked[p] \in 0..2
      BY <1>3 DEF BookingsMatch, TypeInv, TypeOK, MaxBookings
    <3> QED BY <3>1
  <2>3. \A o \in Sessions : Traded(o) <=> Traded(o)'
    BY <1>2, <1>3, <2>1 DEF Traded
  <2>5. Newest(p)'
    <3> SUFFICES ASSUME NEW o \in Proposals, proposal'[o].session = s PROVE o <= p
      BY <1>3 DEF Newest
    <3>1. o = p \/ o < p
      BY <1>2, <1>3 DEF ProposalsInOrder
    <3> QED BY <3>1, FlowAssumption DEF Proposals
  <2>6. ASSUME NEW q \in Proposals, proposal[q].session # s, Newest(q) PROVE Newest(q)'
    <3>1. CASE q = p
      BY <2>5, <3>1
    <3>2. CASE q # p
      <4>1. proposal'[q] = proposal[q]
        BY <1>3, <3>2
      <4>2. \A o \in Proposals : proposal'[o].session = proposal'[q].session =>
                proposal[o].session = proposal[q].session
        BY <1>3, <2>6, <4>1
      <4> QED BY <2>6, <4>2 DEF Newest
    <3> QED BY <3>1, <3>2
  <2> QED BY <2>3, <2>5, <2>6
<1>8. ProposalsInOrder'
  <2>1. /\ \A q \in Proposals : proposal'[q].status = "absent" <=> proposal'[q].session = Nobody
        /\ \A q \in Proposals :
              proposal'[q].session # Nobody => session'[proposal'[q].session] # Absent
    BY <1>2, <1>3 DEF ProposalsInOrder, Scanning, Absent
  <2>2. ASSUME NEW o \in Proposals, NEW q \in Proposals, o < q, proposal'[q].status # "absent"
        PROVE  proposal'[o].status # "absent" /\ proposal'[o].session <= proposal'[q].session
    <3>1. CASE q = p
      <4>1. o # p /\ proposal[o].status # "absent"
        BY <1>1, <2>2, <3>1, FlowAssumption DEF Proposals
      <4>2. proposal[o].session \in Sessions /\ session[proposal[o].session] # Absent
        BY <4>1 DEF ProposalsInOrder, TypeInv, TypeOK
      <4>3. proposal[o].session <= s
        BY <1>2, <4>2, FlowAssumption DEF SessionsInOrder, Sessions, Scanning, Ended
      <4> QED BY <1>3, <3>1, <4>1, <4>3
    <3>2. CASE q # p
      <4>1. proposal[q].status # "absent" /\ o # p
        BY <1>3, <2>2, <3>2, FlowAssumption DEF Proposals
      <4> QED BY <1>3, <2>2, <3>2, <4>1 DEF ProposalsInOrder
    <3> QED BY <3>1, <3>2
  <2>3. \A q \in lapsed : proposal'[q].status # "absent"
    BY <1>3 DEF ProposalsInOrder, TypeInv, TypeOK
  <2>4. \A o, q \in Proposals : o < q /\ q \in lapsed' => o \in lapsed'
    BY <1>2 DEF ProposalsInOrder
  <2> QED BY <1>2, <2>1, <2>2, <2>3, <2>4 DEF ProposalsInOrder
<1>9. OnlyNewestOpen' /\ BookingsMatch'
  <2>1. OnlyNewestOpen'
    BY <1>3, <1>6, <1>7 DEF OnlyNewestOpen, OwnOpen
  <2>2. BookingsMatch'
    BY <1>1, <1>2, <1>3, <1>5, <1>6, <1>7 DEF BookingsMatch, Traded
  <2> QED BY <2>1, <2>2
<1>10. SessionsInOrder' /\ WorkersMatch' /\ CommandsMatch'
  BY <1>2, <1>5 DEF SessionsInOrder, WorkersMatch, CommandsMatch, Scanning, Absent, SetupProposed
<1>11. RequestsLookUp' /\ ApprovesItsOwn' /\ ApprovedIsBooked' /\ PendingIsPaused' /\ ResumesClean'
  BY <1>2, <1>4, <1>5 DEF RequestsLookUp, ApprovesItsOwn, ApprovedIsBooked, PendingIsPaused,
     ResumesClean, Approved, Declined
<1>12. PausedIsProposed' /\ CreatedIsProposed' /\ ExecutingIsClosing' /\ TradedIsClosing'
  <2>1. \A o \in Sessions : o # s => session[o] \notin {Scanning, SetupProposed, Executing}
    BY <1>4 DEF Live, Status, Scanning, SetupProposed, Executing, Ended
  <2>2. OwnOpen(s)'
    BY <1>3 DEF OwnOpen
  <2> QED BY <1>2, <1>4, <1>6, <1>7, <2>1, <2>2
          DEF PausedIsProposed, CreatedIsProposed, ExecutingIsClosing, TradedIsClosing, Scanning,
              SetupProposed, Executing, Live, Status
<1>13. SweepMatches'
  <2>1. session[s] # SetupProposed
    BY <1>2 DEF Scanning, SetupProposed
  <2>2. sweep.s \in Sessions => ~Live(sweep.s) /\ ~Live(sweep.s)'
    BY <1>2, <1>4 DEF Live
  <2>3. sweep.s \in Sessions => session[sweep.s] # SetupProposed
    BY <2>2 DEF Live, Status, SetupProposed, Ended
  <2> QED BY <1>2, <1>4, <1>7, <2>2, <2>3 DEF SweepMatches
<1>14. NoDeadZone'
  <2>1. \A q \in Proposals : q # p /\ IsProposed(q)' => IsProposed(q) /\ proposal[q].session # s
    BY <1>3, <1>6 DEF IsProposed, OwnOpen
  <2> QED BY <1>2, <1>3, <1>4, <2>1, FlowAssumption
          DEF NoDeadZone, TypeInv, TypeOK, ProposalsInOrder, IsProposed, Nobody
<1> QED BY <1>8, <1>9, <1>10, <1>11, <1>12, <1>13, <1>14

\* The session is paused on the proposal its worker created.
LEMMA ProposeCalm ==
    ASSUME Quiet, TypeInv', UNCHANGED plan, NEW s \in Sessions, CyclePropose(s)
    PROVE  CalmInv'
<1> USE DEF Quiet, CalmInv
<1>1. /\ worker[s].pc = "created" /\ worker'[s].pc = "idle"
      /\ \A o \in Sessions : o # s => worker'[o] = worker[o]
      /\ UNCHANGED <<proposal, lapsed, booked, held, request, wire, daemon, sweep>>
      /\ sweep.s # s
  BY WorkerAt DEF CyclePropose, engine, TypeInv, Calm, LookedUp
<1>2. /\ \A r \in Requests : request[r].pc = "idle"
      /\ wire = <<>> /\ daemon.pc = "idle" /\ \A r \in Requests : ~Approved(r)
  <2>1. ~LookedUp(s)
    BY DEF CyclePropose, Calm
  <2>2. \A r \in Requests : request[r].pc = "idle"
    BY <2>1, FlowAssumption DEF LookedUp, RequestsLookUp, Sessions, Nobody
  <2> QED BY <2>2, NoRequestOpen
<1>3. CASE session[s] = Scanning /\ session' = [session EXCEPT ![s] = SetupProposed]
  <2>1. /\ session'[s] = SetupProposed
        /\ \A o \in Sessions : o # s => session'[o] = session[o]
        /\ \A o \in Sessions : Live(o) => o = s
        /\ \A o \in Sessions : Live(o)' => Live(o)
    BY <1>3, OneLive DEF TypeInv, TypeOK, Live, Status, Scanning, Ended, SetupProposed
  <2>2. ~Traded(s) /\ (OwnOpen(s) \/ NothingPending)
    BY <1>1, <1>2, <1>3, <2>1 DEF TradedIsClosing, CreatedIsProposed, Live, Status, Scanning, Executing, Ended
  <2>3. ProposalsInOrder' /\ SessionsInOrder' /\ WorkersMatch'
    <3>1. ProposalsInOrder'
      BY <1>1, <2>1 DEF ProposalsInOrder, TypeInv, TypeOK, SetupProposed, Absent
    <3> QED BY <1>1, <1>3, <2>1, <3>1
            DEF SessionsInOrder, WorkersMatch, Absent, Scanning, SetupProposed, Ended
  <2>4. OnlyNewestOpen' /\ BookingsMatch' /\ CommandsMatch'
    BY <1>1, <1>2 DEF OnlyNewestOpen, BookingsMatch, CommandsMatch, Newest
  <2>5. RequestsLookUp' /\ ApprovesItsOwn' /\ ApprovedIsBooked' /\ PendingIsPaused' /\ ResumesClean'
    BY <1>1, <1>2 DEF RequestsLookUp, ApprovesItsOwn, ApprovedIsBooked, PendingIsPaused,
       ResumesClean, Approved, Declined
  <2>6. PausedIsProposed' /\ CreatedIsProposed'
    <3>1. (OwnOpen(s) \/ NothingPending)'
      BY <1>1, <2>2 DEF OwnOpen, NothingPending, Pending
    <3>2. \A o \in Sessions : o # s => session'[o] \notin {Scanning, SetupProposed}
      BY <2>1 DEF Live, Status, Scanning, SetupProposed, Ended
    <3> QED BY <1>1, <2>1, <3>1, <3>2
            DEF PausedIsProposed, CreatedIsProposed
  <2>7. TradedIsClosing' /\ ExecutingIsClosing' /\ SweepMatches' /\ NoDeadZone'
    <3>1. \A o \in Sessions : o # s => session'[o] \notin {Scanning, Executing, SetupProposed}
      BY <2>1 DEF Live, Status, Scanning, SetupProposed, Executing, Ended
    <3>2. TradedIsClosing' /\ ExecutingIsClosing'
      BY <1>1, <2>1, <2>2, <3>1
         DEF TradedIsClosing, ExecutingIsClosing, Traded, Scanning, SetupProposed, Executing
    <3>3. SweepMatches'
      BY <1>1, <2>1, <3>1 DEF SweepMatches, NothingPending, Pending, OwnOpen, Traded,
         SetupProposed, Absent
    <3>4. NoDeadZone'
      BY <1>1, <2>1, <3>1 DEF NoDeadZone, Scanning, SetupProposed, TypeInv, TypeOK,
         ProposalsInOrder, IsProposed, Nobody
    <3> QED BY <3>2, <3>3, <3>4
  <2> QED BY <2>3, <2>4, <2>5, <2>6, <2>7
<1>4. CASE session[s] # Scanning /\ UNCHANGED session
  <2>1. ProposalsInOrder' /\ SessionsInOrder' /\ OnlyNewestOpen' /\ BookingsMatch' /\ CommandsMatch'
    BY <1>1, <1>4 DEF ProposalsInOrder, SessionsInOrder, OnlyNewestOpen, BookingsMatch,
       CommandsMatch, Newest, Pending
  <2>2. RequestsLookUp' /\ ApprovesItsOwn' /\ ApprovedIsBooked' /\ PendingIsPaused' /\ ResumesClean'
    BY <1>1, <1>2, <1>4 DEF RequestsLookUp, ApprovesItsOwn, ApprovedIsBooked, PendingIsPaused,
       ResumesClean, Approved, Declined
  <2>3. PausedIsProposed' /\ TradedIsClosing' /\ ExecutingIsClosing' /\ SweepMatches'
    BY <1>1, <1>4 DEF PausedIsProposed, TradedIsClosing, ExecutingIsClosing, SweepMatches,
       Pending, NothingPending, OwnOpen, Traded, Approved, Declined, Decided, Live
  <2>4. WorkersMatch' /\ CreatedIsProposed' /\ NoDeadZone'
    <3>1. WorkersMatch' /\ CreatedIsProposed'
      BY <1>1, <1>4 DEF WorkersMatch, CreatedIsProposed, OwnOpen, NothingPending, Pending
    <3> QED BY <1>1, <1>4, <3>1
            DEF NoDeadZone, TypeInv, TypeOK, ProposalsInOrder, IsProposed, Nobody
  <2> QED BY <2>1, <2>2, <2>3, <2>4
<1>5. session[s] = Scanning <=> Moves(s, SetupProposed)
  BY DEF Moves, LEGAL, TypeInv, TypeOK, Status, Scanning, SetupProposed, Executing, Ended, Absent
<1> QED BY <1>3, <1>4, <1>5 DEF CyclePropose, Transition

-----------------------------------------------------------------------------
(* The API's handlers. *)

\* Steps that leave the tenant's rows alone.
LEMMA SameRows ==
    ASSUME Quiet, UNCHANGED <<session, proposal, lapsed, worker>>
    PROVE  ProposalsInOrder' /\ SessionsInOrder' /\ WorkersMatch' /\ OnlyNewestOpen' /\ NoDeadZone'
<1>1. ProposalsInOrder' /\ SessionsInOrder' /\ WorkersMatch' /\ OnlyNewestOpen'
  BY DEF Quiet, CalmInv, ProposalsInOrder, SessionsInOrder, WorkersMatch, OnlyNewestOpen, Newest
<1>2. \A p \in Proposals : IsProposed(p)' => IsProposed(p) /\ proposal[p].session \in Sessions
  BY ProposedIsOwned DEF IsProposed
<1>3. NoDeadZone'
  BY <1>2 DEF Quiet, CalmInv, NoDeadZone
<1> QED BY <1>1, <1>3

\* A request looks its session up while no other is open.
LEMMA ArriveCalm ==
    ASSUME Quiet, TypeInv', UNCHANGED plan, NEW r \in Requests,
           NEW kind \in {"approve", "reject", "end"}, Arrive(r, kind)
    PROVE  CalmInv'
<1> USE DEF Quiet, CalmInv
<1>1. PICK s \in Sessions :
        /\ Live(s) /\ worker[s].pc # "created"
        /\ kind = "approve" => session[s] = SetupProposed
        /\ request' = [request EXCEPT ![r] =
              [NoRequest EXCEPT !.pc = "pending", !.kind = kind, !.s = s,
                                !.paused = session[s] = SetupProposed]]
  BY DEF Arrive, Calm
<1>2. UNCHANGED <<session, proposal, lapsed, booked, held, wire, worker, daemon, sweep>>
  BY DEF Arrive, engine, daemonTasks
<1>3. /\ request'[r].pc = "pending" /\ request'[r].kind = kind /\ request'[r].s = s
      /\ request'[r].paused <=> session[s] = SetupProposed
      /\ request'[r].reply = "none"
  BY <1>1 DEF TypeInv, TypeOK, NoRequest
<1>4. /\ \A o \in Requests : o = r
      /\ \A o \in Requests : request[o].pc = "idle"
      /\ \A o \in Sessions : Live(o) => o = s
  BY <1>1, OneLive DEF Arrive, OneRequest, TypeInv
<1>5. wire = <<>> /\ daemon.pc = "idle" /\ \A o \in Requests : ~Approved(o)
  BY <1>4, NoRequestOpen
<1>6. ~Approved(r)' /\ ~Declined(r)'
  BY <1>2, <1>3, <1>5 DEF Approved, Declined
<1>7. /\ ProposalsInOrder' /\ SessionsInOrder' /\ WorkersMatch' /\ OnlyNewestOpen' /\ NoDeadZone'
      /\ BookingsMatch' /\ CommandsMatch' /\ SweepMatches'
  <2>1. BookingsMatch' /\ CommandsMatch'
    BY <1>2, <1>5 DEF BookingsMatch, CommandsMatch, Newest
  <2>2. SweepMatches'
    BY <1>2 DEF SweepMatches, Live, NothingPending, Pending, OwnOpen, Traded
  <2> QED BY <1>2, <2>1, <2>2, SameRows
<1>8. RequestsLookUp' /\ ApprovesItsOwn'
  <2>1. session[s] # Absent /\ \A o \in Sessions : o # s => session[o] # SetupProposed
    BY <1>1, <1>4 DEF Live, Status, Scanning, SetupProposed, Executing, Ended, Absent
  <2> QED BY <1>1, <1>2, <1>3, <1>4, <2>1 DEF RequestsLookUp, ApprovesItsOwn
<1>9. ApprovedIsBooked'
  <2>1. session[s] = SetupProposed => ~Traded(s)
    BY <1>1, <1>5 DEF TradedIsClosing, SetupProposed, Executing
  <2> QED BY <1>2, <1>3, <1>4, <1>6, <2>1 DEF ApprovedIsBooked, Traded
<1>10. PendingIsPaused' /\ ResumesClean'
  BY <1>2, <1>3, <1>4, <1>6 DEF PendingIsPaused, ResumesClean, Scanning, SetupProposed
<1>11. PausedIsProposed' /\ CreatedIsProposed'
  <2>1. \A o \in Requests : ~Decided(o)
    BY <1>4, NoRequestOpen
  <2>2. \A o \in Sessions : worker[o].pc = "created" => session[o] # Scanning
    BY <1>1, <1>4 DEF Live, Status, Scanning, Ended
  <2> QED BY <1>2, <2>1, <2>2
          DEF PausedIsProposed, CreatedIsProposed, OwnOpen, NothingPending, Pending
<1>12. TradedIsClosing' /\ ExecutingIsClosing'
  BY <1>2, <1>4, <1>5 DEF TradedIsClosing, ExecutingIsClosing, Traded, Live
<1> QED BY <1>7, <1>8, <1>9, <1>10, <1>11, <1>12

\* The handler's get_pending: what it finds is its own session's, when that is
\* paused.
LEMMA PendingCalm ==
    ASSUME Quiet, TypeInv', UNCHANGED plan, NEW r \in Requests, ReadPending(r)
    PROVE  CalmInv'
<1> USE DEF Quiet, CalmInv
<1> DEFINE c == request[r]
<1>1. PICK p \in Proposals \cup {Nobody} :
        /\ GetPending(p)
        /\ request' = [request EXCEPT ![r].pc = AfterPending(request[r], p), ![r].p = p]
  BY DEF ReadPending
<1>2. /\ UNCHANGED <<session, lapsed, booked, held, wire, worker, daemon, sweep>>
      /\ c.pc = "pending" /\ c.reply = "none"
  BY DEF ReadPending, engine, daemonTasks, RequestsLookUp
<1>3. /\ \A o \in Requests : o = r
      /\ c \in Request /\ c.s \in Sessions
      /\ wire = <<>> /\ daemon.pc = "idle"
      /\ \A s \in Sessions : ~(worker[s].pc = "created" /\ session[s] = Scanning)
  BY <1>2, TheRequest
<1>4. /\ request'[r].pc = AfterPending(c, p) /\ request'[r].kind = c.kind /\ request'[r].s = c.s
      /\ request'[r].p = p /\ request'[r].paused = c.paused /\ request'[r].reply = "none"
  BY <1>1, <1>2, <1>3 DEF TypeInv, TypeOK, Request
<1>5. ~Approved(r) /\ ~Declined(r) /\ ~Decided(r) /\ ~Approved(r)' /\ ~Declined(r)'
  <2>1. AfterPending(c, p) \notin {"await", "approving", "closing"}
    BY <1>3 DEF AfterPending, Request
  <2> QED BY <1>2, <1>3, <1>4, <2>1 DEF Approved, Declined, Decided
<1>6. /\ Expires
      /\ p = Nobody => /\ NothingPending'
                       /\ \A s \in Sessions : Live(s) => ~OwnOpen(s)'
      /\ p # Nobody => /\ p \in Proposals /\ Pending(p) /\ UNCHANGED proposal
                       /\ \A s \in Sessions : Live(s) /\ (OwnOpen(s) \/ NothingPending) =>
                               proposal[p].session = s
  BY <1>1, <1>2, GetPendingExpires
<1>7. c.paused => Live(c.s) /\ ~Traded(c.s)
  BY <1>2, <1>5 DEF ApprovedIsBooked, Live, Status, Scanning, SetupProposed, Ended
<1>8. c.paused /\ p # Nobody => proposal[p].session = c.s /\ Newest(p) /\ session[c.s] = SetupProposed
  <2> SUFFICES ASSUME c.paused, p # Nobody
               PROVE  proposal[p].session = c.s /\ Newest(p) /\ session[c.s] = SetupProposed
    OBVIOUS
  <2>1. session[c.s] = SetupProposed
    BY <1>2, <1>5, <1>6 DEF ApprovedIsBooked, PendingIsPaused, NothingPending
  <2>2. proposal[p].session = c.s
    BY <1>3, <1>5, <1>6, <1>7, <2>1 DEF PausedIsProposed
  <2> QED BY <1>6, <2>1, <2>2 DEF OnlyNewestOpen, Pending
<1>9. ProposalsInOrder' /\ SessionsInOrder' /\ WorkersMatch' /\ OnlyNewestOpen' /\ NoDeadZone'
  <2>1. SessionsInOrder' /\ WorkersMatch'
    BY <1>2 DEF SessionsInOrder, WorkersMatch
  <2>2. \A q \in Proposals : /\ IsProposed(q)' => IsProposed(q)
                             /\ proposal'[q].session = proposal[q].session
                             /\ IsProposed(q) => proposal[q].session \in Sessions
    BY <1>2, <1>6, ExpiryKeeps, ProposedIsOwned DEF IsProposed
  <2>3. NoDeadZone'
    BY <1>2, <2>2 DEF NoDeadZone
  <2> QED BY <1>2, <1>6, <2>1, <2>3, ExpiryKeeps
<1>10. BookingsMatch' /\ CommandsMatch'
  <2>1. BookingsMatch'
    BY <1>2, <1>6, ExpiryKeeps DEF BookingsMatch
  <2> QED BY <1>2, <1>3, <2>1 DEF CommandsMatch
<1>11. RequestsLookUp'
  <2>1. AfterPending(c, p) = "latest" => c.paused
    BY <1>2, <1>3 DEF AfterPending, RequestsLookUp, Request
  <2>2. AfterPending(c, p) = "mark" => /\ p \in Proposals /\ c.kind # "approve"
                                       /\ proposal'[p].status = "proposed"
    BY <1>3, <1>6 DEF AfterPending, Pending, Request
  <2>3. AfterPending(c, p) # "idle"
    BY <1>3 DEF AfterPending, Request
  <2> QED BY <1>2, <1>3, <1>4, <2>1, <2>2, <2>3 DEF RequestsLookUp
<1>12. ApprovesItsOwn' /\ PendingIsPaused'
  <2>1. AfterPending(c, p) \notin {"await", "approving", "closing", "pending"}
    BY <1>3 DEF AfterPending, Request
  <2>2. AfterPending(c, p) = "send" => p # Nobody /\ c.paused
    BY <1>2, <1>3 DEF AfterPending, RequestsLookUp, Request
  <2>3. p # Nobody => UNCHANGED proposal /\ (Newest(p) => Newest(p)')
    BY <1>6 DEF Newest
  <2> QED BY <1>2, <1>3, <1>4, <1>6, <1>8, <2>1, <2>2, <2>3 DEF ApprovesItsOwn, PendingIsPaused
<1>13. ApprovedIsBooked'
  <2>1. PICK s \in Sessions : s = c.s
    BY <1>3
  <2>2. Traded(s)' <=> Traded(s)
    BY <1>2, <1>6, ExpiryKeeps
  <2> QED BY <1>2, <1>3, <1>4, <1>5, <2>1, <2>2 DEF ApprovedIsBooked
<1>14. ResumesClean'
  <2>3. PICK s \in Sessions : s = c.s
    BY <1>3
  <2>1. AfterPending(c, p) \in {"latest", "resuming"} /\ c.paused => ~OwnOpen(s)'
    BY <1>3, <1>6, <1>7, <2>3 DEF AfterPending, Request
  <2>2. AfterPending(c, p) = "mark" /\ c.paused =>
           \A q \in Proposals :
              proposal'[q].session = c.s /\ proposal'[q].status = "proposed" => q = p
    <3> SUFFICES ASSUME AfterPending(c, p) = "mark", c.paused, NEW q \in Proposals,
                        proposal'[q].session = c.s, proposal'[q].status = "proposed"
                 PROVE  q = p
      OBVIOUS
    <3>1. p # Nobody
      BY <1>3 DEF AfterPending, Request
    <3>2. Newest(q) /\ Newest(p) /\ proposal[p].session = proposal[q].session /\ p \in Proposals
      BY <1>6, <1>8, <3>1 DEF OnlyNewestOpen
    <3>3. q <= p /\ p <= q
      BY <3>2 DEF Newest
    <3> QED BY <3>2, <3>3, FlowAssumption DEF Proposals
  <2> QED BY <1>3, <1>4, <1>5, <2>1, <2>2, <2>3 DEF ResumesClean
<1>15. PausedIsProposed' /\ CreatedIsProposed'
  <2>1. \A s \in Sessions : session[s] = SetupProposed => OwnOpen(s) \/ NothingPending
    BY <1>3, <1>5 DEF PausedIsProposed
  <2>2. \A s \in Sessions : session[s] = SetupProposed => Live(s)
    BY DEF Live, Status, SetupProposed, Ended
  <2> QED BY <1>2, <1>3, <1>6, <2>1, <2>2, ExpiryKeeps DEF PausedIsProposed, CreatedIsProposed
<1>16. TradedIsClosing' /\ ExecutingIsClosing' /\ SweepMatches'
  <2>1. AfterPending(c, p) # "closing" /\ c.pc # "closing"
    BY <1>2, <1>3 DEF AfterPending, Request
  <2> QED BY <1>2, <1>3, <1>4, <1>5, <1>6, <2>1, ExpiryKeeps
          DEF TradedIsClosing, ExecutingIsClosing, SweepMatches, Live
<1> QED BY <1>9, <1>10, <1>11, <1>12, <1>13, <1>14, <1>15, <1>16

\* The handler's latest_for_session: in calm it never finds an executed proposal.
LEMMA LatestCalm ==
    ASSUME Quiet, TypeInv', UNCHANGED plan, NEW r \in Requests, ReadLatest(r)
    PROVE  CalmInv'
<1> USE DEF Quiet, CalmInv
<1> DEFINE c == request[r]
<1>1. /\ UNCHANGED <<session, proposal, lapsed, booked, held, wire, worker, daemon, sweep>>
      /\ c.pc = "latest" /\ c.paused /\ c.reply = "none"
  BY DEF ReadLatest, engine, daemonTasks, RequestsLookUp
<1>2. /\ \A o \in Requests : o = r
      /\ c \in Request /\ c.s \in Sessions
      /\ wire = <<>> /\ daemon.pc = "idle"
      /\ \A s \in Sessions : ~(worker[s].pc = "created" /\ session[s] = Scanning)
  BY <1>1, TheRequest
<1>3. ~LatestExecuted(c.s)
  <2>1. ~Traded(c.s)
    BY <1>1, <1>2 DEF ApprovedIsBooked, Approved
  <2> QED BY <2>1 DEF LatestExecuted, Traded, BookingsMatch
<1>4. /\ request'[r].pc = "resuming" /\ request'[r].kind = c.kind /\ request'[r].s = c.s
      /\ request'[r].p = c.p /\ request'[r].paused = c.paused /\ request'[r].reply = "none"
  BY <1>1, <1>2, <1>3 DEF ReadLatest, Goto, TypeInv, TypeOK, Request
<1>5. ~Approved(r) /\ ~Declined(r) /\ ~Approved(r)' /\ ~Declined(r)'
  BY <1>1, <1>4 DEF Approved, Declined
<1>6. /\ ProposalsInOrder' /\ SessionsInOrder' /\ WorkersMatch' /\ OnlyNewestOpen' /\ NoDeadZone'
      /\ BookingsMatch' /\ CommandsMatch' /\ SweepMatches'
  <2>1. BookingsMatch' /\ CommandsMatch'
    BY <1>1, <1>2 DEF BookingsMatch, CommandsMatch, Newest
  <2>2. SweepMatches'
    BY <1>1 DEF SweepMatches, Live, NothingPending, Pending, OwnOpen, Traded
  <2> QED BY <1>1, <2>1, <2>2, SameRows
<1>7. RequestsLookUp' /\ ApprovesItsOwn' /\ PendingIsPaused'
  BY <1>1, <1>2, <1>4 DEF RequestsLookUp, ApprovesItsOwn, PendingIsPaused
<1>8. ApprovedIsBooked' /\ ResumesClean'
  BY <1>1, <1>2, <1>4, <1>5 DEF ApprovedIsBooked, ResumesClean, Traded, OwnOpen
<1>9. PausedIsProposed' /\ CreatedIsProposed'
  <2>1. Decided(r)'
    BY <1>4 DEF Decided
  <2> QED BY <1>1, <1>2, <1>4, <2>1
          DEF PausedIsProposed, CreatedIsProposed, OwnOpen, NothingPending, Pending
<1>10. TradedIsClosing' /\ ExecutingIsClosing'
  BY <1>1, <1>2, <1>4, <1>5 DEF TradedIsClosing, ExecutingIsClosing, Traded, Live
<1> QED BY <1>6, <1>7, <1>8, <1>9, <1>10

\* A command is sent for the request's own proposal, or dropped.
LEMMA SendCalm ==
    ASSUME Quiet, TypeInv', UNCHANGED plan, NEW r \in Requests, Send(r)
    PROVE  CalmInv'
<1> USE DEF Quiet, CalmInv
<1> DEFINE c == request[r]
<1>1. /\ UNCHANGED <<session, proposal, lapsed, booked, held, worker, daemon, sweep>>
      /\ c.pc = "send" /\ c.reply = "none"
  BY DEF Send, engine, daemonTasks, RequestsLookUp
<1>2. /\ \A o \in Requests : o = r
      /\ c \in Request /\ c.s \in Sessions
      /\ wire = <<>> /\ daemon.pc = "idle" /\ daemon.r # r
      /\ \A s \in Sessions : ~(worker[s].pc = "created" /\ session[s] = Scanning)
  BY <1>1, TheRequest
<1>3. /\ request'[r].pc = "await" /\ request'[r].kind = c.kind /\ request'[r].s = c.s
      /\ request'[r].p = c.p /\ request'[r].paused = c.paused /\ request'[r].reply = "none"
  BY <1>1, <1>2 DEF Send, Goto, TypeInv, TypeOK, Request
<1>4. /\ wire' = <<>> \/ wire' = <<[r |-> r, p |-> c.p]>>
      /\ ~Approved(r) /\ ~Declined(r) /\ ~Decided(r) /\ ~Approved(r)' /\ ~Declined(r)'
  <2>1. wire' = <<>> \/ wire' = <<[r |-> r, p |-> c.p]>>
    BY <1>2 DEF Send
  <2> QED BY <1>1, <1>2, <1>3, <2>1 DEF Approved, Declined, Decided
<1>5. /\ ProposalsInOrder' /\ SessionsInOrder' /\ WorkersMatch' /\ OnlyNewestOpen' /\ NoDeadZone'
      /\ BookingsMatch' /\ CommandsMatch' /\ SweepMatches'
  <2>1. BookingsMatch'
    BY <1>1, <1>2 DEF BookingsMatch, Newest
  <2>2. CommandsMatch'
    BY <1>1, <1>2, <1>3, <1>4 DEF CommandsMatch
  <2>3. SweepMatches'
    BY <1>1 DEF SweepMatches, Live, NothingPending, Pending, OwnOpen, Traded
  <2> QED BY <1>1, <2>1, <2>2, <2>3, SameRows
<1>6. RequestsLookUp' /\ ApprovesItsOwn' /\ PendingIsPaused'
  BY <1>1, <1>2, <1>3 DEF RequestsLookUp, ApprovesItsOwn, PendingIsPaused, Newest, Pending
<1>7. ApprovedIsBooked' /\ ResumesClean'
  BY <1>1, <1>2, <1>3, <1>4 DEF ApprovedIsBooked, ResumesClean, Traded, OwnOpen
<1>8. PausedIsProposed' /\ CreatedIsProposed'
  BY <1>1, <1>2, <1>3, <1>4
     DEF PausedIsProposed, CreatedIsProposed, OwnOpen, NothingPending, Pending
<1>9. TradedIsClosing' /\ ExecutingIsClosing'
  BY <1>1, <1>2, <1>3, <1>4 DEF TradedIsClosing, ExecutingIsClosing, Traded, Live
<1> QED BY <1>5, <1>6, <1>7, <1>8, <1>9

\* A handler that answers the tenant without touching the session any more: it had
\* decided nothing.
LEMMA LeaveCalm ==
    ASSUME Quiet, TypeInv', NEW r \in Requests, Respond(r), request[r].pc # "idle",
           UNCHANGED <<session, proposal, lapsed, booked, worker, daemon, sweep>>,
           wire = <<>>, wire' = <<>>, daemon.pc = "idle",
           session[request[r].s] = SetupProposed => ~Decided(r),
           Approved(r) =>
                \/ ~Live(request[r].s)
                \/ /\ session[request[r].s] \notin {Scanning, SetupProposed}
                   /\ request[r].pc # "closing"
    PROVE  CalmInv'
<1> USE DEF Quiet, CalmInv
<1>1. /\ \A o \in Requests : o = r
      /\ request[r].s \in Sessions
      /\ \A s \in Sessions : ~(worker[s].pc = "created" /\ session[s] = Scanning)
  BY TheRequest
<1>2. request'[r] = NoRequest
  BY DEF Respond, TypeInv, TypeOK
<1>3. ~Approved(r)' /\ ~Declined(r)'
  BY <1>2 DEF Approved, Declined, NoRequest
<1>4. /\ ProposalsInOrder' /\ SessionsInOrder' /\ WorkersMatch' /\ OnlyNewestOpen' /\ NoDeadZone'
      /\ BookingsMatch' /\ CommandsMatch' /\ SweepMatches'
  <2>1. BookingsMatch' /\ CommandsMatch'
    BY DEF BookingsMatch, CommandsMatch, Newest
  <2>2. SweepMatches'
    BY DEF SweepMatches, Live, NothingPending, Pending, OwnOpen, Traded
  <2> QED BY <2>1, <2>2, SameRows
<1>5. RequestsLookUp' /\ ApprovesItsOwn' /\ PendingIsPaused' /\ ApprovedIsBooked' /\ ResumesClean'
  BY <1>1, <1>2, <1>3
     DEF RequestsLookUp, ApprovesItsOwn, PendingIsPaused, ApprovedIsBooked, ResumesClean, NoRequest
<1>6. PausedIsProposed' /\ CreatedIsProposed'
  BY <1>1 DEF PausedIsProposed, CreatedIsProposed, OwnOpen, NothingPending, Pending
<1>7. ExecutingIsClosing'
  <2>1. request[r].pc = "closing" => session[request[r].s] # Executing
    BY DEF Approved, Live, Status, Executing, Ended
  <2> QED BY <1>1, <1>2, <2>1 DEF ExecutingIsClosing, Traded, NoRequest
<1>8. TradedIsClosing'
  <2> SUFFICES ASSUME NEW s \in Sessions, Traded(s), Live(s)
               PROVE  sweep.pc = "close" /\ sweep.s = s /\ session[s] = Executing
    BY DEF TradedIsClosing, Traded, Live
  <2>1. CASE request[r].s = s /\ Approved(r)
    <3>1. session[s] = Executing /\ request[r].pc # "closing"
      BY <2>1 DEF Live, Status, Scanning, SetupProposed, Executing, Ended
    <3> QED BY <1>1, <3>1 DEF ExecutingIsClosing
  <2>2. CASE ~(request[r].s = s /\ Approved(r))
    BY <1>1, <2>2 DEF TradedIsClosing
  <2> QED BY <2>1, <2>2
<1> QED BY <1>4, <1>5, <1>6, <1>7, <1>8

\* What the daemon answered is what the handler does.
LEMMA ReplyCalm ==
    ASSUME Quiet, TypeInv', UNCHANGED plan, NEW r \in Requests, ReadReply(r)
    PROVE  CalmInv'
<1> USE DEF Quiet, CalmInv
<1> DEFINE c == request[r]
<1>1. /\ UNCHANGED <<session, proposal, lapsed, booked, held, wire, worker, daemon, sweep>>
      /\ c.pc = "await" /\ c.reply # "none"
  BY DEF ReadReply, engine, daemonTasks
<1>2. /\ \A o \in Requests : o = r
      /\ c \in Request /\ c.s \in Sessions
      /\ wire = <<>> /\ daemon.pc = "idle" /\ daemon.r # r
      /\ \A s \in Sessions : ~(worker[s].pc = "created" /\ session[s] = Scanning)
  BY <1>1, TheRequest
<1>3. CASE c.reply = "retry" /\ Respond(r)
  <2>1. ~Decided(r) /\ ~Approved(r)
    BY <1>1, <1>2, <1>3 DEF Decided, Approved, Declined
  <2> QED BY <1>1, <1>2, <1>3, <2>1, LeaveCalm
<1>4. CASE \/ c.reply = "approved" /\ Goto(r, "approving")
           \/ c.reply = "declined" /\ Goto(r, "resuming")
  <2>1. /\ request'[r].kind = c.kind /\ request'[r].s = c.s /\ request'[r].reply = c.reply
        /\ request'[r].p = c.p /\ request'[r].paused = c.paused
        /\ \/ c.reply = "approved" /\ request'[r].pc = "approving"
           \/ c.reply = "declined" /\ request'[r].pc = "resuming"
    BY <1>2, <1>4 DEF Goto, TypeInv, TypeOK, Request
  <2>2. (Approved(r)' <=> Approved(r)) /\ Decided(r)' /\ ~Declined(r)'
    BY <1>1, <1>2, <2>1 DEF Approved, Declined, Decided
  <2>3. c.paused /\ c.p \in Proposals /\ proposal[c.p].session = c.s /\ Newest(c.p)
    BY <1>1 DEF ApprovesItsOwn
  <2>4. c.reply = "declined" => ~OwnOpen(c.s)
    <3> SUFFICES ASSUME c.reply = "declined", NEW q \in Proposals, proposal[q].session = c.s,
                        proposal[q].status = "proposed"
                 PROVE  FALSE
      BY DEF OwnOpen
    <3>1. q <= c.p /\ c.p <= q
      BY <2>3 DEF Newest, OnlyNewestOpen
    <3>2. q = c.p
      BY <2>3, <3>1, FlowAssumption DEF Proposals
    <3>3. Declined(r)
      BY <1>1 DEF Declined
    <3> QED BY <3>2, <3>3 DEF ResumesClean
  <2>5. /\ ProposalsInOrder' /\ SessionsInOrder' /\ WorkersMatch' /\ OnlyNewestOpen' /\ NoDeadZone'
        /\ BookingsMatch' /\ CommandsMatch' /\ SweepMatches'
    <3>1. BookingsMatch' /\ CommandsMatch'
      BY <1>1, <1>2 DEF BookingsMatch, CommandsMatch, Newest
    <3>2. SweepMatches'
      BY <1>1 DEF SweepMatches, Live, NothingPending, Pending, OwnOpen, Traded
    <3> QED BY <1>1, <3>1, <3>2, SameRows
  <2>6. RequestsLookUp' /\ ApprovesItsOwn'
    <3>1. RequestsLookUp'
      BY <1>1, <1>2, <2>1, <2>3 DEF RequestsLookUp
    <3>2. ApprovesItsOwn'
      BY <1>1, <1>2, <2>1, <2>3 DEF ApprovesItsOwn, Newest
    <3> QED BY <3>1, <3>2
  <2>7. PendingIsPaused' /\ ApprovedIsBooked' /\ ResumesClean'
    BY <1>1, <1>2, <2>1, <2>2, <2>4
       DEF PendingIsPaused, ApprovedIsBooked, ResumesClean, Traded, OwnOpen
  <2>8. PausedIsProposed' /\ CreatedIsProposed'
    BY <1>1, <1>2, <2>1, <2>2
       DEF PausedIsProposed, CreatedIsProposed, OwnOpen, NothingPending, Pending
  <2>9. TradedIsClosing' /\ ExecutingIsClosing'
    BY <1>1, <1>2, <2>1, <2>2 DEF TradedIsClosing, ExecutingIsClosing, Traded, Live
  <2> QED BY <2>5, <2>6, <2>7, <2>8, <2>9
<1> QED BY <1>3, <1>4 DEF ReadReply

\* In calm a handler only times out on a command that no channel carried.
LEMMA TimeOutCalm ==
    ASSUME Quiet, TypeInv', UNCHANGED plan, NEW r \in Requests, TimeOut(r)
    PROVE  CalmInv'
<1> USE DEF Quiet, CalmInv
<1>1. /\ request[r].pc = "await" /\ request[r].reply = "none" /\ ~InDaemon(r)
      /\ Respond(r) /\ Unhear(r)
      /\ UNCHANGED <<session, proposal, lapsed, booked, held, worker, sweep>>
  BY DEF TimeOut, Calm, engine
<1>2. wire = <<>> /\ daemon.pc = "idle" /\ daemon.r # r
  BY <1>1, TheRequest DEF InDaemon, CommandsMatch, OneRequest
<1>3. wire' = <<>> /\ daemon' = daemon
  <2>1. wire' = [i \in 1..0 |-> IF wire[i].r = r THEN [wire[i] EXCEPT !.r = Unheard] ELSE wire[i]]
    BY <1>1, <1>2 DEF Unhear
  <2>2. wire' \in Seq(Command) /\ Len(wire') = 0
    BY <1>1, <1>2, <2>1 DEF TypeInv, TypeOK, Unhear
  <2>3. wire' = <<>>
    BY <2>2, EmptySeq
  <2> QED BY <1>1, <1>2, <2>3 DEF Unhear
<1>4. ~Decided(r) /\ ~Approved(r)
  BY <1>1, <1>2 DEF Decided, Approved, Declined
<1> QED BY <1>1, <1>2, <1>3, <1>4, LeaveCalm

\* The proposal a request rejects or ends is decided before the session moves.
LEMMA MarkCalm ==
    ASSUME Quiet, TypeInv', UNCHANGED plan, NEW r \in Requests, MarkRejected(r)
    PROVE  CalmInv'
<1> USE DEF Quiet, CalmInv
<1> DEFINE c == request[r]
<1>1. /\ UNCHANGED <<session, lapsed, booked, held, wire, worker, daemon, sweep>>
      /\ c.pc = "mark" /\ c.reply = "none" /\ SetStatus(c.p, "rejected")
      /\ c.p \in Proposals /\ proposal[c.p].status \notin {"absent", "executed"}
  BY DEF MarkRejected, engine, daemonTasks, RequestsLookUp
<1>2. /\ \A o \in Requests : o = r
      /\ c \in Request /\ c.s \in Sessions
      /\ wire = <<>> /\ daemon.pc = "idle"
      /\ \A s \in Sessions : ~(worker[s].pc = "created" /\ session[s] = Scanning)
  BY <1>1, TheRequest
<1>3. /\ request'[r].pc \in {"ending", "resuming"} /\ request'[r].kind = c.kind
      /\ request'[r].s = c.s /\ request'[r].p = c.p /\ request'[r].paused = c.paused
      /\ request'[r].reply = "none"
  BY <1>1, <1>2 DEF MarkRejected, Goto, TypeInv, TypeOK, Request
<1>4. ~Approved(r) /\ ~Approved(r)' /\ ~Declined(r)' /\ Decided(r)'
  BY <1>1, <1>3 DEF Approved, Declined, Decided
<1>5. PICK p \in Proposals : p = c.p
  BY <1>1
<1>6. /\ \A q \in Proposals : proposal'[q].session = proposal[q].session
      /\ \A q \in Proposals : q # p => proposal'[q] = proposal[q]
      /\ proposal[p].status \notin {"absent", "executed"} /\ proposal'[p].status = "rejected"
  BY <1>1, <1>5, SetStatusOnly DEF TypeInv, ProposalStatus
<1>7. /\ \A q \in Proposals : (Newest(q)' <=> Newest(q)) /\ (Pending(q)' => Pending(q))
      /\ NothingPending => NothingPending'
      /\ \A s \in Sessions : (Traded(s)' <=> Traded(s)) /\ (OwnOpen(s)' => OwnOpen(s))
  <2>1. \A q \in Proposals : (Newest(q)' <=> Newest(q)) /\ (Pending(q)' => Pending(q))
    BY <1>1, <1>6 DEF Newest, Pending
  <2>2. NothingPending => NothingPending'
    BY <2>1 DEF NothingPending
  <2>3. \A s \in Sessions : Traded(s)' <=> Traded(s)
    BY <1>1, <1>6 DEF Traded
  <2>4. \A s \in Sessions : OwnOpen(s)' => OwnOpen(s)
    BY <1>6 DEF OwnOpen
  <2> QED BY <2>1, <2>2, <2>3, <2>4
<1>8. ProposalsInOrder' /\ SessionsInOrder' /\ WorkersMatch' /\ OnlyNewestOpen'
  <2>1. ProposalsInOrder'
    <3>1. \A q \in Proposals : proposal'[q].status = "absent" <=> proposal[q].status = "absent"
      BY <1>6
    <3> QED BY <1>1, <1>6, <3>1, OrderKept DEF TypeInv
  <2>2. SessionsInOrder' /\ WorkersMatch'
    BY <1>1 DEF SessionsInOrder, WorkersMatch
  <2>3. OnlyNewestOpen'
    BY <1>6, <1>7 DEF OnlyNewestOpen
  <2> QED BY <2>1, <2>2, <2>3
<1>9. BookingsMatch' /\ CommandsMatch' /\ NoDeadZone'
  <2>1. BookingsMatch' /\ CommandsMatch'
    BY <1>1, <1>2, <1>6, <1>7 DEF BookingsMatch, CommandsMatch
  <2>2. \A q \in Proposals : IsProposed(q)' => IsProposed(q) /\ proposal[q].session \in Sessions
    BY <1>6, ProposedIsOwned DEF IsProposed
  <2>3. NoDeadZone'
    BY <1>1, <1>6, <2>2 DEF NoDeadZone
  <2> QED BY <2>1, <2>3
<1>10. RequestsLookUp' /\ ApprovesItsOwn' /\ PendingIsPaused'
  BY <1>1, <1>2, <1>3 DEF RequestsLookUp, ApprovesItsOwn, PendingIsPaused
<1>11. ApprovedIsBooked' /\ ResumesClean'
  <2>1. PICK s \in Sessions : s = c.s
    BY <1>2
  <2>2. c.paused => ~OwnOpen(s)'
    <3>1. c.paused => \A q \in Proposals :
             proposal[q].session = s /\ proposal[q].status = "proposed" => q = p
      BY <1>1, <1>5, <2>1 DEF ResumesClean
    <3> QED BY <1>6, <3>1 DEF OwnOpen
  <2> QED BY <1>1, <1>2, <1>3, <1>4, <1>7, <2>1, <2>2 DEF ApprovedIsBooked, ResumesClean
<1>12. PausedIsProposed' /\ CreatedIsProposed'
  <2>1. \A s \in Sessions : session[s] = SetupProposed => s = c.s
    BY <1>1 DEF RequestsLookUp
  <2> QED BY <1>1, <1>2, <1>3, <1>4, <2>1 DEF PausedIsProposed, CreatedIsProposed
<1>13. TradedIsClosing' /\ ExecutingIsClosing' /\ SweepMatches'
  BY <1>1, <1>2, <1>3, <1>4, <1>7 DEF TradedIsClosing, ExecutingIsClosing, SweepMatches, Live
<1> QED BY <1>8, <1>9, <1>10, <1>11, <1>12, <1>13

\* An approved request moves its traded session to executing, or finds it moved.
LEMMA ApproveCalm ==
    ASSUME Quiet, TypeInv', UNCHANGED plan, NEW r \in Requests, CloseApprove(r)
    PROVE  CalmInv'
<1> USE DEF Quiet, CalmInv
<1> DEFINE c == request[r]
<1>1. /\ UNCHANGED <<proposal, lapsed, booked, held, wire, worker, daemon, sweep>>
      /\ c.pc = "approving" /\ Approved(r)
  BY DEF CloseApprove, engine, daemonTasks, Approved
<1>2. /\ \A o \in Requests : o = r
      /\ c \in Request /\ c.s \in Sessions
      /\ wire = <<>> /\ daemon.pc = "idle"
      /\ \A s \in Sessions : ~(worker[s].pc = "created" /\ session[s] = Scanning)
  BY <1>1, TheRequest
<1>3. PICK s \in Sessions : s = c.s
  BY <1>2
<1>4. session[s] # Scanning /\ Traded(s) /\ c.paused
  BY <1>1, <1>3 DEF ApprovedIsBooked, ApprovesItsOwn, Traded
<1>5. Moves(s, Executing) <=> session[s] = SetupProposed
  BY DEF Moves, LEGAL, TypeInv, TypeOK, Status, Scanning, SetupProposed, Executing, Ended, Absent
<1>6. CASE session[s] # SetupProposed
  <2>1. Respond(r) /\ UNCHANGED session
    BY <1>3, <1>5, <1>6 DEF CloseApprove, Transition
  <2> QED BY <1>1, <1>2, <1>3, <1>4, <1>6, <2>1, LeaveCalm
<1>7. CASE session[s] = SetupProposed
  <2>1. /\ Goto(r, "closing")
        /\ session'[s] = Executing
        /\ \A o \in Sessions : o # s => session'[o] = session[o]
        /\ Live(s)
    BY <1>3, <1>5, <1>7 DEF CloseApprove, Transition, TypeInv, TypeOK, Live, Status,
       SetupProposed, Ended
  <2>2. /\ request'[r].pc = "closing" /\ request'[r].kind = c.kind /\ request'[r].s = s
        /\ request'[r].p = c.p /\ request'[r].paused = c.paused /\ request'[r].reply = c.reply
    BY <1>2, <1>3, <2>1 DEF Goto, TypeInv, TypeOK, Request
  <2>3. /\ \A o \in Sessions : o # s => session'[o] \notin {Scanning, SetupProposed, Executing}
        /\ \A o \in Sessions : Live(o)' => Live(o)
        /\ Approved(r)' /\ ~Declined(r)'
    <3>1. \A o \in Sessions : Live(o) => o = s
      BY <2>1, OneLive DEF TypeInv
    <3> QED BY <2>1, <2>2, <3>1 DEF Live, Status, Scanning, SetupProposed, Executing, Ended,
               Approved, Declined
  <2>4. ProposalsInOrder' /\ SessionsInOrder' /\ WorkersMatch' /\ OnlyNewestOpen' /\ NoDeadZone'
    <3>1. ProposalsInOrder'
      BY <1>1, <2>1 DEF ProposalsInOrder, TypeInv, TypeOK, Executing, Absent
    <3>2. SessionsInOrder'
      BY <1>7, <2>1 DEF SessionsInOrder, SetupProposed, Executing, Absent, Ended
    <3>3. WorkersMatch'
      BY <1>1, <2>1 DEF WorkersMatch, SetupProposed, Executing, Absent
    <3>4. OnlyNewestOpen'
      BY <1>1 DEF OnlyNewestOpen, Newest
    <3>5. NoDeadZone'
      BY <1>1, <2>1, <2>3, ProposedIsOwned DEF NoDeadZone, IsProposed, Scanning, Executing
    <3> QED BY <3>1, <3>2, <3>3, <3>4, <3>5
  <2>5. BookingsMatch' /\ CommandsMatch'
    BY <1>1, <1>2 DEF BookingsMatch, CommandsMatch, Newest
  <2>6. RequestsLookUp' /\ ApprovesItsOwn'
    <3>1. RequestsLookUp'
      BY <1>1, <1>2, <1>3, <1>4, <2>1, <2>2, <2>3 DEF RequestsLookUp, Executing, Absent
    <3>2. ApprovesItsOwn'
      BY <1>1, <1>2, <1>3, <2>2 DEF ApprovesItsOwn, Newest
    <3> QED BY <3>1, <3>2
  <2>7. ApprovedIsBooked' /\ PendingIsPaused' /\ ResumesClean'
    BY <1>1, <1>2, <1>3, <2>1, <2>2, <2>3
       DEF ApprovedIsBooked, PendingIsPaused, ResumesClean, Scanning, Executing
  <2>8. PausedIsProposed' /\ CreatedIsProposed'
    BY <1>1, <1>2, <2>1, <2>3
       DEF PausedIsProposed, CreatedIsProposed, Scanning, SetupProposed, Executing
  <2>9. TradedIsClosing' /\ ExecutingIsClosing'
    BY <1>1, <1>2, <1>4, <2>1, <2>2, <2>3
       DEF TradedIsClosing, ExecutingIsClosing, Traded, Live, Status, Scanning, SetupProposed,
           Executing
  <2>10. SweepMatches'
    <3>1. \A o \in Sessions : session'[o] = SetupProposed => session[o] = SetupProposed
      BY <2>1 DEF SetupProposed, Executing
    <3>2. \A o \in Sessions : session'[o] = Absent => session[o] = Absent
      BY <2>1 DEF Absent, Executing
    <3> QED BY <1>1, <2>3, <3>1, <3>2 DEF SweepMatches, NothingPending, Pending, OwnOpen, Traded
  <2> QED BY <2>4, <2>5, <2>6, <2>7, <2>8, <2>9, <2>10
<1> QED BY <1>6, <1>7

\* A request moves its session for the last time.
LEMMA FinishCalm ==
    ASSUME Quiet, TypeInv', UNCHANGED plan, NEW r \in Requests, Finish(r)
    PROVE  CalmInv'
<1> USE DEF Quiet, CalmInv
<1> DEFINE c == request[r]
<1>1. /\ UNCHANGED <<proposal, lapsed, booked, held, wire, worker, daemon, sweep>>
      /\ c.pc \in {"closing", "ending", "resuming"} /\ Respond(r)
  BY DEF Finish, engine, daemonTasks
<1>2. /\ \A o \in Requests : o = r
      /\ c \in Request /\ c.s \in Sessions
      /\ wire = <<>> /\ daemon.pc = "idle"
      /\ \A s \in Sessions : ~(worker[s].pc = "created" /\ session[s] = Scanning)
  BY <1>1, TheRequest
<1>3. PICK s \in Sessions : s = c.s
  BY <1>2
<1>4. PICK to \in {Scanning, Ended} :
        /\ to = Scanning <=> c.pc = "resuming"
        /\ Transition(s, to)
  BY <1>1, <1>3 DEF Finish, Scanning, Ended
<1>5. session[s] # Absent /\ (c.pc = "closing" => session[s] # Scanning)
  BY <1>1, <1>3 DEF RequestsLookUp, ApprovedIsBooked, Approved
<1>6. CASE ~Moves(s, to)
  <2>1. UNCHANGED session
    BY <1>4, <1>6 DEF Transition
  <2>2. session[s] # SetupProposed /\ (to = Ended => ~Live(s))
    BY <1>4, <1>5, <1>6 DEF Moves, LEGAL, TypeInv, TypeOK, Live, Status, Scanning, SetupProposed,
       Executing, Ended, Absent
  <2>3. Approved(r) => ~Live(c.s)
    BY <1>1, <1>3, <1>4, <2>2 DEF Approved, Scanning, Ended
  <2> QED BY <1>1, <1>2, <1>3, <2>1, <2>2, <2>3, LeaveCalm
<1>7. CASE Moves(s, to)
  <2>1. /\ session'[s] = to
        /\ \A o \in Sessions : o # s => session'[o] = session[o]
        /\ Live(s)
        /\ to = Scanning => session[s] = SetupProposed
    BY <1>4, <1>7 DEF Transition, Moves, LEGAL, TypeInv, TypeOK, Live, Status, Scanning,
       SetupProposed, Executing, Ended, Absent
  <2>2. /\ request'[r] = NoRequest
        /\ ~Approved(r)' /\ ~Declined(r)'
    BY <1>1 DEF Respond, TypeInv, TypeOK, NoRequest, Approved, Declined
  <2>3. /\ \A o \in Sessions : o # s => session'[o] \notin {Scanning, SetupProposed, Executing}
        /\ \A o \in Sessions : Live(o)' => Live(o)
        /\ session'[s] \in {Scanning, Ended}
    <3>1. \A o \in Sessions : Live(o) => o = s
      BY <2>1, OneLive DEF TypeInv
    <3> QED BY <2>1, <3>1 DEF Live, Status, Scanning, SetupProposed, Executing, Ended
  <2>4. to = Scanning => ~Traded(s) /\ ~OwnOpen(s) /\ worker[s].pc = "idle"
    <3> SUFFICES ASSUME to = Scanning PROVE ~Traded(s) /\ ~OwnOpen(s) /\ worker[s].pc = "idle"
      OBVIOUS
    <3>1. c.pc = "resuming" /\ session[s] = SetupProposed /\ c.paused
      BY <1>3, <1>4, <2>1 DEF RequestsLookUp
    <3> QED BY <1>3, <3>1 DEF ApprovedIsBooked, ResumesClean, WorkersMatch, Approved
  <2>5. ProposalsInOrder' /\ SessionsInOrder' /\ WorkersMatch' /\ OnlyNewestOpen' /\ NoDeadZone'
    <3>1. ProposalsInOrder'
      BY <1>1, <2>1 DEF ProposalsInOrder, TypeInv, TypeOK, Scanning, Ended, Absent
    <3>2. SessionsInOrder'
      BY <1>5, <2>1, <2>3 DEF SessionsInOrder, SetupProposed, Absent, Ended
    <3>3. WorkersMatch'
      BY <1>1, <2>1, <2>3 DEF WorkersMatch, SetupProposed, Scanning, Ended, Absent
    <3>4. OnlyNewestOpen'
      BY <1>1 DEF OnlyNewestOpen, Newest
    <3>5. \A p \in Proposals : IsProposed(p)' => IsProposed(p) /\ proposal[p].session \in Sessions
      BY <1>1, ProposedIsOwned DEF IsProposed
    <3>6. NoDeadZone'
      BY <1>1, <2>1, <2>3, <2>4, <3>5 DEF NoDeadZone, IsProposed, OwnOpen, Scanning, Ended
    <3> QED BY <3>1, <3>2, <3>3, <3>4, <3>6
  <2>6. BookingsMatch' /\ CommandsMatch'
    BY <1>1, <1>2 DEF BookingsMatch, CommandsMatch, Newest
  <2>7. RequestsLookUp' /\ ApprovesItsOwn' /\ ApprovedIsBooked' /\ PendingIsPaused' /\ ResumesClean'
    BY <1>2, <2>2
       DEF RequestsLookUp, ApprovesItsOwn, ApprovedIsBooked, PendingIsPaused, ResumesClean, NoRequest
  <2>8. PausedIsProposed' /\ CreatedIsProposed'
    <3>1. \A o \in Sessions : session'[o] # SetupProposed
      BY <2>3 DEF Scanning, SetupProposed, Ended
    <3>2. \A o \in Sessions : session'[o] = Scanning => worker'[o].pc = "idle"
      BY <1>1, <2>1, <2>3, <2>4 DEF Scanning, Ended
    <3> QED BY <3>1, <3>2 DEF PausedIsProposed, CreatedIsProposed
  <2>9. TradedIsClosing' /\ ExecutingIsClosing'
    <3>1. \A o \in Sessions : session'[o] # Executing
      BY <2>3 DEF Scanning, Executing, Ended
    <3>2. \A o \in Sessions : Live(o)' => ~Traded(o)'
      <4>1. \A o \in Sessions : Live(o)' => o = s /\ to = Scanning
        BY <2>1, <2>3 DEF Live, Status, Scanning, SetupProposed, Executing, Ended
      <4> QED BY <1>1, <2>4, <4>1 DEF Traded
    <3> QED BY <3>1, <3>2 DEF TradedIsClosing, ExecutingIsClosing
  <2>10. SweepMatches'
    <3>1. \A o \in Sessions : session'[o] # SetupProposed
      BY <2>3 DEF Scanning, SetupProposed, Ended
    <3>2. \A o \in Sessions : session'[o] = Absent => session[o] = Absent
      BY <2>1 DEF Absent, Scanning, Ended
    <3> QED BY <1>1, <2>3, <3>1, <3>2 DEF SweepMatches, NothingPending, Pending, OwnOpen, Traded
  <2> QED BY <2>5, <2>6, <2>7, <2>8, <2>9, <2>10
<1> QED BY <1>6, <1>7

-----------------------------------------------------------------------------
(* The daemon's command handler. *)

\* The daemon takes the command of the one request.
LEMMA TakeCalm ==
    ASSUME Quiet, TypeInv', UNCHANGED plan, Take
    PROVE  CalmInv'
<1> USE DEF Quiet, CalmInv
<1>1. /\ UNCHANGED <<session, proposal, lapsed, booked, held, worker, request, sweep>>
      /\ wire # <<>> /\ daemon.pc = "idle"
      /\ daemon'.pc = "get" /\ daemon'.r = Head(wire).r /\ daemon'.p = Head(wire).p
      /\ wire' = Tail(wire)
  BY DEF Take, DaemonIdle, engine
<1>2. /\ Len(wire) = 1 /\ Head(wire) = wire[1]
      /\ daemon'.r \in Requests /\ request[daemon'.r].pc = "await"
      /\ daemon'.p = request[daemon'.r].p /\ request[daemon'.r].reply = "none"
  BY <1>1 DEF CommandsMatch, TypeInv, TypeOK
<1>3. wire' = <<>>
  <2>1. wire' \in Seq(Command) /\ Len(wire') = 0
    BY <1>1, <1>2, HeadTailProperties DEF TypeInv, TypeOK
  <2> QED BY <2>1, EmptySeq
<1>4. \A r \in Requests : /\ Approved(r)' <=> Approved(r)
                          /\ Declined(r)' <=> Declined(r)
                          /\ Decided(r)' <=> Decided(r)
  <2>1. \A r \in Requests : (Approved(r)' <=> Approved(r)) /\ (Declined(r)' <=> Declined(r))
    BY <1>1 DEF Approved, Declined
  <2> QED BY <1>1, <2>1 DEF Decided
<1>5. /\ ProposalsInOrder' /\ SessionsInOrder' /\ WorkersMatch' /\ OnlyNewestOpen' /\ NoDeadZone'
      /\ BookingsMatch' /\ CommandsMatch' /\ SweepMatches'
  <2>1. BookingsMatch'
    BY <1>1 DEF BookingsMatch, Newest
  <2>2. CommandsMatch'
    BY <1>1, <1>2, <1>3 DEF CommandsMatch
  <2>3. SweepMatches'
    BY <1>1 DEF SweepMatches, Live, NothingPending, Pending, OwnOpen, Traded
  <2> QED BY <1>1, <2>1, <2>2, <2>3, SameRows
<1>6. RequestsLookUp' /\ ApprovesItsOwn' /\ PendingIsPaused'
  BY <1>1 DEF RequestsLookUp, ApprovesItsOwn, PendingIsPaused, Newest, Pending, NothingPending
<1>7. ApprovedIsBooked' /\ ResumesClean'
  BY <1>1, <1>4 DEF ApprovedIsBooked, ResumesClean, Traded, OwnOpen
<1>8. PausedIsProposed' /\ CreatedIsProposed'
  BY <1>1, <1>4 DEF PausedIsProposed, CreatedIsProposed, OwnOpen, NothingPending, Pending
<1>9. TradedIsClosing' /\ ExecutingIsClosing'
  BY <1>1, <1>4 DEF TradedIsClosing, ExecutingIsClosing, Traded, Live
<1> QED BY <1>5, <1>6, <1>7, <1>8, <1>9

\* The request whose command the daemon handles, and what is known of it.
Handling(r) ==
    /\ \A o \in Requests : o = r
    /\ daemon.r = r /\ request[r].pc = "await" /\ request[r].reply = "none"
    /\ request[r].p \in Proposals /\ daemon.p = request[r].p
    /\ request[r].paused /\ request[r].s \in Sessions
    /\ proposal[request[r].p].session = request[r].s /\ Newest(request[r].p)
    /\ wire = <<>> /\ daemon \in Daemon
    /\ \A s \in Sessions : session[s] = SetupProposed => s = request[r].s
    /\ \A s \in Sessions : ~(worker[s].pc = "created" /\ session[s] = Scanning)

\* While the daemon handles a command, its request waits.
LEMMA InHand ==
    ASSUME Quiet, daemon.pc # "idle"
    PROVE  \E r \in Requests : Handling(r)
<1> USE DEF Quiet, CalmInv
<1>1. PICK r \in Requests : r = daemon.r /\ request[r].pc = "await" /\ daemon.p = request[r].p
  BY DEF CommandsMatch
<1>2. request[r].paused /\ request[r].p \in Proposals /\ Newest(request[r].p)
      /\ proposal[request[r].p].session = request[r].s
  BY <1>1 DEF ApprovesItsOwn
<1>3. daemon \in Daemon /\ request[r].reply = "none"
  BY <1>1 DEF TypeInv, TypeOK, CommandsMatch
<1>4. \A s \in Sessions : session[s] = SetupProposed => s = request[r].s
  BY <1>1 DEF RequestsLookUp
<1> QED BY <1>1, <1>2, <1>3, <1>4, TheRequest DEF Handling

\* Answering, or going on, without touching a row.
LEMMA AnswerCalm ==
    ASSUME Quiet, TypeInv', UNCHANGED plan, DaemonGet \/ Recheck
    PROVE  CalmInv'
<1> USE DEF Quiet, CalmInv
<1>1. /\ UNCHANGED <<session, proposal, lapsed, booked, held, worker, request, wire, sweep>>
      /\ daemon.pc \in {"get", "recheck"}
      /\ \/ /\ daemon.pc = "get" /\ IsProposed(daemon.p)
            /\ daemon' = [daemon EXCEPT !.pc = "revalidate"]
         \/ /\ IsProposed(daemon.p)
            /\ daemon' = [daemon EXCEPT !.pc = "reply", !.answer = "retry"]
         \/ /\ ~IsProposed(daemon.p)
            /\ daemon' = [daemon EXCEPT !.pc = "reply", !.answer = "declined"]
  BY DEF DaemonGet, Recheck, Answer, DaemonGoes, engine
<1>2. PICK r \in Requests : Handling(r)
  BY <1>1, InHand
<1> USE DEF Handling
<1>3. /\ daemon'.r = r /\ daemon'.p = daemon.p
      /\ \/ daemon'.pc = "revalidate" /\ IsProposed(daemon.p) /\ daemon.pc = "get"
         \/ daemon'.pc = "reply" /\ daemon'.answer = "retry" /\ IsProposed(daemon.p)
         \/ daemon'.pc = "reply" /\ daemon'.answer = "declined" /\ ~IsProposed(daemon.p)
  BY <1>1, <1>2 DEF Daemon
<1>4. /\ ~Approved(r) /\ ~Approved(r)'
      /\ Declined(r)' => proposal[request[r].p].status # "proposed"
      /\ Decided(r) => Decided(r)' \/ IsProposed(daemon.p)
  <2>1. ~Approved(r) /\ ~Approved(r)' /\ (Declined(r)' => ~IsProposed(daemon.p))
    BY <1>1, <1>2, <1>3 DEF Approved, Declined
  <2>2. IsProposed(daemon.p) <=> proposal[request[r].p].status = "proposed"
    BY <1>2, FlowAssumption DEF IsProposed, Proposals, Nobody
  <2>3. ~IsProposed(daemon.p) => Decided(r)'
    BY <1>1, <1>2, <1>3 DEF Decided, Declined
  <2> QED BY <2>1, <2>2, <2>3
<1>5. IsProposed(daemon.p) => OwnOpen(request[r].s)
  BY <1>2 DEF IsProposed, OwnOpen
<1>6. /\ ProposalsInOrder' /\ SessionsInOrder' /\ WorkersMatch' /\ OnlyNewestOpen' /\ NoDeadZone'
      /\ BookingsMatch' /\ CommandsMatch' /\ SweepMatches'
  <2>1. BookingsMatch'
    BY <1>1 DEF BookingsMatch, Newest
  <2>2. CommandsMatch'
    BY <1>1, <1>2, <1>3 DEF CommandsMatch
  <2>3. SweepMatches'
    BY <1>1 DEF SweepMatches, Live, NothingPending, Pending, OwnOpen, Traded
  <2> QED BY <1>1, <2>1, <2>2, <2>3, SameRows
<1>7. RequestsLookUp' /\ ApprovesItsOwn' /\ PendingIsPaused'
  BY <1>1 DEF RequestsLookUp, ApprovesItsOwn, PendingIsPaused, Newest, Pending, NothingPending
<1>8. ApprovedIsBooked' /\ ResumesClean'
  BY <1>1, <1>2, <1>4 DEF ApprovedIsBooked, ResumesClean, Traded, OwnOpen
<1>9. PausedIsProposed' /\ CreatedIsProposed'
  <2>1. \A s \in Sessions : session[s] = SetupProposed =>
            OwnOpen(s) \/ NothingPending \/ (request[r].s = s /\ Decided(r)')
    BY <1>2, <1>4, <1>5 DEF PausedIsProposed
  <2> QED BY <1>1, <1>2, <2>1
          DEF PausedIsProposed, CreatedIsProposed, OwnOpen, NothingPending, Pending
<1>10. TradedIsClosing' /\ ExecutingIsClosing'
  BY <1>1, <1>2, <1>4 DEF TradedIsClosing, ExecutingIsClosing, Traded, Live
<1> QED BY <1>6, <1>7, <1>8, <1>9, <1>10


\* One open proposal is decided.
LEMMA RowDecided ==
    ASSUME Quiet, NEW p \in Proposals, proposal[p].status = "proposed",
           NEW status \in ProposalStatus \ {"absent", "proposed"}, SetStatus(p, status),
           UNCHANGED <<session, lapsed, booked>>
    PROVE  /\ \A q \in Proposals : /\ proposal'[q].session = proposal[q].session
                                   /\ q # p => proposal'[q].status = proposal[q].status
                                   /\ Newest(q)' <=> Newest(q)
                                   /\ Pending(q)' => Pending(q)
           /\ proposal'[p].status = status
           /\ NothingPending => NothingPending'
           /\ \A s \in Sessions : (Traded(s)' <=> Traded(s)) /\ (OwnOpen(s)' => OwnOpen(s))
           /\ ProposalsInOrder' /\ OnlyNewestOpen'
<1> USE DEF Quiet, CalmInv
<1>1. /\ \A q \in Proposals : proposal'[q].session = proposal[q].session
      /\ \A q \in Proposals : q # p => proposal'[q].status = proposal[q].status
      /\ proposal'[p].status = status
  BY SetStatusOnly DEF TypeInv
<1>2. \A q \in Proposals : (Newest(q)' <=> Newest(q)) /\ (Pending(q)' => Pending(q))
  BY <1>1 DEF Newest, Pending
<1>3. NothingPending => NothingPending'
  BY <1>2 DEF NothingPending
<1>4. \A s \in Sessions : (Traded(s)' <=> Traded(s)) /\ (OwnOpen(s)' => OwnOpen(s))
  BY <1>1 DEF Traded, OwnOpen
<1>5. ProposalsInOrder'
  <2>1. \A q \in Proposals : proposal'[q].status = "absent" <=> proposal[q].status = "absent"
    BY <1>1
  <2> QED BY <1>1, <2>1, OrderKept DEF TypeInv
<1>6. OnlyNewestOpen'
  BY <1>1, <1>2 DEF OnlyNewestOpen
<1> QED BY <1>1, <1>2, <1>3, <1>4, <1>5, <1>6

\* No proposal was opened, moved to another session or executed.
RowsKept ==
    /\ \A q \in Proposals :
          /\ proposal'[q].session = proposal[q].session
          /\ proposal'[q].status = "executed" <=> proposal[q].status = "executed"
          /\ proposal'[q].status = "proposed" => proposal[q].status = "proposed"
          /\ Newest(q)' <=> Newest(q)
          /\ Pending(q)' => Pending(q)
    /\ NothingPending => NothingPending'
    /\ \A s \in Sessions : (Traded(s)' <=> Traded(s)) /\ (OwnOpen(s)' => OwnOpen(s))
    /\ ProposalsInOrder' /\ OnlyNewestOpen'

\* A refused proposal is decided or still open; one to be booked is pending.
LEMMA RevalidateCalm ==
    ASSUME Quiet, TypeInv', UNCHANGED plan, Revalidate
    PROVE  CalmInv'
<1> USE DEF Quiet, CalmInv
<1>1. /\ UNCHANGED <<session, lapsed, booked, held, worker, request, wire, sweep>>
      /\ daemon.pc = "revalidate"
      /\ \/ daemon' = [daemon EXCEPT !.pc = "recheck"]
         \/ /\ daemon' = [daemon EXCEPT !.pc = "book"] /\ UNCHANGED proposal
            /\ IsProposed(daemon.p) /\ daemon.p \notin lapsed
      /\ \/ UNCHANGED proposal
         \/ /\ IsProposed(daemon.p)
            /\ \E status \in {"expired", "invalidated"} : SetStatus(daemon.p, status)
  BY DEF Revalidate, DaemonGoes, engine
<1>2. PICK r \in Requests : Handling(r)
  BY <1>1, InHand
<1> USE DEF Handling
<1>3. /\ daemon'.r = r /\ daemon'.p = daemon.p
      /\ \/ daemon'.pc = "recheck"
         \/ daemon'.pc = "book" /\ Pending(daemon.p) /\ UNCHANGED proposal
  BY <1>1, <1>2 DEF Daemon, Pending, IsProposed
<1>4. /\ ~Approved(r) /\ ~Approved(r)' /\ ~Declined(r)'
      /\ Decided(r)' <=> daemon'.pc = "recheck"
  BY <1>1, <1>2, <1>3 DEF Approved, Declined, Decided
<1>5. RowsKept
  <2>1. CASE UNCHANGED proposal
    <3>1. \A q \in Proposals : (Newest(q)' <=> Newest(q)) /\ (Pending(q)' <=> Pending(q))
      BY <1>1, <2>1 DEF Newest, Pending
    <3>2. NothingPending' <=> NothingPending
      BY <3>1 DEF NothingPending
    <3>3. \A s \in Sessions : (Traded(s)' <=> Traded(s)) /\ (OwnOpen(s)' <=> OwnOpen(s))
      BY <1>1, <2>1 DEF Traded, OwnOpen
    <3> QED BY <1>1, <2>1, <3>1, <3>2, <3>3, SameRows DEF RowsKept
  <2>2. ASSUME NEW status \in {"expired", "invalidated"}, IsProposed(daemon.p),
               SetStatus(daemon.p, status)
        PROVE  RowsKept
    <3>1. daemon.p \in Proposals /\ proposal[daemon.p].status = "proposed"
      BY <1>2, <2>2 DEF IsProposed
    <3>2. status \in ProposalStatus \ {"absent", "proposed"} /\ status # "executed"
      BY DEF ProposalStatus
    <3> QED BY <1>1, <2>2, <3>1, <3>2, RowDecided DEF RowsKept
  <2> QED BY <1>1, <2>1, <2>2
<1> USE DEF RowsKept
<1>6. SessionsInOrder' /\ WorkersMatch' /\ NoDeadZone'
  <2>1. SessionsInOrder' /\ WorkersMatch'
    BY <1>1 DEF SessionsInOrder, WorkersMatch
  <2>2. NoDeadZone'
    BY <1>1, <1>5, ProposedIsOwned DEF NoDeadZone, IsProposed
  <2> QED BY <2>1, <2>2
<1>7. BookingsMatch' /\ CommandsMatch'
  <2>1. BookingsMatch'
    BY <1>1, <1>5 DEF BookingsMatch
  <2>2. CommandsMatch'
    BY <1>1, <1>2, <1>3 DEF CommandsMatch, Pending
  <2> QED BY <2>1, <2>2
<1>8. RequestsLookUp' /\ ApprovesItsOwn' /\ PendingIsPaused'
  BY <1>1, <1>2, <1>5 DEF RequestsLookUp, ApprovesItsOwn, PendingIsPaused
<1>9. ApprovedIsBooked' /\ ResumesClean'
  BY <1>1, <1>2, <1>4, <1>5 DEF ApprovedIsBooked, ResumesClean
<1>10. PausedIsProposed' /\ CreatedIsProposed'
  <2>1. daemon'.pc = "book" => OwnOpen(request[r].s)'
    BY <1>1, <1>2, <1>3 DEF OwnOpen, Pending
  <2> QED BY <1>1, <1>2, <1>3, <1>4, <2>1 DEF PausedIsProposed, CreatedIsProposed
<1>11. TradedIsClosing' /\ ExecutingIsClosing'
  BY <1>1, <1>2, <1>4, <1>5 DEF TradedIsClosing, ExecutingIsClosing, Live
<1>12. SweepMatches'
  BY <1>1, <1>5 DEF SweepMatches, Live
<1> QED BY <1>5, <1>6, <1>7, <1>8, <1>9, <1>10, <1>11, <1>12

\* What is booked was not, is pending, and belongs to the paused session.
LEMMA BookCalm ==
    ASSUME Quiet, TypeInv', UNCHANGED plan, Book
    PROVE  CalmInv'
<1> USE DEF Quiet, CalmInv
<1>1. /\ UNCHANGED <<session, proposal, lapsed, worker, request, wire, sweep>>
      /\ daemon.pc = "book"
      /\ \/ /\ booked' = [booked EXCEPT ![daemon.p] = @ + 1]
            /\ daemon' = [daemon EXCEPT !.pc = "mark", !.answer = "approved"]
         \/ /\ booked' = booked
            /\ daemon' = [daemon EXCEPT !.pc = "mark", !.answer = "declined"]
  BY DEF Book, engine
<1>2. PICK r \in Requests : Handling(r)
  BY <1>1, InHand
<1> USE DEF Handling
<1>3. PICK p \in Proposals : p = daemon.p
  BY <1>2
<1>4. PICK s \in Sessions : s = request[r].s
  BY <1>2
<1>5. /\ Pending(p) /\ proposal[p].status = "proposed" /\ booked[p] = 0
      /\ session[s] = SetupProposed /\ ~(sweep.pc = "resume" /\ sweep.s = s)
  <2>1. Pending(p) /\ proposal[p].status = "proposed"
    BY <1>1, <1>3 DEF CommandsMatch, Pending
  <2>2. booked[p] = 0
    BY <1>1, <2>1 DEF BookingsMatch, TypeInv, TypeOK, MaxBookings
  <2>3. session[s] = SetupProposed
    BY <1>2, <1>3, <1>4, <2>1 DEF PendingIsPaused
  <2>4. Live(s)
    BY <2>3 DEF Live, Status, SetupProposed, Ended
  <2> QED BY <2>1, <2>2, <2>3, <2>4 DEF SweepMatches, NothingPending
<1>6. /\ daemon'.r = r /\ daemon'.p = p /\ daemon'.pc = "mark"
      /\ \A q \in Proposals : q # p => booked'[q] = booked[q]
      /\ \/ daemon'.answer = "approved" /\ booked'[p] = 1
         \/ daemon'.answer = "declined" /\ booked'[p] = 0
  <2>1. daemon'.r = r /\ daemon'.p = p /\ daemon'.pc = "mark"
    BY <1>1, <1>2, <1>3 DEF Daemon
  <2>2. \/ /\ daemon'.answer = "approved"
           /\ booked' = [booked EXCEPT ![p] = @ + 1]
        \/ daemon'.answer = "declined" /\ booked' = booked
    BY <1>1, <1>2, <1>3 DEF Daemon
  <2> QED BY <1>5, <2>1, <2>2 DEF TypeInv, TypeOK
<1>7. /\ ~Approved(r) /\ ~Declined(r)' /\ Decided(r)'
      /\ Approved(r)' <=> daemon'.answer = "approved"
  BY <1>1, <1>2, <1>6 DEF Approved, Declined, Decided
<1>8. /\ \A o \in Sessions : o # s => (Traded(o)' <=> Traded(o))
      /\ \A o \in Sessions : Traded(o) => Traded(o)'
      /\ ~Traded(s)
      /\ Traded(s)' <=> daemon'.answer = "approved"
  <2>1. proposal[p].session = s /\ ~Traded(s)
    BY <1>2, <1>3, <1>4, <1>7 DEF ApprovedIsBooked
  <2> QED BY <1>1, <1>5, <1>6, <2>1 DEF Traded
<1>9. /\ ProposalsInOrder' /\ SessionsInOrder' /\ WorkersMatch' /\ OnlyNewestOpen' /\ NoDeadZone'
  BY <1>1, SameRows
<1>10. BookingsMatch' /\ CommandsMatch'
  <2>1. \A q \in Proposals : (Newest(q)' <=> Newest(q)) /\ (Pending(q)' <=> Pending(q))
    BY <1>1 DEF Newest, Pending
  <2>2. BookingsMatch'
    <3>1. Newest(p) /\ proposal[p].session # Nobody
      BY <1>2, <1>3, <1>5 DEF ProposalsInOrder
    <3> QED BY <1>1, <1>3, <1>5, <1>6, <2>1, <3>1 DEF BookingsMatch
  <2>3. CommandsMatch'
    BY <1>1, <1>2, <1>3, <1>5, <1>6, <2>1 DEF CommandsMatch
  <2> QED BY <2>2, <2>3
<1>11. RequestsLookUp' /\ ApprovesItsOwn' /\ PendingIsPaused'
  BY <1>1 DEF RequestsLookUp, ApprovesItsOwn, PendingIsPaused, Newest, Pending, NothingPending
<1>12. ApprovedIsBooked' /\ ResumesClean'
  <2>1. session'[s] \in {SetupProposed, Scanning} /\ session'[s] # Scanning
    BY <1>1, <1>5 DEF Scanning, SetupProposed
  <2>2. ApprovedIsBooked'
    BY <1>1, <1>2, <1>3, <1>4, <1>6, <1>7, <1>8, <2>1 DEF ApprovedIsBooked
  <2>3. ResumesClean'
    BY <1>1, <1>2, <1>7 DEF ResumesClean
  <2> QED BY <2>2, <2>3
<1>13. PausedIsProposed' /\ CreatedIsProposed'
  BY <1>1, <1>2, <1>7 DEF PausedIsProposed, CreatedIsProposed
<1>14. TradedIsClosing' /\ ExecutingIsClosing'
  BY <1>1, <1>2, <1>4, <1>7, <1>8 DEF TradedIsClosing, ExecutingIsClosing, Live
<1>15. SweepMatches'
  BY <1>1, <1>2, <1>4, <1>5, <1>8 DEF SweepMatches, Live, NothingPending, Pending, OwnOpen
<1> QED BY <1>9, <1>10, <1>11, <1>12, <1>13, <1>14, <1>15

\* The daemon marks what it booked executed, and what was refused rejected.
LEMMA DaemonMarkCalm ==
    ASSUME Quiet, TypeInv', UNCHANGED plan, DaemonMark
    PROVE  CalmInv'
<1> USE DEF Quiet, CalmInv
<1>1. /\ UNCHANGED <<session, lapsed, booked, held, worker, request, wire, sweep>>
      /\ daemon.pc = "mark" /\ daemon' = [daemon EXCEPT !.pc = "reply"]
  BY DEF DaemonMark, DaemonGoes, engine
<1>2. PICK r \in Requests : Handling(r)
  BY <1>1, InHand
<1> USE DEF Handling
<1>3. PICK p \in Proposals : p = daemon.p
  BY <1>2
<1>4. PICK s \in Sessions : s = request[r].s
  BY <1>2
<1>5. PICK status \in ProposalStatus \ {"absent", "proposed"} :
        /\ SetStatus(p, status)
        /\ status = "executed" <=> daemon.answer = "approved"
  BY <1>3 DEF DaemonMark, ProposalStatus
<1>6. /\ Pending(p) /\ proposal[p].status = "proposed"
      /\ daemon.answer \in {"approved", "declined"}
  BY <1>1, <1>3 DEF CommandsMatch, Pending
<1>7. daemon'.r = r /\ daemon'.p = p /\ daemon'.pc = "reply" /\ daemon'.answer = daemon.answer
  BY <1>1, <1>2, <1>3 DEF Daemon
<1>8. /\ \A q \in Proposals : /\ proposal'[q].session = proposal[q].session
                              /\ q # p => proposal'[q].status = proposal[q].status
                              /\ Newest(q)' <=> Newest(q)
                              /\ Pending(q)' => Pending(q)
      /\ proposal'[p].status = status
      /\ NothingPending => NothingPending'
      /\ \A o \in Sessions : (Traded(o)' <=> Traded(o)) /\ (OwnOpen(o)' => OwnOpen(o))
      /\ ProposalsInOrder' /\ OnlyNewestOpen'
  BY <1>1, <1>5, <1>6, RowDecided
<1>9. /\ Approved(r)' <=> Approved(r)
      /\ Approved(r) <=> daemon.answer = "approved"
      /\ Decided(r)'
  BY <1>1, <1>2, <1>6, <1>7 DEF Approved, Declined, Decided
<1>10. booked[p] > 0 <=> daemon.answer = "approved"
  <2>1. daemon.answer = "approved" => booked[p] > 0
    BY <1>2, <1>3, <1>9 DEF ApprovedIsBooked
  <2>2. booked[p] > 0 => daemon.answer = "approved"
    BY <1>6 DEF BookingsMatch
  <2> QED BY <2>1, <2>2
<1>11. SessionsInOrder' /\ WorkersMatch' /\ NoDeadZone'
  <2>1. SessionsInOrder' /\ WorkersMatch'
    BY <1>1 DEF SessionsInOrder, WorkersMatch
  <2>2. \A q \in Proposals : IsProposed(q)' => IsProposed(q) /\ proposal[q].session \in Sessions
    BY <1>5, <1>6, <1>8, ProposedIsOwned DEF IsProposed
  <2>3. NoDeadZone'
    BY <1>1, <1>8, <2>2 DEF NoDeadZone
  <2> QED BY <2>1, <2>3
<1>12. BookingsMatch' /\ CommandsMatch'
  <2>1. BookingsMatch'
    BY <1>1, <1>3, <1>5, <1>6, <1>8, <1>10 DEF BookingsMatch
  <2>2. CommandsMatch'
    BY <1>1, <1>2, <1>3, <1>6, <1>7 DEF CommandsMatch
  <2> QED BY <2>1, <2>2
<1>13. RequestsLookUp' /\ ApprovesItsOwn' /\ PendingIsPaused'
  BY <1>1, <1>2, <1>8 DEF RequestsLookUp, ApprovesItsOwn, PendingIsPaused
<1>14. ApprovedIsBooked' /\ ResumesClean'
  BY <1>1, <1>2, <1>3, <1>5, <1>8, <1>9 DEF ApprovedIsBooked, ResumesClean
<1>15. PausedIsProposed' /\ CreatedIsProposed'
  BY <1>1, <1>2, <1>9 DEF PausedIsProposed, CreatedIsProposed
<1>16. TradedIsClosing' /\ ExecutingIsClosing'
  BY <1>1, <1>2, <1>8, <1>9 DEF TradedIsClosing, ExecutingIsClosing, Live
<1>17. SweepMatches'
  BY <1>1, <1>8 DEF SweepMatches, Live
<1> QED BY <1>8, <1>11, <1>12, <1>13, <1>14, <1>15, <1>16, <1>17

\* The answer moves from the daemon to its request.
LEMMA DaemonReplyCalm ==
    ASSUME Quiet, TypeInv', UNCHANGED plan, DaemonReply
    PROVE  CalmInv'
<1> USE DEF Quiet, CalmInv
<1>1. /\ UNCHANGED <<session, proposal, lapsed, booked, held, worker, wire, sweep>>
      /\ daemon.pc = "reply" /\ daemon' = DaemonIdle
  BY DEF DaemonReply, engine
<1>2. PICK r \in Requests : Handling(r)
  BY <1>1, InHand
<1> USE DEF Handling
<1>3. /\ request' = [request EXCEPT ![r].reply = daemon.answer]
      /\ daemon.answer # "none"
  BY <1>1, <1>2, FlowAssumption DEF DaemonReply, CommandsMatch
<1>4. /\ request'[r].pc = "await" /\ request'[r].kind = request[r].kind
      /\ request'[r].s = request[r].s /\ request'[r].p = request[r].p
      /\ request'[r].paused = request[r].paused /\ request'[r].reply = daemon.answer
      /\ daemon'.pc = "idle" /\ daemon'.r = Unheard
  <2>1. request[r] \in Request /\ request'[r] = [request[r] EXCEPT !.reply = daemon.answer]
    BY <1>2, <1>3 DEF TypeInv, TypeOK
  <2> QED BY <1>1, <1>2, <2>1 DEF Request, DaemonIdle
<1>5. /\ Approved(r)' <=> Approved(r)
      /\ Declined(r)' <=> Declined(r)
      /\ Decided(r)' <=> Decided(r)
  <2>1. (Approved(r)' <=> Approved(r)) /\ (Declined(r)' <=> Declined(r))
    BY <1>1, <1>2, <1>4 DEF Approved, Declined
  <2> QED BY <1>1, <1>2, <1>4, <2>1 DEF Decided
<1>6. /\ ProposalsInOrder' /\ SessionsInOrder' /\ WorkersMatch' /\ OnlyNewestOpen' /\ NoDeadZone'
      /\ BookingsMatch' /\ CommandsMatch' /\ SweepMatches'
  <2>1. BookingsMatch'
    BY <1>1 DEF BookingsMatch, Newest
  <2>2. CommandsMatch'
    BY <1>1, <1>2, <1>4 DEF CommandsMatch
  <2>3. SweepMatches'
    BY <1>1 DEF SweepMatches, Live, NothingPending, Pending, OwnOpen, Traded
  <2> QED BY <1>1, <2>1, <2>2, <2>3, SameRows
<1>7. RequestsLookUp' /\ ApprovesItsOwn' /\ PendingIsPaused'
  <2>1. PICK s \in Sessions : s = request[r].s
    BY <1>2
  <2>2. PICK p \in Proposals : p = request[r].p
    BY <1>2
  <2>3. /\ session[s] # Absent
        /\ \A o \in Sessions : o # s => session[o] # SetupProposed
        /\ Pending(p) => session[s] = SetupProposed
    BY <1>2, <2>1, <2>2 DEF RequestsLookUp, PendingIsPaused
  <2>4. RequestsLookUp' /\ PendingIsPaused'
    <3> HIDE DEF Quiet, CalmInv
    <3>1. request'[r].s = s /\ request'[r].p = p /\ request'[r].paused
      BY <1>2, <1>4, <2>1, <2>2
    <3>2. RequestsLookUp'
      BY <1>1, <1>2, <1>4, <2>3, <3>1 DEF RequestsLookUp
    <3>3. PendingIsPaused'
      BY <1>1, <1>2, <1>4, <2>3, <3>1 DEF PendingIsPaused, Pending
    <3> QED BY <3>2, <3>3
  <2>5. ApprovesItsOwn'
    <3>1. Newest(p) /\ Newest(p)' /\ proposal'[p].session = s
      BY <1>1, <1>2, <2>1, <2>2 DEF Newest
    <3>2. request'[r].s = s /\ request'[r].p = p /\ request'[r].paused
      BY <1>2, <1>4, <2>1, <2>2
    <3> HIDE DEF Quiet, CalmInv
    <3> QED BY <1>2, <3>1, <3>2 DEF ApprovesItsOwn
  <2> QED BY <2>4, <2>5
<1>8. ApprovedIsBooked' /\ ResumesClean'
  BY <1>1, <1>2, <1>4, <1>5 DEF ApprovedIsBooked, ResumesClean, Traded, OwnOpen
<1>9. PausedIsProposed' /\ CreatedIsProposed'
  BY <1>1, <1>2, <1>4, <1>5 DEF PausedIsProposed, CreatedIsProposed, OwnOpen, NothingPending, Pending
<1>10. TradedIsClosing' /\ ExecutingIsClosing'
  BY <1>1, <1>2, <1>4, <1>5 DEF TradedIsClosing, ExecutingIsClosing, Traded, Live
<1> QED BY <1>6, <1>7, <1>8, <1>9, <1>10

-----------------------------------------------------------------------------
(* The daemon's sweep. *)

\* The sweep looks at a session, and may find a proposal expired.
LEMMA SweepLooks ==
    ASSUME Quiet, TypeInv', UNCHANGED <<session, lapsed, booked, worker, request, wire, daemon>>,
           Expires, sweep.pc # "close", SweepMatches',
           \A s \in Sessions : worker[s].pc = "created" /\ session[s] = Scanning => sweep'.s # s
    PROVE  CalmInv'
<1> USE DEF Quiet, CalmInv
<1>1. ProposalsInOrder' /\ SessionsInOrder' /\ OnlyNewestOpen' /\ WorkersMatch' /\ NoDeadZone'
  <2>1. ProposalsInOrder' /\ SessionsInOrder' /\ OnlyNewestOpen' /\ WorkersMatch'
    BY ExpiryKeeps DEF SessionsInOrder, WorkersMatch
  <2>2. \A p \in Proposals : /\ proposal'[p].session = proposal[p].session
                             /\ IsProposed(p)' => IsProposed(p)
    BY ExpiryKeeps DEF IsProposed
  <2>3. NoDeadZone'
    BY <2>2, ProposedIsOwned DEF NoDeadZone
  <2> QED BY <2>1, <2>3
<1>2. BookingsMatch' /\ CommandsMatch'
  <2>1. daemon.pc # "idle" => daemon.p \in Proposals
    BY DEF TypeInv
  <2>2. BookingsMatch'
    BY ExpiryKeeps DEF BookingsMatch
  <2>3. CommandsMatch'
    BY <2>1, ExpiryKeeps DEF CommandsMatch
  <2> QED BY <2>2, <2>3
<1>3. RequestsLookUp' /\ ApprovesItsOwn' /\ ApprovedIsBooked'
  BY ExpiryKeeps DEF RequestsLookUp, ApprovesItsOwn, ApprovedIsBooked, Approved
<1>4. PendingIsPaused' /\ ResumesClean'
  BY ExpiryKeeps DEF PendingIsPaused, ResumesClean, Declined, ApprovesItsOwn
<1>5. PausedIsProposed' /\ CreatedIsProposed'
  BY ExpiryKeeps
     DEF PausedIsProposed, CreatedIsProposed, Decided, Declined, Approved, Live, Status,
         Scanning, SetupProposed, Ended, Executing
<1>6. TradedIsClosing' /\ ExecutingIsClosing'
  BY ExpiryKeeps DEF TradedIsClosing, ExecutingIsClosing, Approved, Live
<1> QED BY <1>1, <1>2, <1>3, <1>4, <1>5, <1>6

\* expire_stale() decides proposals whose shelf life is over.
LEMMA SweepExpireCalm ==
    ASSUME Quiet, TypeInv', UNCHANGED plan, SweepExpire
    PROVE  CalmInv'
<1>1. /\ UNCHANGED <<session, lapsed, booked, worker, request, wire, daemon>>
      /\ sweep.pc = "idle" /\ sweep'.pc = "list" /\ sweep'.s = Nobody
  BY DEF SweepExpire, engine, Quiet, CalmInv, SweepMatches, TypeInv, TypeOK, Sweep
<1>2. Expires
  BY FlowAssumption DEF SweepExpire, Expires, IsProposed
<1>3. SweepMatches'
  BY <1>1 DEF SweepMatches
<1>4. \A s \in Sessions : sweep'.s # s
  BY <1>1, FlowAssumption DEF Sessions, Nobody
<1> QED BY <1>1, <1>2, <1>3, <1>4, SweepLooks

\* The sweep looks up the paused session.
LEMMA SweepListCalm ==
    ASSUME Quiet, TypeInv', UNCHANGED plan, SweepList
    PROVE  CalmInv'
<1>1. /\ UNCHANGED <<session, proposal, lapsed, booked, worker, request, wire, daemon>>
      /\ sweep.pc = "list"
      /\ \/ /\ sweep'.pc = "pending" /\ sweep'.s \in Sessions
            /\ session[sweep'.s] = SetupProposed
         \/ sweep'.pc = "idle" /\ sweep'.s = Nobody
  BY DEF SweepList, SweepIdle, engine
<1>2. Expires
  BY <1>1 DEF Expires
<1>3. SweepMatches'
  BY <1>1 DEF SweepMatches, SetupProposed, Absent
<1>4. \A s \in Sessions : session[s] = Scanning => sweep'.s # s
  BY <1>1, FlowAssumption DEF Sessions, Nobody, SetupProposed, Scanning
<1> QED BY <1>1, <1>2, <1>3, <1>4, SweepLooks

\* The sweep goes on when nothing is pending: then no live session has an open proposal.
LEMMA SweepPendingCalm ==
    ASSUME Quiet, TypeInv', UNCHANGED plan, SweepPending
    PROVE  CalmInv'
<1> USE DEF Quiet, CalmInv
<1>1. /\ UNCHANGED <<session, lapsed, booked, worker, request, wire, daemon>>
      /\ sweep.pc = "pending" /\ sweep.s \in Sessions /\ session[sweep.s] # Absent
  BY DEF SweepPending, engine, SweepMatches
<1>2. PICK p \in Proposals \cup {Nobody} :
        /\ GetPending(p)
        /\ sweep' = IF p # Nobody THEN SweepIdle ELSE [sweep EXCEPT !.pc = "latest"]
  BY DEF SweepPending
<1>3. /\ Expires
      /\ p = Nobody => /\ NothingPending'
                       /\ \A s \in Sessions : Live(s) => ~OwnOpen(s)'
  BY <1>1, <1>2, GetPendingExpires
<1>4. \/ p = Nobody /\ sweep'.pc = "latest" /\ sweep'.s = sweep.s
      \/ sweep'.pc = "idle" /\ sweep'.s = Nobody
  BY <1>2 DEF SweepIdle, TypeInv, TypeOK, Sweep
<1>5. SweepMatches'
  BY <1>1, <1>3, <1>4 DEF SweepMatches, Live
<1>6. \A s \in Sessions : worker[s].pc = "created" /\ session[s] = Scanning => sweep'.s # s
  BY <1>1, <1>4, FlowAssumption DEF CreatedIsProposed, Sessions, Nobody
<1> QED BY <1>1, <1>3, <1>5, <1>6, SweepLooks

\* The sweep resumes no session that traded: its newest proposal would be executed, or
\* be pending with the daemon about to mark it.
LEMMA SweepLatestCalm ==
    ASSUME Quiet, TypeInv', UNCHANGED plan, SweepLatest
    PROVE  CalmInv'
<1> USE DEF Quiet, CalmInv
<1>1. /\ UNCHANGED <<session, proposal, lapsed, booked, worker, request, wire, daemon>>
      /\ sweep.pc = "latest" /\ sweep.s \in Sessions /\ session[sweep.s] # Absent
  BY DEF SweepLatest, engine, SweepMatches
<1>2. PICK s \in Sessions : s = sweep.s
  BY <1>1
<1>3. /\ sweep'.s = s
      /\ \/ sweep'.pc = "approve" /\ LatestExecuted(s)
         \/ sweep'.pc = "resume" /\ ~LatestExecuted(s)
  BY <1>1, <1>2 DEF SweepLatest, TypeInv, TypeOK, Sweep
<1>4. LatestExecuted(s) => Traded(s)
  BY DEF LatestExecuted, Traded, BookingsMatch
<1>5. ASSUME session[s] = SetupProposed, Traded(s)
      PROVE  LatestExecuted(s)
  <2>1. PICK p \in Proposals : proposal[p].session = s /\ booked[p] > 0
    BY <1>5 DEF Traded
  <2>2. Newest(p) /\ (proposal[p].status = "executed" \/ daemon.pc = "mark")
    BY <2>1 DEF BookingsMatch
  <2>3. daemon.pc # "mark"
    <3>1. NothingPending
      BY <1>1, <1>2, <1>5 DEF SweepMatches, Live, Status, SetupProposed, Ended
    <3>2. daemon.pc = "mark" => daemon.p \in Proposals /\ Pending(daemon.p)
      BY DEF CommandsMatch, TypeInv
    <3> QED BY <3>1, <3>2 DEF NothingPending
  <2> QED BY <2>1, <2>2, <2>3 DEF LatestExecuted, Newest
<1>6. SweepMatches'
  <2>1. Live(s) => NothingPending /\ ~OwnOpen(s)
    BY <1>1, <1>2 DEF SweepMatches
  <2> QED BY <1>1, <1>2, <1>3, <1>4, <1>5, <2>1
          DEF SweepMatches, Live, NothingPending, Pending, OwnOpen, Traded
<1>7. Expires
  BY <1>1 DEF Expires
<1>8. \A o \in Sessions : worker[o].pc = "created" /\ session[o] = Scanning => sweep'.s # o
  BY <1>1, <1>2, <1>3 DEF CreatedIsProposed
<1> QED BY <1>1, <1>6, <1>7, <1>8, SweepLooks

\* The sweep moves a traded session to executing; a request for it is approved as well.
LEMMA SweepApproveCalm ==
    ASSUME Quiet, TypeInv', UNCHANGED plan, SweepApprove
    PROVE  CalmInv'
<1> USE DEF Quiet, CalmInv
<1>1. /\ UNCHANGED <<proposal, lapsed, booked, held, worker, request, wire, daemon>>
      /\ sweep.pc = "approve" /\ sweep.s \in Sessions /\ Traded(sweep.s)
  BY DEF SweepApprove, engine, SweepMatches
<1>2. PICK s \in Sessions : s = sweep.s
  BY <1>1
<1>3. Moves(s, Executing) <=> session[s] = SetupProposed
  BY DEF Moves, LEGAL, TypeInv, TypeOK, Status, Scanning, SetupProposed, Executing, Ended, Absent
<1>4. CASE session[s] # SetupProposed
  <2>1. UNCHANGED session /\ sweep'.pc = "idle" /\ sweep'.s = Nobody
    BY <1>2, <1>3, <1>4 DEF SweepApprove, Transition, SweepIdle
  <2>2. Expires /\ SweepMatches'
    BY <1>1, <2>1 DEF Expires, SweepMatches
  <2>3. \A o \in Sessions : sweep'.s # o
    BY <2>1, FlowAssumption DEF Sessions, Nobody
  <2> QED BY <1>1, <2>1, <2>2, <2>3, SweepLooks
<1>5. CASE session[s] = SetupProposed
  <2>1. /\ session'[s] = Executing
        /\ \A o \in Sessions : o # s => session'[o] = session[o]
        /\ sweep'.pc = "close" /\ sweep'.s = s
        /\ Live(s)
    BY <1>2, <1>3, <1>5 DEF SweepApprove, Transition, TypeInv, TypeOK, Sweep, Live, Status,
       SetupProposed, Ended
  <2>2. NothingPending /\ ~OwnOpen(s) /\ Traded(s)
    BY <1>1, <1>2, <2>1 DEF SweepMatches
  <2>3. /\ \A o \in Sessions : o # s => session'[o] \notin {Scanning, SetupProposed, Executing}
        /\ \A o \in Sessions : Live(o)' => o = s
    <3>1. \A o \in Sessions : Live(o) => o = s
      BY <2>1, OneLive DEF TypeInv
    <3> QED BY <2>1, <3>1 DEF Live, Status, Scanning, SetupProposed, Executing, Ended
  <2>4. \A r \in Requests : request[r].pc # "idle" =>
            request[r].s = s /\ request[r].paused /\ Approved(r)
    <3> SUFFICES ASSUME NEW r \in Requests, request[r].pc # "idle"
                 PROVE  request[r].s = s /\ request[r].paused /\ Approved(r)
      OBVIOUS
    <3>1. request[r].s = s /\ request[r].paused
      BY <1>5 DEF RequestsLookUp
    <3> QED BY <2>2, <3>1 DEF ApprovedIsBooked
  <2>5. \A r \in Requests : /\ Approved(r)' <=> Approved(r)
                            /\ Declined(r)' <=> Declined(r)
    BY <1>1 DEF Approved, Declined
  <2>6. ProposalsInOrder' /\ SessionsInOrder' /\ WorkersMatch' /\ OnlyNewestOpen' /\ NoDeadZone'
    <3>1. ProposalsInOrder'
      BY <1>1, <2>1 DEF ProposalsInOrder, TypeInv, TypeOK, Executing, Absent
    <3>2. SessionsInOrder'
      BY <1>5, <2>1 DEF SessionsInOrder, SetupProposed, Executing, Absent, Ended
    <3>3. WorkersMatch'
      BY <1>1, <2>1 DEF WorkersMatch, SetupProposed, Executing, Absent
    <3>4. OnlyNewestOpen'
      BY <1>1 DEF OnlyNewestOpen, Newest
    <3>5. NoDeadZone'
      BY <1>1, <2>1, <2>3, ProposedIsOwned DEF NoDeadZone, IsProposed, Scanning, Executing
    <3> QED BY <3>1, <3>2, <3>3, <3>4, <3>5
  <2>7. BookingsMatch' /\ CommandsMatch'
    BY <1>1 DEF BookingsMatch, CommandsMatch, Newest, Pending
  <2>8. RequestsLookUp' /\ ApprovesItsOwn'
    <3>1. RequestsLookUp'
      BY <1>1, <2>1, <2>3, <2>4 DEF RequestsLookUp, Executing, Absent
    <3>2. ApprovesItsOwn'
      BY <1>1 DEF ApprovesItsOwn, Newest
    <3> QED BY <3>1, <3>2
  <2>9. ApprovedIsBooked'
    BY <1>1, <2>1, <2>4, <2>5 DEF ApprovedIsBooked, Traded, Scanning, Executing, Approved
  <2>10. PendingIsPaused' /\ ResumesClean'
    <3>1. NothingPending' /\ \A r \in Requests : request[r].pc # "idle" => ~OwnOpen(request[r].s)'
      BY <1>1, <2>2, <2>4 DEF NothingPending, Pending, OwnOpen
    <3>2. PendingIsPaused'
      <4>1. \A r \in Requests : request[r].pc \in {"send", "await"} => ~Pending(request[r].p)'
        BY <1>1, <3>1 DEF NothingPending, ApprovesItsOwn
      <4> QED BY <1>1, <3>1, <4>1 DEF PendingIsPaused
    <3>3. ResumesClean'
      BY <1>1, <2>5, <3>1 DEF ResumesClean
    <3> QED BY <3>2, <3>3
  <2>11. PausedIsProposed' /\ CreatedIsProposed'
    BY <2>1, <2>3 DEF PausedIsProposed, CreatedIsProposed, Scanning, SetupProposed, Executing
  <2>12. TradedIsClosing' /\ ExecutingIsClosing'
    <3>1. Traded(s)' /\ \A o \in Sessions : session'[o] = Executing => o = s
      BY <1>1, <2>2, <2>3 DEF Traded
    <3> QED BY <2>1, <2>3, <3>1 DEF TradedIsClosing, ExecutingIsClosing
  <2>13. SweepMatches'
    BY <1>1, <2>1, <2>2 DEF SweepMatches, NothingPending, Pending, OwnOpen, Traded, Executing, Absent
  <2> QED BY <2>6, <2>7, <2>8, <2>9, <2>10, <2>11, <2>12, <2>13
<1> QED BY <1>4, <1>5

\* The sweep ends a traded session, or resumes one that did not trade.
LEMMA SweepFinishCalm ==
    ASSUME Quiet, TypeInv', UNCHANGED plan, SweepFinish
    PROVE  CalmInv'
<1> USE DEF Quiet, CalmInv
<1>1. /\ UNCHANGED <<proposal, lapsed, booked, held, worker, request, wire, daemon>>
      /\ sweep.pc \in {"close", "resume"} /\ sweep.s \in Sessions /\ session[sweep.s] # Absent
      /\ sweep'.pc = "idle" /\ sweep'.s = Nobody
  BY DEF SweepFinish, SweepIdle, engine, SweepMatches
<1>2. PICK s \in Sessions : s = sweep.s
  BY <1>1
<1>3. PICK to \in {Scanning, Ended} :
        /\ to = Scanning <=> sweep.pc = "resume"
        /\ Transition(s, to)
  BY <1>1, <1>2 DEF SweepFinish, Scanning, Ended
<1>4. /\ SweepMatches'
      /\ \A o \in Sessions : sweep'.s # o
  BY <1>1, FlowAssumption DEF SweepMatches, Sessions, Nobody
<1>5. CASE ~Moves(s, to)
  <2>1. UNCHANGED session
    BY <1>3, <1>5 DEF Transition
  <2>2. sweep.pc = "close" => ~Live(s)
    BY <1>1, <1>3, <1>5 DEF Moves, LEGAL, TypeInv, TypeOK, Live, Status, Scanning, SetupProposed,
       Executing, Ended, Absent
  <2>3. /\ ProposalsInOrder' /\ SessionsInOrder' /\ WorkersMatch' /\ OnlyNewestOpen' /\ NoDeadZone'
        /\ BookingsMatch' /\ CommandsMatch'
    BY <1>1, <2>1, SameRows DEF BookingsMatch, CommandsMatch, Newest, Pending
  <2>4. RequestsLookUp' /\ ApprovesItsOwn' /\ ApprovedIsBooked' /\ PendingIsPaused' /\ ResumesClean'
    BY <1>1, <2>1 DEF RequestsLookUp, ApprovesItsOwn, ApprovedIsBooked, PendingIsPaused,
       ResumesClean, Newest, Pending, NothingPending, OwnOpen, Traded, Approved, Declined
  <2>5. PausedIsProposed' /\ CreatedIsProposed'
    BY <1>1, <1>4, <2>1 DEF PausedIsProposed, CreatedIsProposed, OwnOpen, NothingPending, Pending,
       Decided, Approved, Declined
  <2>6. TradedIsClosing' /\ ExecutingIsClosing'
    <3>1. session[s] = Executing => sweep.pc # "close"
      BY <2>2 DEF Live, Status, Executing, Ended
    <3> QED BY <1>1, <1>2, <2>1, <2>2, <3>1
            DEF TradedIsClosing, ExecutingIsClosing, Traded, Approved, Live
  <2> QED BY <1>4, <2>3, <2>4, <2>5, <2>6
<1>6. CASE Moves(s, to)
  <2>1. /\ session'[s] = to
        /\ \A o \in Sessions : o # s => session'[o] = session[o]
        /\ Live(s)
        /\ to = Scanning => session[s] = SetupProposed
    BY <1>3, <1>6 DEF Transition, Moves, LEGAL, TypeInv, TypeOK, Live, Status, Scanning,
       SetupProposed, Executing, Ended, Absent
  <2>2. /\ NothingPending /\ ~OwnOpen(s)
        /\ to = Scanning => ~Traded(s) /\ worker[s].pc = "idle"
        /\ to = Ended => Traded(s)
    <3>1. NothingPending /\ ~OwnOpen(s)
      BY <1>1, <1>2, <2>1 DEF SweepMatches
    <3>2. to = Scanning => ~Traded(s) /\ worker[s].pc = "idle"
      BY <1>2, <1>3, <2>1 DEF SweepMatches, WorkersMatch
    <3>3. to = Ended => Traded(s)
      BY <1>1, <1>2, <1>3 DEF SweepMatches, Scanning, Ended
    <3> QED BY <3>1, <3>2, <3>3
  <2>3. /\ \A o \in Sessions : o # s => session'[o] \notin {Scanning, SetupProposed, Executing}
        /\ \A o \in Sessions : Live(o)' => Live(o)
        /\ session'[s] \in {Scanning, Ended}
    <3>1. \A o \in Sessions : Live(o) => o = s
      BY <2>1, OneLive DEF TypeInv
    <3> QED BY <2>1, <3>1 DEF Live, Status, Scanning, SetupProposed, Executing, Ended
  <2>4. ProposalsInOrder' /\ SessionsInOrder' /\ WorkersMatch' /\ OnlyNewestOpen' /\ NoDeadZone'
    <3>1. ProposalsInOrder'
      BY <1>1, <2>1 DEF ProposalsInOrder, TypeInv, TypeOK, Scanning, Ended, Absent
    <3>2. SessionsInOrder'
      BY <1>1, <1>2, <2>1, <2>3 DEF SessionsInOrder, SetupProposed, Absent, Ended
    <3>3. WorkersMatch'
      BY <1>1, <2>1, <2>3 DEF WorkersMatch, SetupProposed, Scanning, Ended, Absent
    <3>4. OnlyNewestOpen'
      BY <1>1 DEF OnlyNewestOpen, Newest
    <3>5. \A p \in Proposals : IsProposed(p)' => IsProposed(p) /\ proposal[p].session \in Sessions
      BY <1>1, ProposedIsOwned DEF IsProposed
    <3>6. NoDeadZone'
      BY <1>1, <2>1, <2>2, <2>3, <3>5 DEF NoDeadZone, IsProposed, OwnOpen
    <3> QED BY <3>1, <3>2, <3>3, <3>4, <3>6
  <2>5. BookingsMatch' /\ CommandsMatch'
    BY <1>1 DEF BookingsMatch, CommandsMatch, Newest, Pending
  <2>6. \A r \in Requests : /\ Approved(r)' <=> Approved(r)
                            /\ Declined(r)' <=> Declined(r)
                            /\ Approved(r) /\ request[r].s = s => Traded(s)
    BY <1>1 DEF Approved, Declined, ApprovedIsBooked, ApprovesItsOwn, Traded
  <2>7. RequestsLookUp' /\ ApprovesItsOwn'
    <3>1. RequestsLookUp'
      BY <1>1, <2>1, <2>3 DEF RequestsLookUp, Scanning, SetupProposed, Ended, Absent
    <3>2. ApprovesItsOwn'
      BY <1>1 DEF ApprovesItsOwn, Newest
    <3> QED BY <3>1, <3>2
  <2>8. ApprovedIsBooked'
    <3> SUFFICES ASSUME NEW r \in Requests
                 PROVE  /\ Approved(r) => booked[request[r].p] > 0
                                          /\ session'[request[r].s] # Scanning
                        /\ (request[r].pc # "idle" /\ request[r].paused /\ ~Approved(r)) =>
                                /\ ~Traded(request[r].s)
                                /\ session'[request[r].s] \in {SetupProposed, Scanning}
      BY <1>1, <2>6 DEF ApprovedIsBooked, Traded
    <3>1. CASE request[r].s = s
      BY <2>1, <2>2, <2>6, <3>1 DEF ApprovedIsBooked, Scanning, Ended
    <3>2. CASE request[r].s # s
      <4>1. request[r].pc # "idle" => request[r].s \in Sessions
        BY DEF RequestsLookUp
      <4>2. Approved(r) => request[r].pc # "idle"
        BY DEF Approved
      <4> QED BY <2>1, <3>2, <4>1, <4>2 DEF ApprovedIsBooked
    <3> QED BY <3>1, <3>2
  <2>9. PendingIsPaused' /\ ResumesClean'
    <3>1. NothingPending'
      BY <1>1, <2>2 DEF NothingPending, Pending
    <3>2. PendingIsPaused'
      <4>1. \A r \in Requests : request[r].pc \in {"send", "await"} => ~Pending(request[r].p)'
        BY <1>1, <3>1 DEF NothingPending, ApprovesItsOwn
      <4> QED BY <1>1, <3>1, <4>1 DEF PendingIsPaused
    <3>3. ResumesClean'
      BY <1>1, <2>6 DEF ResumesClean, OwnOpen
    <3> QED BY <3>2, <3>3
  <2>10. PausedIsProposed' /\ CreatedIsProposed'
    <3>1. \A o \in Sessions : session'[o] # SetupProposed
      BY <2>3 DEF Scanning, SetupProposed, Ended
    <3>2. \A o \in Sessions : session'[o] = Scanning => worker'[o].pc = "idle"
      BY <1>1, <2>1, <2>2, <2>3 DEF Scanning, Ended
    <3> QED BY <3>1, <3>2 DEF PausedIsProposed, CreatedIsProposed
  <2>11. TradedIsClosing' /\ ExecutingIsClosing'
    <3>1. \A o \in Sessions : session'[o] # Executing
      BY <2>3 DEF Scanning, Executing, Ended
    <3>2. \A o \in Sessions : Live(o)' => ~Traded(o)'
      <4>1. \A o \in Sessions : Live(o)' => o = s /\ to = Scanning
        BY <2>1, <2>3 DEF Live, Status, Scanning, SetupProposed, Executing, Ended
      <4> QED BY <1>1, <2>2, <4>1 DEF Traded
    <3> QED BY <3>1, <3>2 DEF TradedIsClosing, ExecutingIsClosing
  <2> QED BY <1>4, <2>4, <2>5, <2>7, <2>8, <2>9, <2>10, <2>11
<1> QED BY <1>5, <1>6

-----------------------------------------------------------------------------
(* The clock, the market, and the whole. *)

\* A shelf life ends, but not between the check and the booking.
LEMMA LapseCalm ==
    ASSUME Quiet, TypeInv', UNCHANGED plan, NEW p \in Proposals, Lapse(p)
    PROVE  CalmInv'
<1> USE DEF Quiet, CalmInv
<1>1. /\ UNCHANGED <<session, proposal, booked, held, worker, request, wire, daemon, sweep>>
      /\ proposal[p].status # "absent" /\ p \notin lapsed
      /\ \A o \in Proposals : o < p => o \in lapsed
      /\ daemon.pc \notin {"recheck", "book", "mark"}
      /\ lapsed' = lapsed \cup {p}
  BY DEF Lapse, Calm, engine, daemonTasks
<1>2. /\ \A q \in Proposals : (Pending(q)' => Pending(q)) /\ (Newest(q)' <=> Newest(q))
      /\ NothingPending => NothingPending'
      /\ \A s \in Sessions : (Traded(s)' <=> Traded(s)) /\ (OwnOpen(s)' <=> OwnOpen(s))
  <2>1. \A q \in Proposals : (Pending(q)' => Pending(q)) /\ (Newest(q)' <=> Newest(q))
    BY <1>1 DEF Pending, Newest
  <2> QED BY <1>1, <2>1 DEF NothingPending, Traded, OwnOpen
<1>3. ProposalsInOrder'
  <2>1. \A q \in lapsed' : proposal'[q].status # "absent"
    BY <1>1 DEF ProposalsInOrder
  <2>2. \A o, q \in Proposals : o < q /\ q \in lapsed' => o \in lapsed'
    BY <1>1 DEF ProposalsInOrder
  <2> QED BY <1>1, <2>1, <2>2 DEF ProposalsInOrder
<1>4. SessionsInOrder' /\ WorkersMatch' /\ OnlyNewestOpen' /\ NoDeadZone'
  <2>1. \A q \in Proposals : IsProposed(q)' => IsProposed(q) /\ proposal[q].session \in Sessions
    BY <1>1, ProposedIsOwned DEF IsProposed
  <2> QED BY <1>1, <1>2, <2>1 DEF SessionsInOrder, WorkersMatch, OnlyNewestOpen, NoDeadZone
<1>5. BookingsMatch' /\ CommandsMatch'
  BY <1>1, <1>2 DEF BookingsMatch, CommandsMatch
<1>6. RequestsLookUp' /\ ApprovesItsOwn' /\ ApprovedIsBooked' /\ ResumesClean'
  BY <1>1, <1>2 DEF RequestsLookUp, ApprovesItsOwn, ApprovedIsBooked, ResumesClean, Approved, Declined
<1>7. PendingIsPaused'
  BY <1>1, <1>2 DEF PendingIsPaused, ApprovesItsOwn
<1>8. PausedIsProposed' /\ CreatedIsProposed'
  BY <1>1, <1>2 DEF PausedIsProposed, CreatedIsProposed, Decided, Approved, Declined
<1>9. TradedIsClosing' /\ ExecutingIsClosing' /\ SweepMatches'
  BY <1>1, <1>2 DEF TradedIsClosing, ExecutingIsClosing, SweepMatches, Approved, Live
<1> QED BY <1>3, <1>4, <1>5, <1>6, <1>7, <1>8, <1>9

\* The invariant does not speak of the positions.
LEMMA SameFlow ==
    ASSUME Quiet, TypeInv',
           UNCHANGED <<session, proposal, lapsed, booked, worker, request, wire, daemon, sweep>>
    PROVE  CalmInv'
<1> USE DEF Quiet, CalmInv
<1>1. ProposalsInOrder' /\ SessionsInOrder' /\ WorkersMatch' /\ OnlyNewestOpen' /\ NoDeadZone'
  BY SameRows
<1>2. BookingsMatch' /\ CommandsMatch'
  BY DEF BookingsMatch, CommandsMatch, Newest, Pending
<1>3. RequestsLookUp' /\ ApprovesItsOwn' /\ ApprovedIsBooked' /\ PendingIsPaused' /\ ResumesClean'
  BY DEF RequestsLookUp, ApprovesItsOwn, ApprovedIsBooked, PendingIsPaused,
         ResumesClean, Newest, Pending, NothingPending, OwnOpen, Traded, Approved, Declined
<1>4. PausedIsProposed' /\ CreatedIsProposed'
  BY DEF PausedIsProposed, CreatedIsProposed, OwnOpen, NothingPending, Pending,
         Decided, Approved, Declined
<1>5. TradedIsClosing' /\ ExecutingIsClosing' /\ SweepMatches'
  BY DEF TradedIsClosing, ExecutingIsClosing, SweepMatches, NothingPending, Pending, OwnOpen,
         Traded, Approved, Live
<1> QED BY <1>1, <1>2, <1>3, <1>4, <1>5

\* The tenant starts with nothing.
LEMMA InitCalm == Init => CalmInv
<1> SUFFICES ASSUME Init PROVE CalmInv
  OBVIOUS
<1> USE DEF Init
<1>1. /\ \A p \in Proposals : /\ proposal[p].status = "absent" /\ proposal[p].session = Nobody
                              /\ booked[p] = 0
      /\ \A s \in Sessions : session[s] = Absent /\ worker[s].pc = "idle"
      /\ \A r \in Requests : request[r] = NoRequest
      /\ lapsed = {} /\ wire = <<>> /\ daemon = DaemonIdle /\ sweep = SweepIdle
  BY DEF WorkerIdle
<1>2. ProposalsInOrder /\ SessionsInOrder /\ WorkersMatch /\ OnlyNewestOpen /\ NoDeadZone
  BY <1>1 DEF ProposalsInOrder, SessionsInOrder, WorkersMatch, OnlyNewestOpen, NoDeadZone,
     IsProposed
<1>3. BookingsMatch /\ CommandsMatch
  BY <1>1 DEF BookingsMatch, CommandsMatch, DaemonIdle
<1>4. \A r \in Requests : /\ request[r].pc = "idle" /\ request[r].reply = "none"
                          /\ ~Approved(r) /\ ~Declined(r)
  BY <1>1 DEF NoRequest, Approved, Declined
<1>5. RequestsLookUp /\ ApprovesItsOwn /\ ApprovedIsBooked /\ PendingIsPaused /\ ResumesClean
  BY <1>1, <1>4
     DEF RequestsLookUp, ApprovesItsOwn, ApprovedIsBooked, PendingIsPaused, ResumesClean
<1>6. PausedIsProposed /\ CreatedIsProposed
  BY <1>1 DEF PausedIsProposed, CreatedIsProposed, SetupProposed, Absent
<1>7. TradedIsClosing /\ ExecutingIsClosing /\ SweepMatches
  BY <1>1 DEF TradedIsClosing, ExecutingIsClosing, SweepMatches, SweepIdle, Live, Status, Scanning,
     SetupProposed, Executing, Ended, Absent
<1> QED BY <1>2, <1>3, <1>5, <1>6, <1>7 DEF CalmInv

\* Every step keeps the invariant.
LEMMA NextCalm ==
    ASSUME Quiet, TypeInv', [Next]_vars
    PROVE  CalmInv'
<1>1. CASE UNCHANGED vars
  BY <1>1, SameFlow DEF vars, flow
<1>2. CASE Next
  <2> USE <1>2 DEF Next
  <2>0. UNCHANGED plan /\ plan = {}
    BY DEF Quiet, Calm
  <2>1. ASSUME NEW s \in Sessions, StartSession(s) \/ MeterEnds(s) \/ Cycle(s)
        PROVE  CalmInv'
    BY <2>0, <2>1, StartCalm, MeterCalm, WorkerCalm, CheckCalm, CreateCalm, ProposeCalm DEF Cycle
  <2>2. ASSUME NEW r \in Requests, NEW kind \in {"approve", "reject", "end"}, Arrive(r, kind)
        PROVE  CalmInv'
    BY <2>0, <2>2, ArriveCalm
  <2>3. ASSUME NEW r \in Requests, Handle(r)
        PROVE  CalmInv'
    BY <2>0, <2>3, PendingCalm, LatestCalm, SendCalm, ReplyCalm, TimeOutCalm, MarkCalm,
       ApproveCalm, FinishCalm DEF Handle
  <2>4. CASE HandleCommand
    BY <2>0, <2>4, TakeCalm, AnswerCalm, RevalidateCalm, BookCalm, DaemonMarkCalm,
       DaemonReplyCalm DEF HandleCommand, DaemonFails
  <2>5. CASE SweepOnce
    BY <2>0, <2>5, SweepExpireCalm, SweepListCalm, SweepPendingCalm, SweepLatestCalm,
       SweepApproveCalm, SweepFinishCalm DEF SweepOnce
  <2>6. ASSUME NEW p \in Proposals, Lapse(p) \/ PositionCloses(p)
        PROVE  CalmInv'
    BY <2>0, <2>6, LapseCalm, SameFlow DEF PositionCloses, daemonTasks
  <2>7. ~ApiCrash /\ ~DaemonCrash
    BY <2>0 DEF ApiCrash, DaemonCrash, Dies
  <2> QED BY <2>1, <2>2, <2>3, <2>4, <2>5, <2>6, <2>7
<1> QED BY <1>1, <1>2

\* What a step with no fault does to the records.
LEMMA StepIsRightful ==
    ASSUME Quiet, TypeInv', [Next]_vars, NEW p \in Proposals
    PROVE  /\ proposal[p].status = "executed" => proposal'[p].status = "executed"
           /\ booked'[p] # booked[p] => /\ proposal[p].status = "proposed"
                                        /\ session[proposal[p].session] = SetupProposed
<1> USE DEF Quiet, CalmInv
<1>1. CASE UNCHANGED <<proposal, booked>>
  BY <1>1
<1>2. CASE UNCHANGED booked /\ Expires
  BY <1>2 DEF Expires
<1>3. ASSUME UNCHANGED booked, NEW q \in Proposals, NEW status \in ProposalStatus,
             SetStatus(q, status), proposal[q].status # "executed"
      PROVE  proposal[p].status = "executed" => proposal'[p].status = "executed"
  BY <1>3, SetStatusOnly DEF TypeInv
<1>4. ASSUME NEW s \in Sessions, CycleCheck(s) \/ CycleCreate(s)
      PROVE  /\ UNCHANGED booked
             /\ proposal[p].status = "executed" => proposal'[p].status = "executed"
  <2>1. CASE CycleCheck(s)
    <3>1. PICK q \in Proposals \cup {Nobody} : GetPending(q)
      BY <2>1 DEF CycleCheck
    <3> QED BY <1>2, <2>1, <3>1, GetPendingExpires DEF CycleCheck, engine
  <2>2. CASE CycleCreate(s)
    BY <2>2 DEF CycleCreate, TypeInv, TypeOK, engine
  <2> QED BY <1>4, <2>1, <2>2
<1>5. ASSUME NEW r \in Requests, ReadPending(r) \/ MarkRejected(r)
      PROVE  /\ UNCHANGED booked
             /\ proposal[p].status = "executed" => proposal'[p].status = "executed"
  <2>1. CASE ReadPending(r)
    <3>1. PICK q \in Proposals \cup {Nobody} : GetPending(q)
      BY <2>1 DEF ReadPending
    <3> QED BY <1>2, <2>1, <3>1, GetPendingExpires DEF ReadPending, engine
  <2>2. CASE MarkRejected(r)
    <3>1. request[r].p \in Proposals /\ proposal[request[r].p].status # "executed"
      BY <2>2 DEF MarkRejected, RequestsLookUp
    <3> QED BY <1>3, <2>2, <3>1 DEF MarkRejected, engine, ProposalStatus
  <2> QED BY <1>5, <2>1, <2>2
<1>6. CASE Revalidate
  <2>1. UNCHANGED booked /\ daemon.p \in Proposals
    BY <1>6 DEF Revalidate, engine, TypeInv
  <2>2. \/ UNCHANGED proposal
        \/ /\ proposal[daemon.p].status # "executed"
           /\ \E status \in ProposalStatus : SetStatus(daemon.p, status)
    BY <1>6 DEF Revalidate, IsProposed, ProposalStatus
  <2> QED BY <1>1, <1>3, <2>1, <2>2
<1>7. CASE DaemonMark
  <2>1. UNCHANGED booked /\ daemon.p \in Proposals /\ proposal[daemon.p].status # "executed"
    BY <1>7 DEF DaemonMark, engine, TypeInv, CommandsMatch, Pending
  <2>2. \E status \in ProposalStatus : SetStatus(daemon.p, status)
    BY <1>7 DEF DaemonMark, ProposalStatus
  <2> QED BY <1>3, <2>1, <2>2
<1>8. CASE Book
  <2>1. UNCHANGED proposal /\ daemon.p \in Proposals /\ Pending(daemon.p)
    BY <1>8 DEF Book, TypeInv, CommandsMatch
  <2>2. PICK r \in Requests : Handling(r)
    BY <1>8, InHand DEF Book
  <2>3. proposal[daemon.p].status = "proposed" /\ session[proposal[daemon.p].session] = SetupProposed
    BY <2>1, <2>2 DEF Handling, PendingIsPaused, Pending
  <2>4. booked'[p] # booked[p] => p = daemon.p
    BY <1>8 DEF Book, TypeInv, TypeOK, engine
  <2> QED BY <2>1, <2>3, <2>4
<1>9. CASE SweepExpire
  BY <1>2, <1>9, FlowAssumption DEF SweepExpire, Expires, IsProposed, engine
<1>10. CASE SweepPending
  <2>1. PICK q \in Proposals \cup {Nobody} : GetPending(q)
    BY <1>10 DEF SweepPending
  <2> QED BY <1>2, <1>10, <2>1, GetPendingExpires DEF SweepPending, engine
<1>11. ASSUME NEW s \in Sessions,
              \/ StartSession(s) \/ MeterEnds(s) \/ CycleStart(s) \/ CycleNothing(s)
              \/ CyclePropose(s)
       PROVE  UNCHANGED <<proposal, booked>>
  BY <1>11 DEF StartSession, MeterEnds, CycleStart, CycleNothing, CyclePropose, engine
<1>12. ASSUME NEW r \in Requests,
              \/ \E kind \in {"approve", "reject", "end"} : Arrive(r, kind)
              \/ ReadLatest(r) \/ Send(r) \/ ReadReply(r) \/ TimeOut(r) \/ CloseApprove(r)
              \/ Finish(r)
       PROVE  UNCHANGED <<proposal, booked>>
  BY <1>12 DEF Arrive, ReadLatest, Send, ReadReply, TimeOut, CloseApprove, Finish, engine
<1>13. ASSUME Take \/ DaemonGet \/ Recheck \/ DaemonFails \/ DaemonReply \/ ApiCrash \/ DaemonCrash
       PROVE  UNCHANGED <<proposal, booked>>
  BY <1>13 DEF Take, DaemonGet, Recheck, DaemonFails, DaemonReply, ApiCrash, DaemonCrash, engine
<1>14. ASSUME SweepList \/ SweepLatest \/ SweepApprove \/ SweepFinish
       PROVE  UNCHANGED <<proposal, booked>>
  BY <1>14 DEF SweepList, SweepLatest, SweepApprove, SweepFinish, engine
<1>15. ASSUME NEW o \in Proposals, Lapse(o) \/ PositionCloses(o)
       PROVE  UNCHANGED <<proposal, booked>>
  BY <1>15 DEF Lapse, PositionCloses, engine
<1>16. CASE UNCHANGED vars
  BY <1>1, <1>16 DEF vars, flow
<1> HIDE DEF Quiet, CalmInv
<1> QED
  <2>1. CASE \E s \in Sessions : StartSession(s) \/ MeterEnds(s) \/ Cycle(s)
    BY <1>1, <1>4, <1>11, <2>1 DEF Cycle
  <2>2. CASE \E r \in Requests : \/ \E kind \in {"approve", "reject", "end"} : Arrive(r, kind)
                                 \/ Handle(r)
    BY <1>1, <1>5, <1>12, <2>2 DEF Handle
  <2>3. CASE HandleCommand \/ ApiCrash \/ DaemonCrash
    BY <1>1, <1>6, <1>7, <1>8, <1>13, <2>3 DEF HandleCommand
  <2>4. CASE SweepOnce
    BY <1>1, <1>9, <1>10, <1>14, <2>4 DEF SweepOnce
  <2>5. CASE \E o \in Proposals : Lapse(o) \/ PositionCloses(o)
    BY <1>1, <1>15, <2>5
  <2> QED BY <1>16, <2>1, <2>2, <2>3, <2>4, <2>5 DEF Next

-----------------------------------------------------------------------------
(* The theorems. *)

FlowInv == TypeInv /\ (Calm => CalmInv)

\* The invariant of the theorems below.
LEMMA FlowInvariant ==
    ASSUME OneRequest
    PROVE  Spec => []FlowInv
<1>1. Init => FlowInv
  BY InitType, InitCalm DEF FlowInv
<1>2. FlowInv /\ [Next]_vars => FlowInv'
  <2> SUFFICES ASSUME FlowInv, [Next]_vars PROVE FlowInv'
    OBVIOUS
  <2>1. TypeInv'
    BY NextType DEF FlowInv
  <2>2. Calm' => Calm
    BY DEF Calm, Next, vars
  <2>3. Calm => CalmInv'
    BY <2>1, NextCalm DEF FlowInv, Quiet
  <2> QED BY <2>1, <2>2, <2>3 DEF FlowInv
<1> QED BY <1>1, <1>2, PTL DEF Spec

\* However many sessions, proposals and queued commands there are, and in whatever
\* order the worker, the handlers, the daemon's command handler, its sweep and the
\* meters make their calls: with no fault and one request at a time, a session
\* trades once, is closed when it has, and is never left paused for nothing.
THEOREM FlowTradesOnce ==
    ASSUME OneRequest
    PROVE  Spec => []SessionTradesOnce
<1>1. FlowInv => SessionTradesOnce
  <2> SUFFICES ASSUME FlowInv, Calm
               PROVE  OneTradePerSession /\ TradedNeverScans /\ ClosedWithTrade /\ NoDeadZone
    BY DEF SessionTradesOnce
  <2> USE DEF FlowInv, CalmInv
  <2>1. OneTradePerSession
    <3> SUFFICES ASSUME NEW s \in Sessions, NEW p \in BookedIn(s), NEW q \in BookedIn(s)
                 PROVE  p = q
      BY DEF OneTradePerSession
    <3>1. p <= q /\ q <= p
      BY DEF BookedIn, BookingsMatch, Newest
    <3> QED BY <3>1, FlowAssumption DEF BookedIn, Proposals
  <2>2. TradedNeverScans
    <3> SUFFICES ASSUME NEW s \in Sessions, session[s] = Scanning, Traded(s)
                 PROVE  FALSE
      BY DEF TradedNeverScans, BookedIn, Traded
    <3>1. \A r \in Requests : ~(request[r].s = s /\ Approved(r))
      BY DEF ApprovedIsBooked
    <3> QED BY <3>1 DEF TradedIsClosing, Live, Status, Scanning, Executing, Ended
  <2>3. ClosedWithTrade
    BY DEF ClosedWithTrade, ExecutingIsClosing, Traded, BookedIn
  <2> QED BY <2>1, <2>2, <2>3
<1> QED BY <1>1, FlowInvariant, PTL

\* ... and every booking is of a proposal that is still pending, for the session
\* that is paused on it; what is executed stays executed.
THEOREM FlowBooksRightfully ==
    ASSUME OneRequest
    PROVE  Spec => BookingsAreRightful
<1>1. FlowInv /\ FlowInv' /\ [Next]_vars =>
        /\ [\A p \in Proposals : Calm /\ proposal[p].status = "executed" =>
               proposal'[p].status = "executed"]_vars
        /\ [\A p \in Proposals : Calm /\ booked'[p] # booked[p] =>
               proposal[p].status = "proposed"]_vars
        /\ [\A p \in Proposals : Calm /\ booked'[p] # booked[p] =>
               session[proposal[p].session] = SetupProposed]_vars
  BY StepIsRightful DEF FlowInv, Quiet
<1> QED BY <1>1, FlowInvariant, PTL
     DEF Spec, BookingsAreRightful, ExecutedStays, BooksOnlyProposed, BooksForPausedSession
=============================================================================
