---------------------------- MODULE TenantRoutes ----------------------------
(***************************************************************************)
(* One tenant's account as the API's routes and the daemon share it: the   *)
(* settings row, the vault of exchange keys, the plan, the preferences,    *)
(* and the routes that open and close positions.  The API chooses the      *)
(* engine by the keys it finds; the daemon, which owns the paper engine,   *)
(* by the trading mode its cached session was built for.                   *)
(*                                                                         *)
(* A step is the code between two awaits (database calls run in threads).  *)
(* One instrument is traded; what the risk gate says is left open.  A plan *)
(* chosen in Init says which calls and faults a run may have.              *)
(***************************************************************************)
EXTENDS Integers, Sequences, FiniteSetsExt

CONSTANTS Calls,             \* bound: calls of the API in a run
          Exchanges, DefaultExchange,
          RoutePlans,
          PlanCap,           \* Plan.max_concurrent_positions, per tier
          HardCap, MaxAsk    \* HARD_CAPS; bound: the largest value asked for

\* The tiers are ordered, the free one grants the least.
ASSUME RoutesAssumption ==
    /\ DefaultExchange \in Exchanges /\ Exchanges \cap {"paper", "none"} = {}
    /\ "none" \notin Calls
    /\ PlanCap \in [DOMAIN PlanCap -> Nat \ {0}] /\ "free" \in DOMAIN PlanCap
    /\ \A t \in DOMAIN PlanCap : PlanCap["free"] <= PlanCap[t]
    /\ HardCap \in Nat \ {0} /\ MaxAsk \in Nat

VARIABLES rplan, tier,
          settingsRow,               \* the settings row exists
          mode, exchange,    \* its columns
          keys,              \* exchanges with credentials in the vault
          prefs,             \* max_concurrent_positions of the preferences
          call,              \* the API's calls
          commands, handler,     \* user_commands, and the daemon's handler of them
          replies,           \* cmd_reply:{correlation_id}
          session,           \* the daemon's cached UserSession
          fan,               \* the engine the fan-out is booking in
          scanning,          \* this user has a live scan session
          held,              \* engines with an open position
          openedBy             \* how often a call opened one

rvars == <<rplan, tier, settingsRow, mode, exchange, keys, prefs, call, commands, handler, replies, session, fan,
           scanning, held, openedBy>>
accountVars == <<tier, settingsRow, mode, exchange, keys, prefs>>
daemonVars == <<handler, session, fan, scanning>>

May(kind) == kind \in rplan
Modes == {"off", "paper", "manual", "auto"}
Keep == "keep"                       \* a column the request leaves out
Engines == Exchanges \union {"paper"}
AllowLive == [t \in DOMAIN PlanCap |-> t # "free"]
NoSession == [mode |-> "none", engine |-> "none"]
IdleHandler == [call |-> "none", engine |-> "none"]
IdleCall == [kind |-> "none", at |-> "idle", mode |-> Keep, exchange |-> Keep, fresh |-> FALSE,
             engine |-> "none"]

RoutesInit ==
    /\ rplan \in RoutePlans /\ tier \in DOMAIN PlanCap
    /\ settingsRow = FALSE /\ mode = "paper" /\ exchange = DefaultExchange
    /\ keys \in {{}, {DefaultExchange}} /\ prefs = 1
    /\ call = [c \in Calls |-> IdleCall]
    /\ commands = <<>> /\ handler = IdleHandler /\ replies = [c \in Calls |-> "none"]
    /\ session = NoSession /\ fan = "none" /\ scanning = FALSE
    /\ held = {} /\ openedBy = [c \in Calls |-> 0]

Begin(c, record) ==
    /\ call[c].at = "idle" /\ May(record.kind)
    /\ call' = [call EXCEPT ![c] = record]
Goes(c, at) == call' = [call EXCEPT ![c].at = at]
Final == {"idle", "done", "refused", "booked", "sent", "missing", "late", "failed", "lost"}

----------------------------------------------------------------------------
(* Settings, keys and preferences.                                         *)

AskSettings(c, m, e) ==
    /\ <<m, e>> # <<Keep, Keep>>
    /\ Begin(c, [IdleCall EXCEPT !.kind = "settings", !.mode = m, !.exchange = e,
                                 !.at = IF m = "auto" THEN "permit" ELSE "load"])
    /\ UNCHANGED <<rplan, accountVars, commands, daemonVars, replies, held, openedBy>>

\* `auto' needs a plan that allows it; a plan that cannot be resolved refuses.
Permit(c) ==
    /\ call[c].at = "permit"
    /\ \/ AllowLive[tier] /\ Goes(c, "load")
       \/ (~AllowLive[tier] \/ May("billing_down")) /\ Goes(c, "refused")
    /\ UNCHANGED <<rplan, accountVars, commands, daemonVars, replies, held, openedBy>>

\* The row is read; a column asked to be what it is, is not written.
LoadRow(c) ==
    /\ call[c].at = "load"
    /\ call' = [call EXCEPT ![c].at = "commit", ![c].fresh = ~settingsRow,
                            ![c].mode = IF @ = mode THEN Keep ELSE @,
                            ![c].exchange = IF @ = exchange THEN Keep ELSE @]
    /\ UNCHANGED <<rplan, accountVars, commands, daemonVars, replies, held, openedBy>>

\* Mutant: the column the request left out is written as the default.
CommitDefaults(c) ==
    /\ call[c].at = "commit"
    /\ settingsRow' = TRUE
    /\ mode' = IF call[c].mode = Keep THEN "paper" ELSE call[c].mode
    /\ exchange' = IF call[c].exchange = Keep THEN DefaultExchange ELSE call[c].exchange
    /\ Goes(c, "done")
    /\ UNCHANGED <<rplan, tier, keys, prefs, commands, daemonVars, replies, held, openedBy>>

\* Only the changed columns are written.  Of two first requests the second
\* fails to insert its row.
CommitRow(c) ==
    /\ call[c].at = "commit"
    /\ \/ /\ ~(call[c].fresh /\ settingsRow)
          /\ settingsRow' = TRUE
          /\ mode' = IF call[c].mode = Keep THEN mode ELSE call[c].mode
          /\ exchange' = IF call[c].exchange = Keep THEN exchange ELSE call[c].exchange
          /\ Goes(c, "done")
       \/ /\ call[c].fresh /\ settingsRow
          /\ Goes(c, "failed")
          /\ UNCHANGED <<settingsRow, mode, exchange>>
    /\ UNCHANGED <<rplan, tier, keys, prefs, commands, daemonVars, replies, held, openedBy>>

\* The exchange is asked first; testnet keys only, whatever the plan.
SaveKeys(c, e) ==
    /\ Begin(c, [IdleCall EXCEPT !.kind = "keys", !.exchange = e, !.at = "verify"])
    /\ UNCHANGED <<rplan, accountVars, commands, daemonVars, replies, held, openedBy>>

KeysVerified(c) ==
    /\ call[c].at = "verify"
    /\ \/ keys' = keys \union {call[c].exchange} /\ Goes(c, "done")
       \/ keys' = keys /\ Goes(c, "refused")
    /\ UNCHANGED <<rplan, tier, settingsRow, mode, exchange, prefs, commands, daemonVars, replies, held, openedBy>>

DeleteKeys(c, e) ==
    /\ Begin(c, [IdleCall EXCEPT !.kind = "keys", !.exchange = e, !.at = "done"])
    /\ keys' = keys \ {e}
    /\ UNCHANGED <<rplan, tier, settingsRow, mode, exchange, prefs, commands, daemonVars, replies, held, openedBy>>

\* Clamped to the tighter of the hard cap and the plan's, the free plan's when
\* the plan cannot be resolved.
Ceiling == {Min({HardCap, PlanCap[tier]})}
           \union IF May("billing_down") THEN {Min({HardCap, PlanCap["free"]})} ELSE {}

SetPreferences(c, v) ==
    /\ Begin(c, [IdleCall EXCEPT !.kind = "prefs", !.at = "done"])
    /\ \E ceiling \in Ceiling : prefs' = Min({v, ceiling})
    /\ UNCHANGED <<rplan, tier, settingsRow, mode, exchange, keys, commands, daemonVars, replies, held, openedBy>>

----------------------------------------------------------------------------
(* Opening and closing through the API.                                    *)

\* A settings store that cannot be read says paper.
ModeRead == {mode} \union IF May("flaky") THEN {"paper"} ELSE {}

ExecuteSetup(c) ==
    /\ \E m \in ModeRead :
          Begin(c, [IdleCall EXCEPT !.kind = "execute", !.at = IF m = "off" THEN "refused" ELSE "build"])
    /\ UNCHANGED <<rplan, accountVars, commands, daemonVars, replies, held, openedBy>>

CloseRequest(c) ==
    /\ Begin(c, [IdleCall EXCEPT !.kind = "close", !.at = "build"])
    /\ UNCHANGED <<rplan, accountVars, commands, daemonVars, replies, held, openedBy>>

\* The keys of the active exchange, if there are any, make it a live engine.
BuildUserEngine(c) ==
    /\ call[c].at = "build"
    /\ call' = [call EXCEPT ![c].engine = IF exchange \in keys THEN exchange ELSE "paper",
                            ![c].at = IF exchange \in keys THEN "live" ELSE "dispatch"]
    /\ UNCHANGED <<rplan, accountVars, commands, daemonVars, replies, held, openedBy>>

\* Booked by a session built for this request, or refused by its risk gate.
ExecuteLive(c) ==
    /\ call[c].at = "live" /\ call[c].kind = "execute"
    /\ \/ /\ held' = held \union {call[c].engine} /\ openedBy' = [openedBy EXCEPT ![c] = @ + 1]
          /\ Goes(c, "booked")
       \/ Goes(c, "refused") /\ UNCHANGED <<held, openedBy>>
    /\ UNCHANGED <<rplan, accountVars, commands, daemonVars, replies>>

\* Closed at the exchange, or 404: the daemon's desk is not looked at.
CloseLive(c) ==
    /\ call[c].at = "live" /\ call[c].kind = "close"
    /\ call' = [call EXCEPT ![c].at = IF call[c].engine \in held THEN "done" ELSE "missing"]
    /\ held' = held \ {call[c].engine}
    /\ UNCHANGED <<rplan, accountVars, commands, daemonVars, replies, openedBy>>

\* A close is not waited for; an approval goes straight to the daemon.
Dispatch(c) ==
    /\ call[c].at = "dispatch"
    /\ commands' = Append(commands, c)
    /\ Goes(c, IF call[c].kind = "close" THEN "sent" ELSE "polling")
    /\ UNCHANGED <<rplan, accountVars, daemonVars, replies, held, openedBy>>

Approve(c) ==
    /\ Begin(c, [IdleCall EXCEPT !.kind = "approve", !.at = "dispatch"])
    /\ UNCHANGED <<rplan, accountVars, commands, daemonVars, replies, held, openedBy>>

\* Mutant: the tenant's newest reply is taken.
PollAny(c) ==
    /\ call[c].at = "polling"
    /\ \E d \in Calls : replies[d] # "none" /\ Goes(c, replies[d])
    /\ UNCHANGED <<rplan, accountVars, commands, daemonVars, replies, held, openedBy>>

\* The reply is looked up by the command's own id.
Poll(c) ==
    /\ call[c].at = "polling" /\ replies[c] # "none"
    /\ Goes(c, replies[c])
    /\ UNCHANGED <<rplan, accountVars, commands, daemonVars, replies, held, openedBy>>

\* Twelve seconds are over: "the daemon didn't answer in time".
GiveUp(c) ==
    /\ call[c].at = "polling" /\ replies[c] = "none" /\ May("slow")
    /\ Goes(c, "late")
    /\ UNCHANGED <<rplan, accountVars, commands, daemonVars, replies, held, openedBy>>

----------------------------------------------------------------------------
(* The daemon.                                                             *)

\* A live engine needs keys of the active exchange; without, the paper engine.
BuildLiveEngine == IF exchange \in keys THEN exchange ELSE "paper"

\* The session is kept while the mode is the one it was built for, whatever has
\* become of the keys and the active exchange.
SessionFor(m) ==
    IF session.mode = m THEN session
    ELSE [mode |-> m, engine |-> IF m = "auto" THEN BuildLiveEngine ELSE "paper"]

\* One command at a time, in order.
TakeCommand ==
    /\ handler = IdleHandler /\ commands # <<>>
    /\ commands' = Tail(commands)
    /\ \E m \in ModeRead : session' = SessionFor(m)
    /\ handler' = [call |-> Head(commands), engine |-> session'.engine]
    /\ UNCHANGED <<rplan, accountVars, call, replies, fan, scanning, held, openedBy>>

\* An entry beside an open paper position in the same direction is refused.
Accepts(e) == e # "paper" \/ e \notin held

Reply(c, outcome) == replies' = [replies EXCEPT ![c] = outcome]

HandleBooking ==
    /\ handler.call # "none"
    /\ LET c == handler.call
       IN  /\ call[c].kind # "close"
           /\ \/ /\ Accepts(handler.engine)
                 /\ held' = held \union {handler.engine} /\ openedBy' = [openedBy EXCEPT ![c] = @ + 1]
                 /\ Reply(c, "booked")
              \/ /\ Reply(c, "refused")
                 /\ UNCHANGED <<held, openedBy>>
    /\ handler' = IdleHandler
    /\ UNCHANGED <<rplan, accountVars, call, commands, session, fan, scanning>>

HandleClose ==
    /\ handler.call # "none" /\ call[handler.call].kind = "close"
    /\ held' = held \ {handler.engine}
    /\ handler' = IdleHandler
    /\ UNCHANGED <<rplan, accountVars, call, commands, replies, session, fan, scanning, openedBy>>

\* A setup of the shared analysis: off and manual users are passed over, paper
\* users too unless they are scanning themselves.
FanOut ==
    /\ May("fan") /\ fan = "none"
    /\ \E m \in ModeRead :
          /\ m \notin {"off", "manual"} /\ (m = "paper" => scanning)
          /\ session' = SessionFor(m)
    /\ fan' = session'.engine
    /\ UNCHANGED <<rplan, accountVars, call, commands, handler, replies, scanning, held, openedBy>>

FanOutBooks ==
    /\ fan # "none" /\ fan' = "none"
    /\ held' \in {held} \union IF Accepts(fan) THEN {held \union {fan}} ELSE {}
    /\ UNCHANGED <<rplan, accountVars, call, commands, handler, replies, session, scanning, openedBy>>

ScanStartsOrEnds ==
    /\ May("fan") /\ scanning' = ~scanning
    /\ UNCHANGED <<rplan, accountVars, call, commands, handler, replies, session, fan, held, openedBy>>

\* Both processes start again; plans are read from the environment, which may
\* have changed.  What is in memory or on the bus is lost.
Redeploy ==
    /\ May("redeploy")
    /\ tier' \in DOMAIN PlanCap
    /\ call' = [c \in Calls |-> IF call[c].at \in Final THEN call[c] ELSE [call[c] EXCEPT !.at = "lost"]]
    /\ commands' = <<>> /\ handler' = IdleHandler /\ session' = NoSession /\ fan' = "none"
    /\ UNCHANGED <<rplan, settingsRow, mode, exchange, keys, prefs, replies, scanning, held, openedBy>>

----------------------------------------------------------------------------

CallBegins(c) ==
    \/ \E m \in Modes \union {Keep}, e \in Exchanges \union {Keep} : AskSettings(c, m, e)
    \/ \E e \in Exchanges : SaveKeys(c, e) \/ DeleteKeys(c, e)
    \/ \E v \in 1..MaxAsk : SetPreferences(c, v)
    \/ ExecuteSetup(c) \/ CloseRequest(c) \/ Approve(c)

CallGoesOn(c) ==
    \/ Permit(c) \/ LoadRow(c) \/ CommitRow(c) \/ KeysVerified(c) \/ BuildUserEngine(c)
    \/ ExecuteLive(c) \/ CloseLive(c) \/ Dispatch(c) \/ Poll(c)

RoutesNext ==
    \/ \E c \in Calls : CallBegins(c) \/ CallGoesOn(c) \/ GiveUp(c)
    \/ TakeCommand \/ HandleBooking \/ HandleClose
    \/ FanOut \/ FanOutBooks \/ ScanStartsOrEnds \/ Redeploy

RoutesSpec == RoutesInit /\ [][RoutesNext]_rvars

\* Awaited calls return, the daemon serves its channel.
RoutesFairness ==
    /\ \A c \in Calls : WF_rvars(CallGoesOn(c))
    /\ WF_rvars(TakeCommand) /\ WF_rvars(HandleBooking) /\ WF_rvars(HandleClose)
    /\ WF_rvars(FanOutBooks)

RoutesFairSpec == RoutesSpec /\ RoutesFairness

----------------------------------------------------------------------------
(* Properties.                                                             *)

\* Type invariant.
RoutesTypeOK ==
    /\ mode \in Modes /\ exchange \in Exchanges /\ keys \subseteq Exchanges
    /\ prefs \in 1..HardCap /\ held \subseteq Engines
    /\ session.engine \in Engines \union {"none"} /\ fan \in Engines \union {"none"}
    /\ \A c \in Calls : openedBy[c] \in 0..1
    /\ settingsRow \/ (mode = "paper" /\ exchange = DefaultExchange)

\* What a caller is told happened to its own order: "booked" if and only if it
\* was, "refused" only if it was not, with several callers waiting at once.
ToldWhatHappened ==
    \A c \in Calls : call[c].kind \in {"execute", "approve"} =>
        /\ call[c].at = "booked" => openedBy[c] = 1
        /\ call[c].at = "refused" => openedBy[c] = 0

\* "Any free-tier user could set themselves to auto and have the daemon place
\* orders on connected keys": not while its tier stays what it is, even when the
\* plan cannot be resolved.
DaemonLiveIsPaidFor ==
    ~May("redeploy") /\ session.engine \in Exchanges => AllowLive[tier]

\* "A preference can never exceed" the plan's ceiling, while the tier stays.
PreferenceWithinPlan == ~May("redeploy") => prefs <= PlanCap[tier]

\* Requests on different columns do not undo each other: a column changes only
\* to what a request being committed asked for.
ColumnsAreAskedFor ==
    [][/\ mode' # mode => \E c \in Calls : call[c].at = "commit" /\ call[c].mode = mode'
       /\ exchange' # exchange =>
              \E c \in Calls : call[c].at = "commit" /\ call[c].exchange = exchange']_rvars

\* Every call gets an answer.
CallsAreAnswered == \A c \in Calls : (call[c].at \notin Final) ~> (call[c].at \in Final)

\* A tenant's settings (user_settings.py, preferences.py) stay within the plan
\* that was paid for, and as they were asked for.
SettingsAreKept ==
    /\ [](DaemonLiveIsPaidFor /\ PreferenceWithinPlan)
    /\ ColumnsAreAskedFor

=============================================================================
