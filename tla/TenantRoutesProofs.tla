------------------------- MODULE TenantRoutesProofs -------------------------
(***************************************************************************)
(* Theorems about TenantRoutes, for any number of concurrent calls of the  *)
(* API, any exchanges, any plans whose free tier grants the least, and     *)
(* whichever faults happen together: a caller is told what happened to its *)
(* own order; the daemon holds live keys only for a plan that allows them; *)
(* preferences stay within the plan; settings change as they were asked.   *)
(* About ScanWorkers, for any number of sessions, any cost cap and any     *)
(* request cap: the books of a scan.  And about MarketFeed, the feed those *)
(* scans read, for any buffer, linger and refill limits: its candles are   *)
(* in order, its live socket streams what was subscribed, and a scan's     *)
(* buffer is recent.                                                       *)
(***************************************************************************)
EXTENDS TenantRoutes, ScanWorkers, MarketFeed, SumTheorems, SequenceTheorems,
        FiniteSetTheorems, TLAPS

Kinds == {"none", "settings", "keys", "prefs", "execute", "close", "approve"}

\* Where a call may be before its order is in anybody's hands, and all the rest.
Starting == {"idle", "permit", "load", "commit", "verify", "build", "live", "dispatch"}
Stops == Starting \cup {"polling", "done", "refused", "booked", "sent", "missing",
                        "late", "failed", "lost"}

CallRecords ==
    [kind : Kinds, at : Stops, mode : Modes \cup {Keep}, exchange : Exchanges \cup {Keep},
     fresh : BOOLEAN, engine : Engines \cup {"none"}]

RouteTypes ==
    /\ tier \in DOMAIN PlanCap /\ settingsRow \in BOOLEAN
    /\ call \in [Calls -> CallRecords]
    /\ commands \in Seq(Calls)
    /\ handler \in [call : Calls \cup {"none"}, engine : Engines \cup {"none"}]
    /\ session \in [mode : Modes \cup {"none"}, engine : Engines \cup {"none"}]
    /\ replies \in [Calls -> {"none", "booked", "refused"}]
    /\ openedBy \in [Calls -> Nat]

\* What a step of a call needs to know of its record.
Located ==
    /\ \A c \in Calls :
          /\ call[c].at = "live" => call[c].engine \in Exchanges
          /\ call[c].at = "verify" => call[c].exchange \in Exchanges
    /\ handler = IdleHandler \/ (handler.call \in Calls /\ handler.engine \in Engines)
    /\ session = NoSession \/ (session.mode \in Modes /\ session.engine \in Engines)

\* A command is in the channel or with the handler, once.
Waits(c) == handler.call = c \/ \E i \in 1..Len(commands) : commands[i] = c

OneCopy ==
    /\ \A i, j \in 1..Len(commands) : commands[i] = commands[j] => i = j
    /\ \A i \in 1..Len(commands) : commands[i] # handler.call

\* The order of a call, its reply and what the call has become agree: as long as
\* the command waits nothing is booked, and what is booked has been answered for.
OrderOf(c) ==
    /\ Waits(c) => /\ call[c].at \in {"polling", "late", "sent"}
                   /\ replies[c] = "none" /\ openedBy[c] = 0
    /\ call[c].at \in Starting => replies[c] = "none" /\ openedBy[c] = 0
    /\ replies[c] = "booked" \/ call[c].at = "booked" => openedBy[c] = 1
    /\ replies[c] = "refused" \/ call[c].at = "refused" => openedBy[c] = 0
    /\ openedBy[c] <= 1

\* `auto' gets into the row, a call past its permit and the daemon's session only
\* by a plan that allows it, as long as that plan stays.
AutoIsPaidFor ==
    ~May("redeploy") =>
        /\ mode = "auto" => AllowLive[tier]
        /\ session.mode = "auto" => AllowLive[tier]
        /\ \A c \in Calls :
              call[c].at \in {"load", "commit"} /\ call[c].mode = "auto" => AllowLive[tier]

LiveIsAuto == session.engine \in Exchanges => session.mode = "auto"

\* What the calls and the commands are in.
CallsInv ==
    /\ RouteTypes /\ Located /\ OneCopy
    /\ \A c \in Calls : OrderOf(c)
    /\ AutoIsPaidFor /\ LiveIsAuto

\* The inductive invariant.
RoutesInv == CallsInv /\ RoutesTypeOK /\ PreferenceWithinPlan

\* The smaller of two numbers.
LEMMA MinOfTwo ==
    ASSUME NEW a \in Int, NEW b \in Int
    PROVE  Min({a, b}) = IF a <= b THEN a ELSE b
BY DEF Min

LEMMA RoutesInitially == RoutesInit => RoutesInv
<1> SUFFICES ASSUME RoutesInit PROVE RoutesInv
  OBVIOUS
<1> USE RoutesAssumption DEF RoutesInit
<1>0. IdleCall \in CallRecords
  BY DEF IdleCall, CallRecords, Kinds, Stops, Starting, Modes, Keep
<1>1. RouteTypes
  <2>1. call \in [Calls -> CallRecords]
    BY <1>0
  <2>2. /\ handler \in [call : Calls \cup {"none"}, engine : Engines \cup {"none"}]
        /\ session \in [mode : Modes \cup {"none"}, engine : Engines \cup {"none"}]
    BY DEF IdleHandler, NoSession
  <2>3. commands \in Seq(Calls)
    BY DEF RoutesInit
  <2>4. replies \in [Calls -> {"none", "booked", "refused"}] /\ openedBy \in [Calls -> Nat]
    OBVIOUS
  <2> QED BY <2>1, <2>2, <2>3, <2>4 DEF RouteTypes
<1>2. Located /\ OneCopy /\ AutoIsPaidFor /\ LiveIsAuto
  BY DEF Located, OneCopy, AutoIsPaidFor, LiveIsAuto, IdleCall, NoSession, IdleHandler
<1>3. ASSUME NEW c \in Calls PROVE OrderOf(c)
  BY DEF OrderOf, Waits, IdleHandler, IdleCall, Starting
<1>4. RoutesTypeOK
  BY DEF RoutesTypeOK, Modes, NoSession, Engines
<1>5. PreferenceWithinPlan
  BY DEF PreferenceWithinPlan
<1> QED BY <1>1, <1>2, <1>3, <1>4, <1>5 DEF RoutesInv, CallsInv

----------------------------------------------------------------------------
(* Steps of one call.                                                      *)

\* A call that moves while its order is in nobody's hands, or learns its outcome.
LEMMA CallMoves ==
    ASSUME CallsInv, NEW c \in Calls, NEW r \in CallRecords,
           call' = [call EXCEPT ![c] = r],
           UNCHANGED <<rplan, tier, commands, handler, session, replies, openedBy>>,
           settingsRow' \in BOOLEAN,
           ~May("redeploy") /\ mode' = "auto" => AllowLive[tier],
           ~May("redeploy") /\ r.at \in {"load", "commit"} /\ r.mode = "auto" =>
               AllowLive[tier],
           r.at = "live" => r.engine \in Exchanges,
           r.at = "verify" => r.exchange \in Exchanges,
           Waits(c) => r.at \in {"polling", "late", "sent"},
           r.at \in Starting => call[c].at \in Starting,
           r.at = "booked" => openedBy[c] = 1,
           r.at = "refused" => openedBy[c] = 0
    PROVE  CallsInv'
<1>0. /\ RouteTypes /\ Located /\ OneCopy /\ AutoIsPaidFor /\ LiveIsAuto
      /\ \A d \in Calls : OrderOf(d)
  BY DEF CallsInv
<1>1. /\ call'[c] = r
      /\ \A d \in Calls : d # c => call'[d] = call[d]
  BY <1>0 DEF RouteTypes
<1>2. RouteTypes'
  BY <1>0 DEF RouteTypes
<1>3. Located'
  BY <1>0, <1>1 DEF Located
<1>4. OneCopy' /\ LiveIsAuto'
  BY <1>0 DEF OneCopy, LiveIsAuto
<1>5. AutoIsPaidFor'
  BY <1>0, <1>1 DEF AutoIsPaidFor, May
<1>6. ASSUME NEW d \in Calls PROVE OrderOf(d)'
  <2>1. CASE d = c
    BY <1>0, <1>1, <2>1 DEF OrderOf, Waits
  <2>2. CASE d # c
    BY <1>0, <1>1, <2>2 DEF OrderOf, Waits
  <2> QED BY <2>1, <2>2
<1> QED BY <1>2, <1>3, <1>4, <1>5, <1>6 DEF CallsInv

\* A record at another place.
LEMMA RecordGoes ==
    ASSUME CallsInv, NEW c \in Calls, NEW at \in Stops
    PROVE  /\ [call[c] EXCEPT !.at = at] \in CallRecords
           /\ [call[c] EXCEPT !.at = at].at = at
           /\ [call[c] EXCEPT !.at = at].mode = call[c].mode
           /\ [call[c] EXCEPT !.at = at].exchange = call[c].exchange
           /\ [call[c] EXCEPT !.at = at].engine = call[c].engine
BY DEF CallsInv, RouteTypes, CallRecords

\* A call that has begun and is not yet with the daemon goes on to some place but
\* "live" and "verify", or its order's outcome is reported.
LEMMA GoesOn ==
    ASSUME CallsInv, NEW c \in Calls, NEW at \in Stops, Goes(c, at),
           UNCHANGED <<rplan, tier, commands, handler, session, replies, openedBy>>,
           settingsRow' \in BOOLEAN,
           ~May("redeploy") /\ mode' = "auto" => AllowLive[tier],
           ~May("redeploy") /\ at \in {"load", "commit"} /\ call[c].mode = "auto" =>
               AllowLive[tier],
           at \notin {"live", "verify"},
           Waits(c) => at \in {"polling", "late", "sent"},
           at \in Starting => call[c].at \in Starting,
           at = "booked" => openedBy[c] = 1,
           at = "refused" => openedBy[c] = 0
    PROVE  CallsInv'
<1> DEFINE r == [call[c] EXCEPT !.at = at]
<1>1. call' = [call EXCEPT ![c] = r]
  BY DEF Goes
<1>2. r \in CallRecords /\ r.at = at /\ r.mode = call[c].mode
  BY RecordGoes
<1> HIDE DEF r
<1> QED BY <1>1, <1>2, CallMoves

\* A call begins.
LEMMA CallStarts ==
    ASSUME CallsInv, NEW c \in Calls, NEW r \in CallRecords, Begin(c, r),
           UNCHANGED <<rplan, tier, mode, settingsRow, commands, handler, session, replies,
                       openedBy>>,
           r.at \in {"permit", "load", "verify", "build", "dispatch", "refused", "done"},
           r.at = "load" => r.mode # "auto",
           r.at = "verify" => r.exchange \in Exchanges
    PROVE  CallsInv'
<1>1. /\ call' = [call EXCEPT ![c] = r] /\ call[c].at = "idle"
      /\ OrderOf(c) /\ settingsRow \in BOOLEAN /\ AutoIsPaidFor
  BY DEF Begin, CallsInv, RouteTypes
<1>2. ~Waits(c) /\ openedBy[c] = 0 /\ call[c].at \in Starting
  BY <1>1 DEF OrderOf, Starting
<1>3. ~May("redeploy") /\ mode' = "auto" => AllowLive[tier]
  BY <1>1 DEF AutoIsPaidFor
<1> QED BY <1>1, <1>2, <1>3, CallMoves

\* A settings request: `auto' asks for a permit first.
LEMMA AskSettingsKeeps ==
    ASSUME RoutesInv, NEW c \in Calls,
           NEW m \in Modes \cup {Keep}, NEW e \in Exchanges \cup {Keep}, AskSettings(c, m, e)
    PROVE  RoutesInv'
<1> USE DEF AskSettings, accountVars, daemonVars
<1>1. CallsInv'
  <2> DEFINE r == [IdleCall EXCEPT !.kind = "settings", !.mode = m, !.exchange = e,
                                !.at = IF m = "auto" THEN "permit" ELSE "load"]
  <2>1. r \in CallRecords
    BY DEF CallRecords, IdleCall, Kinds, Stops, Starting, Keep
  <2> QED BY <2>1, CallStarts DEF RoutesInv, IdleCall, Keep
<1>2. RoutesTypeOK' /\ PreferenceWithinPlan'
  BY DEF RoutesInv, RoutesTypeOK, PreferenceWithinPlan, May
<1> QED BY <1>1, <1>2 DEF RoutesInv

\* Keys to be verified.
LEMMA SaveKeysKeeps ==
    ASSUME RoutesInv, NEW c \in Calls, NEW e \in Exchanges, SaveKeys(c, e)
    PROVE  RoutesInv'
<1> USE DEF SaveKeys, accountVars, daemonVars
<1>1. CallsInv'
  <2> DEFINE r == [IdleCall EXCEPT !.kind = "keys", !.exchange = e, !.at = "verify"]
  <2>1. r \in CallRecords
    BY DEF CallRecords, IdleCall, Kinds, Stops, Starting, Keep
  <2> QED BY <2>1, CallStarts DEF RoutesInv, IdleCall, Keep
<1>2. RoutesTypeOK' /\ PreferenceWithinPlan'
  BY DEF RoutesInv, RoutesTypeOK, PreferenceWithinPlan, May
<1> QED BY <1>1, <1>2 DEF RoutesInv

\* Keys removed.
LEMMA DeleteKeysKeeps ==
    ASSUME RoutesInv, NEW c \in Calls, NEW e \in Exchanges, DeleteKeys(c, e)
    PROVE  RoutesInv'
<1> USE DEF DeleteKeys, accountVars, daemonVars
<1>1. CallsInv'
  <2> DEFINE r == [IdleCall EXCEPT !.kind = "keys", !.exchange = e, !.at = "done"]
  <2>1. r \in CallRecords
    BY DEF CallRecords, IdleCall, Kinds, Stops, Starting, Keep
  <2> QED BY <2>1, CallStarts DEF RoutesInv, IdleCall, Keep
<1>2. RoutesTypeOK' /\ PreferenceWithinPlan'
  BY DEF RoutesInv, RoutesTypeOK, PreferenceWithinPlan, May
<1> QED BY <1>1, <1>2 DEF RoutesInv

\* A close.
LEMMA CloseRequestKeeps ==
    ASSUME RoutesInv, NEW c \in Calls, CloseRequest(c)
    PROVE  RoutesInv'
<1> USE DEF CloseRequest, accountVars, daemonVars
<1>1. CallsInv'
  <2> DEFINE r == [IdleCall EXCEPT !.kind = "close", !.at = "build"]
  <2>1. r \in CallRecords
    BY DEF CallRecords, IdleCall, Kinds, Stops, Starting, Keep
  <2> QED BY <2>1, CallStarts DEF RoutesInv, IdleCall, Keep
<1>2. RoutesTypeOK' /\ PreferenceWithinPlan'
  BY DEF RoutesInv, RoutesTypeOK, PreferenceWithinPlan, May
<1> QED BY <1>1, <1>2 DEF RoutesInv

\* An approval.
LEMMA ApproveKeeps ==
    ASSUME RoutesInv, NEW c \in Calls, Approve(c)
    PROVE  RoutesInv'
<1> USE DEF Approve, accountVars, daemonVars
<1>1. CallsInv'
  <2> DEFINE r == [IdleCall EXCEPT !.kind = "approve", !.at = "dispatch"]
  <2>1. r \in CallRecords
    BY DEF CallRecords, IdleCall, Kinds, Stops, Starting, Keep
  <2> QED BY <2>1, CallStarts DEF RoutesInv, IdleCall, Keep
<1>2. RoutesTypeOK' /\ PreferenceWithinPlan'
  BY DEF RoutesInv, RoutesTypeOK, PreferenceWithinPlan, May
<1> QED BY <1>1, <1>2 DEF RoutesInv

\* An execution, refused at once when trading is off.
LEMMA ExecuteSetupKeeps ==
    ASSUME RoutesInv, NEW c \in Calls, ExecuteSetup(c)
    PROVE  RoutesInv'
<1> USE DEF ExecuteSetup, accountVars, daemonVars
<1>1. CallsInv'
  <2>1. PICK at \in {"refused", "build"} : Begin(c, [IdleCall EXCEPT !.kind = "execute", !.at = at])
    OBVIOUS
  <2> DEFINE r == [IdleCall EXCEPT !.kind = "execute", !.at = at]
  <2>2. r \in CallRecords /\ r.at = at
    BY DEF CallRecords, IdleCall, Kinds, Stops, Starting, Keep
  <2> HIDE DEF r
  <2> QED BY <2>1, <2>2, CallStarts DEF RoutesInv, r
<1>2. RoutesTypeOK' /\ PreferenceWithinPlan'
  BY DEF RoutesInv, RoutesTypeOK, PreferenceWithinPlan, May
<1> QED BY <1>1, <1>2 DEF RoutesInv

\* Preferences are clamped to the plan's ceiling, or the free plan's below it.
LEMMA SetPreferencesKeeps ==
    ASSUME RoutesInv, NEW c \in Calls, NEW v \in 1..MaxAsk, SetPreferences(c, v)
    PROVE  RoutesInv'
<1> USE DEF SetPreferences, accountVars, daemonVars
<1>1. CallsInv'
  <2> DEFINE r == [IdleCall EXCEPT !.kind = "prefs", !.at = "done"]
  <2>1. r \in CallRecords
    BY DEF CallRecords, IdleCall, Kinds, Stops, Starting, Keep
  <2> QED BY <2>1, CallStarts DEF RoutesInv, IdleCall, Keep
<1>2. PICK ceiling \in Ceiling : prefs' = Min({v, ceiling})
  OBVIOUS
<1>3. tier \in DOMAIN PlanCap /\ PlanCap[tier] \in Nat \ {0} /\ PlanCap["free"] \in Nat \ {0}
      /\ PlanCap["free"] <= PlanCap[tier] /\ HardCap \in Nat \ {0}
  BY RoutesAssumption DEF RoutesInv, CallsInv, RouteTypes
<1>4. ceiling \in Nat \ {0} /\ ceiling <= HardCap /\ ceiling <= PlanCap[tier]
  <2>1. ASSUME NEW cap \in Nat \ {0}, cap <= PlanCap[tier], ceiling = Min({HardCap, cap})
        PROVE  ceiling \in Nat \ {0} /\ ceiling <= HardCap /\ ceiling <= PlanCap[tier]
    <3>1. Min({HardCap, cap}) = IF HardCap <= cap THEN HardCap ELSE cap
      BY <1>3, MinOfTwo
    <3> QED BY <1>3, <2>1, <3>1
  <2>2. \/ ceiling = Min({HardCap, PlanCap[tier]})
        \/ ceiling = Min({HardCap, PlanCap["free"]})
    BY <1>2 DEF Ceiling
  <2> QED BY <1>3, <2>1, <2>2
<1>5. v \in Nat \ {0}
  BY RoutesAssumption
<1>6. prefs' \in Nat \ {0} /\ prefs' <= ceiling
  BY <1>2, <1>4, <1>5, MinOfTwo
<1>7. prefs' \in 1..HardCap /\ prefs' <= PlanCap[tier]
  BY <1>3, <1>4, <1>6
<1>8. RoutesTypeOK' /\ PreferenceWithinPlan'
  BY <1>7 DEF RoutesInv, RoutesTypeOK, PreferenceWithinPlan, May
<1> QED BY <1>1, <1>8 DEF RoutesInv

\* What a call in hand can rely on.
LEMMA InHand ==
    ASSUME CallsInv, NEW c \in Calls
    PROVE  /\ call[c] \in CallRecords /\ OrderOf(c)
           /\ AutoIsPaidFor /\ Located /\ settingsRow \in BOOLEAN
           /\ call[c].at \in Starting => ~Waits(c) /\ openedBy[c] = 0 /\ replies[c] = "none"
BY DEF CallsInv, RouteTypes, OrderOf, Starting

\* Only a plan that allows it lets `auto' pass.
LEMMA PermitKeeps ==
    ASSUME RoutesInv, NEW c \in Calls, Permit(c)
    PROVE  RoutesInv'
<1> USE DEF Permit, accountVars, daemonVars
<1>0. CallsInv
  BY DEF RoutesInv
<1>1. CallsInv'
  <2>1. ~May("redeploy") /\ mode' = "auto" => AllowLive[tier]
    BY <1>0, InHand DEF AutoIsPaidFor
  <2>2. CASE AllowLive[tier] /\ Goes(c, "load")
    BY <1>0, <2>1, <2>2, InHand, GoesOn DEF Stops, Starting
  <2>3. CASE Goes(c, "refused")
    BY <1>0, <2>1, <2>3, InHand, GoesOn DEF Stops, Starting
  <2> QED BY <2>2, <2>3
<1>2. RoutesTypeOK' /\ PreferenceWithinPlan'
  BY DEF RoutesInv, RoutesTypeOK, PreferenceWithinPlan, May
<1> QED BY <1>1, <1>2 DEF RoutesInv

\* The row is read: what is asked for is already there, or to be written.
LEMMA LoadRowKeeps ==
    ASSUME RoutesInv, NEW c \in Calls, LoadRow(c)
    PROVE  RoutesInv'
<1> USE DEF LoadRow, accountVars, daemonVars
<1>0. CallsInv
  BY DEF RoutesInv
<1>1. CallsInv'
  <2> DEFINE m == IF call[c].mode = mode THEN Keep ELSE call[c].mode
             e == IF call[c].exchange = exchange THEN Keep ELSE call[c].exchange
             r == [call[c] EXCEPT !.at = "commit", !.fresh = ~settingsRow,
                                  !.mode = m, !.exchange = e]
  <2>1. call' = [call EXCEPT ![c] = r]
    BY <1>0, InHand DEF CallRecords
  <2>2. m \in {Keep, call[c].mode} /\ e \in {Keep, call[c].exchange}
    OBVIOUS
  <2> HIDE DEF m, e
  <2>3. r \in CallRecords /\ r.at = "commit" /\ r.mode = m
    BY <1>0, <2>2, InHand DEF CallRecords, Stops, Starting
  <2>4. ~May("redeploy") /\ m = "auto" => AllowLive[tier]
    BY <1>0, <2>2, InHand DEF AutoIsPaidFor, Keep
  <2>5. ~May("redeploy") /\ mode' = "auto" => AllowLive[tier]
    BY <1>0, InHand DEF AutoIsPaidFor
  <2>6. ~Waits(c) /\ call[c].at \in Starting /\ settingsRow' \in BOOLEAN
    BY <1>0, InHand DEF Starting
  <2> HIDE DEF r
  <2> QED BY <1>0, <2>1, <2>3, <2>4, <2>5, <2>6, CallMoves
<1>2. RoutesTypeOK' /\ PreferenceWithinPlan'
  BY DEF RoutesInv, RoutesTypeOK, PreferenceWithinPlan, May
<1> QED BY <1>1, <1>2 DEF RoutesInv

\* The commit writes what was asked for, past its permit.
LEMMA CommitRowKeeps ==
    ASSUME RoutesInv, NEW c \in Calls, CommitRow(c)
    PROVE  RoutesInv'
<1> USE DEF CommitRow, accountVars, daemonVars
<1>0. CallsInv
  BY DEF RoutesInv
<1>1. CallsInv'
  <2>1. PICK at \in {"done", "failed"} : Goes(c, at)
    OBVIOUS
  <2>2. ~May("redeploy") /\ mode' = "auto" => AllowLive[tier]
    BY <1>0, InHand DEF AutoIsPaidFor
  <2>3. settingsRow' \in BOOLEAN
    BY <1>0, InHand
  <2> QED BY <1>0, <2>1, <2>2, <2>3, InHand, GoesOn DEF Stops, Starting
<1>2. RoutesTypeOK' /\ PreferenceWithinPlan'
  <2>1. mode' \in Modes /\ exchange' \in Exchanges
    BY <1>0, InHand DEF RoutesInv, RoutesTypeOK, CallRecords
  <2>2. settingsRow' \/ (mode' = "paper" /\ exchange' = DefaultExchange)
    BY DEF RoutesInv, RoutesTypeOK
  <2> QED BY <2>1, <2>2 DEF RoutesInv, RoutesTypeOK, PreferenceWithinPlan, May
<1> QED BY <1>1, <1>2 DEF RoutesInv

\* The exchange has answered.
LEMMA KeysVerifiedKeeps ==
    ASSUME RoutesInv, NEW c \in Calls, KeysVerified(c)
    PROVE  RoutesInv'
<1> USE DEF KeysVerified, accountVars, daemonVars
<1>0. CallsInv
  BY DEF RoutesInv
<1>1. CallsInv'
  <2>1. PICK at \in {"done", "refused"} : Goes(c, at)
    OBVIOUS
  <2>2. ~May("redeploy") /\ mode' = "auto" => AllowLive[tier]
    BY <1>0, InHand DEF AutoIsPaidFor
  <2> QED BY <1>0, <2>1, <2>2, InHand, GoesOn DEF Stops, Starting
<1>2. RoutesTypeOK' /\ PreferenceWithinPlan'
  <2>1. keys' \subseteq Exchanges
    BY <1>0, InHand DEF RoutesInv, RoutesTypeOK, Located
  <2> QED BY <2>1 DEF RoutesInv, RoutesTypeOK, PreferenceWithinPlan, May
<1> QED BY <1>1, <1>2 DEF RoutesInv

\* The engine of a request: live with the keys of the active exchange.
LEMMA BuildUserEngineKeeps ==
    ASSUME RoutesInv, NEW c \in Calls, BuildUserEngine(c)
    PROVE  RoutesInv'
<1> USE DEF BuildUserEngine, accountVars, daemonVars
<1>0. CallsInv
  BY DEF RoutesInv
<1>1. CallsInv'
  <2> DEFINE g == IF exchange \in keys THEN exchange ELSE "paper"
             at == IF exchange \in keys THEN "live" ELSE "dispatch"
             r == [call[c] EXCEPT !.engine = g, !.at = at]
  <2>1. call' = [call EXCEPT ![c] = r]
    BY <1>0, InHand DEF CallRecords
  <2>2. g \in Engines /\ at \in {"live", "dispatch"} /\ (at = "live" => g \in Exchanges)
    BY DEF RoutesInv, RoutesTypeOK, Engines
  <2> HIDE DEF g, at
  <2>3. r \in CallRecords /\ r.at = at /\ r.engine = g
    BY <1>0, <2>2, InHand DEF CallRecords, Stops, Starting
  <2>4. ~May("redeploy") /\ mode' = "auto" => AllowLive[tier]
    BY <1>0, InHand DEF AutoIsPaidFor
  <2>5. ~Waits(c) /\ call[c].at \in Starting /\ settingsRow' \in BOOLEAN
    BY <1>0, InHand DEF Starting
  <2> HIDE DEF r
  <2> QED BY <1>0, <2>1, <2>2, <2>3, <2>4, <2>5, CallMoves
<1>2. RoutesTypeOK' /\ PreferenceWithinPlan'
  BY DEF RoutesInv, RoutesTypeOK, PreferenceWithinPlan, May
<1> QED BY <1>1, <1>2 DEF RoutesInv

\* A live close: done, or nothing there.
LEMMA CloseLiveKeeps ==
    ASSUME RoutesInv, NEW c \in Calls, CloseLive(c)
    PROVE  RoutesInv'
<1> USE DEF CloseLive, accountVars, daemonVars
<1>0. CallsInv
  BY DEF RoutesInv
<1>1. CallsInv'
  <2> DEFINE at == IF call[c].engine \in held THEN "done" ELSE "missing"
  <2>1. Goes(c, at) /\ at \in {"done", "missing"}
    BY DEF Goes
  <2> HIDE DEF at
  <2>2. ~May("redeploy") /\ mode' = "auto" => AllowLive[tier]
    BY <1>0, InHand DEF AutoIsPaidFor
  <2> QED BY <1>0, <2>1, <2>2, InHand, GoesOn DEF Stops, Starting
<1>2. RoutesTypeOK' /\ PreferenceWithinPlan'
  BY DEF RoutesInv, RoutesTypeOK, PreferenceWithinPlan, May
<1> QED BY <1>1, <1>2 DEF RoutesInv

\* The reply is that of the call's own command.
LEMMA PollKeeps ==
    ASSUME RoutesInv, NEW c \in Calls, Poll(c)
    PROVE  RoutesInv'
<1> USE DEF Poll, accountVars, daemonVars
<1>0. CallsInv
  BY DEF RoutesInv
<1>1. CallsInv'
  <2>1. replies[c] \in {"booked", "refused"}
    BY <1>0 DEF CallsInv, RouteTypes
  <2>2. ~May("redeploy") /\ mode' = "auto" => AllowLive[tier]
    BY <1>0, InHand DEF AutoIsPaidFor
  <2>3. ~Waits(c) /\ (replies[c] = "booked" => openedBy[c] = 1)
                 /\ (replies[c] = "refused" => openedBy[c] = 0)
    BY <1>0, InHand DEF OrderOf
  <2> QED BY <1>0, <2>1, <2>2, <2>3, InHand, GoesOn DEF Stops, Starting
<1>2. RoutesTypeOK' /\ PreferenceWithinPlan'
  BY DEF RoutesInv, RoutesTypeOK, PreferenceWithinPlan, May
<1> QED BY <1>1, <1>2 DEF RoutesInv

\* No answer in time: the caller is told neither.
LEMMA GiveUpKeeps ==
    ASSUME RoutesInv, NEW c \in Calls, GiveUp(c)
    PROVE  RoutesInv'
<1> USE DEF GiveUp, accountVars, daemonVars
<1>0. CallsInv
  BY DEF RoutesInv
<1>1. CallsInv'
  <2>1. ~May("redeploy") /\ mode' = "auto" => AllowLive[tier]
    BY <1>0, InHand DEF AutoIsPaidFor
  <2> QED BY <1>0, <2>1, InHand, GoesOn DEF Stops, Starting
<1>2. RoutesTypeOK' /\ PreferenceWithinPlan'
  BY DEF RoutesInv, RoutesTypeOK, PreferenceWithinPlan, May
<1> QED BY <1>1, <1>2 DEF RoutesInv

----------------------------------------------------------------------------
(* Orders: opened by a call itself, or handed to the daemon and answered.   *)

\* A live execution books its own order, once.
LEMMA ExecuteLiveKeeps ==
    ASSUME RoutesInv, NEW c \in Calls, ExecuteLive(c)
    PROVE  RoutesInv'
<1> USE DEF ExecuteLive, accountVars, daemonVars
<1>0. CallsInv /\ UNCHANGED <<rplan, tier, mode, settingsRow, exchange, keys, prefs, commands,
                              handler, session, fan, replies>>
  BY DEF RoutesInv
<1>1. CASE Goes(c, "refused") /\ UNCHANGED <<held, openedBy>>
  <2>1. ~May("redeploy") /\ mode' = "auto" => AllowLive[tier]
    BY <1>0, InHand DEF AutoIsPaidFor
  <2>2. CallsInv'
    BY <1>0, <1>1, <2>1, InHand, GoesOn DEF Stops, Starting
  <2> QED BY <1>0, <1>1, <2>2 DEF RoutesInv, RoutesTypeOK, PreferenceWithinPlan, May
<1>2. CASE /\ held' = held \cup {call[c].engine}
           /\ openedBy' = [openedBy EXCEPT ![c] = @ + 1]
           /\ Goes(c, "booked")
  <2> DEFINE r == [call[c] EXCEPT !.at = "booked"]
  <2>1. call' = [call EXCEPT ![c] = r] /\ r \in CallRecords /\ r.at = "booked"
    BY <1>0, <1>2, RecordGoes DEF Goes, Stops
  <2> HIDE DEF r
  <2>2. /\ call[c].at = "live" /\ ~Waits(c) /\ openedBy[c] = 0 /\ replies[c] = "none"
        /\ call[c].engine \in Exchanges
    BY <1>0, InHand DEF Located, Starting
  <2>3. /\ call'[c] = r /\ openedBy'[c] = 1
        /\ \A d \in Calls : d # c => call'[d] = call[d] /\ openedBy'[d] = openedBy[d]
        /\ openedBy' \in [Calls -> Nat] /\ call' \in [Calls -> CallRecords]
    BY <1>0, <1>2, <2>1, <2>2 DEF CallsInv, RouteTypes
  <2>4. RouteTypes' /\ OneCopy' /\ LiveIsAuto'
    BY <1>0, <2>3 DEF CallsInv, RouteTypes, OneCopy, LiveIsAuto
  <2>5. Located' /\ AutoIsPaidFor'
    BY <1>0, <2>1, <2>3 DEF CallsInv, Located, AutoIsPaidFor, May
  <2>6. ASSUME NEW d \in Calls PROVE OrderOf(d)'
    <3>1. CASE d = c
      BY <1>0, <2>1, <2>2, <2>3, <3>1 DEF OrderOf, Waits, Starting
    <3>2. CASE d # c
      BY <1>0, <2>3, <3>2 DEF CallsInv, OrderOf, Waits
    <3> QED BY <3>1, <3>2
  <2>7. RoutesTypeOK' /\ PreferenceWithinPlan'
    <3>1. held' \subseteq Engines
      BY <1>2, <2>2 DEF RoutesInv, RoutesTypeOK, Engines
    <3>2. \A d \in Calls : openedBy'[d] \in 0..1
      BY <2>3 DEF RoutesInv, RoutesTypeOK
    <3> QED BY <1>0, <3>1, <3>2 DEF RoutesInv, RoutesTypeOK, PreferenceWithinPlan, May
  <2> QED BY <2>4, <2>5, <2>6, <2>7 DEF RoutesInv, CallsInv
<1> QED BY <1>1, <1>2

\* A command into the channel: nobody else has it.
LEMMA DispatchKeeps ==
    ASSUME RoutesInv, NEW c \in Calls, Dispatch(c)
    PROVE  RoutesInv'
<1> USE DEF Dispatch, accountVars, daemonVars
<1> DEFINE at == IF call[c].kind = "close" THEN "sent" ELSE "polling"
           r == [call[c] EXCEPT !.at = at]
<1>0. CallsInv
  BY DEF RoutesInv
<1>1. at \in {"sent", "polling"}
  OBVIOUS
<1>2. Goes(c, at)
  OBVIOUS
<1> HIDE DEF at
<1>3. call' = [call EXCEPT ![c] = r] /\ r \in CallRecords /\ r.at = at
  BY <1>0, <1>1, <1>2, RecordGoes DEF Goes, Stops
<1> HIDE DEF r
<1>4. ~Waits(c) /\ openedBy[c] = 0 /\ replies[c] = "none"
  BY <1>0, InHand DEF Starting
<1>5. /\ call'[c] = r /\ \A d \in Calls : d # c => call'[d] = call[d]
      /\ call' \in [Calls -> CallRecords]
  BY <1>0, <1>3 DEF CallsInv, RouteTypes
<1>6. /\ commands' \in Seq(Calls) /\ Len(commands') = Len(commands) + 1
      /\ \A i \in 1..Len(commands) : commands'[i] = commands[i]
      /\ commands'[Len(commands) + 1] = c
      /\ Len(commands) \in Nat
  BY <1>0 DEF CallsInv, RouteTypes
<1>7. RouteTypes' /\ LiveIsAuto'
  BY <1>0, <1>5, <1>6 DEF CallsInv, RouteTypes, LiveIsAuto
<1>8. Located' /\ AutoIsPaidFor'
  BY <1>0, <1>1, <1>3, <1>5 DEF CallsInv, Located, AutoIsPaidFor, May
<1>9. OneCopy'
  BY <1>0, <1>4, <1>6 DEF CallsInv, OneCopy, Waits
<1>10. ASSUME NEW d \in Calls PROVE OrderOf(d)'
  <2>1. CASE d = c
    BY <1>0, <1>1, <1>3, <1>4, <1>5, <2>1, InHand DEF OrderOf, Starting
  <2>2. CASE d # c
    <3>1. Waits(d)' => Waits(d)
      BY <1>6, <2>2 DEF Waits
    <3> QED BY <1>0, <1>5, <2>2, <3>1 DEF CallsInv, OrderOf
  <2> QED BY <2>1, <2>2
<1>11. RoutesTypeOK' /\ PreferenceWithinPlan'
  BY DEF RoutesInv, RoutesTypeOK, PreferenceWithinPlan, May
<1> QED BY <1>7, <1>8, <1>9, <1>10, <1>11 DEF RoutesInv, CallsInv

\* The daemon's session: for the mode it was asked for, live only for `auto'.
LEMMA SessionIsFor ==
    ASSUME RoutesInv, NEW m \in ModeRead
    PROVE  /\ m \in Modes
           /\ SessionFor(m).mode = m
           /\ SessionFor(m) \in [mode : Modes \cup {"none"}, engine : Engines \cup {"none"}]
           /\ SessionFor(m).engine \in Engines
           /\ SessionFor(m).engine \in Exchanges => m = "auto"
           /\ ~May("redeploy") /\ m = "auto" => AllowLive[tier]
<1>1. m \in Modes /\ (m = "auto" => mode = "auto")
  BY DEF ModeRead, RoutesInv, RoutesTypeOK, Modes
<1>2. BuildLiveEngine \in Engines
  BY DEF BuildLiveEngine, Engines, RoutesInv, RoutesTypeOK
<1>3. "paper" \notin Exchanges /\ "paper" \in Engines
  BY RoutesAssumption DEF Engines
<1>4. CASE session.mode = m
  <2>1. session.engine \in Engines
    BY <1>1, <1>4 DEF RoutesInv, CallsInv, Located, NoSession, Modes
  <2> QED BY <1>1, <1>4, <2>1 DEF SessionFor, RoutesInv, CallsInv, RouteTypes, LiveIsAuto,
         AutoIsPaidFor
<1>5. CASE session.mode # m
  BY <1>1, <1>2, <1>3, <1>5 DEF SessionFor, RoutesInv, CallsInv, AutoIsPaidFor
<1> QED BY <1>4, <1>5

\* The head of the channel becomes the handler's, still in one copy.
LEMMA TakeCommandKeeps ==
    ASSUME RoutesInv, TakeCommand
    PROVE  RoutesInv'
<1> USE DEF TakeCommand, accountVars
<1>0. CallsInv
  BY DEF RoutesInv
<1>1. PICK m \in ModeRead : session' = SessionFor(m)
  OBVIOUS
<1>2. /\ session' \in [mode : Modes \cup {"none"}, engine : Engines \cup {"none"}]
      /\ session'.mode = m /\ m \in Modes /\ session'.engine \in Engines
      /\ session'.engine \in Exchanges => m = "auto"
      /\ ~May("redeploy") /\ m = "auto" => AllowLive[tier]
  BY <1>1, SessionIsFor
<1>3. /\ commands \in Seq(Calls) /\ Len(commands) \in Nat /\ Len(commands) > 0
      /\ Head(commands) = commands[1] /\ Head(commands) \in Calls
      /\ Tail(commands) \in Seq(Calls) /\ Len(Tail(commands)) = Len(commands) - 1
      /\ \A i \in 1..Len(Tail(commands)) : Tail(commands)[i] = commands[i + 1]
  BY <1>0 DEF CallsInv, RouteTypes
<1>4. /\ handler'.call = commands[1] /\ handler'.engine = session'.engine
      /\ handler' \in [call : Calls \cup {"none"}, engine : Engines \cup {"none"}]
  BY <1>2, <1>3
<1>5. /\ commands' \in Seq(Calls) /\ Len(commands') = Len(commands) - 1
      /\ \A i \in 1..Len(commands') : commands'[i] = commands[i + 1]
  BY <1>3
<1>6. UNCHANGED <<rplan, tier, mode, settingsRow, exchange, keys, prefs, call, replies,
                  openedBy, held, fan>>
  OBVIOUS
<1> HIDE DEF TakeCommand
<1>7. RouteTypes' /\ LiveIsAuto'
  BY <1>0, <1>2, <1>4, <1>5, <1>6 DEF CallsInv, RouteTypes, LiveIsAuto
<1>8. Located' /\ AutoIsPaidFor'
  BY <1>0, <1>2, <1>3, <1>4, <1>6 DEF CallsInv, Located, AutoIsPaidFor, May
<1>9. OneCopy'
  BY <1>0, <1>3, <1>4, <1>5 DEF CallsInv, OneCopy
<1>10. ASSUME NEW c \in Calls PROVE OrderOf(c)'
  <2>1. Waits(c)' => Waits(c)
    BY <1>3, <1>4, <1>5 DEF Waits
  <2> QED BY <1>0, <1>6, <2>1 DEF CallsInv, OrderOf
<1>11. RoutesTypeOK' /\ PreferenceWithinPlan'
  BY <1>2, <1>6 DEF RoutesInv, RoutesTypeOK, PreferenceWithinPlan, May
<1> QED BY <1>7, <1>8, <1>9, <1>10, <1>11 DEF RoutesInv, CallsInv

\* The handler answers for what it has done: booked with "booked", or refused.
LEMMA HandleBookingKeeps ==
    ASSUME RoutesInv, HandleBooking
    PROVE  RoutesInv'
<1>0. /\ CallsInv /\ handler' = IdleHandler
      /\ UNCHANGED <<rplan, tier, mode, settingsRow, exchange, keys, prefs, call, commands,
                     session, fan>>
  BY DEF RoutesInv, HandleBooking, accountVars
<1>1. PICK c \in Calls : c = handler.call
  BY <1>0 DEF HandleBooking, CallsInv, Located, IdleHandler
<1>2. /\ call[c].at \in {"polling", "late", "sent"} /\ openedBy[c] = 0
      /\ \A i \in 1..Len(commands) : commands[i] # c
  BY <1>0, <1>1 DEF CallsInv, OrderOf, Waits, OneCopy
<1>3. \/ /\ openedBy' = [openedBy EXCEPT ![c] = openedBy[c] + 1]
         /\ replies' = [replies EXCEPT ![c] = "booked"]
         /\ held' = held \cup {handler.engine}
      \/ /\ replies' = [replies EXCEPT ![c] = "refused"]
         /\ UNCHANGED <<held, openedBy>>
  BY <1>1 DEF HandleBooking, Reply
<1>4. /\ openedBy' \in [Calls -> Nat] /\ replies' \in [Calls -> {"none", "booked", "refused"}]
      /\ \/ openedBy'[c] = 1 /\ replies'[c] = "booked"
         \/ openedBy'[c] = 0 /\ replies'[c] = "refused"
      /\ \A d \in Calls : d # c => openedBy'[d] = openedBy[d] /\ replies'[d] = replies[d]
  BY <1>0, <1>2, <1>3 DEF CallsInv, RouteTypes
<1>5. RouteTypes' /\ LiveIsAuto'
  BY <1>0, <1>4 DEF CallsInv, RouteTypes, LiveIsAuto, IdleHandler
<1>6. Located' /\ AutoIsPaidFor'
  BY <1>0 DEF CallsInv, Located, AutoIsPaidFor, May
<1>7. OneCopy'
  BY <1>0, RoutesAssumption DEF CallsInv, OneCopy, IdleHandler, RouteTypes
<1>8. ASSUME NEW d \in Calls PROVE OrderOf(d)'
  <2>1. Waits(d)' => Waits(d) /\ d # c
    BY <1>0, <1>2, RoutesAssumption DEF Waits, IdleHandler
  <2>2. CASE d = c
    BY <1>0, <1>2, <1>4, <2>1, <2>2 DEF OrderOf, Starting
  <2>3. CASE d # c
    BY <1>0, <1>4, <2>1, <2>3 DEF CallsInv, OrderOf
  <2> QED BY <2>2, <2>3
<1>9. RoutesTypeOK' /\ PreferenceWithinPlan'
  <2>1. held' \subseteq Engines
    BY <1>0, <1>1, <1>3, RoutesAssumption DEF RoutesInv, RoutesTypeOK, CallsInv, Located,
       IdleHandler
  <2>2. \A d \in Calls : openedBy'[d] \in 0..1
    BY <1>4 DEF RoutesInv, RoutesTypeOK
  <2> QED BY <1>0, <2>1, <2>2 DEF RoutesInv, RoutesTypeOK, PreferenceWithinPlan, May
<1> QED BY <1>5, <1>6, <1>7, <1>8, <1>9 DEF RoutesInv, CallsInv

\* A close is not answered.
LEMMA HandleCloseKeeps ==
    ASSUME RoutesInv, HandleClose
    PROVE  RoutesInv'
<1>0. /\ CallsInv /\ handler' = IdleHandler
      /\ UNCHANGED <<rplan, tier, mode, settingsRow, exchange, keys, prefs, call, commands,
                     session, fan, replies, openedBy>>
      /\ held' \subseteq held
  BY DEF RoutesInv, HandleClose, accountVars
<1>1. RouteTypes' /\ LiveIsAuto'
  BY <1>0 DEF CallsInv, RouteTypes, LiveIsAuto, IdleHandler
<1>2. Located' /\ AutoIsPaidFor'
  BY <1>0 DEF CallsInv, Located, AutoIsPaidFor, May
<1>3. OneCopy'
  BY <1>0, RoutesAssumption DEF CallsInv, OneCopy, IdleHandler, RouteTypes
<1>4. ASSUME NEW d \in Calls PROVE OrderOf(d)'
  <2>1. Waits(d)' => Waits(d)
    BY <1>0, RoutesAssumption DEF Waits, IdleHandler
  <2> QED BY <1>0, <2>1 DEF CallsInv, OrderOf
<1>5. RoutesTypeOK' /\ PreferenceWithinPlan'
  BY <1>0 DEF RoutesInv, RoutesTypeOK, PreferenceWithinPlan, May
<1> QED BY <1>1, <1>2, <1>3, <1>4, <1>5 DEF RoutesInv, CallsInv

\* The fan-out builds the session the mode asks for.
LEMMA FanOutKeeps ==
    ASSUME RoutesInv, FanOut
    PROVE  RoutesInv'
<1>0. /\ CallsInv
      /\ UNCHANGED <<rplan, tier, mode, settingsRow, exchange, keys, prefs, call, commands,
                     handler, replies, openedBy, held>>
      /\ fan' = session'.engine
  BY DEF RoutesInv, FanOut, accountVars
<1>1. PICK m \in ModeRead : session' = SessionFor(m)
  BY DEF FanOut
<1>2. /\ session' \in [mode : Modes \cup {"none"}, engine : Engines \cup {"none"}]
      /\ session'.mode = m /\ m \in Modes /\ session'.engine \in Engines
      /\ session'.engine \in Exchanges => m = "auto"
      /\ ~May("redeploy") /\ m = "auto" => AllowLive[tier]
  BY <1>1, SessionIsFor
<1>3. RouteTypes' /\ LiveIsAuto' /\ OneCopy'
  BY <1>0, <1>2 DEF CallsInv, RouteTypes, LiveIsAuto, OneCopy
<1>4. Located' /\ AutoIsPaidFor'
  BY <1>0, <1>2 DEF CallsInv, Located, AutoIsPaidFor, May
<1>5. ASSUME NEW d \in Calls PROVE OrderOf(d)'
  BY <1>0 DEF CallsInv, OrderOf, Waits
<1>6. RoutesTypeOK' /\ PreferenceWithinPlan'
  BY <1>0, <1>2 DEF RoutesInv, RoutesTypeOK, PreferenceWithinPlan, May
<1> QED BY <1>3, <1>4, <1>5, <1>6 DEF RoutesInv, CallsInv

\* What concerns neither a call nor the settings.
LEMMA Elsewhere ==
    ASSUME RoutesInv,
           UNCHANGED <<rplan, accountVars, call, commands, handler, replies, session, openedBy>>,
           held' \subseteq Engines, fan' \in Engines \cup {"none"}
    PROVE  RoutesInv'
<1> USE DEF accountVars
<1>1. RouteTypes' /\ LiveIsAuto' /\ OneCopy' /\ Located' /\ AutoIsPaidFor'
  BY DEF RoutesInv, CallsInv, RouteTypes, LiveIsAuto, OneCopy, Located, AutoIsPaidFor, May
<1>2. ASSUME NEW d \in Calls PROVE OrderOf(d)'
  BY DEF RoutesInv, CallsInv, OrderOf, Waits
<1>3. RoutesTypeOK' /\ PreferenceWithinPlan'
  BY DEF RoutesInv, RoutesTypeOK, PreferenceWithinPlan, May
<1> QED BY <1>1, <1>2, <1>3 DEF RoutesInv, CallsInv

LEMMA FanOutBooksKeeps ==
    ASSUME RoutesInv, FanOutBooks
    PROVE  RoutesInv'
<1>1. held' \subseteq Engines
  BY DEF FanOutBooks, RoutesInv, RoutesTypeOK
<1> QED BY <1>1, Elsewhere DEF FanOutBooks

LEMMA ScanStartsOrEndsKeeps ==
    ASSUME RoutesInv, ScanStartsOrEnds
    PROVE  RoutesInv'
BY Elsewhere DEF ScanStartsOrEnds, RoutesInv, RoutesTypeOK

\* After a redeployment no command waits: a call in hand is lost, and told nothing.
LEMMA RedeployKeeps ==
    ASSUME RoutesInv, Redeploy
    PROVE  RoutesInv'
<1>0. /\ CallsInv /\ May("redeploy") /\ tier' \in DOMAIN PlanCap
      /\ commands' = <<>> /\ handler' = IdleHandler /\ session' = NoSession /\ fan' = "none"
      /\ UNCHANGED <<rplan, mode, settingsRow, exchange, keys, prefs, replies, held, openedBy>>
  BY DEF RoutesInv, Redeploy
<1>1. ASSUME NEW c \in Calls
      PROVE  /\ call'[c] \in CallRecords
             /\ \/ call'[c] = call[c] /\ call[c].at \in Final
                \/ call'[c].at = "lost"
  <2>1. [call[c] EXCEPT !.at = "lost"] \in CallRecords
        /\ [call[c] EXCEPT !.at = "lost"].at = "lost"
    BY <1>0, RecordGoes DEF Stops
  <2> QED BY <1>0, <2>1 DEF Redeploy, CallsInv, RouteTypes
<1>2. RouteTypes'
  <2>1. call' \in [Calls -> CallRecords]
    BY <1>1 DEF Redeploy
  <2>2. commands' \in Seq(Calls)
    BY <1>0
  <2> QED BY <1>0, <2>1, <2>2 DEF CallsInv, RouteTypes, IdleHandler, NoSession
<1>3. Located' /\ OneCopy'
  BY <1>0, <1>1 DEF Located, OneCopy, Final
<1>4. LiveIsAuto' /\ AutoIsPaidFor'
  BY <1>0, RoutesAssumption DEF LiveIsAuto, AutoIsPaidFor, NoSession, May
<1>5. ASSUME NEW d \in Calls PROVE OrderOf(d)'
  <2>1. ~Waits(d)'
    BY <1>0, RoutesAssumption DEF Waits, IdleHandler
  <2> QED BY <1>0, <1>1, <2>1 DEF CallsInv, OrderOf, Starting, Final
<1>6. RoutesTypeOK' /\ PreferenceWithinPlan'
  BY <1>0 DEF RoutesInv, RoutesTypeOK, PreferenceWithinPlan, May, NoSession
<1> QED BY <1>2, <1>3, <1>4, <1>5, <1>6 DEF RoutesInv, CallsInv

----------------------------------------------------------------------------
(* The theorems.                                                           *)

LEMMA RoutesStep == RoutesInv /\ [RoutesNext]_rvars => RoutesInv'
<1> SUFFICES ASSUME RoutesInv, [RoutesNext]_rvars PROVE RoutesInv'
  OBVIOUS
<1>1. ASSUME NEW c \in Calls, CallBegins(c) PROVE RoutesInv'
  BY <1>1, AskSettingsKeeps, SaveKeysKeeps, DeleteKeysKeeps, SetPreferencesKeeps,
     ExecuteSetupKeeps, CloseRequestKeeps, ApproveKeeps DEF CallBegins
<1>2. ASSUME NEW c \in Calls, CallGoesOn(c) PROVE RoutesInv'
  BY <1>2, PermitKeeps, LoadRowKeeps, CommitRowKeeps, KeysVerifiedKeeps,
     BuildUserEngineKeeps, ExecuteLiveKeeps, CloseLiveKeeps, DispatchKeeps, PollKeeps
     DEF CallGoesOn
<1>3. ASSUME NEW c \in Calls, GiveUp(c) PROVE RoutesInv'
  BY <1>3, GiveUpKeeps
<1>4. CASE \/ TakeCommand \/ HandleBooking \/ HandleClose
           \/ FanOut \/ FanOutBooks \/ ScanStartsOrEnds \/ Redeploy
  BY <1>4, TakeCommandKeeps, HandleBookingKeeps, HandleCloseKeeps, FanOutKeeps,
     FanOutBooksKeeps, ScanStartsOrEndsKeeps, RedeployKeeps
<1>5. CASE UNCHANGED rvars
  BY <1>5, Elsewhere DEF rvars, accountVars, RoutesInv, RoutesTypeOK
<1> QED BY <1>1, <1>2, <1>3, <1>4, <1>5 DEF RoutesNext

LEMMA RoutesAlways == RoutesSpec => []RoutesInv
BY RoutesInitially, RoutesStep, PTL DEF RoutesSpec

\* _dispatch_user_command, _handle_user_command and the live path of execute_setup:
\* whatever calls of one tenant are in hand at once, given up on or lost, a caller
\* that is told "booked" has its order booked, once, and one that is told "refused"
\* has not and never will.
THEOREM CallersAreToldTheTruth == RoutesSpec => []ToldWhatHappened
<1>1. RoutesInv => ToldWhatHappened
  BY DEF RoutesInv, CallsInv, OrderOf, ToldWhatHappened
<1> QED BY <1>1, RoutesAlways, PTL

\* Types of the tenant's account; an order is opened at most once for a call.
THEOREM RoutesTyped == RoutesSpec => []RoutesTypeOK
<1>1. RoutesInv => RoutesTypeOK
  BY DEF RoutesInv
<1> QED BY <1>1, RoutesAlways, PTL

\* UserSettingsStore.set writes the changed columns only: a step changes the mode or
\* the exchange to what a call that is being committed asked for.
LEMMA ColumnsMove ==
    ASSUME [RoutesNext]_rvars
    PROVE  /\ mode' # mode => \E c \in Calls : call[c].at = "commit" /\ call[c].mode = mode'
           /\ exchange' # exchange =>
                \E c \in Calls : call[c].at = "commit" /\ call[c].exchange = exchange'
<1>1. ASSUME NEW c \in Calls, CallBegins(c) PROVE UNCHANGED <<mode, exchange>>
  BY <1>1 DEF CallBegins, AskSettings, SaveKeys, DeleteKeys, SetPreferences, ExecuteSetup,
     CloseRequest, Approve, accountVars
<1>2. ASSUME NEW c \in Calls, CallGoesOn(c), ~CommitRow(c) PROVE UNCHANGED <<mode, exchange>>
  BY <1>2 DEF CallGoesOn, Permit, LoadRow, KeysVerified, BuildUserEngine, ExecuteLive,
     CloseLive, Dispatch, Poll, accountVars
<1>3. ASSUME NEW c \in Calls, CommitRow(c)
      PROVE  /\ call[c].at = "commit"
             /\ mode' \in {mode, call[c].mode} /\ exchange' \in {exchange, call[c].exchange}
  BY <1>3 DEF CommitRow
<1>4. ASSUME NEW c \in Calls, GiveUp(c) PROVE UNCHANGED <<mode, exchange>>
  BY <1>4 DEF GiveUp, accountVars
<1>5. CASE \/ TakeCommand \/ HandleBooking \/ HandleClose
           \/ FanOut \/ FanOutBooks \/ ScanStartsOrEnds \/ Redeploy
  BY <1>5 DEF TakeCommand, HandleBooking, HandleClose, FanOut, FanOutBooks,
     ScanStartsOrEnds, Redeploy, accountVars
<1>6. CASE UNCHANGED rvars
  BY <1>6 DEF rvars
<1> QED BY <1>1, <1>2, <1>3, <1>4, <1>5, <1>6 DEF RoutesNext

\* The plan is the ceiling of what a tenant may set (preferences.py, the PUT of the
\* settings, the daemon's live session), however its requests interleave and even when
\* the plan cannot be resolved; and no request undoes what another one set.
THEOREM SettingsKept == RoutesSpec => SettingsAreKept
<1>1. RoutesInv => DaemonLiveIsPaidFor /\ PreferenceWithinPlan
  BY DEF RoutesInv, CallsInv, LiveIsAuto, AutoIsPaidFor, DaemonLiveIsPaidFor
<1>2. [RoutesNext]_rvars =>
         [/\ mode' # mode => \E c \in Calls : call[c].at = "commit" /\ call[c].mode = mode'
          /\ exchange' # exchange =>
                 \E c \in Calls : call[c].at = "commit" /\ call[c].exchange = exchange']_rvars
  BY ColumnsMove
<1> QED BY <1>1, <1>2, RoutesAlways, PTL DEF RoutesSpec, SettingsAreKept, ColumnsAreAskedFor


-----------------------------------------------------------------------------
(***************************************************************************)
(* The scan workers. A session passes its cost cap by one call at most,    *)
(* what it was billed and never charged is one call, and every request     *)
(* that left is counted once.                                              *)
(***************************************************************************)
WorkerTypes ==
    /\ status \in [Scans -> {"none", "scanning", "proposed", "ended"}]
    /\ worker \in [Scans -> {"none", "gate", "read", "call", "create",
                             "settle", "done"}]
    /\ usage \in [Scans -> {0} \cup CallCosts]
    /\ spent \in [Scans -> Nat] /\ billed \in [Scans -> Nat]
    /\ counter \in Nat /\ flushing \in Nat /\ pending \in Nat /\ departed \in Nat
    /\ fresh \in BOOLEAN /\ admitted \subseteq Scans

\* The worker is past its gate: it found the session scanning and under its cap.
InCycle(s) == worker[s] \in {"read", "call", "create", "settle"}

\* A cost that is reported and not yet booked is that of the cycle's one call, and
\* the row is not charged before.
CycleCosts(s) ==
    /\ InCycle(s) => spent[s] < CostCap
    /\ worker[s] \notin {"create", "settle"} => usage[s] = 0
    /\ spent[s] + usage[s] <= billed[s]
    /\ spent[s] <= CostCap + Dearest - 1

\* A session is admitted once and starts once; a worker is only made for one that
\* has started.
StartsOnce(s) ==
    /\ s \in admitted => status[s] = "none"
    /\ worker[s] # "none" => status[s] # "none"

\* Every bill is on the row or in the cycle, except the one of the cycle in which
\* the session ended: it never has another.
BillsMatch(s) ==
    \/ billed[s] = spent[s] + usage[s]
    \/ status[s] = "ended" /\ ~InCycle(s) /\ billed[s] <= spent[s] + Dearest

Lossless == {"late_error", "empty_reply", "db_error", "restart"}

\* The books of one session.
BooksOf(s) ==
    /\ CycleCosts(s) /\ StartsOnce(s)
    /\ WorkersSpared(Lossless) => BillsMatch(s)

\* The inductive invariant.
WorkersInv ==
    /\ WorkerTypes
    /\ \A s \in Scans : BooksOf(s)
    /\ RequestsAreCounted

\* No call costs more than the dearest one.
LEMMA DearestCall ==
    /\ Dearest \in CallCosts /\ \A c \in CallCosts : c <= Dearest
    /\ Dearest \in Nat /\ Dearest > 0 /\ CallCosts \subseteq Nat
    /\ CostCap \in Nat
<1>1. \E c \in CallCosts : \A d \in CallCosts : d <= c
  BY WorkersAssumption
<1>2. Dearest \in CallCosts /\ \A c \in CallCosts : c <= Dearest
  BY <1>1 DEF Dearest
<1> QED BY <1>2, WorkersAssumption

LEMMA WorkersInitially == WorkersInit => WorkersInv
<1> SUFFICES ASSUME WorkersInit PROVE WorkersInv
  OBVIOUS
<1> USE DEF WorkersInit
<1>1. WorkerTypes
  BY DEF WorkerTypes
<1>2. \A s \in Scans : BooksOf(s)
  BY DearestCall DEF BooksOf, CycleCosts, StartsOnce, BillsMatch, InCycle
<1>3. RequestsAreCounted
  BY DEF RequestsAreCounted
<1> QED BY <1>1, <1>2, <1>3 DEF WorkersInv

\* What the books of a session are about.
LEMMA BooksAreNumbers ==
    ASSUME WorkersInv, NEW s \in Scans
    PROVE  /\ spent[s] \in Nat /\ billed[s] \in Nat /\ usage[s] \in Nat
           /\ usage[s] <= Dearest /\ Dearest \in Nat /\ CostCap \in Nat
           /\ BooksOf(s)
<1>1. usage[s] \in {0} \cup CallCosts
  BY DEF WorkersInv, WorkerTypes
<1>2. CASE usage[s] = 0
  BY <1>2, DearestCall DEF WorkersInv, WorkerTypes
<1>3. CASE usage[s] \in CallCosts
  BY <1>3, DearestCall DEF WorkersInv, WorkerTypes
<1> QED BY <1>1, <1>2, <1>3

\* The faults that lose a usage.
LEMMA SparedLosses ==
    ASSUME WorkersSpared(Lossless)
    PROVE  /\ "late_error" \notin wplan /\ "empty_reply" \notin wplan
           /\ "db_error" \notin wplan /\ "restart" \notin wplan
BY DEF WorkersSpared, Lossless

\* A session nothing happens to.
LEMMA Undisturbed ==
    ASSUME NEW s \in Scans, BooksOf(s),
           UNCHANGED <<wplan, spent[s], billed[s], usage[s], worker[s], status[s]>>,
           s \in admitted' => s \in admitted
    PROVE  BooksOf(s)'
BY DEF BooksOf, CycleCosts, StartsOnce, BillsMatch, InCycle, WorkersSpared

\* A step that leaves the requests alone.
LEMMA CountKept ==
    ASSUME RequestsAreCounted, UNCHANGED <<wplan, pending, flushing, counter, departed>>
    PROVE  RequestsAreCounted'
BY DEF RequestsAreCounted, WorkersSpared

\* Every request that departs is pending first.
LEMMA DepartureCounts ==
    ASSUME WorkersInv, UNCHANGED wplan, Departs(1)
    PROVE  /\ RequestsAreCounted'
           /\ counter' \in Nat /\ flushing' \in Nat /\ pending' \in Nat /\ departed' \in Nat
BY DEF WorkersInv, WorkerTypes, RequestsAreCounted, WorkersSpared, Departs, countVars

\* Admission: only a session that has not started.
LEMMA ReadCapacityKeeps ==
    ASSUME WorkersInv, NEW s \in Scans, ReadCapacity(s)
    PROVE  WorkersInv'
<1> USE DEF ReadCapacity, moneyVars, countVars, sharedVars
<1>1. WorkerTypes'
  BY DEF WorkersInv, WorkerTypes
<1>2. ASSUME NEW t \in Scans PROVE BooksOf(t)'
  <2>1. CASE t = s
    BY <2>1, BooksAreNumbers DEF BooksOf, CycleCosts, StartsOnce, BillsMatch, InCycle,
       WorkersSpared, WorkersInv, WorkerTypes
  <2>2. CASE t # s
    BY <2>2, BooksAreNumbers, Undisturbed DEF WorkersInv, WorkerTypes
  <2> QED BY <2>1, <2>2
<1>3. RequestsAreCounted'
  BY CountKept DEF WorkersInv
<1> QED BY <1>1, <1>2, <1>3 DEF WorkersInv

\* The start takes the admission away.
LEMMA StartScanKeeps ==
    ASSUME WorkersInv, NEW s \in Scans, StartScan(s)
    PROVE  WorkersInv'
<1> USE DEF StartScan, moneyVars, countVars, sharedVars, WithStatus
<1>1. WorkerTypes'
  BY DEF WorkersInv, WorkerTypes
<1>2. ASSUME NEW t \in Scans PROVE BooksOf(t)'
  <2>1. CASE t = s
    BY <2>1, BooksAreNumbers DEF BooksOf, CycleCosts, StartsOnce, BillsMatch, InCycle,
       WorkersSpared, WorkersInv, WorkerTypes
  <2>2. CASE t # s
    BY <2>2, BooksAreNumbers, Undisturbed DEF WorkersInv, WorkerTypes
  <2> QED BY <2>1, <2>2
<1>3. RequestsAreCounted'
  BY CountKept DEF WorkersInv
<1> QED BY <1>1, <1>2, <1>3 DEF WorkersInv

\* The user ends, approves or rejects.
LEMMA DecideKeeps ==
    ASSUME WorkersInv, NEW s \in Scans, Decide(s)
    PROVE  WorkersInv'
<1> USE DEF Decide, moneyVars, countVars, sharedVars, WithStatus, LiveScan
<1>1. WorkerTypes'
  BY DEF WorkersInv, WorkerTypes
<1>2. ASSUME NEW t \in Scans PROVE BooksOf(t)'
  <2>1. CASE t = s
    BY <2>1, BooksAreNumbers DEF BooksOf, CycleCosts, StartsOnce, BillsMatch, InCycle,
       WorkersSpared, WorkersInv, WorkerTypes
  <2>2. CASE t # s
    BY <2>2, BooksAreNumbers, Undisturbed DEF WorkersInv, WorkerTypes
  <2> QED BY <2>1, <2>2
<1>3. RequestsAreCounted'
  BY CountKept DEF WorkersInv
<1> QED BY <1>1, <1>2, <1>3 DEF WorkersInv

\* The tick loop ends a session or leaves it.
LEMMA TickOnceKeeps ==
    ASSUME WorkersInv, NEW s \in Scans, TickOnce(s)
    PROVE  WorkersInv'
<1> USE DEF TickOnce, moneyVars, countVars, sharedVars, WithStatus, LiveScan, Ticked
<1>1. WorkerTypes'
  BY DEF WorkersInv, WorkerTypes
<1>2. ASSUME NEW t \in Scans PROVE BooksOf(t)'
  <2>1. CASE t = s
    BY <2>1, BooksAreNumbers DEF BooksOf, CycleCosts, StartsOnce, BillsMatch, InCycle,
       WorkersSpared, WorkersInv, WorkerTypes
  <2>2. CASE t # s
    BY <2>2, BooksAreNumbers, Undisturbed DEF WorkersInv, WorkerTypes
  <2> QED BY <2>1, <2>2
<1>3. RequestsAreCounted'
  BY CountKept DEF WorkersInv
<1> QED BY <1>1, <1>2, <1>3 DEF WorkersInv

\* The gate lets only a session under its cap into a cycle.
LEMMA GateKeeps ==
    ASSUME WorkersInv, NEW s \in Scans, Gate(s)
    PROVE  WorkersInv'
<1> USE DEF Gate, moneyVars, countVars, sharedVars, WithStatus, WithWorker, Ticked, AfterGate
<1>1. WorkerTypes'
  BY DEF WorkersInv, WorkerTypes
<1>2. ASSUME NEW t \in Scans PROVE BooksOf(t)'
  <2>1. CASE t = s
    BY <2>1, BooksAreNumbers DEF BooksOf, CycleCosts, StartsOnce, BillsMatch, InCycle,
       WorkersSpared, WorkersInv, WorkerTypes
  <2>2. CASE t # s
    BY <2>2, BooksAreNumbers, Undisturbed DEF WorkersInv, WorkerTypes
  <2> QED BY <2>1, <2>2
<1>3. RequestsAreCounted'
  BY CountKept DEF WorkersInv
<1> QED BY <1>1, <1>2, <1>3 DEF WorkersInv

\* A refused cycle has cost nothing.
LEMMA StalePlaneKeeps ==
    ASSUME WorkersInv, NEW s \in Scans, StalePlane(s)
    PROVE  WorkersInv'
<1> USE DEF StalePlane, moneyVars, countVars, sharedVars, WithWorker
<1>1. WorkerTypes'
  BY DEF WorkersInv, WorkerTypes
<1>2. ASSUME NEW t \in Scans PROVE BooksOf(t)'
  <2>1. CASE t = s
    BY <2>1, BooksAreNumbers DEF BooksOf, CycleCosts, StartsOnce, BillsMatch, InCycle,
       WorkersSpared, WorkersInv, WorkerTypes
  <2>2. CASE t # s
    BY <2>2, BooksAreNumbers, Undisturbed DEF WorkersInv, WorkerTypes
  <2> QED BY <2>1, <2>2
<1>3. RequestsAreCounted'
  BY CountKept DEF WorkersInv
<1> QED BY <1>1, <1>2, <1>3 DEF WorkersInv

\* The cycle goes on, nothing spent yet.
LEMMA ReadContextKeeps ==
    ASSUME WorkersInv, NEW s \in Scans, ReadContext(s)
    PROVE  WorkersInv'
<1> USE DEF ReadContext, moneyVars, countVars, sharedVars, WithWorker
<1>1. WorkerTypes'
  BY DEF WorkersInv, WorkerTypes
<1>2. ASSUME NEW t \in Scans PROVE BooksOf(t)'
  <2>1. CASE t = s
    BY <2>1, BooksAreNumbers DEF BooksOf, CycleCosts, StartsOnce, BillsMatch, InCycle,
       WorkersSpared, WorkersInv, WorkerTypes
  <2>2. CASE t # s
    BY <2>2, BooksAreNumbers, Undisturbed DEF WorkersInv, WorkerTypes
  <2> QED BY <2>1, <2>2
<1>3. RequestsAreCounted'
  BY CountKept DEF WorkersInv
<1> QED BY <1>1, <1>2, <1>3 DEF WorkersInv

\* The deterministic pick costs nothing.
LEMMA PickHighestKeeps ==
    ASSUME WorkersInv, NEW s \in Scans, PickHighest(s)
    PROVE  WorkersInv'
<1> USE DEF PickHighest, moneyVars, countVars, sharedVars, WithWorker
<1>1. WorkerTypes'
  BY DEF WorkersInv, WorkerTypes
<1>2. ASSUME NEW t \in Scans PROVE BooksOf(t)'
  <2>1. CASE t = s
    BY <2>1, BooksAreNumbers DEF BooksOf, CycleCosts, StartsOnce, BillsMatch, InCycle,
       WorkersSpared, WorkersInv, WorkerTypes
  <2>2. CASE t # s
    BY <2>2, BooksAreNumbers, Undisturbed DEF WorkersInv, WorkerTypes
  <2> QED BY <2>1, <2>2
<1>3. RequestsAreCounted'
  BY CountKept DEF WorkersInv
<1> QED BY <1>1, <1>2, <1>3 DEF WorkersInv

\* A proposal pauses the session, its usage still to be booked.
LEMMA ProposeKeeps ==
    ASSUME WorkersInv, NEW s \in Scans, Propose(s)
    PROVE  WorkersInv'
<1> USE DEF Propose, moneyVars, countVars, sharedVars, WithStatus, WithWorker
<1>1. WorkerTypes'
  BY DEF WorkersInv, WorkerTypes
<1>2. ASSUME NEW t \in Scans PROVE BooksOf(t)'
  <2>1. CASE t = s
    BY <2>1, BooksAreNumbers DEF BooksOf, CycleCosts, StartsOnce, BillsMatch, InCycle,
       WorkersSpared, WorkersInv, WorkerTypes
  <2>2. CASE t # s
    BY <2>2, BooksAreNumbers, Undisturbed DEF WorkersInv, WorkerTypes
  <2> QED BY <2>1, <2>2
<1>3. RequestsAreCounted'
  BY CountKept DEF WorkersInv
<1> QED BY <1>1, <1>2, <1>3 DEF WorkersInv

\* The one loss: the usage of a cycle whose session has ended.
LEMMA AnalyzeRaisesKeeps ==
    ASSUME WorkersInv, NEW s \in Scans, AnalyzeRaises(s)
    PROVE  WorkersInv'
<1> USE DEF AnalyzeRaises, moneyVars, countVars, sharedVars, WithWorker
<1>1. WorkerTypes'
  BY DEF WorkersInv, WorkerTypes
<1>2. ASSUME NEW t \in Scans PROVE BooksOf(t)'
  <2>1. CASE t = s
    BY <2>1, BooksAreNumbers, SparedLosses DEF BooksOf, CycleCosts, StartsOnce, BillsMatch,
       InCycle, WorkersSpared, WorkersInv, WorkerTypes
  <2>2. CASE t # s
    BY <2>2, BooksAreNumbers, Undisturbed DEF WorkersInv, WorkerTypes
  <2> QED BY <2>1, <2>2
<1>3. RequestsAreCounted'
  BY CountKept DEF WorkersInv
<1> QED BY <1>1, <1>2, <1>3 DEF WorkersInv

\* A usage is lost with the booking that raises.
LEMMA SettleRaisesKeeps ==
    ASSUME WorkersInv, NEW s \in Scans, SettleRaises(s)
    PROVE  WorkersInv'
<1> USE DEF SettleRaises, moneyVars, countVars, sharedVars, WithWorker
<1>1. WorkerTypes'
  BY DEF WorkersInv, WorkerTypes
<1>2. ASSUME NEW t \in Scans PROVE BooksOf(t)'
  <2>1. CASE t = s
    BY <2>1, BooksAreNumbers, SparedLosses DEF BooksOf, CycleCosts, StartsOnce, BillsMatch,
       InCycle, WorkersSpared, WorkersInv, WorkerTypes
  <2>2. CASE t # s
    BY <2>2, BooksAreNumbers, Undisturbed DEF WorkersInv, WorkerTypes
  <2> QED BY <2>1, <2>2
<1>3. RequestsAreCounted'
  BY CountKept DEF WorkersInv
<1> QED BY <1>1, <1>2, <1>3 DEF WorkersInv

\* The booking: the row passes its cap by less than the dearest call.
LEMMA SettleKeeps ==
    ASSUME WorkersInv, NEW s \in Scans, Settle(s)
    PROVE  WorkersInv'
<1> USE DEF Settle, moneyVars, countVars, sharedVars, WithWorker, WithStatus, Ticked
<1>0. /\ spent' = [spent EXCEPT ![s] = spent[s] + usage[s]]
      /\ spent[s] + usage[s] \in Nat
      /\ status' = [status EXCEPT ![s] = status'[s]]
      /\ status'[s] \in {status[s], "ended"}
  BY BooksAreNumbers DEF WorkersInv, WorkerTypes
<1>1. WorkerTypes'
  BY <1>0, BooksAreNumbers DEF WorkersInv, WorkerTypes
<1>2. ASSUME NEW t \in Scans PROVE BooksOf(t)'
  <2>1. CASE t = s
    <3>1. /\ spent'[s] = spent[s] + usage[s] /\ usage'[s] = 0 /\ worker'[s] = "gate"
          /\ worker[s] = "settle" /\ UNCHANGED <<wplan, billed, admitted>>
      BY <1>0 DEF WorkersInv, WorkerTypes
    <3> HIDE DEF Settle
    <3> QED BY <1>0, <2>1, <3>1, BooksAreNumbers DEF BooksOf, CycleCosts, StartsOnce,
       BillsMatch, InCycle, WorkersSpared, WorkersInv
  <2>2. CASE t # s
    BY <2>2, BooksAreNumbers, Undisturbed DEF WorkersInv, WorkerTypes
  <2> QED BY <2>1, <2>2
<1>3. RequestsAreCounted'
  BY CountKept DEF WorkersInv
<1> QED BY <1>1, <1>2, <1>3 DEF WorkersInv

\* A socket opens or closes.
LEMMA ConnectionKeeps ==
    ASSUME WorkersInv, NEW s \in Scans, Connection(s)
    PROVE  WorkersInv'
<1> USE DEF Connection, moneyVars, countVars, sharedVars
<1>1. WorkerTypes'
  BY DEF WorkersInv, WorkerTypes
<1>2. ASSUME NEW t \in Scans PROVE BooksOf(t)'
  BY BooksAreNumbers, Undisturbed
<1>3. RequestsAreCounted'
  BY CountKept DEF WorkersInv
<1> QED BY <1>1, <1>2, <1>3 DEF WorkersInv

\* The owner's switch.
LEMMA OwnerSwitchesKeeps ==
    ASSUME WorkersInv, OwnerSwitches
    PROVE  WorkersInv'
<1> USE DEF OwnerSwitches, moneyVars, countVars, sharedVars
<1>1. WorkerTypes'
  BY DEF WorkersInv, WorkerTypes
<1>2. ASSUME NEW t \in Scans PROVE BooksOf(t)'
  BY BooksAreNumbers, Undisturbed
<1>3. RequestsAreCounted'
  BY CountKept DEF WorkersInv
<1> QED BY <1>1, <1>2, <1>3 DEF WorkersInv

\* The shared cycle ends.
LEMMA AnalysisEndKeeps ==
    ASSUME WorkersInv, AnalysisEnd
    PROVE  WorkersInv'
<1> USE DEF AnalysisEnd, moneyVars, countVars, sharedVars
<1>1. WorkerTypes'
  BY DEF WorkersInv, WorkerTypes
<1>2. ASSUME NEW t \in Scans PROVE BooksOf(t)'
  BY BooksAreNumbers, Undisturbed
<1>3. RequestsAreCounted'
  BY CountKept DEF WorkersInv
<1> QED BY <1>1, <1>2, <1>3 DEF WorkersInv

\* The cache ages, the interval passes.
LEMMA TimePassesKeeps ==
    ASSUME WorkersInv, TimePasses
    PROVE  WorkersInv'
<1> USE DEF TimePasses, moneyVars, countVars, sharedVars
<1>1. WorkerTypes'
  BY DEF WorkersInv, WorkerTypes
<1>2. ASSUME NEW t \in Scans PROVE BooksOf(t)'
  BY BooksAreNumbers, Undisturbed
<1>3. RequestsAreCounted'
  BY CountKept DEF WorkersInv
<1> QED BY <1>1, <1>2, <1>3 DEF WorkersInv

\* Reaped and new workers have no usage, and only live sessions get one.
LEMMA DiscoverKeeps ==
    ASSUME WorkersInv, Discover
    PROVE  WorkersInv'
<1> USE DEF Discover, moneyVars, countVars, sharedVars, LiveScan
<1>1. WorkerTypes'
  BY DEF WorkersInv, WorkerTypes
<1>2. ASSUME NEW t \in Scans PROVE BooksOf(t)'
  BY BooksAreNumbers DEF BooksOf, CycleCosts, StartsOnce, BillsMatch, InCycle,
     WorkersSpared, WorkersInv, WorkerTypes
<1>3. RequestsAreCounted'
  BY CountKept DEF WorkersInv
<1> QED BY <1>1, <1>2, <1>3 DEF WorkersInv

\* The call: its cost is reported, free, or (empty completions) dropped.
LEMMA SynthesizeKeeps ==
    ASSUME WorkersInv, NEW s \in Scans, Synthesize(s)
    PROVE  WorkersInv'
<1> USE DEF Synthesize, sharedVars
<1>1. /\ UNCHANGED <<wplan, status, admitted, spent, fresh>>
      /\ worker[s] = "call" /\ usage[s] = 0
  BY BooksAreNumbers DEF BooksOf, CycleCosts
<1>2. PICK c \in Nat, pc \in {"settle", "create"} :
          /\ billed' = [billed EXCEPT ![s] = @ + c]
          /\ worker' = [worker EXCEPT ![s] = pc]
          /\ \/ usage' = [usage EXCEPT ![s] = c] /\ c \in CallCosts
             \/ usage' = usage /\ c = 0
             \/ usage' = usage /\ "empty_reply" \in wplan
  <2>1. CASE \E c \in CallCosts, v \in Verdicts :
                /\ Bills(s, c) /\ usage' = [usage EXCEPT ![s] = c]
                /\ WithWorker(s, AfterVerdict(v))
    BY <2>1, DearestCall DEF Bills, WithWorker, AfterVerdict
  <2>2. CASE UNCHANGED <<billed, usage>> /\ WithWorker(s, "create")
    <3>1. billed' = [billed EXCEPT ![s] = @ + 0]
      BY <2>2 DEF WorkersInv, WorkerTypes
    <3> QED BY <2>2, <3>1 DEF WithWorker
  <2>3. CASE /\ "empty_reply" \in wplan
             /\ \E c \in CallCosts : Bills(s, c)
             /\ WithWorker(s, "create")
             /\ UNCHANGED usage
    BY <2>3, DearestCall DEF Bills, WithWorker
  <2> QED BY <2>1, <2>2, <2>3 DEF Chat
<1>3. WorkerTypes'
  BY <1>1, <1>2, DepartureCounts DEF WorkersInv, WorkerTypes
<1>4. ASSUME NEW t \in Scans PROVE BooksOf(t)'
  <2>1. CASE t = s
    <3>1. /\ billed'[s] = billed[s] + c /\ worker'[s] = pc
          /\ usage'[s] = c \/ (usage'[s] = 0 /\ "empty_reply" \in wplan)
      BY <1>1, <1>2 DEF WorkersInv, WorkerTypes
    <3> HIDE DEF Synthesize
    <3> QED BY <1>1, <2>1, <3>1, BooksAreNumbers, SparedLosses DEF BooksOf, CycleCosts,
       StartsOnce, BillsMatch, InCycle, WorkersSpared
  <2>2. CASE t # s
    BY <1>1, <1>2, <2>2, BooksAreNumbers, Undisturbed DEF WorkersInv, WorkerTypes
  <2> QED BY <2>1, <2>2
<1>5. RequestsAreCounted'
  BY <1>1, DepartureCounts
<1> QED BY <1>3, <1>4, <1>5 DEF WorkersInv

\* The shared analysis is one request.
LEMMA AnalysisStartKeeps ==
    ASSUME WorkersInv, AnalysisStart
    PROVE  WorkersInv'
<1> USE DEF AnalysisStart, moneyVars
<1>1. WorkerTypes'
  BY DepartureCounts DEF WorkersInv, WorkerTypes
<1>2. ASSUME NEW t \in Scans PROVE BooksOf(t)'
  BY BooksAreNumbers, Undisturbed
<1>3. RequestsAreCounted'
  BY DepartureCounts
<1> QED BY <1>1, <1>2, <1>3 DEF WorkersInv

\* flush() hands the pending count over.
LEMMA DrainKeeps ==
    ASSUME WorkersInv, Drain
    PROVE  WorkersInv'
<1> USE DEF Drain, moneyVars, sharedVars
<1>1. WorkerTypes'
  BY DEF WorkersInv, WorkerTypes
<1>2. ASSUME NEW t \in Scans PROVE BooksOf(t)'
  BY BooksAreNumbers, Undisturbed
<1>3. RequestsAreCounted'
  BY DEF WorkersInv, WorkerTypes, RequestsAreCounted, WorkersSpared
<1> QED BY <1>1, <1>2, <1>3 DEF WorkersInv

\* A store fails or succeeds as a whole, unless the EXPIRE behind it fails.
LEMMA StoreKeeps ==
    ASSUME WorkersInv, Store
    PROVE  WorkersInv'
<1> USE DEF Store, moneyVars, sharedVars
<1>1. WorkerTypes'
  BY DEF WorkersInv, WorkerTypes
<1>2. ASSUME NEW t \in Scans PROVE BooksOf(t)'
  BY BooksAreNumbers, Undisturbed
<1>3. RequestsAreCounted'
  BY DEF WorkersInv, WorkerTypes, RequestsAreCounted, WorkersSpared
<1> QED BY <1>1, <1>2, <1>3 DEF WorkersInv

\* Midnight forgets what is counted.
LEMMA DayRollsKeeps ==
    ASSUME WorkersInv, DayRolls
    PROVE  WorkersInv'
<1> USE DEF DayRolls, moneyVars, sharedVars
<1>1. WorkerTypes'
  BY DEF WorkersInv, WorkerTypes
<1>2. ASSUME NEW t \in Scans PROVE BooksOf(t)'
  BY BooksAreNumbers, Undisturbed
<1>3. RequestsAreCounted'
  BY DEF RequestsAreCounted, WorkersSpared
<1> QED BY <1>1, <1>2, <1>3 DEF WorkersInv

\* A restart loses the usages in flight and the requests not yet stored.
LEMMA DaemonRestartsKeeps ==
    ASSUME WorkersInv, DaemonRestarts
    PROVE  WorkersInv'
<1> USE DEF DaemonRestarts, moneyVars
<1>1. WorkerTypes'
  BY DEF WorkersInv, WorkerTypes
<1>2. ASSUME NEW t \in Scans PROVE BooksOf(t)'
  BY BooksAreNumbers, SparedLosses DEF BooksOf, CycleCosts, StartsOnce, BillsMatch,
     InCycle, WorkersSpared
<1>3. RequestsAreCounted'
  BY DEF RequestsAreCounted, WorkersSpared
<1> QED BY <1>1, <1>2, <1>3 DEF WorkersInv

\* Every step of the pool, the workers, the loops and the store.
LEMMA WorkersStep == WorkersInv /\ [WorkersNext]_wvars => WorkersInv'
<1> SUFFICES ASSUME WorkersInv, [WorkersNext]_wvars PROVE WorkersInv'
  OBVIOUS
<1>1. ASSUME NEW s \in Scans,
             \/ ReadCapacity(s) \/ StartScan(s) \/ Decide(s) \/ TickOnce(s)
             \/ Connection(s) \/ Gate(s) \/ StalePlane(s)
      PROVE  WorkersInv'
  BY <1>1, ReadCapacityKeeps, StartScanKeeps, DecideKeeps, TickOnceKeeps,
     ConnectionKeeps, GateKeeps, StalePlaneKeeps
<1>2. ASSUME NEW s \in Scans,
             \/ ReadContext(s) \/ Synthesize(s) \/ PickHighest(s) \/ Propose(s)
             \/ AnalyzeRaises(s) \/ Settle(s) \/ SettleRaises(s)
      PROVE  WorkersInv'
  BY <1>2, ReadContextKeeps, SynthesizeKeeps, PickHighestKeeps, ProposeKeeps,
     AnalyzeRaisesKeeps, SettleKeeps, SettleRaisesKeeps
<1>3. CASE \/ OwnerSwitches \/ Discover \/ AnalysisStart \/ AnalysisEnd
           \/ TimePasses \/ Drain \/ Store \/ DayRolls \/ DaemonRestarts
  BY <1>3, OwnerSwitchesKeeps, DiscoverKeeps, AnalysisStartKeeps, AnalysisEndKeeps,
     TimePassesKeeps, DrainKeeps, StoreKeeps, DayRollsKeeps, DaemonRestartsKeeps
<1>4. CASE UNCHANGED wvars
  <2> USE <1>4 DEF wvars
  <2>1. WorkerTypes'
    BY DEF WorkersInv, WorkerTypes
  <2>2. \A t \in Scans : BooksOf(t)'
    BY BooksAreNumbers, Undisturbed
  <2>3. RequestsAreCounted'
    BY CountKept DEF WorkersInv
  <2> QED BY <2>1, <2>2, <2>3 DEF WorkersInv
<1> QED BY <1>1, <1>2, <1>3, <1>4 DEF WorkersNext

\* The books follow from the invariant: the bill of the last cycle is the difference.
LEMMA BooksFollow == WorkersInv => SpendingIsAccounted /\ WorkersTypeOK
<1> SUFFICES ASSUME WorkersInv PROVE SpendingIsAccounted /\ WorkersTypeOK
  OBVIOUS
<1>1. OverrunIsOneCall
  BY BooksAreNumbers DEF OverrunIsOneCall, BooksOf, CycleCosts
<1>2. UnbookedIsOneCall
  BY BooksAreNumbers DEF UnbookedIsOneCall, BooksOf, BillsMatch, Lossless
<1>3. WorkersTypeOK
  BY BooksAreNumbers DEF WorkersTypeOK, WorkersInv, WorkerTypes, BooksOf, CycleCosts
<1> QED BY <1>1, <1>2, <1>3 DEF SpendingIsAccounted, WorkersInv

\* SessionWorker.run_cycle, can_spend and llm_request_budget: a session passes its cost
\* cap by one call at most; without faults that lose a result, one call at most is
\* billed and never charged; the requests that left are counted once each.
THEOREM SpendingAccounted == WorkersSpec => []SpendingIsAccounted
<1>1. WorkersSpec => []WorkersInv
  BY WorkersInitially, WorkersStep, PTL DEF WorkersSpec
<1> QED BY <1>1, BooksFollow, PTL

\* Types, and no row is charged more than the provider billed (record_response books
\* what the reply reported, once).
THEOREM WorkersTyped == WorkersSpec => []WorkersTypeOK
<1>1. WorkersSpec => []WorkersInv
  BY WorkersInitially, WorkersStep, PTL DEF WorkersSpec
<1> QED BY <1>1, BooksFollow, PTL

-----------------------------------------------------------------------------
(* MarketFeed: the inductive invariant.                                    *)

Streams == {"kline", "mark", "light"}
Profiles == {"none", "prices", "scan"}

InRow(buf) == \A i \in 2 .. Len(buf) : buf[i - 1] < buf[i]

FeedTypes ==
    /\ now \in Nat \ {0} /\ quietFrom \in Int /\ lower \in Int
    /\ applied \in Profiles /\ profile \in Profiles
    /\ change \in [step : {"idle", "drop", "add", "refill", "fetching"}, to : Profiles]
    /\ subs \subseteq Streams /\ stored \subseteq Int /\ misfiled \in BOOLEAN

\* The buffer in order, and what a refill will put in its place: all candles
\* up to the one that was forming at most a candle ago.
Booked ==
    /\ ~misfiled => buffer \in Seq(Int) /\ InRow(buffer)
    /\ snapshot \in Seq(Int) /\ snapshot = [i \in 1 .. Len(snapshot) |-> i]
    /\ change.step = "fetching" =>
         /\ change.to = "scan" /\ profile # "scan"
         /\ snapshot # << >> /\ now - Len(snapshot) \in 0 .. 1
    /\ change.step # "fetching" => snapshot = << >>

Calm == FeedSpared({"drop", "silence", "fetch_error"})
Newest == Last(buffer)

\* On an unbroken connection: the streams that a step of a change has reached,
\* and how far the buffer lags in each.
Recent ==
    /\ conn = "up" /\ server = subs /\ ~misfiled
    /\ buffer # << >> /\ Newest <= now
    /\ change.step = "idle" => applied = profile /\ subs = Wanted(profile)
    /\ change.step = "add" => subs \subseteq Wanted(change.to)
    /\ change.step \in {"refill", "fetching"} => subs = Wanted(change.to)
    /\ profile = "scan" /\ change.step = "idle" => now - Newest <= Max({1, RefillAfter})
    /\ profile = "scan" /\ change.step # "idle" => change.to # "scan" /\ Newest = now
    /\ profile # "scan" => quietFrom <= Newest

FeedInv ==
    /\ FeedTypes /\ Booked /\ ServedIsSubscribed
    /\ Calm => Recent

-----------------------------------------------------------------------------
(* The candle buffer.                                                      *)

LEMMA ConstantsAreNumbers ==
    /\ MaxBuffer \in Nat /\ MaxBuffer > 0
    /\ RefillAfter \in Nat /\ Linger \in Nat /\ MaxTime \in Nat
  BY FeedAssumption

\* Part of a sequence in order is in order.
LEMMA PartsInRow ==
    ASSUME NEW buf \in Seq(Int), InRow(buf), NEW m \in Int, NEW n \in Int, 1 <= m, n <= Len(buf)
    PROVE  /\ SubSeq(buf, m, n) \in Seq(Int) /\ InRow(SubSeq(buf, m, n))
           /\ Len(SubSeq(buf, m, n)) = IF m <= n THEN n - m + 1 ELSE 0
           /\ \A i \in 1 .. n - m + 1 : SubSeq(buf, m, n)[i] = buf[m + i - 1]
  <1>1. \A i \in m .. n : buf[i] \in Int
    <2>1. \A i \in 1 .. Len(buf) : buf[i] \in Int
      BY ElementOfSeq
    <2> QED BY <2>1
  <1>2. PICK part : part = SubSeq(buf, m, n)
    OBVIOUS
  <1>3. /\ part \in Seq(Int) /\ Len(part) = IF m <= n THEN n - m + 1 ELSE 0
        /\ \A i \in 1 .. n - m + 1 : part[i] = buf[m + i - 1]
    <2>1. /\ SubSeq(buf, m, n) \in Seq(Int)
          /\ Len(SubSeq(buf, m, n)) = IF m <= n THEN n - m + 1 ELSE 0
          /\ \A i \in 1 .. n - m + 1 : SubSeq(buf, m, n)[i] = buf[m + i - 1]
      BY <1>1
    <2> QED BY <1>2, <2>1
  <1>4. ASSUME NEW i \in 2 .. Len(part) PROVE part[i - 1] < part[i]
    <2>1. PICK j : j = m + i - 1
      OBVIOUS
    <2>2. i \in 1 .. n - m + 1 /\ i - 1 \in 1 .. n - m + 1 /\ j \in 2 .. Len(buf)
          /\ m + (i - 1) - 1 = j - 1
      BY <1>3, <2>1
    <2>3. part[i] = buf[j] /\ part[i - 1] = buf[j - 1]
      BY <1>3, <2>1, <2>2
    <2> QED BY <2>2, <2>3 DEF InRow
  <1>5. InRow(part)
    BY <1>4 DEF InRow
  <1> QED BY <1>2, <1>3, <1>5

\* Trimming keeps the order and the newest candle.
LEMMA TrimmedKeeps ==
    ASSUME NEW buf \in Seq(Int), InRow(buf)
    PROVE  /\ Trimmed(buf) \in Seq(Int) /\ InRow(Trimmed(buf))
           /\ buf # << >> => Trimmed(buf) # << >> /\ Last(Trimmed(buf)) = Last(buf)
  <1>1. CASE Len(buf) > MaxBuffer
    <2>1. PICK m \in Int, n \in Int : m = n - MaxBuffer + 1 /\ n = Len(buf)
      BY ConstantsAreNumbers
    <2>2. 1 <= m /\ n <= Len(buf) /\ m <= n /\ n - m + 1 = MaxBuffer
      BY <1>1, <2>1, ConstantsAreNumbers
    <2>3. PICK part : part = SubSeq(buf, m, n)
      OBVIOUS
    <2>4. /\ part \in Seq(Int) /\ InRow(part) /\ Len(part) = MaxBuffer
          /\ \A i \in 1 .. MaxBuffer : part[i] = buf[m + i - 1]
      BY <2>2, <2>3, PartsInRow
    <2>5. part[MaxBuffer] = buf[n]
      BY <2>1, <2>4, ConstantsAreNumbers
    <2>6. Trimmed(buf) = part
      BY <1>1, <2>1, <2>3 DEF Trimmed
    <2>7. part # << >>
      BY <2>4, ConstantsAreNumbers
    <2> QED BY <2>1, <2>4, <2>5, <2>6, <2>7 DEF Last
  <1>2. CASE ~(Len(buf) > MaxBuffer)
    BY <1>2 DEF Trimmed
  <1> QED BY <1>1, <1>2

\* An update keeps the order; the newest candle is the newer of the two.
LEMMA OnKlineKeeps ==
    ASSUME NEW buf \in Seq(Int), InRow(buf), NEW t \in Int
    PROVE  /\ OnKline(buf, t) \in Seq(Int) /\ InRow(OnKline(buf, t))
           /\ buf # << >> =>
                /\ OnKline(buf, t) # << >>
                /\ Last(OnKline(buf, t)) = IF t > Last(buf) THEN t ELSE Last(buf)
  <1>1. CASE buf = << >> \/ t > Last(buf)
    <2>1. PICK b : b = Append(buf, t)
      OBVIOUS
    <2>2. b \in Seq(Int) /\ Len(b) = Len(buf) + 1 /\ b[Len(b)] = t
          /\ \A i \in 1 .. Len(buf) : b[i] = buf[i]
      BY <2>1
    <2>3. ASSUME NEW i \in 2 .. Len(b) PROVE b[i - 1] < b[i]
      <3>1. CASE i = Len(b)
        <4>1. i - 1 = Len(buf) /\ Len(buf) >= 1 /\ buf # << >>
          BY <2>2, <2>3, <3>1
        <4>2. b[i - 1] = Last(buf)
          BY <2>2, <4>1 DEF Last
        <4> QED BY <1>1, <2>2, <3>1, <4>1, <4>2
      <3>2. CASE i # Len(b)
        <4>1. i \in 2 .. Len(buf) /\ i \in 1 .. Len(buf) /\ i - 1 \in 1 .. Len(buf)
          BY <2>2, <2>3, <3>2
        <4> QED BY <2>2, <4>1 DEF InRow
      <3> QED BY <3>1, <3>2
    <2>4. InRow(b) /\ b # << >> /\ Last(b) = t
      BY <2>2, <2>3 DEF InRow, Last
    <2>5. OnKline(buf, t) = Trimmed(b)
      BY <1>1, <2>1 DEF OnKline
    <2> QED BY <1>1, <2>2, <2>4, <2>5, TrimmedKeeps
  <1>2. CASE ~(buf = << >> \/ t > Last(buf))
    BY <1>2 DEF OnKline
  <1> QED BY <1>1, <1>2

\* A filled gap: the new candles lie between their neighbours.
LEMMA InsertedKeeps ==
    ASSUME NEW buf \in Seq(Int), InRow(buf), NEW i \in 2 .. Len(buf),
           NEW new \in Seq(Int), InRow(new),
           \A k \in 1 .. Len(new) : buf[i - 1] < new[k] /\ new[k] < buf[i]
    PROVE  Inserted(buf, i, new) \in Seq(Int) /\ InRow(Inserted(buf, i, new))
  <1>0. PICK n \in Nat, m \in Nat : n = Len(new) /\ m = Len(buf)
    OBVIOUS
  <1>1. PICK l, r, h :
            /\ l = SubSeq(buf, 1, i - 1) /\ r = SubSeq(buf, i, Len(buf)) /\ h = l \o new
    OBVIOUS
  <1>2. /\ l \in Seq(Int) /\ Len(l) = i - 1 /\ \A k \in 1 .. i - 1 : l[k] = buf[k]
    <2>1. 1 <= i - 1 /\ i - 1 <= Len(buf) /\ i - 1 \in Int /\ (i - 1) - 1 + 1 = i - 1
      OBVIOUS
    <2>2. \A k \in 1 .. i - 1 : 1 + k - 1 = k
      OBVIOUS
    <2> QED BY <1>1, <2>1, <2>2, PartsInRow
  <1>3. /\ r \in Seq(Int) /\ Len(r) = m - i + 1
        /\ \A k \in 1 .. m - i + 1 : r[k] = buf[i + k - 1]
    <2>1. 1 <= i /\ i <= m /\ m \in Int /\ i \in Int /\ r = SubSeq(buf, i, m)
      BY <1>0, <1>1
    <2> QED BY <1>0, <2>1, PartsInRow
  <1>4. /\ h \in Seq(Int) /\ Len(h) = i - 1 + n
        /\ \A k \in 1 .. i - 1 + n : h[k] = IF k <= i - 1 THEN l[k] ELSE new[k - (i - 1)]
    BY <1>0, <1>1, <1>2, ConcatProperties
  <1>5. PICK all : all = h \o r
    OBVIOUS
  <1>6. /\ all \in Seq(Int) /\ Len(all) = m + n
        /\ \A k \in 1 .. m + n :
             all[k] = IF k <= i - 1 + n THEN h[k] ELSE r[k - (i - 1 + n)]
    <2>1. /\ all \in Seq(Int) /\ Len(all) = Len(h) + Len(r)
          /\ \A k \in 1 .. Len(h) + Len(r) :
               all[k] = IF k <= Len(h) THEN h[k] ELSE r[k - Len(h)]
      BY <1>3, <1>4, <1>5, ConcatProperties
    <2>2. Len(h) + Len(r) = m + n
      BY <1>0, <1>3, <1>4
    <2> QED BY <1>4, <2>1, <2>2
  <1>7. ASSUME NEW k \in 1 .. i - 1 PROVE all[k] = buf[k]
    <2>1. k \in 1 .. i - 1 + n /\ k \in 1 .. m + n /\ k <= i - 1 /\ k <= i - 1 + n
      BY <1>0
    <2> QED BY <1>2, <1>4, <1>6, <2>1
  <1>8. ASSUME NEW k \in i .. i - 1 + n PROVE k - (i - 1) \in 1 .. n /\ all[k] = new[k - (i - 1)]
    <2>1. /\ k \in 1 .. i - 1 + n /\ k \in 1 .. m + n /\ ~(k <= i - 1) /\ k <= i - 1 + n
          /\ k - (i - 1) \in 1 .. n
      BY <1>0
    <2> QED BY <1>4, <1>6, <2>1
  <1>9. ASSUME NEW k \in i + n .. m + n PROVE k - n \in i .. m /\ all[k] = buf[k - n]
    <2>1. /\ k - (i - 1 + n) \in 1 .. m - i + 1 /\ i + (k - (i - 1 + n)) - 1 = k - n
          /\ k \in 1 .. m + n /\ ~(k <= i - 1 + n) /\ k - n \in i .. m
      BY <1>0
    <2>2. all[k] = r[k - (i - 1 + n)]
      BY <1>6, <2>1
    <2> QED BY <1>3, <2>1, <2>2
  <1>10. ASSUME NEW k \in 2 .. Len(all) PROVE all[k - 1] < all[k]
    <2>1. CASE k <= i - 1
      <3>1. k \in 2 .. Len(buf) /\ k \in 1 .. i - 1 /\ k - 1 \in 1 .. i - 1
        BY <2>1
      <3> QED BY <1>7, <3>1 DEF InRow
    <2>2. CASE k = i /\ n > 0
      <3>1. k - 1 \in 1 .. i - 1 /\ k \in i .. i - 1 + n /\ k - 1 = i - 1 /\ k - (i - 1) \in 1 .. n
        BY <2>2
      <3>2. all[k - 1] = buf[i - 1] /\ all[k] = new[k - (i - 1)]
        BY <1>7, <1>8, <3>1
      <3> QED BY <1>0, <3>1, <3>2
    <2>3. CASE k > i /\ k <= i - 1 + n
      <3>1. k \in i .. i - 1 + n /\ k - 1 \in i .. i - 1 + n
        BY <2>3
      <3>2. PICK j : j = k - (i - 1)
        OBVIOUS
      <3>3. j \in 2 .. Len(new) /\ (k - 1) - (i - 1) = j - 1
        BY <1>0, <2>3, <3>2
      <3>4. all[k] = new[j] /\ all[k - 1] = new[j - 1]
        BY <1>8, <3>1, <3>2, <3>3
      <3> QED BY <3>3, <3>4 DEF InRow
    <2>4. CASE k = i + n /\ n > 0
      <3>1. k \in i + n .. m + n /\ k - 1 \in i .. i - 1 + n /\ k - n = i
            /\ (k - 1) - (i - 1) = n
        BY <1>0, <2>4
      <3>2. all[k] = buf[i] /\ all[k - 1] = new[n]
        BY <1>8, <1>9, <3>1
      <3>3. n \in 1 .. Len(new)
        BY <1>0, <2>4
      <3> QED BY <3>2, <3>3
    <2>5. CASE k = i /\ n = 0
      <3>1. k - 1 \in 1 .. i - 1 /\ k \in i + n .. m + n /\ k - n = i /\ k - 1 = i - 1
        BY <1>0, <2>5
      <3>2. all[k - 1] = buf[i - 1] /\ all[k] = buf[i]
        BY <1>7, <1>9, <3>1
      <3> QED BY <3>2 DEF InRow
    <2>6. CASE k > i + n
      <3>1. k \in i + n .. m + n /\ k - 1 \in i + n .. m + n
        BY <1>6, <2>6
      <3>2. PICK j : j = k - n
        OBVIOUS
      <3>3. j \in 2 .. Len(buf) /\ (k - 1) - n = j - 1
        BY <1>0, <1>6, <2>6, <3>2
      <3>4. all[k] = buf[j] /\ all[k - 1] = buf[j - 1]
        BY <1>9, <3>1, <3>2, <3>3
      <3> QED BY <3>3, <3>4 DEF InRow
    <2>7. \/ k <= i - 1 \/ (k = i /\ n > 0) \/ (k > i /\ k <= i - 1 + n)
          \/ (k = i + n /\ n > 0) \/ (k = i /\ n = 0) \/ k > i + n
      <3>1. k \in Int /\ i \in Int /\ n \in Nat
        OBVIOUS
      <3> QED BY <3>1
    <2> QED BY <2>1, <2>2, <2>3, <2>4, <2>5, <2>6, <2>7
  <1>11. Inserted(buf, i, new) = all
    BY <1>1, <1>5 DEF Inserted
  <1> QED BY <1>6, <1>10, <1>11 DEF InRow

-----------------------------------------------------------------------------
(* A set in order.                                                         *)

Below(S, t) == {q \in S : q < t}
Rank_(S, t) == Cardinality(Below(S, t))

LEMMA RankGrows ==
    ASSUME NEW S \in SUBSET Int, IsFiniteSet(S), NEW t \in S, NEW u \in S, t < u
    PROVE  Rank_(S, t) \in Nat /\ Rank_(S, u) \in Nat /\ Rank_(S, t) < Rank_(S, u)
  <1>1. Below(S, u) \in SUBSET S /\ IsFiniteSet(Below(S, u))
    <2>1. Below(S, u) \in SUBSET S
      BY DEF Below
    <2> QED BY <2>1, FS_Subset
  <1>2. Below(S, t) \in SUBSET Below(S, u) /\ t \in Below(S, u) /\ t \notin Below(S, t)
    <2>1. t \in Int /\ u \in Int /\ \A q \in S : q \in Int
      OBVIOUS
    <2>2. \A q \in S : q < t => q < u
      BY <2>1
    <2>3. ~(t < t)
      BY <2>1
    <2> QED BY <2>2, <2>3 DEF Below
  <1>3. /\ IsFiniteSet(Below(S, t)) /\ Rank_(S, t) <= Rank_(S, u)
        /\ Rank_(S, u) = Rank_(S, t) => Below(S, u) = Below(S, t)
    BY <1>1, <1>2, FS_Subset DEF Rank_
  <1>4. Rank_(S, t) \in Nat /\ Rank_(S, u) \in Nat
    BY <1>1, <1>3, FS_CardinalityType DEF Rank_
  <1> QED BY <1>2, <1>3, <1>4

\* Every place below the cardinality is some element's.
LEMMA RanksAreFilled ==
    ASSUME NEW S \in SUBSET Int, IsFiniteSet(S)
    PROVE  \A k \in 0 .. Cardinality(S) - 1 : \E t \in S : Rank_(S, t) = k
  <1>1. PICK n \in Nat : n = Cardinality(S)
    BY FS_CardinalityType
  <1>2. PICK f : f = [t \in S |-> Rank_(S, t)]
    OBVIOUS
  <1>3. ASSUME NEW t \in S PROVE Rank_(S, t) \in 0 .. n - 1
    <2>1. Below(S, t) \in SUBSET S /\ t \notin Below(S, t)
      BY DEF Below
    <2>2. /\ IsFiniteSet(Below(S, t)) /\ Rank_(S, t) <= n
          /\ n = Rank_(S, t) => S = Below(S, t)
      BY <1>1, <2>1, FS_Subset DEF Rank_
    <2>3. Rank_(S, t) \in Nat
      BY <2>2, FS_CardinalityType DEF Rank_
    <2> QED BY <2>1, <2>2, <2>3
  <1>4. f \in [S -> 0 .. n - 1]
    BY <1>2, <1>3
  <1>5. ASSUME NEW t \in S, NEW u \in S, f[t] = f[u] PROVE t = u
    <2>1. Rank_(S, t) = Rank_(S, u)
      BY <1>2, <1>5
    <2>2. ~(t < u) /\ ~(u < t)
      BY <2>1, RankGrows
    <2> QED BY <2>2
  <1>6. f \in Injection(S, 0 .. n - 1)
    BY <1>4, <1>5 DEF Injection, IsInjective
  <1>7. IsFiniteSet(0 .. n - 1) /\ Cardinality(0 .. n - 1) = n
    BY FS_Interval
  <1>8. f \in Surjection(S, 0 .. n - 1)
    BY <1>1, <1>6, <1>7, FS_Injection
  <1> QED BY <1>1, <1>2, <1>8 DEF Surjection

LEMMA InOrderSound ==
    ASSUME NEW S \in SUBSET Int, IsFiniteSet(S)
    PROVE  /\ InOrder(S) \in Seq(Int) /\ InRow(InOrder(S))
           /\ Len(InOrder(S)) = Cardinality(S) /\ Cardinality(S) \in Nat
           /\ \A i \in 1 .. Cardinality(S) : InOrder(S)[i] \in S
  <1>1. PICK n \in Nat : n = Cardinality(S)
    BY FS_CardinalityType
  <1>2. PICK o : o = InOrder(S)
    OBVIOUS
  <1>3. o = [i \in 1 .. n |-> CHOOSE t \in S : Rank_(S, t) = i - 1]
    BY <1>1, <1>2 DEF InOrder, Rank_, Below
  <1>4. ASSUME NEW i \in 1 .. n PROVE o[i] \in S /\ Rank_(S, o[i]) = i - 1
    <2>1. i - 1 \in 0 .. Cardinality(S) - 1
      BY <1>1
    <2>2. \E t \in S : Rank_(S, t) = i - 1
      BY <2>1, RanksAreFilled
    <2>3. o[i] = CHOOSE t \in S : Rank_(S, t) = i - 1
      BY <1>3
    <2> QED BY <2>2, <2>3
  <1>5. o \in [1 .. n -> Int]
    BY <1>3, <1>4
  <1>6. o \in Seq(Int) /\ Len(o) = n
    BY <1>5
  <1>7. ASSUME NEW i \in 2 .. n PROVE o[i - 1] < o[i]
    <2>1. i \in 1 .. n /\ i - 1 \in 1 .. n
      OBVIOUS
    <2>2. /\ o[i] \in S /\ o[i - 1] \in S /\ Rank_(S, o[i]) = i - 1
          /\ Rank_(S, o[i - 1]) = (i - 1) - 1
      BY <1>4, <2>1
    <2>3. PICK t \in S, u \in S : t = o[i - 1] /\ u = o[i]
      BY <2>2
    <2>4. Rank_(S, t) = Rank_(S, u) - 1 /\ Rank_(S, u) \in Int
      BY <2>2, <2>3
    <2>5. ~(u < t)
      <3> SUFFICES ASSUME u < t PROVE FALSE
        OBVIOUS
      <3>1. Rank_(S, u) < Rank_(S, t)
        BY RankGrows
      <3> QED BY <2>4, <3>1
    <2>6. u # t
      BY <2>4
    <2>7. t \in Int /\ u \in Int
      OBVIOUS
    <2> QED BY <2>3, <2>5, <2>6, <2>7
  <1> QED BY <1>1, <1>2, <1>4, <1>6, <1>7 DEF InRow

-----------------------------------------------------------------------------
(* A backfill of at most one gap.                                          *)

Gaps(buf) == {i \in 2 .. Len(buf) : buf[i] - buf[i - 1] > 1}

LEMMA GapsInOrder ==
    ASSUME NEW buf \in Seq(Int)
    PROVE  /\ Len(GapsOf(buf)) \in Nat /\ DOMAIN GapsOf(buf) = 1 .. Len(GapsOf(buf))
           /\ \A k \in 1 .. Len(GapsOf(buf)) : GapsOf(buf)[k] \in Gaps(buf)
  <1>1. GapsOf(buf) = InOrder(Gaps(buf))
    BY DEF GapsOf, Gaps
  <1>2. Gaps(buf) \in SUBSET Int /\ IsFiniteSet(Gaps(buf))
    <2>1. IsFiniteSet(2 .. Len(buf))
      BY FS_Interval
    <2>2. Gaps(buf) \in SUBSET (2 .. Len(buf))
      BY DEF Gaps
    <2> QED BY <2>1, <2>2, FS_Subset
  <1>3. PICK o : o = InOrder(Gaps(buf))
    OBVIOUS
  <1>4. /\ o \in Seq(Int) /\ Len(o) = Cardinality(Gaps(buf)) /\ Len(o) \in Nat
        /\ \A k \in 1 .. Len(o) : o[k] \in Gaps(buf)
    BY <1>2, <1>3, InOrderSound
  <1> QED BY <1>1, <1>3, <1>4

\* The buffer with the gap before i filled, or left alone.
Mended(buf, failing, acc, i) ==
    IF i \in failing THEN acc ELSE Inserted(acc, i, InOrder(Missed(buf, i)))

LEMMA MendedKeeps ==
    ASSUME NEW buf \in Seq(Int), InRow(buf), stored \subseteq Int, NEW i \in Gaps(buf), NEW failing
    PROVE  Mended(buf, failing, buf, i) \in Seq(Int) /\ InRow(Mended(buf, failing, buf, i))
  <1>1. i \in 2 .. Len(buf) /\ buf[i - 1] \in Int /\ buf[i] \in Int
    <2>1. i \in 2 .. Len(buf)
      BY DEF Gaps
    <2>2. i \in 1 .. Len(buf) /\ i - 1 \in 1 .. Len(buf)
      BY <2>1
    <2> QED BY <2>1, <2>2, ElementOfSeq
  <1>2. PICK new : new = Missed(buf, i)
    OBVIOUS
  <1>3. \A t \in new : t \in Int /\ buf[i - 1] < t /\ t < buf[i]
    BY <1>2 DEF Missed, FetchedSince, NewestOf
  <1>4. new \in SUBSET Int /\ IsFiniteSet(new)
    <2>1. new \in SUBSET (buf[i - 1] .. buf[i])
      BY <1>1, <1>3
    <2>2. IsFiniteSet(buf[i - 1] .. buf[i])
      BY <1>1, FS_Interval
    <2> QED BY <1>3, <2>1, <2>2, FS_Subset
  <1>5. PICK o : o = InOrder(new)
    OBVIOUS
  <1>6. /\ o \in Seq(Int) /\ InRow(o)
        /\ \A k \in 1 .. Len(o) : buf[i - 1] < o[k] /\ o[k] < buf[i]
    BY <1>3, <1>4, <1>5, InOrderSound
  <1>7. Inserted(buf, i, o) \in Seq(Int) /\ InRow(Inserted(buf, i, o))
    BY <1>1, <1>6, InsertedKeeps
  <1> QED BY <1>2, <1>5, <1>7 DEF Mended

\* The fold of FoldLeft, with its choice.
Mends(buf, failing, gaps, S, g) ==
    g = [s \in SUBSET S |->
            IF s = {} THEN buf
            ELSE LET k == Max(s) IN Mended(buf, failing, g[s \ {k}], gaps[k])]

LEMMA FilledIsChosen ==
    ASSUME NEW buf, NEW failing, NEW gaps, gaps = GapsOf(buf)
    PROVE  Filled(buf, failing) =
               Trimmed((CHOOSE g : Mends(buf, failing, gaps, DOMAIN gaps, g))[DOMAIN gaps])
  BY DEF Filled, FoldLeft, MapThenFoldSet, Mends, Mended

LEMMA FilledKeeps ==
    ASSUME NEW buf \in Seq(Int), InRow(buf), stored \subseteq Int, NEW failing,
           ~(Len(GapsOf(buf)) > 1)
    PROVE  Filled(buf, failing) \in Seq(Int) /\ InRow(Filled(buf, failing))
  <1>1. PICK gaps : gaps = GapsOf(buf)
    OBVIOUS
  <1>2. /\ Len(gaps) \in 0 .. 1 /\ DOMAIN gaps = 1 .. Len(gaps)
        /\ \A k \in 1 .. Len(gaps) : gaps[k] \in Gaps(buf)
    <2>1. /\ Len(gaps) \in Nat /\ DOMAIN gaps = 1 .. Len(gaps)
          /\ \A k \in 1 .. Len(gaps) : gaps[k] \in Gaps(buf)
      BY <1>1, GapsInOrder
    <2> QED BY <1>1, <2>1
  <1>3. PICK D : D = DOMAIN gaps
    OBVIOUS
  <1>4. D = {} \/ (D = {1} /\ gaps[1] \in Gaps(buf))
    BY <1>2, <1>3
  <1>5. Max({1}) = 1
    BY DEF Max
  <1>6. PICK one : one = Mended(buf, failing, buf, gaps[1])
    OBVIOUS
  <1>7. \E g : Mends(buf, failing, gaps, D, g)
    <2>1. PICK g : g = [s \in SUBSET D |-> IF s = {} THEN buf ELSE one]
      OBVIOUS
    <2>2. ASSUME NEW s \in SUBSET D, s # {}
          PROVE  s = {1} /\ Max(s) = 1 /\ g[s \ {Max(s)}] = buf
      <3>1. s = {1}
        BY <1>4, <2>2
      <3>2. s \ {1} = {} /\ {} \in SUBSET D
        BY <3>1
      <3> QED BY <1>5, <2>1, <3>1, <3>2
    <2>3. g = [s \in SUBSET D |->
                 IF s = {} THEN buf
                 ELSE LET k == Max(s) IN Mended(buf, failing, g[s \ {k}], gaps[k])]
      <3>1. ASSUME NEW s \in SUBSET D
            PROVE  (IF s = {} THEN buf ELSE one) =
                       IF s = {} THEN buf
                       ELSE LET k == Max(s) IN Mended(buf, failing, g[s \ {k}], gaps[k])
        BY <1>6, <2>2
      <3> QED BY <2>1, <3>1
    <2> QED BY <2>3 DEF Mends
  <1>8. PICK g : g = (CHOOSE h : Mends(buf, failing, gaps, D, h))
    OBVIOUS
  <1>9. Mends(buf, failing, gaps, D, g)
    BY <1>7, <1>8
  <1>10. g[D] = buf \/ (g[D] = one /\ gaps[1] \in Gaps(buf))
    <2>1. \A s \in SUBSET D :
            g[s] = IF s = {} THEN buf
                   ELSE LET k == Max(s) IN Mended(buf, failing, g[s \ {k}], gaps[k])
      BY <1>9 DEF Mends
    <2>2. g[{}] = buf
      BY <2>1
    <2>3. CASE D = {1} /\ gaps[1] \in Gaps(buf)
      <3>1. {1} \ {1} = {} /\ {1} # {}
        OBVIOUS
      <3>2. g[{1}] = Mended(buf, failing, g[{1} \ {Max({1})}], gaps[Max({1})])
        BY <2>1, <2>3, <3>1
      <3>3. g[{1}] = one
        BY <1>5, <1>6, <2>2, <3>1, <3>2
      <3> QED BY <2>3, <3>3
    <2> QED BY <1>4, <2>2, <2>3
  <1>11. g[D] \in Seq(Int) /\ InRow(g[D])
    BY <1>6, <1>10, MendedKeeps
  <1>12. Filled(buf, failing) = Trimmed(g[D])
    BY <1>1, <1>3, <1>8, FilledIsChosen
  <1> QED BY <1>11, <1>12, TrimmedKeeps

-----------------------------------------------------------------------------
(* The steps.                                                              *)

LEMMA WantedIs ==
    /\ Wanted("none") = {} /\ Wanted("prices") = {"light"}
    /\ Wanted("scan") = {"kline", "mark"}
    /\ \A p \in Profiles :
         /\ Wanted(p) = {WantedInOrder[p][i] : i \in DOMAIN WantedInOrder[p]}
         /\ DOMAIN WantedInOrder[p] \in SUBSET Nat /\ Wanted(p) \in SUBSET Streams
  BY DEF Wanted, WantedInOrder, ToSet, Profiles, Streams

LEMMA LeastPlace ==
    ASSUME NEW T \in SUBSET Nat, T # {}
    PROVE  Min(T) \in T
  BY LeastNatural DEF Min

LEMMA LargestLag ==
    /\ Max({1, RefillAfter}) \in Int
    /\ Max({1, RefillAfter}) >= 1 /\ Max({1, RefillAfter}) >= RefillAfter
  BY ConstantsAreNumbers DEF Max

\* Nothing of the invariant's moves.
LEMMA FeedStays ==
    ASSUME FeedInv, UNCHANGED <<fplan, now, gateVars, agentVars, bookVars, wireVars>>
    PROVE  FeedInv'
  BY DEF FeedInv, FeedTypes, Booked, ServedIsSubscribed, Calm, FeedSpared, Recent,
         Newest, gateVars, agentVars, bookVars, wireVars

LEMMA FeedBegins == FeedInit => FeedInv
  <1> SUFFICES ASSUME FeedInit PROVE FeedInv
    OBVIOUS
  <1>1. FeedTypes
    <2>1. now \in Nat \ {0} /\ quietFrom \in Int /\ lower \in Int /\ stored \subseteq Int
      BY DEF FeedInit
    <2>2. applied \in Profiles /\ profile \in Profiles /\ subs \subseteq Streams
      BY DEF FeedInit, Profiles
    <2>3. change \in [step : {"idle", "drop", "add", "refill", "fetching"}, to : Profiles]
      BY DEF FeedInit, NoChange, Profiles
    <2>4. misfiled \in BOOLEAN
      BY DEF FeedInit
    <2> QED BY <2>1, <2>2, <2>3, <2>4 DEF FeedTypes
  <1>2. Booked
    <2>1. buffer \in Seq(Int) /\ InRow(buffer)
      BY DEF FeedInit, InRow
    <2>2. snapshot \in Seq(Int) /\ snapshot = [i \in 1 .. Len(snapshot) |-> i]
      BY DEF FeedInit, NoSnapshot
    <2> QED BY <2>1, <2>2 DEF Booked, FeedInit, NoChange, NoSnapshot
  <1>3. ServedIsSubscribed
    BY DEF FeedInit, ServedIsSubscribed
  <1>4. Recent
    BY WantedIs DEF FeedInit, Recent, Newest, Last, NoChange
  <1> QED BY <1>1, <1>2, <1>3, <1>4 DEF FeedInv

\* The gate begins a change, and a scan is left with a buffer up to date.
LEMMA GatePollKeeps ==
    ASSUME FeedInv, GatePoll
    PROVE  FeedInv'
  <1>1. /\ change.step = "idle" /\ UpdatesCame /\ StreamDemand \in Profiles
        /\ UNCHANGED <<fplan, now, profile, quietFrom, snapshot, buffer, stored, misfiled,
                       conn, attempt, subs, server, drops, cut>>
    BY DEF GatePoll, StreamDemand, Profiles, agentVars, bookVars, wireVars
  <1>2. \/ UNCHANGED <<applied, change>> /\ lower' \in Int
        \/ /\ StreamDemand # applied /\ (Rank[StreamDemand] >= Rank[applied] \/ lower >= Linger)
           /\ BeginChange(StreamDemand)
    BY <1>1 DEF GatePoll, FeedInv, FeedTypes
  <1>3. CASE UNCHANGED <<applied, change>> /\ lower' \in Int
    BY <1>1, <1>3 DEF FeedInv, FeedTypes, Booked, ServedIsSubscribed, Calm, FeedSpared,
       Recent, Newest
  <1>4. CASE /\ StreamDemand # applied /\ (Rank[StreamDemand] >= Rank[applied] \/ lower >= Linger)
             /\ BeginChange(StreamDemand)
    <2>1. FeedTypes'
      BY <1>1, <1>4 DEF FeedInv, FeedTypes, BeginChange
    <2>2. change'.step \in {"idle", "drop"}
      BY <1>1, <1>4 DEF BeginChange
    <2>3. Booked' /\ ServedIsSubscribed'
      BY <1>1, <2>2 DEF FeedInv, Booked, ServedIsSubscribed
    <2>4. ASSUME Calm' PROVE Recent'
      <3>1. Recent
        BY <1>1, <2>4 DEF FeedInv, Calm, FeedSpared
      <3>2. CASE subs = Wanted(StreamDemand) /\ profile = StreamDemand
        BY <1>1, <1>4, <3>1, <3>2 DEF BeginChange, Recent, Newest
      <3>3. CASE ~(subs = Wanted(StreamDemand) /\ profile = StreamDemand)
        <4>1. change' = [step |-> "drop", to |-> StreamDemand] /\ UNCHANGED applied
          BY <1>4, <3>3 DEF BeginChange
        <4>2. ASSUME profile = "scan" PROVE StreamDemand # "scan" /\ Newest = now
          <5>1. applied = "scan" /\ subs = Wanted("scan")
            BY <1>1, <3>1, <4>2 DEF Recent
          <5>2. StreamDemand \in {"none", "prices"}
            BY <1>1, <1>4, <5>1 DEF Profiles
          <5>3. lower >= Linger
            BY <1>4, <5>1, <5>2 DEF Rank
          <5>4. Flows("kline")
            BY <3>1, <5>1, WantedIs DEF Flows, Recent
          <5> QED BY <1>1, <5>2, <5>3, <5>4 DEF UpdatesCame, Newest
        <4> QED BY <1>1, <3>1, <4>1, <4>2 DEF Recent, Newest
      <3> QED BY <3>2, <3>3
    <2> QED BY <2>1, <2>3, <2>4 DEF FeedInv
  <1> QED BY <1>2, <1>3, <1>4

\* The streams no longer wanted go.
LEMMA DropStreamsKeeps ==
    ASSUME FeedInv, DropStreams
    PROVE  FeedInv'
  <1>1. PICK doomed : /\ doomed = subs \ Wanted(change.to) /\ subs' = subs \ doomed
                      /\ server' = IF conn = "up" THEN server \ doomed ELSE server
                      /\ IF Raises /\ doomed # {} THEN CutShort ELSE StepTo("add")
    BY DEF DropStreams
  <1>2. /\ change.step = "drop"
        /\ UNCHANGED <<fplan, now, buffer, stored, misfiled, conn>>
    BY DEF DropStreams, bookVars
  <1>3. /\ UNCHANGED <<profile, quietFrom, snapshot, lower>>
        /\ \/ change' = NoChange /\ applied' = change.to /\ Raises
           \/ change' = [change EXCEPT !.step = "add"] /\ UNCHANGED applied
    BY <1>1 DEF CutShort, StepTo
  <1>4. FeedTypes'
    BY <1>1, <1>2, <1>3 DEF FeedInv, FeedTypes, NoChange, Profiles
  <1>5. change'.step \in {"idle", "add"}
    BY <1>3 DEF NoChange, FeedInv, FeedTypes
  <1>6. Booked' /\ ServedIsSubscribed'
    BY <1>1, <1>2, <1>3, <1>5 DEF FeedInv, Booked, ServedIsSubscribed
  <1>7. ASSUME Calm' PROVE Recent'
    <2>1. Recent
      BY <1>2, <1>7 DEF FeedInv, Calm, FeedSpared
    <2>2. change' = [change EXCEPT !.step = "add"] /\ UNCHANGED applied
      BY <1>3, <2>1 DEF Raises, Recent
    <2>3. change'.step = "add" /\ change'.to = change.to
      BY <2>2 DEF FeedInv, FeedTypes
    <2>4. subs' \subseteq Wanted(change.to)
      BY <1>1
    <2> QED BY <1>1, <1>2, <1>3, <2>1, <2>3, <2>4 DEF Recent, Newest
  <1> QED BY <1>4, <1>6, <1>7 DEF FeedInv

\* One stream is added, or none is missing.
LEMMA AddStreamKeeps ==
    ASSUME FeedInv, AddStream
    PROVE  FeedInv'
  <1>1. PICK order, missing, next :
            /\ order = WantedInOrder[change.to]
            /\ missing = {i \in DOMAIN order : order[i] \notin subs}
            /\ next = order[Min(missing)]
            /\ IF missing = {} THEN StepTo("refill") /\ UNCHANGED <<subs, server>>
               ELSE /\ subs' = subs \cup {next}
                    /\ server' = IF conn = "up" THEN server \cup {next} ELSE server
                    /\ IF Raises THEN CutShort ELSE StepTo("add")
    BY DEF AddStream
  <1>2. /\ change.step = "add" /\ change.to \in Profiles
        /\ UNCHANGED <<fplan, now, buffer, stored, misfiled, conn>>
    BY DEF AddStream, bookVars, FeedInv, FeedTypes
  <1>3. UNCHANGED <<profile, quietFrom, snapshot, lower>>
    BY <1>1 DEF CutShort, StepTo
  <1>4. missing # {} => next \in Wanted(change.to)
    <2>1. missing \in SUBSET Nat
      BY <1>1, <1>2, WantedIs
    <2>2. missing # {} => Min(missing) \in DOMAIN order
      BY <1>1, <2>1, LeastPlace
    <2>3. Wanted(change.to) = {order[i] : i \in DOMAIN order}
      BY <1>1, <1>2, WantedIs
    <2> QED BY <1>1, <2>2, <2>3
  <1>5. missing = {} => Wanted(change.to) \subseteq subs
    BY <1>1, <1>2, WantedIs
  <1>6. \/ change' = NoChange /\ applied' = change.to /\ Raises
        \/ missing = {} /\ change' = [change EXCEPT !.step = "refill"] /\ UNCHANGED applied
        \/ missing # {} /\ change' = [change EXCEPT !.step = "add"] /\ UNCHANGED applied
    BY <1>1 DEF CutShort, StepTo
  <1>7. FeedTypes'
    <2>1. subs' \subseteq Streams
      BY <1>1, <1>2, <1>4, WantedIs DEF FeedInv, FeedTypes
    <2> QED BY <1>2, <1>3, <1>6, <2>1 DEF FeedInv, FeedTypes, NoChange, Profiles
  <1>8. change'.step \in {"idle", "add", "refill"}
    BY <1>6 DEF NoChange, FeedInv, FeedTypes
  <1>9. Booked'
    BY <1>2, <1>3, <1>8 DEF FeedInv, Booked
  <1>10. ServedIsSubscribed'
    <2>1. CASE missing = {}
      BY <1>1, <1>2, <2>1 DEF FeedInv, ServedIsSubscribed
    <2>2. CASE missing # {}
      <3>1. /\ subs' = subs \cup {next}
            /\ server' = IF conn = "up" THEN server \cup {next} ELSE server
        BY <1>1, <2>2
      <3> QED BY <1>2, <3>1 DEF FeedInv, ServedIsSubscribed
    <2> QED BY <2>1, <2>2
  <1>11. ASSUME Calm' PROVE Recent'
    <2>1. Recent
      BY <1>2, <1>11 DEF FeedInv, Calm, FeedSpared
    <2>2. ~Raises
      BY <2>1 DEF Raises, Recent
    <2>3. UNCHANGED applied /\ change'.to = change.to /\ change'.step \in {"add", "refill"}
      BY <1>6, <2>2 DEF FeedInv, FeedTypes
    <2>4. server' = subs' /\ subs' \subseteq Wanted(change.to)
      BY <1>1, <1>2, <1>4, <2>1 DEF Recent
    <2>5. change'.step = "refill" => subs' = Wanted(change.to)
      <3> SUFFICES ASSUME change'.step = "refill" PROVE subs' = Wanted(change.to)
        OBVIOUS
      <3>1. missing = {}
        BY <1>6, <2>2 DEF FeedInv, FeedTypes
      <3> QED BY <1>1, <1>5, <2>4, <3>1
    <2> QED BY <1>2, <1>3, <2>1, <2>3, <2>4, <2>5 DEF Recent, Newest
  <1> QED BY <1>7, <1>9, <1>10, <1>11 DEF FeedInv

LEMMA NewestIsNumber ==
    ASSUME FeedInv, Recent
    PROVE  buffer \in Seq(Int) /\ InRow(buffer) /\ buffer # << >> /\ Newest \in Int
  <1>1. buffer \in Seq(Int) /\ InRow(buffer) /\ buffer # << >>
    BY DEF FeedInv, Booked, Recent
  <1>2. Len(buffer) \in 1 .. Len(buffer)
    BY <1>1
  <1>3. buffer[Len(buffer)] \in Int
    BY <1>1, <1>2, ElementOfSeq
  <1> QED BY <1>1, <1>3 DEF Newest, Last

\* The change without a refill, or with its fetch on the way.
LEMMA ReconcileKeeps ==
    ASSUME FeedInv, Reconcile
    PROVE  FeedInv'
  <1>1. /\ change.step = "refill" /\ change.to \in Profiles
        /\ UNCHANGED <<fplan, now, buffer, stored, misfiled, conn, subs, server, lower>>
    BY DEF Reconcile, bookVars, wireVars, Applied_, FeedInv, FeedTypes
  <1>2. CASE NeedsRefill
    <2>1. /\ snapshot' = [i \in 1 .. now |-> i]
          /\ change' = [change EXCEPT !.step = "fetching"]
          /\ UNCHANGED <<applied, profile, quietFrom>>
      BY <1>2 DEF Reconcile
    <2>2. change'.step = "fetching" /\ change'.to = change.to /\ change.to = "scan"
          /\ profile # "scan"
      BY <1>2, <2>1 DEF NeedsRefill, FeedInv, FeedTypes
    <2>3. FeedTypes'
      BY <1>1, <2>1 DEF FeedInv, FeedTypes
    <2>4. Booked'
      <3>1. now \in Nat /\ now > 0 /\ quietFrom \in Int
        BY DEF FeedInv, FeedTypes
      <3>2. snapshot' \in Seq(Int) /\ Len(snapshot') = now
        BY <2>1, <3>1
      <3>3. snapshot' = [i \in 1 .. Len(snapshot') |-> i]
        BY <2>1, <3>2
      <3> QED BY <1>1, <2>1, <2>2, <3>1, <3>2, <3>3 DEF FeedInv, Booked
    <2>5. ServedIsSubscribed'
      BY <1>1 DEF FeedInv, ServedIsSubscribed
    <2>6. ASSUME Calm' PROVE Recent'
      <3>1. Recent
        BY <1>1, <2>6 DEF FeedInv, Calm, FeedSpared
      <3> QED BY <1>1, <2>1, <2>2, <3>1 DEF Recent, Newest
    <2> QED BY <2>3, <2>4, <2>5, <2>6 DEF FeedInv
  <1>3. CASE ~NeedsRefill
    <2>1. /\ profile' = change.to /\ applied' = change.to /\ change' = NoChange
          /\ quietFrom' = IF profile = "scan" /\ change.to # "scan" THEN now ELSE quietFrom
          /\ UNCHANGED snapshot
      BY <1>3 DEF Reconcile, Applied_
    <2>2. FeedTypes'
      BY <1>1, <2>1 DEF FeedInv, FeedTypes, NoChange, Profiles
    <2>3. Booked' /\ ServedIsSubscribed'
      BY <1>1, <2>1 DEF FeedInv, Booked, ServedIsSubscribed, NoChange
    <2>4. ASSUME Calm' PROVE Recent'
      <3>1. Recent /\ now \in Nat /\ quietFrom \in Int
        BY <1>1, <2>4 DEF FeedInv, FeedTypes, Calm, FeedSpared
      <3>2. Newest \in Int
        BY <3>1, NewestIsNumber
      <3>3. profile' = "scan" => now - Newest <= Max({1, RefillAfter})
        <4> SUFFICES ASSUME change.to = "scan" PROVE now - Newest <= Max({1, RefillAfter})
          BY <2>1
        <4>1. profile # "scan"
          BY <1>1, <3>1 DEF Recent
        <4>2. now - quietFrom <= RefillAfter /\ quietFrom <= Newest
          BY <1>3, <3>1, <4>1, ConstantsAreNumbers DEF NeedsRefill, Recent
        <4> QED BY <3>1, <3>2, <4>2, LargestLag, ConstantsAreNumbers
      <3>4. profile' # "scan" => quietFrom' <= Newest
        BY <1>1, <2>1, <3>1, <3>2 DEF Recent
      <3> QED BY <1>1, <2>1, <3>1, <3>3, <3>4 DEF Recent, Newest, NoChange
    <2> QED BY <2>2, <2>3, <2>4 DEF FeedInv
  <1> QED BY <1>2, <1>3

\* The fetch lands: the buffer is the snapshot.
LEMMA RefilledKeeps ==
    ASSUME FeedInv, Refilled
    PROVE  FeedInv'
  <1>1. /\ change.step = "fetching" /\ change.to \in Profiles
        /\ profile' = change.to /\ applied' = change.to /\ change' = NoChange
        /\ snapshot' = << >>
        /\ UNCHANGED <<fplan, now, misfiled, conn, subs, server, lower, quietFrom>>
    BY DEF Refilled, Applied_, wireVars, NoSnapshot, FeedInv, FeedTypes
  <1>2. /\ snapshot \in Seq(Int) /\ InRow(snapshot) /\ change.to = "scan"
        /\ snapshot # << >> /\ now - Last(snapshot) \in 0 .. 1
    <2>1. /\ snapshot \in Seq(Int) /\ snapshot = [i \in 1 .. Len(snapshot) |-> i]
          /\ change.to = "scan" /\ snapshot # << >> /\ now - Len(snapshot) \in 0 .. 1
      BY <1>1 DEF FeedInv, Booked
    <2>2. \A i \in 1 .. Len(snapshot) : snapshot[i] = i
      BY <2>1
    <2>3. InRow(snapshot)
      <3>1. ASSUME NEW i \in 2 .. Len(snapshot) PROVE snapshot[i - 1] < snapshot[i]
        <4>1. i \in 1 .. Len(snapshot) /\ i - 1 \in 1 .. Len(snapshot)
          BY <2>1
        <4> QED BY <2>2, <4>1
      <3> QED BY <3>1 DEF InRow
    <2>4. Last(snapshot) = Len(snapshot)
      BY <2>1, <2>2 DEF Last
    <2> QED BY <2>1, <2>3, <2>4
  <1>3. PICK b : /\ b = Trimmed(snapshot) /\ b \in Seq(Int) /\ InRow(b) /\ b # << >>
                 /\ Last(b) = Last(snapshot)
    BY <1>2, TrimmedKeeps
  <1>4. \/ buffer' = b /\ stored' = stored \cup ToSet(snapshot)
        \/ FeedFault("fetch_error") /\ UNCHANGED <<buffer, stored>>
    BY <1>3 DEF Refilled
  <1>5. FeedTypes'
    <2>1. ToSet(snapshot) \subseteq Int
      BY <1>2 DEF ToSet
    <2>2. stored' \subseteq Int
      BY <1>4, <2>1 DEF FeedInv, FeedTypes
    <2> QED BY <1>1, <2>2 DEF FeedInv, FeedTypes, NoChange, Profiles
  <1>6. Booked'
    <2>1. snapshot' \in Seq(Int) /\ snapshot' = [i \in 1 .. Len(snapshot') |-> i]
      BY <1>1
    <2> QED BY <1>1, <1>3, <1>4, <2>1 DEF FeedInv, Booked, NoChange
  <1>7. ServedIsSubscribed'
    BY <1>1 DEF FeedInv, ServedIsSubscribed
  <1>8. ASSUME Calm' PROVE Recent'
    <2>1. Recent /\ now \in Nat
      BY <1>1, <1>8 DEF FeedInv, FeedTypes, Calm, FeedSpared
    <2>2. buffer' = b
      BY <1>1, <1>4, <1>8 DEF Calm, FeedSpared, FeedFault
    <2>3. Last(b) \in Int /\ Last(b) <= now /\ now - Last(b) <= 1
      BY <1>2, <1>3, <2>1 DEF Last
    <2>4. now - Last(b) <= Max({1, RefillAfter})
      BY <2>1, <2>3, LargestLag
    <2> QED BY <1>1, <1>2, <1>3, <2>1, <2>2, <2>3, <2>4 DEF Recent, Newest, NoChange
  <1> QED BY <1>5, <1>6, <1>7, <1>8 DEF FeedInv

\* What an update of candle t, now or earlier, leaves of a recent buffer.
LEMMA UpdateKeepsRecent ==
    ASSUME FeedInv, Recent, NEW t \in Int, t <= now
    PROVE  /\ OnKline(buffer, t) # << >> /\ Last(OnKline(buffer, t)) \in Int
           /\ Newest \in Int /\ Newest <= Last(OnKline(buffer, t)) /\ t <= Last(OnKline(buffer, t))
           /\ Last(OnKline(buffer, t)) <= now
  <1>1. buffer \in Seq(Int) /\ InRow(buffer) /\ buffer # << >> /\ Newest \in Int
    BY NewestIsNumber
  <1>2. now \in Nat /\ Newest <= now
    BY DEF FeedInv, FeedTypes, Recent
  <1>3. /\ OnKline(buffer, t) # << >>
        /\ Last(OnKline(buffer, t)) = IF t > Newest THEN t ELSE Newest
    BY <1>1, OnKlineKeeps DEF Newest
  <1> QED BY <1>1, <1>2, <1>3

\* A candle closes: it is the newest if its stream flows.
LEMMA CandleClosesKeeps ==
    ASSUME FeedInv, CandleCloses
    PROVE  FeedInv'
  <1>1. /\ change.step \in {"idle", "fetching"} /\ now' = now + 1 /\ now \in Nat
        /\ snapshot # << >> => Last(snapshot) = now
        /\ buffer' = IF Flows("kline") THEN OnKline(buffer, now) ELSE buffer
        /\ UNCHANGED <<fplan, applied, lower, change, profile, quietFrom, snapshot, stored,
                       misfiled, conn, subs, server>>
    BY DEF CandleCloses, gateVars, agentVars, wireVars, FeedInv, FeedTypes, NoSnapshot
  <1>2. FeedTypes'
    BY <1>1 DEF FeedInv, FeedTypes
  <1>3. Booked'
    <2>1. ~misfiled => buffer' \in Seq(Int) /\ InRow(buffer')
      <3> SUFFICES ASSUME ~misfiled PROVE buffer' \in Seq(Int) /\ InRow(buffer')
        OBVIOUS
      <3>1. buffer \in Seq(Int) /\ InRow(buffer)
        BY DEF FeedInv, Booked
      <3>2. PICK n \in Int : n = now
        BY <1>1
      <3>3. OnKline(buffer, now) \in Seq(Int) /\ InRow(OnKline(buffer, now))
        BY <3>1, <3>2, OnKlineKeeps
      <3> QED BY <1>1, <3>1, <3>3
    <2>2. change.step = "fetching" => now' - Len(snapshot) \in 0 .. 1
      <3> SUFFICES ASSUME change.step = "fetching" PROVE now' - Len(snapshot) \in 0 .. 1
        OBVIOUS
      <3>1. /\ snapshot \in Seq(Int) /\ snapshot = [i \in 1 .. Len(snapshot) |-> i]
            /\ snapshot # << >>
        BY DEF FeedInv, Booked
      <3>2. Len(snapshot) \in Nat /\ Len(snapshot) \in 1 .. Len(snapshot)
        BY <3>1
      <3>3. Last(snapshot) = Len(snapshot)
        BY <3>1, <3>2 DEF Last
      <3> QED BY <1>1, <3>1, <3>2, <3>3
    <2> QED BY <1>1, <2>1, <2>2 DEF FeedInv, Booked
  <1>4. ServedIsSubscribed'
    BY <1>1 DEF FeedInv, ServedIsSubscribed
  <1>5. ASSUME Calm' PROVE Recent'
    <2>1. Recent
      BY <1>1, <1>5 DEF FeedInv, Calm, FeedSpared
    <2>2. PICK l : l = Last(OnKline(buffer, now))
      OBVIOUS
    <2>3. /\ OnKline(buffer, now) # << >> /\ l = now /\ Newest \in Int /\ Newest <= now
      BY <1>1, <2>1, <2>2, UpdateKeepsRecent DEF Recent
    <2>4. buffer' # << >> /\ Newest <= Newest' /\ Newest' \in Int /\ Newest' <= now
      <3>1. Newest' = IF Flows("kline") THEN now ELSE Newest
        BY <1>1, <2>2, <2>3 DEF Newest
      <3> QED BY <1>1, <2>1, <2>3, <3>1 DEF Recent
    <2>5. profile = "scan" => change.step = "idle" /\ now' - Newest' <= 1
      <3> SUFFICES ASSUME profile = "scan"
                   PROVE  change.step = "idle" /\ now' - Newest' <= 1
        OBVIOUS
      <3>1. change.step = "idle"
        BY <1>1 DEF FeedInv, Booked
      <3>2. Flows("kline")
        BY <2>1, <3>1, WantedIs DEF Recent, Flows
      <3>3. Newest' = now
        BY <1>1, <2>2, <2>3, <3>2 DEF Newest
      <3> QED BY <1>1, <3>1, <3>3
    <2>6. profile = "scan" => now' - Newest' <= Max({1, RefillAfter})
      <3>1. PICK n \in Int, m \in Int : n = now' /\ m = Newest'
        BY <1>1, <2>4
      <3>2. n - m <= 1 => n - m <= Max({1, RefillAfter})
        BY LargestLag
      <3> QED BY <2>5, <3>1, <3>2
    <2>7. profile # "scan" => quietFrom <= Newest'
      BY <2>1, <2>3, <2>4 DEF Recent, FeedInv, FeedTypes
    <2>8. Newest' <= now'
      BY <1>1, <2>4
    <2> QED BY <1>1, <2>1, <2>4, <2>5, <2>6, <2>7, <2>8 DEF Recent
  <1> QED BY <1>2, <1>3, <1>4, <1>5 DEF FeedInv

\* An update of the forming candle, or of the one before.
LEMMA CandleMovesKeeps ==
    ASSUME FeedInv, CandleMoves
    PROVE  FeedInv'
  <1>1. PICK t \in Int : t <= now /\ now - 1 <= t /\ buffer' = OnKline(buffer, t)
    BY DEF CandleMoves, FeedInv, FeedTypes
  <1>2. UNCHANGED <<fplan, now, applied, lower, change, profile, quietFrom, snapshot, stored,
                    misfiled, conn, subs, server>>
    BY DEF CandleMoves, gateVars, agentVars, wireVars
  <1>3. FeedTypes' /\ ServedIsSubscribed'
    BY <1>2 DEF FeedInv, FeedTypes, ServedIsSubscribed
  <1>4. Booked'
    <2>1. ~misfiled => buffer' \in Seq(Int) /\ InRow(buffer')
      BY <1>1, OnKlineKeeps DEF FeedInv, Booked
    <2> QED BY <1>2, <2>1 DEF FeedInv, Booked
  <1>5. ASSUME Calm' PROVE Recent'
    <2>1. Recent
      BY <1>2, <1>5 DEF FeedInv, Calm, FeedSpared
    <2>2. buffer' # << >> /\ Newest' \in Int /\ Newest \in Int /\ Newest <= Newest'
          /\ Newest' <= now
      BY <1>1, <2>1, UpdateKeepsRecent DEF Newest
    <2>3. now \in Nat /\ quietFrom \in Int /\ Max({1, RefillAfter}) \in Int
      BY LargestLag DEF FeedInv, FeedTypes
    <2>4. profile = "scan" /\ change.step = "idle" => now - Newest' <= Max({1, RefillAfter})
      BY <2>1, <2>2, <2>3 DEF Recent
    <2>5. profile = "scan" /\ change.step # "idle" => Newest' = now
      BY <2>1, <2>2, <2>3 DEF Recent
    <2>6. profile # "scan" => quietFrom <= Newest'
      BY <2>1, <2>2, <2>3 DEF Recent
    <2> QED BY <1>2, <2>1, <2>2, <2>4, <2>5, <2>6 DEF Recent
  <1> QED BY <1>3, <1>4, <1>5 DEF FeedInv

\* A connection fails, is given up or is not had again: nothing is read of it.
LEMMA LostKeeps ==
    ASSUME FeedInv, ConnectionFails \/ LoseSocket \/ ReopenFails
    PROVE  FeedInv'
  <1>1. UNCHANGED <<fplan, now, applied, lower, change, profile, quietFrom, snapshot, buffer,
                    stored, misfiled, subs>>
    BY DEF ConnectionFails, LoseSocket, ReopenFails, gateVars, agentVars, bookVars
  <1>2. conn' # "up" /\ ~Calm'
    <2>1. CASE ConnectionFails
      BY <2>1 DEF ConnectionFails, FeedFault, Calm, FeedSpared
    <2>2. CASE LoseSocket \/ ReopenFails
      <3>1. conn # "up" /\ conn' # "up"
        BY <2>2 DEF LoseSocket, ReopenFails
      <3>2. ~Calm
        BY <3>1 DEF FeedInv, Recent
      <3> QED BY <1>1, <3>1, <3>2 DEF Calm, FeedSpared
    <2> QED BY <2>1, <2>2
  <1> QED BY <1>1, <1>2 DEF FeedInv, FeedTypes, Booked, ServedIsSubscribed

\* The subscriptions are replayed and the gaps filled.
LEMMA ReopenKeeps ==
    ASSUME FeedInv, Reopen
    PROVE  FeedInv'
  <1>1. PICK failing : /\ buffer' = Filled(buffer, failing)
                       /\ stored' = stored \cup FilledRows(buffer, failing)
                       /\ misfiled' = (misfiled \/ Len(GapsOf(buffer)) > 1)
    BY DEF Reopen
  <1>2. /\ conn = "closed" /\ server' = subs
        /\ UNCHANGED <<fplan, now, applied, lower, change, profile, quietFrom, snapshot, subs>>
    BY DEF Reopen, gateVars, agentVars
  <1>3. FeedTypes'
    <2>1. FilledRows(buffer, failing) \subseteq stored \cup Int
      <3>1. ASSUME NEW p, NEW n PROVE FetchedSince(p, n) \subseteq stored \cup Int
        BY DEF FetchedSince, NewestOf
      <3> QED BY <3>1 DEF FilledRows
    <2>2. stored' \subseteq Int /\ misfiled' \in BOOLEAN
      BY <1>1, <2>1 DEF FeedInv, FeedTypes
    <2> QED BY <1>2, <2>2 DEF FeedInv, FeedTypes
  <1>4. ~misfiled' => buffer' \in Seq(Int) /\ InRow(buffer')
    <2> SUFFICES ASSUME ~misfiled' PROVE buffer' \in Seq(Int) /\ InRow(buffer')
      OBVIOUS
    <2>1. ~misfiled /\ ~(Len(GapsOf(buffer)) > 1)
      BY <1>1
    <2>2. buffer \in Seq(Int) /\ InRow(buffer) /\ stored \subseteq Int
      BY <2>1 DEF FeedInv, FeedTypes, Booked
    <2> QED BY <1>1, <2>1, <2>2, FilledKeeps
  <1>5. Booked' /\ ServedIsSubscribed'
    BY <1>2, <1>4 DEF FeedInv, Booked, ServedIsSubscribed
  <1>6. ~Calm'
    BY <1>2 DEF FeedInv, Recent, Calm, FeedSpared
  <1> QED BY <1>3, <1>5, <1>6 DEF FeedInv

LEMMA FeedStepKeeps == FeedInv /\ [FeedNext]_fvars => FeedInv'
  <1> SUFFICES ASSUME FeedInv, [FeedNext]_fvars PROVE FeedInv'
    OBVIOUS
  <1>1. CASE DemandChanges \/ UNCHANGED fvars
    BY <1>1, FeedStays DEF DemandChanges, fvars
  <1>2. CASE GatePoll \/ DropStreams \/ AddStream
    BY <1>2, GatePollKeeps, DropStreamsKeeps, AddStreamKeeps
  <1>3. CASE Reconcile \/ Refilled
    BY <1>3, ReconcileKeeps, RefilledKeeps
  <1>4. CASE CandleCloses \/ CandleMoves
    BY <1>4, CandleClosesKeeps, CandleMovesKeeps
  <1>5. CASE ConnectionFails \/ LoseSocket \/ ReopenFails \/ Reopen
    BY <1>5, LostKeeps, ReopenKeeps
  <1> QED BY <1>1, <1>2, <1>3, <1>4, <1>5 DEF FeedNext

LEMMA FeedInvIsSound == FeedInv => FeedIsSound
  <1> SUFFICES ASSUME FeedInv PROVE FeedIsSound
    OBVIOUS
  <1>1. BufferIsOrdered
    BY DEF FeedInv, Booked, InRow, BufferIsOrdered
  <1>2. ServedIsSubscribed
    BY DEF FeedInv
  <1>3. ScanBufferIsRecent
    BY DEF FeedInv, Calm, Recent, Newest, ScanBufferIsRecent
  <1> QED BY <1>1, <1>2, <1>3 DEF FeedIsSound

THEOREM ScansReadASoundFeed == FeedSpec => []FeedIsSound
  <1>1. FeedInit => FeedInv
    BY FeedBegins
  <1>2. FeedInv /\ [FeedNext]_fvars => FeedInv'
    BY FeedStepKeeps
  <1>3. FeedInv => FeedIsSound
    BY FeedInvIsSound
  <1> QED BY <1>1, <1>2, <1>3, PTL DEF FeedSpec
=============================================================================
