---------------------------- MODULE MCTenantPlane ----------------------------
(***************************************************************************)
(* The parts of the backend that serve one tenant, for TLC: a behaviour    *)
(* plays one of them (its scene) and the others stay as they begin.  What  *)
(* two of them share, each models from its own side, so that nothing is    *)
(* lost by not interleaving them.  The paper desk is an instance: here it  *)
(* runs without faults, its own run has them.                              *)
(***************************************************************************)
EXTENDS DeskRecovery, TenantRoutes, ScanWorkers, ApiFeed, EngineSwitch, PaperAccount

CONSTANT Scenes     \* the scenes this run plays

VARIABLES scene,
          price, dbooked, bracket, leg, position, total_trades, desk, tick, monitor, overdue, deaths

paperVars == <<price, dbooked, bracket, leg, position, total_trades, desk, tick, monitor, overdue,
               deaths>>

\* Two trades with two targets each, one of which the owner may cancel.
Paper == INSTANCE PaperDesk WITH
    MaxTrades <- 2, Levels <- 1..4, Size <- 2, Targets <- 2, TakeSize <- <<1, 1>>, Dust <- 0,
    MaxDeaths <- 0, DeskPlans <- {{"cancel_target"}}, booked <- dbooked,
    plan <- {"cancel_target"}

CapOfTier == [free |-> 1, starter |-> 3]

Scene(name) == scene = name

PlaneInit ==
    /\ scene \in Scenes
    /\ RecoveryInit /\ (~Scene("recovery") => faults = {})
    /\ RoutesInit /\ (~Scene("routes") => rplan = {} /\ tier = "free" /\ keys = {})
    /\ WorkersInit /\ (~Scene("workers") => wplan = {})
    /\ ApiInit /\ (~Scene("api") => aplan = {"channels"})
    /\ Init /\ (~Scene("switch") => plan = {})
    /\ AccountInit /\ (~Scene("account") => holding = Flat)
    /\ Paper!Init /\ (~Scene("paper") => price = 1)

PlaneNext ==
    \/ /\ Scene("recovery") /\ RecoveryNext
       /\ UNCHANGED <<scene, accountState, rvars, wvars, avars, vars, paperVars>>
    \/ /\ Scene("routes") /\ RoutesNext
       /\ UNCHANGED <<scene, accountState, recoveryVars, wvars, avars, vars, paperVars>>
    \/ /\ Scene("workers") /\ WorkersNext
       /\ UNCHANGED <<scene, accountState, recoveryVars, rvars, avars, vars, paperVars>>
    \/ /\ Scene("api") /\ ApiNext
       /\ UNCHANGED <<scene, accountState, recoveryVars, rvars, wvars, vars, paperVars>>
    \/ /\ Scene("switch") /\ Next
       /\ UNCHANGED <<scene, accountState, recoveryVars, rvars, wvars, avars, paperVars>>
    \/ /\ Scene("paper") /\ Paper!Next
       /\ UNCHANGED <<scene, accountState, recoveryVars, rvars, wvars, avars, vars>>
    \/ /\ Scene("account") /\ AccountNext
       /\ UNCHANGED <<scene, recoveryVars, rvars, wvars, avars, vars, paperVars>>

planeVars == <<scene, accountState, recoveryVars, rvars, wvars, avars, vars, paperVars>>

PlaneSpec == PlaneInit /\ [][PlaneNext]_planeVars

\* Each scene's own fairness, while it is played.
PlaneFairSpec ==
    /\ PlaneSpec
    /\ WF_recoveryVars(Scene("recovery") /\ (Boot \/ SubscribeCommands \/ SubscribeLedger))
    /\ \A g \in Builds : WF_recoveryVars(Scene("recovery") /\ Pass(g))
    /\ \A c \in Calls : WF_rvars(Scene("routes") /\ CallGoesOn(c))
    /\ WF_rvars(Scene("routes") /\ TakeCommand) /\ WF_rvars(Scene("routes") /\ HandleBooking)
    /\ WF_rvars(Scene("routes") /\ HandleClose)
    /\ WF_rvars(Scene("routes") /\ FanOutBooks)
    /\ WF_wvars(Scene("workers") /\ Discover) /\ WF_wvars(Scene("workers") /\ AnalysisStart)
    /\ WF_wvars(Scene("workers") /\ AnalysisEnd)
    /\ WF_wvars(Scene("workers") /\ TimePasses) /\ WF_wvars(Scene("workers") /\ Drain)
    /\ WF_wvars(Scene("workers") /\ Store)
    /\ \A s \in Scans :
        /\ WF_wvars(Scene("workers") /\ TickOnce(s))
        /\ WF_wvars(Scene("workers") /\ (Gate(s) \/ StalePlane(s) \/ ReadContext(s)
                    \/ Synthesize(s) \/ PickHighest(s) \/ Propose(s)
                    \/ AnalyzeRaises(s) \/ Settle(s)))
    /\ WF_avars(Scene("api") /\ ReleaseUpstream) /\ WF_avars(Scene("api") /\ StopperWakes)
    /\ WF_avars(Scene("api") /\ StopFeed)
    /\ WF_avars(Scene("api") /\ FeedStops)
    /\ \A c \in Sockets :
          /\ WF_avars(Scene("api") /\ ReadPositions(c)) /\ WF_avars(Scene("api") /\ Greet(c))
          /\ WF_avars(Scene("api") /\ FeedStarts(c))
          /\ SF_avars(Scene("api") /\ AcquireMarketFeed(c))
          /\ WF_avars(Scene("api") /\ Opened(c)) /\ WF_avars(Scene("api") /\ AllOpened(c))
          /\ WF_avars(Scene("api") /\ (\E x \in Channels : EnsureUpstream(c, x)))
    /\ WF_vars(Scene("switch") /\ Guard)
    /\ WF_vars(Scene("switch") /\ Tick)
    /\ WF_vars(Scene("switch") /\ (TurnOnClears \/ TurnOffMarks))

-----------------------------------------------------------------------------

\* The types of the scenes' modules.
TenantTypeOK ==
    /\ RecoveryTypeOK /\ RoutesTypeOK /\ WorkersTypeOK /\ ApiTypeOK /\ TypeOK
    /\ AccountTypeOK /\ Paper!TypeOK

\* A leg of a paper trade fills against the position it was placed for, and never
\* for more than there is (paper_trading_engine.py).
LegsFillTheirOwn == Paper!FillsOwnPosition /\ Paper!NoPhantomFill

\* Nobody waits for good on what the backend does by itself: a restored desk, an
\* answer, a worker, an analysis, and the end of a scan that can go on no more.
NobodyWaitsForGood ==
    PendingIsFreed /\ CallsAreAnswered /\ ScanIsServed /\ ScanGetsAnalysis /\ CapacityLossEnds

=============================================================================
