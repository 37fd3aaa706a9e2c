----------------------------- MODULE MCAgentPlane -----------------------------
(***************************************************************************)
(* The agents and the services they call, for TLC: a behaviour plays one   *)
(* of them (its scene) and the others stay as they begin.  What an agent   *)
(* hears of another is in its own model, so that nothing is lost by not    *)
(* interleaving them.                                                      *)
(***************************************************************************)
EXTENDS AgentPipeline, MarketFeed, LlmChains, TradeMemory, RateLimits, ExecutionDesk

CONSTANT AgentScenes     \* the scenes this run plays

VARIABLE scene

Scene(name) == scene = name

AgentsInit ==
    /\ scene \in AgentScenes
    /\ PipelineInit /\ (~Scene("cycle") => pplan = {})
    /\ FeedInit /\ (~Scene("stream") => fplan = {})
    /\ ChainInit /\ (~Scene("llm") => setup = {})
    /\ MemoryInit /\ (~Scene("memory") => chance = {})
    /\ LimitInit /\ (~Scene("limits") => lplan = "fetch")
    /\ DeskInit /\ (~Scene("execution") => faults = {})

AgentsNext ==
    \/ /\ Scene("cycle") /\ PipelineNext
       /\ UNCHANGED <<scene, fvars, chainVars, yvars, lvars, deskVars>>
    \/ /\ Scene("stream") /\ FeedNext
       /\ UNCHANGED <<scene, pvars, chainVars, yvars, lvars, deskVars>>
    \/ /\ Scene("llm") /\ ChainNext
       /\ UNCHANGED <<scene, pvars, fvars, yvars, lvars, deskVars>>
    \/ /\ Scene("memory") /\ MemoryNext
       /\ UNCHANGED <<scene, pvars, fvars, chainVars, lvars, deskVars>>
    \/ /\ Scene("limits") /\ LimitNext
       /\ UNCHANGED <<scene, pvars, fvars, chainVars, yvars, deskVars>>
    \/ /\ Scene("execution") /\ DeskNext
       /\ UNCHANGED <<scene, pvars, fvars, chainVars, yvars, lvars>>

agentPlaneVars == <<scene, pvars, fvars, chainVars, yvars, lvars, deskVars>>

AgentsSpec == AgentsInit /\ [][AgentsNext]_agentPlaneVars

\* Each scene's own fairness, while it is played.
AgentsFairSpec ==
    /\ AgentsSpec
    /\ \A l \in Lanes :
        /\ WF_pvars(Scene("cycle") /\ Publish(l)) /\ WF_pvars(Scene("cycle") /\ SkipLog(l))
        /\ WF_pvars(Scene("cycle") /\ Subscribe(l)) /\ WF_pvars(Scene("cycle") /\ Hear(l))
        /\ WF_pvars(Scene("cycle") /\ WaitTimesOut(l))
    /\ \A a \in Agents : WF_pvars(Scene("cycle") /\ Serve(a))
    /\ WF_fvars(Scene("stream") /\ GatePoll) /\ WF_fvars(Scene("stream") /\ DropStreams)
    /\ WF_fvars(Scene("stream") /\ AddStream) /\ WF_fvars(Scene("stream") /\ CandleMoves)
    /\ WF_fvars(Scene("stream") /\ Reconcile) /\ WF_fvars(Scene("stream") /\ Refilled)
    /\ WF_fvars(Scene("stream") /\ LoseSocket) /\ WF_fvars(Scene("stream") /\ Reopen)
    /\ WF_chainVars(Scene("llm") /\ MemoryReplies) /\ \A a \in ChainAgents : WF_chainVars(Scene("llm") /\ Work(a))
    /\ WF_yvars(Scene("memory") /\ MemoryServes)
    /\ WF_lvars(Scene("limits") /\ TimePasses) /\ WF_lvars(Scene("limits") /\ Look)
    /\ WF_lvars(Scene("limits") /\ Wake)
    /\ WF_deskVars(Scene("execution") /\ Handle)
    /\ WF_deskVars(Scene("execution") /\ WsEvent)
    /\ WF_deskVars(Scene("execution") /\ PollApply)
    /\ \A t \in Executions : SF_deskVars(Scene("execution") /\ PollRead(<<t, "stop">>))
    /\ WF_deskVars(Scene("execution") /\ (\E o \in Orders : OcoCancel(o)))
    /\ WF_deskVars(Scene("execution") /\ MonitorTick) /\ WF_deskVars(Scene("execution") /\ Expire)
    /\ WF_deskVars(Scene("execution") /\ PendingTick)

\* The types of the scenes' modules.
AgentsTypeOK ==
    /\ Scene("cycle") => PipelineTypeOK
    /\ Scene("stream") => FeedTypeOK
    /\ Scene("llm") => ChainTypeOK
    /\ Scene("memory") => MemoryTypeOK
    /\ Scene("limits") => LimitTypeOK
    /\ Scene("execution") => DeskTypeOK

\* What one agent has begun comes to its end and is told to the next: cycles,
\* their log, model requests, closed trades, waiting fetches, the desk's inbox.
WorkIsFinished ==
    CycleEnds /\ ExecutedIsLogged /\ RequestsEnd /\ ClosesLand /\ FetchGetsTurn /\ InboxIsServed

=============================================================================
