---------------------------- MODULE SetupSafety ----------------------------
(***************************************************************************)
(* One generate_strategy of the strategy agent (agents/strategy_agent.py): *)
(* the context it computes from an analysis, the setup a language model    *)
(* answers with, the safety validation, and the position size              *)
(* (strategy/position_sizer.py), with the reward and risk arithmetic of    *)
(* strategy/risk_reward_calculator.py.                                     *)
(*                                                                         *)
(* A price is a number of ticks of 0.1 % of the current price, which is    *)
(* 1000; ratios are in tenths, a size is a fraction [n, d].  The model may *)
(* answer anything it can be parsed from: Replies.                         *)
(***************************************************************************)
EXTENDS Integers, Sequences, FiniteSetsExt, SequencesExt

CONSTANTS
    SetupContexts,  \* analyses with their market data
    SetupReplies,   \* what a model may answer, prices relative to the entry
    Balance,
    RiskPercent,    \* default_risk_percent
    MaxLeverage

ASSUME SizingAssumption ==
    /\ Balance \in Nat /\ RiskPercent \in Nat /\ MaxLeverage \in Nat
    /\ \A x \in SetupContexts :
         /\ x.atr \in Nat /\ x.levels \subseteq Int
         /\ x.candles \in Seq([high : Int, low : Int, close : Int])
         /\ x.opps \in Seq([direction : {"LONG", "SHORT"}, count : Nat,
                            confidence : Nat])
         /\ \A b \in x.blocks : {b.low, b.high} \subseteq Int
    /\ SetupReplies \subseteq
         [direction : STRING, entry : Int, stop : Int, claim : Int,
          confidence : Int, tps : Seq([price : Int, pct : Int])]

VARIABLES
    context,    \* the analysis and market data of the request
    proposed,   \* the setup the model answered with
    sized,      \* its position size, once computed
    phase       \* gather, create, validate, size; refused or done

svars == <<context, proposed, sized, phase>>

NoSetup == [direction |-> "none"]
NoSize == [n |-> 0, d |-> 1]
Current == 1000
Absolute(x) == IF x < 0 THEN -x ELSE x

(***************************************************************************)
(* The computed context.                                                   *)
(***************************************************************************)
\* _calculate_atr_from_candles, period times the average true range.
TrueRanges(candles) ==
    [i \in 1 .. Len(candles) - 1 |->
        LET c == candles[i + 1]
            before == candles[i].close IN
        Max({c.high - c.low, Absolute(c.high - before),
             Absolute(c.low - before)})]

AtrFromCandles(candles, period) ==
    IF Len(candles) < period + 1 THEN 0
    ELSE SumFunction(SubSeq(TrueRanges(candles), Len(candles) - period,
                            Len(candles) - 1)) \div period

\* _get_atr: the analysis, else the candles; 0 stands for "unavailable".
Atr(x) == IF x.atr > 0 THEN x.atr ELSE AtrFromCandles(x.candles, 2)

\* The opportunity with most confluences, then most confidence; the first of
\* equals.
BestOpportunity(opps) ==
    LET Better(a, b) == \/ opps[a].count > opps[b].count
                        \/ /\ opps[a].count = opps[b].count
                           /\ opps[a].confidence > opps[b].confidence IN
    opps[CHOOSE i \in DOMAIN opps :
            /\ ~\E j \in DOMAIN opps : Better(j, i)
            /\ \A j \in 1 .. i - 1 : Better(i, j)]

Side(direction) == IF direction = "LONG" THEN "bullish" ELSE "bearish"

\* _extract_entry_zones: the order blocks of the direction and the OTE zone;
\* without any, half a per cent around the price.  It looks for a gap's bounds
\* under another name than the detector writes (smc_detector.py:436), so a
\* gap is never a zone.
EntryZones(x, direction) ==
    LET own == {[low |-> b.low, high |-> b.high, type |-> b.kind] :
                   b \in {c \in x.blocks : c.type = Side(direction)
                                          /\ c.kind = "order_block"}}
        ote == IF x.ote THEN {[low |-> Current - 5, high |-> Current + 5,
                               type |-> "ote"]} ELSE {} IN
    IF own \cup ote # {} THEN own \cup ote
    ELSE {[low |-> Current - 5, high |-> Current + 5, type |-> "default"]}

\* Levels below (above) the price, the five nearest.
FiveNearest(levels) ==
    IF Cardinality(levels) <= 5 THEN levels
    ELSE {v \in levels :
            Cardinality({w \in levels :
                Absolute(w - Current) < Absolute(v - Current)}) < 5}

SupportLevels(x) ==
    FiveNearest({v \in x.levels \cup
        {b.low : b \in {c \in x.blocks : c.type = "bullish"
                                       /\ c.kind = "order_block"}} :
        v < Current})

ResistanceLevels(x) ==
    FiveNearest({v \in x.levels \cup
        {b.high : b \in {c \in x.blocks : c.type = "bearish"
                                        /\ c.kind = "order_block"}} :
        v > Current})

\* _identify_all_confluences: blocks and gaps of the direction, the session,
\* the two trends.
Confluences(x, direction) ==
    {<<b.kind, b.low>> : b \in {c \in x.blocks : c.type = Side(direction)}}
    \cup (IF x.killzone THEN {<<"killzone", 0>>} ELSE {})
    \cup (IF x.htf = Side(direction) THEN {<<"htf", 0>>} ELSE {})
    \cup (IF x.mtf = Side(direction) THEN {<<"mtf", 0>>} ELSE {})

(***************************************************************************)
(* Reward and risk.                                                        *)
(***************************************************************************)
Risk(s) == Absolute(s.entry - s.stop)
Reward(s, dir, tp) ==
    IF dir = "SHORT" THEN s.entry - tp.price ELSE tp.price - s.entry

\* The direction a setup is validated for: its own, else the opportunity's.
DirectionOf(s, x) ==
    IF s.direction # "unset" THEN s.direction
    ELSE BestOpportunity(x.opps).direction

\* The validation's weighted reward and the weight it is divided by.
WeightedReward(s, dir) ==
    SumFunction([i \in DOMAIN s.tps |-> Reward(s, dir, s.tps[i]) * s.tps[i].pct])
TotalWeight(s) == SumFunction([i \in DOMAIN s.tps |-> s.tps[i].pct])

\* The recomputed ratio is at least 1.5, and the claim within 0.3 or a fifth
\* of it; both multiplied by the weight and the risk.
RatioFloor(s, dir) ==
    2 * WeightedReward(s, dir) >= 3 * TotalWeight(s) * Risk(s)

ClaimAgrees(s, dir) ==
    LET unit == TotalWeight(s) * Risk(s)
        reward == WeightedReward(s, dir) IN
    Absolute(s.claim * unit - 10 * reward) <= Max({3 * unit, 2 * reward})

NearZones(s, x) ==
    LET zones == EntryZones(x, BestOpportunity(x.opps).direction) IN
    /\ s.entry >= Min({z.low : z \in zones}) - Current \div 10
    /\ s.entry <= Max({z.high : z \in zones}) + Current \div 10

StopOnItsSide(s, dir) ==
    IF dir = "SHORT" THEN s.stop > s.entry ELSE s.stop < s.entry

\* Mutant: a stop is judged for a long whatever the setup's direction.
SafeLongStop(s, x) ==
    LET dir == DirectionOf(s, x) IN
    /\ NearZones(s, x) /\ s.stop < s.entry
    /\ Len(s.tps) > 0 /\ Risk(s) > 0 /\ TotalWeight(s) > 0
    /\ RatioFloor(s, dir) /\ ClaimAgrees(s, dir)
    /\ s.claim >= 15 /\ s.confidence \in 3 .. 10

\* _validate_setup_safety.
SafeSetup(s, x) ==
    LET dir == DirectionOf(s, x) IN
    /\ NearZones(s, x)
    /\ StopOnItsSide(s, dir)
    /\ Len(s.tps) > 0 /\ Risk(s) > 0 /\ TotalWeight(s) > 0
    /\ RatioFloor(s, dir) /\ ClaimAgrees(s, dir)
    /\ s.claim >= 15
    /\ s.confidence \in 3 .. 10
    /\ \A i \in DOMAIN s.tps : Reward(s, dir, s.tps[i]) > 0
    /\ Risk(s) >= Current \div 1000

(***************************************************************************)
(* Position size.                                                          *)
(***************************************************************************)
Scaled(size, n, d) == [n |-> size.n * n, d |-> size.d * d]
SizeAtMost(a, b) == a.n * b.d <= b.n * a.d

\* _calculate_fixed_risk_size: what loses RiskPercent of the balance at the
\* stop.
FixedRiskSize(risk) == [n |-> Balance * RiskPercent, d |-> 100 * risk]

\* _calculate_volatility_adjusted_size: times ATR over the stop's distance,
\* between a half and two.
VolatilityAdjusted(risk, atr) ==
    CASE atr >= 2 * risk -> Scaled(FixedRiskSize(risk), 2, 1)
      [] 2 * atr <= risk -> Scaled(FixedRiskSize(risk), 1, 2)
      [] OTHER -> Scaled(FixedRiskSize(risk), atr, risk)

MaxSize(entry) == [n |-> Balance * MaxLeverage, d |-> entry]

\* calculate_size caps the size at the leverage limit.
CalculateSize(s, atr) ==
    LET size == VolatilityAdjusted(Risk(s), atr) IN
    IF SizeAtMost(size, MaxSize(s.entry)) THEN size ELSE MaxSize(s.entry)

(***************************************************************************)
(* generate_strategy.                                                      *)
(***************************************************************************)
SetupInit ==
    /\ context \in SetupContexts
    /\ proposed = NoSetup /\ sized = NoSize /\ phase = "gather"

\* No opportunity, no price or no ATR: no setup.
Gather ==
    /\ phase = "gather"
    /\ phase' = IF context.opps = << >> \/ Atr(context) = 0 THEN "refused"
                ELSE "create"
    /\ UNCHANGED <<context, proposed, sized>>

\* The example setup the prompt shows, in the geometry of its direction.
ExampleReply(x) ==
    LET a == Atr(x)
        dir == BestOpportunity(x.opps).direction
        way == IF dir = "LONG" THEN 1 ELSE -1 IN
    [direction |-> dir, entry |-> Current, stop |-> Current - way * a,
     claim |-> 25, confidence |-> 7,
     tps |-> <<[price |-> Current + way * ((3 * a) \div 2), pct |-> 33],
               [price |-> Current + way * ((5 * a) \div 2), pct |-> 33],
               [price |-> Current + way * ((7 * a) \div 2), pct |-> 34]>>]

\* What a model answers that keeps to the guidelines: the stop beyond the nearest
\* level behind the entry, the target at a level ahead of it.
LevelReplies(x) ==
    LET dir == BestOpportunity(x.opps).direction
        behind == IF dir = "LONG" THEN SupportLevels(x) ELSE ResistanceLevels(x)
        ahead == IF dir = "LONG" THEN ResistanceLevels(x) ELSE SupportLevels(x) IN
    {[direction |-> dir, entry |-> Current, stop |-> v, claim |-> 20,
      tps |-> <<[price |-> w, pct |-> 100]>>, confidence |-> 7] :
        v \in behind, w \in ahead}

\* A reply that lacks a field, a number or a target is no setup.
Create ==
    /\ phase = "create"
    /\ \/ phase' = "refused" /\ UNCHANGED proposed
       \/ \E r \in SetupReplies \cup LevelReplies(context)
                      \cup {ExampleReply(context)} :
            /\ r.tps # << >>
            /\ proposed' = r
            /\ phase' = "validate"
    /\ UNCHANGED <<context, sized>>

Validate ==
    /\ phase = "validate"
    /\ phase' = IF SafeSetup(proposed, context) THEN "size" ELSE "refused"
    /\ UNCHANGED <<context, proposed, sized>>

SizePosition ==
    /\ phase = "size"
    /\ sized' = CalculateSize(proposed, Atr(context))
    /\ phase' = "done"
    /\ UNCHANGED <<context, proposed>>

SetupNext == Gather \/ Create \/ Validate \/ SizePosition

SetupSpec == SetupInit /\ [][SetupNext]_svars

(***************************************************************************)
(* RiskRewardCalculator: targets with a fraction of the position each, in  *)
(* per cent.                                                               *)
(***************************************************************************)
Distance(s, i) == Absolute(s.tps[i].price - s.entry)
Part(s, i) == Distance(s, i) * s.tps[i].pct
TotalReward(s) == SumFunction([i \in DOMAIN s.tps |-> Part(s, i)])

\* _optimize_tp_levels, twice the distance of each target: the first between
\* 1.5 and 2 risks, the second between 2.5 and 3.5, the others at least 4.
Optimized(s) ==
    [i \in DOMAIN s.tps |->
        LET d == 2 * Distance(s, i)
            r == Risk(s) IN
        CASE i = 1 -> Max({3 * r, Min({d, 4 * r})})
          [] i = 2 -> Max({5 * r, Min({d, 7 * r})})
          [] OTHER -> Max({8 * r, d})]

\* _run_scenario_analysis, in hundredths.
Scenarios(s) ==
    [full_loss |-> -100 * Risk(s),
     tp1_only |-> Part(s, 1) - Risk(s) * (100 - s.tps[1].pct),
     tp1_tp2 |-> Part(s, 1) + Part(s, 2)
                 - Risk(s) * (100 - s.tps[1].pct - s.tps[2].pct),
     all_tps |-> TotalReward(s)]

BreakEvenWinRate(risk, reward) ==
    IF risk + reward = 0 THEN [n |-> 1, d |-> 1]
    ELSE [n |-> risk, d |-> risk + reward]

\* _calculate_expected_value, times the rate's denominator.
ExpectedValue(risk, reward, rate) ==
    rate.n * reward - (rate.d - rate.n) * risk

(***************************************************************************)
(* Properties.                                                             *)
(***************************************************************************)
ThreeTargets == phase = "done" /\ Len(proposed.tps) >= 3

\* Types of the request's state.
SetupTypeOK ==
    /\ phase \in {"gather", "create", "validate", "size", "refused", "done"}
    /\ sized.d > 0
    /\ phase \in {"validate", "size", "done"} => proposed.tps # << >>
    /\ phase = "done" => sized.n > 0

\* generate_strategy: of a setup it hands on, the stop and every target lie on
\* opposite sides of the entry, whatever direction the model wrote into it.
StopAgainstTargets ==
    phase = "done" =>
        \A i \in DOMAIN proposed.tps :
            (proposed.tps[i].price - proposed.entry)
                * (proposed.stop - proposed.entry) < 0

\* Entry zones and the confluences shown with them come from the same side:
\* a zone taken from a block has a confluence of its own.
ZonesAreBacked ==
    context.opps # << >> =>
        LET dir == BestOpportunity(context.opps).direction IN
        \A z \in EntryZones(context, dir) :
            z.type \notin {"ote", "default"} =>
                \E c \in Confluences(context, dir) : c = <<z.type, z.low>>

\* The prompt's example passes the validation if a small model copies it
\* verbatim, unless the zones are far from the price or the ATR is a single
\* tick: printed in whole ticks, its targets then fall short of the ratio shown.
ExampleIsSafe ==
    phase = "create" =>
        LET example == ExampleReply(context) IN
        (NearZones(example, context) /\ Atr(context) > 1)
            => SafeSetup(example, context)

\* calculate_size: at the stop a setup loses no more than twice RiskPercent of
\* the balance, however far the ATR exceeds the stop's distance.
LossIsBounded ==
    phase = "done" =>
        sized.n * Risk(proposed) * 100 <= 2 * RiskPercent * Balance * sized.d

\* calculate_size: the position's value stays within the leverage limit.
LeverageIsBounded ==
    phase = "done" =>
        sized.n * proposed.entry <= MaxLeverage * Balance * sized.d

\* _optimize_tp_levels keeps the order of the targets ("Maintain logical
\* progression").
OptimizedInOrder ==
    ThreeTargets =>
        LET o == Optimized(proposed) IN
        (\A i \in 1 .. Len(o) - 1 :
            Distance(proposed, i) <= Distance(proposed, i + 1)) =>
                \A i \in 1 .. Len(o) - 1 : o[i] <= o[i + 1]

\* _run_scenario_analysis: each further target filled is worth more, as long
\* as no part is negative (the parser takes any) and they do not add up to more
\* than the position.
ScenariosInOrder ==
    (/\ ThreeTargets /\ TotalWeight(proposed) <= 100
     /\ \A i \in DOMAIN proposed.tps : proposed.tps[i].pct >= 0) =>
        LET o == Scenarios(proposed) IN
        o.full_loss <= o.tp1_only /\ o.tp1_only <= o.tp1_tp2
        /\ o.tp1_tp2 <= o.all_tps

\* At the break-even win rate the expected value is zero.
BreakEvenIsZero ==
    phase = "done" =>
        LET reward == TotalReward(proposed)
            risk == 100 * Risk(proposed) IN
        ExpectedValue(risk, reward, BreakEvenWinRate(risk, reward)) = 0

\* A setup that leaves the agent (strategy_agent.py, position_sizer.py,
\* risk_reward_calculator.py) can neither lose nor lever more than its bounds.
SetupIsSafe ==
    /\ StopAgainstTargets /\ ZonesAreBacked /\ ExampleIsSafe /\ LossIsBounded
    /\ LeverageIsBounded /\ OptimizedInOrder /\ ScenariosInOrder /\ BreakEvenIsZero

=============================================================================
