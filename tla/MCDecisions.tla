----------------------------- MODULE MCDecisions -----------------------------
(***************************************************************************)
(* What the agents and the risk tracker decide by calculation, for TLC: a  *)
(* behaviour plays one of the models (its scene), the others stay at one   *)
(* of their initial states.                                                *)
(***************************************************************************)
EXTENDS SetupSafety, MarketStructure, AnalysisVerdict, ChartPatterns, RiskBook,
        ProposalTerms, TLC

CONSTANT DecisionScenes     \* the scenes this run plays

VARIABLE scene

Scene(name) == scene = name

-----------------------------------------------------------------------------
(* SetupSafety: analyses and replies. *)

Blocks == {[kind |-> "order_block", type |-> "bullish", low |-> 940, high |-> 960],
           [kind |-> "order_block", type |-> "bearish", low |-> 1040, high |-> 1060],
           [kind |-> "fvg", type |-> "bullish", low |-> 985, high |-> 990]}
CandleWindows == {<< >>,
            <<[high |-> 1010, low |-> 990, close |-> 1000],
              [high |-> 1040, low |-> 1020, close |-> 1032],
              [high |-> 1010, low |-> 1000, close |-> 1005]>>}
Opportunity(d, n, c) == [direction |-> d, count |-> n, confidence |-> c]

Atrs == {<<0, << >>>>, <<1, << >>>>, <<6, << >>>>, <<30, << >>>>} \cup {<<0, c>> : c \in CandleWindows}

Contexts ==
    {[opps |-> o, blocks |-> b, ote |-> t, levels |-> {970, 990, 1015, 1030},
      killzone |-> t, htf |-> IF t THEN "bullish" ELSE "bearish",
      mtf |-> "bullish", atr |-> a[1], candles |-> a[2]] :
        o \in {<< >>, <<Opportunity("LONG", 3, 6), Opportunity("SHORT", 3, 7)>>,
               <<Opportunity("LONG", 4, 6), Opportunity("SHORT", 3, 8)>>},
        b \in {{}, Blocks} \cup {{x} : x \in Blocks}, t \in BOOLEAN,
        a \in Atrs}

TargetSets(e, sign) ==
    {<< >>,
     <<[price |-> e + sign * 30, pct |-> 100]>>,
     <<[price |-> e + sign * 30, pct |-> 0]>>,
     <<[price |-> e + sign * 2, pct |-> 100]>>,
     <<[price |-> e + sign * 20, pct |-> 40], [price |-> e + sign * 40, pct |-> 80],
       [price |-> e + sign * 20, pct |-> -20]>>,
     <<[price |-> e + sign * 20, pct |-> 33], [price |-> e + sign * 22, pct |-> 33],
       [price |-> e + sign * 24, pct |-> 34]>>,
     <<[price |-> e - sign * 5, pct |-> 20], [price |-> e + sign * 60, pct |-> 80]>>,
     <<[price |-> e + sign * 20, pct |-> 33], [price |-> e + sign * 40, pct |-> 33],
       [price |-> e + sign * 50, pct |-> 34]>>,
     <<[price |-> e + sign * 40, pct |-> 60], [price |-> e + sign * 20, pct |-> 60],
       [price |-> e + sign * 90, pct |-> 60]>>}

Answers ==
    UNION {{[direction |-> d, entry |-> e, stop |-> e - sign * r, tps |-> t,
             claim |-> c[1], confidence |-> c[2]] :
               d \in {"LONG", "SHORT", "unset"}, r \in {-10, 0, 1, 10, 20},
               c \in {<<14, 7>>, <<20, 7>>, <<36, 7>>, <<20, 2>>},
               t \in TargetSets(e, sign)} :
           e \in {800, 995}, sign \in {1, -1}}

-----------------------------------------------------------------------------
(* MarketStructure: candles. *)

\* Six candles: a red block on volume, the green one above it, a quiet one,
\* a green block on volume, the fall below it, and one that spans them all.
Bar(o, h, l, c, v) == [open |-> o, high |-> h, low |-> l, close |-> c,
                       volume |-> v]

BarShapes ==
    {Bar(1010, 1011, 1000, 1001, 4), Bar(1012, 1022, 1012, 1020, 1),
     Bar(1010, 1012, 1008, 1010, 1), Bar(1000, 1011, 1000, 1010, 4),
     Bar(990, 992, 980, 982, 1), Bar(1000, 1022, 978, 1005, 2)}

-----------------------------------------------------------------------------
(* AnalysisVerdict: what an analysis is given. *)

Order == <<"1h", "4h">>

Reading(stack, adx, di, rsi, macd) ==
    [candles |-> "full", stack |-> stack, adx |-> adx, di |-> di, spiking |-> FALSE,
     rsi |-> rsi, macd |-> macd, surge |-> FALSE]

Flat == Reading("mixed", "weak", "even", "mid", "neutral")

\* A quiet market, one with short history, a volatile one, trends of regime
\* and averages that agree or not, and one with extreme indicators.
Situations ==
    { [tf \in {"1h", "4h"} |-> Flat],
      [tf \in {"1h", "4h"} |-> [Flat EXCEPT !.candles = IF tf = "4h" THEN "some" ELSE "full",
                                            !.surge = TRUE]],
      [tf \in {"1h", "4h"} |-> [Flat EXCEPT !.spiking = TRUE]],
      [tf \in {"1h", "4h"} |-> Reading("partly_up", "strong", "plus", "mid", "bullish")],
      [tf \in {"1h", "4h"} |-> IF tf = "1h" THEN Reading("down", "strong", "minus", "high", "bearish")
                               ELSE Reading("up", "weak", "plus", "low", "bullish")] }

Up == <<40, 30, 20, 10>>
Down == <<60, 70, 80, 90>>

Shown(emas, slope, histogram, recent, older, rsi) ==
    [length |-> 20, emas |-> emas, slope |-> slope, histogram |-> histogram,
     recent |-> recent, older |-> older, rsi |-> rsi]

\* Both ends of either trend, sums on the threshold, and too few candles.
Shows == { Shown(Up, 11, 1, 20, 10, 29),
           Shown(Up, 11, 1, 10, 20, 49),
           Shown(Up, 11, 0, 10, 10, 50),
           Shown(Down, -11, -1, 10, 20, 71),
           Shown(Down, -11, -1, 20, 10, 51),
           [Shown(Up, 11, 1, 20, 10, 51) EXCEPT !.length = 19] }

-----------------------------------------------------------------------------
(* ChartPatterns: candles. *)

Candle(high, low, close) == [high |-> high, low |-> low, close |-> close]

\* Two neighbours within 2 %, a fall of more than 5 % from their middle in
\* either direction, one wide candle and one without a range.
Candles4 == {Candle(107, 105, 106), Candle(105, 103, 104), Candle(101, 95, 100),
             Candle(94, 94, 94)}

-----------------------------------------------------------------------------
(* ProposalTerms: setups and preferences. *)

Offered(direction, stop, targets) ==
    [direction |-> direction, entry |-> 1000, stop |-> stop, targets |-> targets,
     confidence |-> 7]

\* Near and far stops and targets on either side, one target too near for any
\* ratio once the price has moved, and setups that are refused.
Offers == {Offered("LONG", 994, <<1012>>), Offered("LONG", 960, <<1100>>),
           Offered("LONG", 990, <<1004, 1040>>), Offered("SHORT", 1010, <<984, 960>>),
           Offered("SHORT", 1006, <<0, 985>>), Offered("LONG", 1000, <<1020>>),
           Offered("LONG", 990, << >>)}

Personas == {[capital |-> 1000, riskPct |-> 1, leverage |-> 3, minRr |-> 15, minConfidence |-> 6],
             [capital |-> 1000, riskPct |-> 5, leverage |-> 0, minRr |-> 10, minConfidence |-> 8],
             [capital |-> 2000, riskPct |-> 2, leverage |-> 2, minRr |-> 20, minConfidence |-> 6]}

-----------------------------------------------------------------------------
(* One of the models at a time. *)

DecisionInit ==
    /\ scene \in DecisionScenes
    /\ SetupInit /\ (~Scene("setup") => context = CHOOSE x \in SetupContexts : x.opps = << >>)
    /\ StructureInit
    /\ VerdictInit
    /\ (~Scene("verdict") => /\ part = "trends"
                             /\ inputs = CHOOSE x \in VerdictContexts : TRUE)
    /\ ChartInit
    /\ RiskInit /\ (~Scene("risk") => riskPlan = {})
    /\ TermsInit
    /\ (~Scene("terms") => floor = 0 /\ priced = 0 /\ persona = CHOOSE p \in TermPrefs : TRUE)

DecisionNext ==
    \/ Scene("setup") /\ SetupNext /\ UNCHANGED <<scene, mvars, vvars, cvars, riskVars, termVars>>
    \/ Scene("structure") /\ StructureNext /\ UNCHANGED <<scene, svars, vvars, cvars, riskVars, termVars>>
    \/ Scene("verdict") /\ VerdictNext /\ UNCHANGED <<scene, svars, mvars, cvars, riskVars, termVars>>
    \/ Scene("chart") /\ ChartNext /\ UNCHANGED <<scene, svars, mvars, vvars, riskVars, termVars>>
    \/ Scene("risk") /\ RiskNext /\ UNCHANGED <<scene, svars, mvars, vvars, cvars, termVars>>
    \/ Scene("terms") /\ TermsNext /\ UNCHANGED <<scene, svars, mvars, vvars, cvars, riskVars>>

\* The sessions of an account are alike.
EvaluatorSymmetry == Permutations(Evaluators)

decisionVars == <<scene, svars, mvars, vvars, cvars, riskVars, termVars>>

DecisionSpec == DecisionInit /\ [][DecisionNext]_decisionVars

\* The types of the scenes' modules.
DecisionsTypeOK ==
    /\ Scene("setup") => SetupTypeOK
    /\ Scene("structure") => StructureTypeOK
    /\ Scene("verdict") => VerdictTypeOK
    /\ Scene("chart") => ChartTypeOK
    /\ Scene("risk") => RiskTypeOK
    /\ Scene("terms") => TermsTypeOK

\* What the readings of a chart may be relied on for: structure that stays, flags
\* and reversals that point the right way, and a verdict that favours no side.
ReadingsHold ==
    /\ [](Scene("structure") => BreaksAreConfirmed /\ OteIsPremium /\ ExcellentIsSwept)
    /\ BreaksAreStable /\ FillIsFinal
    /\ [](Scene("chart") => OneFlagAtMost /\ FlagsKeepTheMove /\ ReversalsPointAway)
    /\ [](Scene("verdict") => SidesAreEven /\ TrendsAreEven /\ AlignmentBacksBias)
    /\ AlignedEvidenceHelps

=============================================================================
