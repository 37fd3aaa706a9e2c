-------------------------- MODULE AnalysisVerdict --------------------------
(***************************************************************************)
(* How the analysis agent turns what its detectors found into a verdict:   *)
(* the market regime picks the primary timeframes                          *)
(* (playground/evaluation), the bias comes from their breaks of structure  *)
(* or moving averages, the bias gives a direction, and                     *)
(* strategy/confluence_scorer.py counts the confluences that support it.   *)
(* The other half is analysis/mtf_analyzer.py, which weighs one trend per  *)
(* timeframe into a bias, an alignment, a timing and a recommendation.     *)
(*                                                                         *)
(* A run is one of two parts.  "evidence": detections come in one by one   *)
(* and the verdict is the operators' value on what has been found so far.  *)
(* "trends": the timeframes are assessed one by one.  Prices, weights of   *)
(* single confluences and wording are left out: only the number of         *)
(* confluences decides the rating.  Scores of the trends are in twentieths *)
(* and confidences in hundredths.                                          *)
(***************************************************************************)
EXTENDS Integers, Sequences, FiniteSets, SequencesExt, FiniteSetsExt

CONSTANTS CandleOrder,      \* the timeframes, in the order of the market data
          VerdictContexts,  \* what one analysis may start from
          TrendReadings,    \* what one timeframe may show the MTF analyzer
          MaxDetections     \* bound: detections in one analysis

VARIABLES part, found, inputs, trends

vvars == <<part, found, inputs, trends>>

Frames == Range(CandleOrder)
Sides2 == {"bullish", "bearish"}
Kinds == {"block", "gap", "bos", "choch", "sweep", "pattern", "ote", "killzone"}

SidesOf(kind) == CASE kind = "ote" -> {"inside"}
                   [] kind = "killzone" -> {"london", "asian"}
                   [] OTHER -> Sides2

Opposing(side) == CASE side = "bullish" -> "bearish"
                    [] side = "bearish" -> "bullish"
                    [] OTHER -> side

----------------------------------------------------------------------------
(* The regime and its timeframes.                                          *)

\* A context holds the readings of each timeframe: how many candles it has,
\* the order of price and moving averages ("up" and "down" include EMA 200,
\* "partly_" do not), ADX, the directional indexes, a volatility spike, and
\* the indicators the scorer reads.
RegimeFrame == IF "1h" \in Frames THEN "1h" ELSE CandleOrder[1]

ClassifyRegime(c) ==
    LET r == c[RegimeFrame] IN
    CASE r.spiking -> "VOLATILE"
      [] ~r.spiking /\ r.adx = "strong" /\ r.di = "plus"
         /\ r.stack \in {"up", "partly_up"} -> "TRENDING_BULLISH"
      [] ~r.spiking /\ r.adx = "strong" /\ r.di = "minus"
         /\ r.stack \in {"down", "partly_down"} -> "TRENDING_BEARISH"
      [] OTHER -> "RANGING"

\* Swing trading looks at the same two timeframes in a trend and in a range.
TrendingFrames == <<"4h", "1h">>
RangingFrames == <<"4h", "1h">>
VolatileFrames == <<"1d", "4h">>

SelectTimeframes(regime) ==
    CASE regime \in {"TRENDING_BULLISH", "TRENDING_BEARISH"} -> TrendingFrames
      [] regime = "RANGING" -> RangingFrames
      [] regime = "VOLATILE" -> VolatileFrames

----------------------------------------------------------------------------
(* Bias and direction.                                                     *)

\* The first break in a timeframe's list, which is its oldest, speaks for it;
\* a change of character only where nothing broke.
FrameBreak(e, tf) == IF e[tf].bos # <<>> THEN Head(e[tf].bos)
                     ELSE IF e[tf].choch # <<>> THEN Head(e[tf].choch) ELSE "none"

DetermineHtfBias(e, c) ==
    LET primary == SelectSeq(SelectTimeframes(ClassifyRegime(c)), LAMBDA tf : tf \in Frames)
        broken == SelectSeq(primary, LAMBDA tf : FrameBreak(e, tf) # "none")
        stacked == SelectSeq(primary, LAMBDA tf : c[tf].stack \in {"up", "down"})
    IN  IF broken # <<>> THEN FrameBreak(e, Head(broken))
        ELSE IF stacked # <<>>
             THEN IF c[Head(stacked)].stack = "up" THEN "bullish" ELSE "bearish"
             ELSE "neutral"

SideOfRegime(regime) == CASE regime = "TRENDING_BULLISH" -> "bullish"
                          [] regime = "TRENDING_BEARISH" -> "bearish"
                          [] OTHER -> "neutral"

\* LONG, SHORT and NEUTRAL are named by the side they trade.
Direction(e, c) == IF DetermineHtfBias(e, c) # "neutral" THEN DetermineHtfBias(e, c)
                   ELSE SideOfRegime(ClassifyRegime(c))

----------------------------------------------------------------------------
(* Flattening: one picture of all timeframes.                              *)

Joined(e, kind) == FlattenSeq([i \in DOMAIN CandleOrder |-> e[CandleOrder[i]][kind]])

\* The breaks are those of the last timeframe that has a break of structure;
\* changes of character alone are never passed on.
FlatBreaks(e) ==
    LET some == SelectSeq(CandleOrder, LAMBDA tf : e[tf].bos # <<>>)
    IN  IF some = <<>> THEN [bos |-> <<>>, choch |-> <<>>]
        ELSE [bos |-> e[Last(some)].bos, choch |-> e[Last(some)].choch]

\* The killzone is that of the last timeframe that is in one.
FlatKillzone(e) == LET all == Joined(e, "killzone")
                   IN  IF all = <<>> THEN "none" ELSE Last(all)

----------------------------------------------------------------------------
(* The confluence scorer: how many confluences each part finds for d.      *)

Times(side, list) == Len(SelectSeq(list, LAMBDA x : x = side))
One(condition) == IF condition THEN 1 ELSE 0

\* Any direction but LONG looks for bearish breaks, a NEUTRAL one too.
ScoreStructureBreaks(e, d) ==
    LET wanted == IF d = "bullish" THEN "bullish" ELSE "bearish"
    IN  One(Times(wanted, FlatBreaks(e).bos) > 0) + One(Times(wanted, FlatBreaks(e).choch) > 0)

ScoreSmc(e, d) == Times(d, Joined(e, "block")) + Times(d, Joined(e, "gap"))
                  + ScoreStructureBreaks(e, d)

\* Killzone and optimal trade entry count for every direction.
ScoreIct(e, d) == One(FlatKillzone(e) = "london") + Times(d, Joined(e, "sweep"))
                  + One(Joined(e, "ote") # <<>>)

\* Indicators of the first primary timeframe, where it was calculated.
ScoreIndicators(c, d) ==
    LET first == Head(SelectTimeframes(ClassifyRegime(c)))
        r == c[IF first \in Frames THEN first ELSE RegimeFrame]
    IN  One(<<d, r.rsi>> \in {<<"bullish", "low">>, <<"bearish", "high">>})
        + One(d # "neutral" /\ r.macd = d) + One(r.surge)

ScorePatterns(e, d) == Times(d, Joined(e, "pattern"))

\* The agent passes the bias as the trend of both the higher and the medium
\* timeframe.
ScoreStructure(bias, d) == IF d # "neutral" /\ bias = d THEN 2 ELSE 0

ScoreCrossTimeframe(e, bias, d) ==
    One(Cardinality({tf \in Frames : Times(d, e[tf].block) > 0}) >= 2)
    + One(d # "neutral" /\ bias = d)

ScoreSetup(e, c) ==
    LET d == Direction(e, c)
        bias == DetermineHtfBias(e, c)
    IN  ScoreSmc(e, d) + ScoreIct(e, d) + ScoreIndicators(c, d) + ScorePatterns(e, d)
        + ScoreStructure(bias, d) + ScoreCrossTimeframe(e, bias, d)

QualityRating(n) == CASE n >= 6 -> "EXCELLENT" [] n \in 4 .. 5 -> "GOOD"
                      [] n = 3 -> "FAIR" [] OTHER -> "POOR"

\* Mutant: the cap of the base confidence is forgotten.
ConfidenceLevelUncapped(n) == CASE n >= 6 -> Max({n * 15, 85}) [] n \in 4 .. 5 -> Max({n * 15, 70})
                                [] n = 3 -> 50 [] OTHER -> Min({n * 15, 40})

ConfidenceLevel(n) ==
    LET base == Min({n * 15, 95})
    IN  CASE n >= 6 -> Max({base, 85}) [] n \in 4 .. 5 -> Max({base, 70})
          [] n = 3 -> Max({base, 50}) [] OTHER -> Min({base, 40})

RecommendedAction(n) == IF n >= 3 THEN "ANALYZE" ELSE "WAIT_FOR_BETTER_SETUP"

----------------------------------------------------------------------------
(* The multi-timeframe analyzer.                                           *)

Hierarchy == [tf \in {"1d", "4h", "1h", "15m", "5m"} |->
                CASE tf = "1d" -> 5 [] tf = "4h" -> 4 [] tf = "1h" -> 3
                  [] tf = "15m" -> 2 [] tf = "5m" -> 1]

Signed(side, weight) == CASE side = "bullish" -> weight [] side = "bearish" -> -weight
                          [] OTHER -> 0

GetEmaTrend(r) ==
    CASE \A i \in 1 .. 3 : r.emas[i] > r.emas[i + 1] -> "bullish"
      [] \A i \in 1 .. 3 : r.emas[i] < r.emas[i + 1] -> "bearish"
      [] OTHER -> "neutral"

\* The slope of the fitted line, in ten-thousandths of the mean close.
GetPriceTrend(r) == CASE r.slope > 10 -> "bullish" [] r.slope < -10 -> "bearish"
                      [] OTHER -> "neutral"

GetMomentum(r) == CASE r.histogram > 0 -> "bullish" [] r.histogram < 0 -> "bearish"
                    [] OTHER -> "neutral"

\* The last ten candles against the ten before them.
GetVolumeTrend(r) == CASE 10 * r.recent > 12 * r.older -> "increasing"
                       [] 10 * r.recent < 8 * r.older -> "decreasing"
                       [] OTHER -> "stable"

GetRsiPosition(r) == CASE r.rsi < 30 -> "oversold" [] r.rsi > 70 -> "overbought"
                       [] r.rsi \in 51 .. 70 -> "bullish" [] r.rsi \in 30 .. 49 -> "bearish"
                       [] OTHER -> "neutral"

VolumePoints(r) == CASE GetVolumeTrend(r) = "increasing" -> 2
                     [] GetVolumeTrend(r) = "decreasing" -> -2 [] OTHER -> 0

RsiPoints(r) == CASE GetRsiPosition(r) = "oversold" -> 3 [] GetRsiPosition(r) = "overbought" -> -3
                  [] OTHER -> Signed(GetRsiPosition(r), 2)

CalculateTrendScore(r) == Signed(GetEmaTrend(r), 6) + Signed(GetPriceTrend(r), 6)
                          + Signed(GetMomentum(r), 4) + VolumePoints(r) + RsiPoints(r)

\* 0.6 must be exceeded.  One sum that is 0.6 on paper is above it in doubles:
\* averages, price and momentum agree, volume and RSI take their tenths away.
Tenths(r) == <<GetEmaTrend(r), GetPriceTrend(r), GetMomentum(r), GetVolumeTrend(r),
               GetRsiPosition(r)>>

Exceeds(r) == \/ CalculateTrendScore(r) > 12
              \/ Tenths(r) = <<"bullish", "bullish", "bullish", "decreasing", "bearish">>

FallsBelow(r) == \/ CalculateTrendScore(r) < -12
                 \/ Tenths(r) = <<"bearish", "bearish", "bearish", "increasing", "bullish">>

\* Fewer than twenty candles say nothing.
AnalyzeTimeframe(r) ==
    IF r.length < 20 THEN [trend |-> "unknown", strength |-> 0]
    ELSE [trend |-> CASE Exceeds(r) -> "bullish" [] FallsBelow(r) -> "bearish"
                      [] OTHER -> "neutral",
          strength |-> LET s == CalculateTrendScore(r) IN IF s < 0 THEN -s ELSE s]

TrendOf(t, tf) == IF tf \in DOMAIN t THEN AnalyzeTimeframe(t[tf]).trend ELSE "neutral"

SideScore(t, side) == MapThenSumSet(
    LAMBDA tf : IF TrendOf(t, tf) = side THEN Hierarchy[tf] * AnalyzeTimeframe(t[tf]).strength
                ELSE 0, DOMAIN t)

HierarchyWeight(t) == MapThenSumSet(LAMBDA tf : Hierarchy[tf], DOMAIN t)

\* A side needs more than half (10 twentieths) of the whole weight.
OverallBias(t) ==
    LET up == SideScore(t, "bullish")
        down == SideScore(t, "bearish")
    IN  CASE up > down /\ up > 10 * HierarchyWeight(t) -> "bullish"
          [] down > up /\ down > 10 * HierarchyWeight(t) -> "bearish"
          [] OTHER -> "neutral"

BiasStrength(t) == Max({SideScore(t, "bullish"), SideScore(t, "bearish")})

CountOf(t, side) == Cardinality({tf \in DOMAIN t : TrendOf(t, tf) = side})

\* Bullish is asked first, and nothing assessed counts as aligned.
Alignment(t) ==
    LET n == Cardinality(DOMAIN t)
        AtLeast(side, tenths) == 10 * CountOf(t, side) >= tenths * n
    IN  CASE AtLeast("bullish", 8) -> <<"strongly", "bullish">>
          [] ~AtLeast("bullish", 8) /\ AtLeast("bearish", 8) -> <<"strongly", "bearish">>
          [] ~AtLeast("bullish", 8) /\ ~AtLeast("bearish", 8) /\ AtLeast("bullish", 6)
               -> <<"moderately", "bullish">>
          [] ~AtLeast("bearish", 8) /\ ~AtLeast("bullish", 6) /\ AtLeast("bearish", 6)
               -> <<"moderately", "bearish">>
          [] OTHER -> <<"conflicting", "neutral">>

EntryTiming(t) ==
    LET bias == OverallBias(t) IN
    CASE bias = "neutral" \/ TrendOf(t, "1d") # bias -> "poor"
      [] bias # "neutral" /\ TrendOf(t, "1d") = bias /\ TrendOf(t, "15m") = bias
           -> IF TrendOf(t, "4h") = bias THEN "good" ELSE "excellent"
      [] bias # "neutral" /\ TrendOf(t, "1d") = bias /\ TrendOf(t, "15m") # bias
           -> IF TrendOf(t, "4h") = bias THEN "fair" ELSE "poor"

\* The alignment is searched for its word, not for its side.
Recommendation(t) ==
    CASE OverallBias(t) = "neutral" -> "WAIT"
      [] OverallBias(t) # "neutral" /\ Alignment(t)[1] = "strongly"
         /\ EntryTiming(t) \in {"excellent", "good"} -> "STRONG"
      [] OverallBias(t) # "neutral" /\ Alignment(t)[1] = "moderately"
         /\ EntryTiming(t) = "excellent" -> "GOOD"
      [] OTHER -> IF BiasStrength(t) > 14 * HierarchyWeight(t) /\ EntryTiming(t) \in {"good", "fair"}
                  THEN "MODERATE" ELSE "WEAK"

----------------------------------------------------------------------------

NoEvidence == [tf \in Frames |-> [kind \in Kinds |-> <<>>]]

VerdictInit == /\ part \in {"evidence", "trends"}
               /\ found = NoEvidence
               /\ inputs \in VerdictContexts
               /\ part = "trends" => inputs = CHOOSE c \in VerdictContexts : TRUE
               /\ trends = <<>>

NumberFound == MapThenSumSet(LAMBDA tf :
                   MapThenSumSet(LAMBDA kind : Len(found[tf][kind]), Kinds), Frames)

\* SMC and ICT run on a timeframe with more than 50 candles, the patterns
\* with more than 30; position and killzone are one value per timeframe.
Analysed(kind, tf) == \/ inputs[tf].candles = "full"
                      \/ inputs[tf].candles = "some" /\ kind = "pattern"

Detect(tf, kind, side) ==
    /\ part = "evidence" /\ NumberFound < MaxDetections
    /\ Analysed(kind, tf)
    /\ kind \in {"ote", "killzone"} => found[tf][kind] = <<>>
    /\ found' = [found EXCEPT ![tf][kind] = Append(@, side)]
    /\ UNCHANGED <<part, inputs, trends>>

\* A timeframe without candles or indicators is not assessed.
Assess(tf, reading) ==
    /\ part = "trends" /\ tf \notin DOMAIN trends
    /\ trends' = [f \in DOMAIN trends \union {tf} |-> IF f = tf THEN reading ELSE trends[f]]
    /\ UNCHANGED <<part, found, inputs>>

VerdictNext == \/ \E tf \in Frames, kind \in Kinds : \E side \in SidesOf(kind) : Detect(tf, kind, side)
               \/ \E tf \in DOMAIN Hierarchy, reading \in TrendReadings : Assess(tf, reading)

VerdictSpec == VerdictInit /\ [][VerdictNext]_vvars

----------------------------------------------------------------------------
(* Properties.                                                             *)

MirrorEvidence(e) == [tf \in Frames |-> [kind \in Kinds |->
    [i \in DOMAIN e[tf][kind] |-> Opposing(e[tf][kind][i])]]]

MirrorStack == [up |-> "down", partly_up |-> "partly_down", mixed |-> "mixed",
                partly_down |-> "partly_up", down |-> "up"]

MirrorContext(c) == [tf \in Frames |-> [c[tf] EXCEPT
    !.stack = MirrorStack[@],
    !.di = CASE @ = "plus" -> "minus" [] @ = "minus" -> "plus" [] OTHER -> @,
    !.rsi = CASE @ = "low" -> "high" [] @ = "high" -> "low" [] OTHER -> @,
    !.macd = Opposing(@)]]

MirrorReading(r) == [r EXCEPT !.emas = [i \in 1 .. 4 |-> 100 - @[i]], !.slope = -@,
    !.histogram = -@, !.recent = r.older, !.older = r.recent, !.rsi = 100 - @]

MirrorTrends(t) == [tf \in DOMAIN t |-> MirrorReading(t[tf])]

\* Type invariant.  Confidence stays within [0, 0.95], the ratings' ranges do not
\* overlap, and analysis is asked for from one half up (ConfluenceScorer).
VerdictTypeOK ==
    /\ part \in {"evidence", "trends"}
    /\ inputs \in VerdictContexts
    /\ DOMAIN trends \subseteq DOMAIN Hierarchy
    /\ NumberFound <= MaxDetections
    /\ part = "evidence" =>
         LET n == ScoreSetup(found, inputs) IN
         /\ ConfidenceLevel(n) \in CASE QualityRating(n) = "EXCELLENT" -> 85 .. 95
                                     [] QualityRating(n) = "GOOD" -> 70 .. 84
                                     [] QualityRating(n) = "FAIR" -> 50 .. 69
                                     [] OTHER -> 0 .. 40
         /\ RecommendedAction(n) = "ANALYZE" <=> ConfidenceLevel(n) >= 50

\* Longs and shorts are judged alike: the mirror image of a market that gives
\* a direction gives the opposite direction and as many confluences, through
\* bias, flattening and all six scorers.
SidesAreEven ==
    part = "evidence" /\ Direction(found, inputs) # "neutral" =>
        /\ Direction(MirrorEvidence(found), MirrorContext(inputs))
             = Opposing(Direction(found, inputs))
        /\ ScoreSetup(MirrorEvidence(found), MirrorContext(inputs)) = ScoreSetup(found, inputs)

\* The multi-timeframe analyzer judges both sides alike as well.
TrendsAreEven == OverallBias(MirrorTrends(trends)) = Opposing(OverallBias(trends))

\* _generate_recommendation looks for the words "strongly_aligned" and
\* "moderately_aligned" only; still, no setup is called strong or good for an
\* alignment of the other side, because the weights of the timeframes and the
\* threshold of the bias leave no such mix.
AlignmentBacksBias == Recommendation(trends) \in {"STRONG", "GOOD"} =>
                          Alignment(trends)[2] = OverallBias(trends)

\* A detection that supports the direction does not turn it and, unless it is a
\* break that replaces another timeframe's, does not lower the count.
AlignedEvidenceHelps ==
    [][\A tf \in Frames, kind \in Kinds \ {"ote", "killzone"} :
          Len(found'[tf][kind]) > Len(found[tf][kind]) =>
          LET d == Direction(found, inputs)
          IN  /\ d # "neutral" /\ Last(found'[tf][kind]) = d
              => /\ Direction(found', inputs') = d
                 /\ kind \notin {"bos", "choch"} =>
                        ScoreSetup(found', inputs') >= ScoreSetup(found, inputs)]_vvars

=============================================================================
