--------------------------- MODULE ChartPatterns ---------------------------
(***************************************************************************)
(* analysis/pattern_recognition.py: what PatternRecognizer.analyze finds   *)
(* in a timeframe's candles as they come in one by one.  A candle has a    *)
(* high, a low and a close, all integers; percentages are compared by      *)
(* cross-multiplication and the fitted lines are exact least squares, as   *)
(* numpy.polyfit computes them up to rounding.  The recognizer keeps no    *)
(* memory: every call reads the whole window again.                        *)
(***************************************************************************)
EXTENDS Integers, Sequences, FiniteSets, SequencesExt, FiniteSetsExt

CONSTANTS ChartCandles,      \* the candles that may come
          MaxChart,          \* bound: candles in the window
          MinChart,          \* fewest candles analyzed (30)
          PeakOrder,         \* neighbours an extremum is compared with (5)
          TriangleOrder,     \* the same for triangles (3)
          FlagLookback,      \* candles a flag is looked for in (30)
          FlagTail,          \* candles a consolidation needs (5)
          ChannelLookback,   \* candles of triangles and channels (50)
          PatternLimit       \* patterns reported (10)

VARIABLE chart

cvars == <<chart>>

Highs(b) == [i \in DOMAIN b |-> b[i].high]
Lows(b) == [i \in DOMAIN b |-> b[i].low]
Negated(v) == [i \in DOMAIN v |-> -v[i]]
Newest(b, n) == SubSeq(b, Len(b) - n + 1, Len(b))
Magnitude(x) == IF x < 0 THEN -x ELSE x

----------------------------------------------------------------------------
(* Extrema and lines.                                                      *)

\* argrelextrema clips at the edges: a candle next to the edge is compared
\* with the edge only, and the edge itself never is an extremum.
Extrema(v, order) ==
    LET n == Len(v)
        Beats(i, j) == v[i] > v[Max({1, Min({n, j})})]
    IN  SetToSortSeq({i \in 1 .. n : \A k \in 1 .. order : Beats(i, i - k) /\ Beats(i, i + k)},
                     LAMBDA x, y : x < y)

PriceSum(f(_), s) == MapThenSumSet(f, DOMAIN s)

\* The slope of the line through <<xs[i], ys[i]>> as numerator and positive
\* denominator.
Slope(xs, ys) ==
    LET n == Len(xs)
        X == PriceSum(LAMBDA i : xs[i], xs)
        Y == PriceSum(LAMBDA i : ys[i], xs)
        XY == PriceSum(LAMBDA i : xs[i] * ys[i], xs)
        XX == PriceSum(LAMBDA i : xs[i] * xs[i], xs)
    IN  [num |-> n * XY - X * Y, den |-> n * XX - X * X]

Steeper(s, halves) == 2 * s.num > halves * s.den
Gentle(s) == 2 * Magnitude(s.num) < s.den

----------------------------------------------------------------------------
(* Reversals.  Tops are found in the highs; bottoms are the tops of the    *)
(* negated lows.                                                           *)

\* A pattern's confidence is num/den; its levels are doubled.
Pattern(name, direction, conf, first, last, level, target, invalidation) ==
    [name |-> name, direction |-> direction, conf |-> conf, first |-> first, last |-> last,
     level |-> level, target |-> target, invalidation |-> invalidation]

LowestIn(b, i, j) == Min({b[k].low : k \in i .. j})
HighestIn(b, i, j) == Max({b[k].high : k \in i .. j})

\* Shoulders within 3 % of the left one, the head beyond both.
HeadAndShoulders(b) ==
    LET p == Extrema(Highs(b), PeakOrder)
        t == Extrema(Negated(Lows(b)), PeakOrder)
        Tops == {i \in 1 .. Len(p) - 2 :
                   LET l == b[p[i]].high
                       r == b[p[i + 2]].high
                   IN  b[p[i + 1]].high > l /\ b[p[i + 1]].high > r /\ 100 * Magnitude(l - r) < 3 * l}
        Bottoms == {i \in 1 .. Len(t) - 2 :
                      LET l == b[t[i]].low
                          r == b[t[i + 2]].low
                      IN  b[t[i + 1]].low < l /\ b[t[i + 1]].low < r /\ 100 * Magnitude(l - r) < 3 * l}
        Top(i) == LET neck == LowestIn(b, p[i], p[i + 2])
                      head == b[p[i + 1]].high
                      l == b[p[i]].high
                  IN  Pattern("head_and_shoulders", "bearish",
                              <<10 * l - 3 * Magnitude(l - b[p[i + 2]].high), 10 * l>>,
                              p[i], p[i + 2], 2 * neck, 2 * (neck - (head - neck)), 2 * head)
        Bottom(i) == LET neck == HighestIn(b, t[i], t[i + 2])
                         head == b[t[i + 1]].low
                         l == b[t[i]].low
                     IN  Pattern("inverse_head_and_shoulders", "bullish",
                                 <<10 * l - 3 * Magnitude(l - b[t[i + 2]].low), 10 * l>>,
                                 t[i], t[i + 2], 2 * neck, 2 * (neck + (neck - head)), 2 * head)
    IN  {Top(i) : i \in Tops} \union {Bottom(i) : i \in Bottoms}

\* Two neighbouring peaks within 2 % of the first.
DoubleTopBottom(b) ==
    LET p == Extrema(Highs(b), PeakOrder)
        t == Extrema(Negated(Lows(b)), PeakOrder)
        Near(x, y) == 100 * Magnitude(x - y) < 2 * x
        Conf(x, y) == <<4 * x - Magnitude(x - y), 4 * x>>
    IN  {LET trough == LowestIn(b, p[i], p[i + 1])
             peak == b[p[i]].high
             next == b[p[i + 1]].high
         IN  Pattern("double_top", "bearish", Conf(peak, next), p[i], p[i + 1], 2 * trough,
                     2 * (trough - (peak - trough)), 2 * Max({peak, next}))
         : i \in {k \in 1 .. Len(p) - 1 : Near(b[p[k]].high, b[p[k + 1]].high)}}
        \union
        {LET peak == HighestIn(b, t[i], t[i + 1])
             trough == b[t[i]].low
             next == b[t[i + 1]].low
         IN  Pattern("double_bottom", "bullish", Conf(trough, next), t[i], t[i + 1], 2 * peak,
                     2 * (peak + (peak - trough)), 2 * Min({trough, next}))
         : i \in {k \in 1 .. Len(t) - 1 : Near(b[t[k]].low, b[t[k + 1]].low)}}

----------------------------------------------------------------------------
(* Continuations.                                                          *)

\* The candles from i on stay within 3 % of their mean close.
Consolidates(b, i) ==
    LET n == Len(b) IN
    100 * (HighestIn(b, i, n) - LowestIn(b, i, n)) * (n - i + 1)
      < 3 * MapThenSumSet(LAMBDA k : b[k].close, i .. n)

\* A move of more than 5 % from the first close of the lookback to its
\* extreme, then a consolidation of more than FlagTail candles.
Flags(b) ==
    LET r == Newest(b, FlagLookback)
        n == Len(r)
        start == r[1].close
        top == HighestIn(r, 1, n)
        bottom == LowestIn(r, 1, n)
        up == Min({i \in 1 .. n : r[i].high = top})
        down == Min({i \in 1 .. n : r[i].low = bottom})
        bull == Pattern("bull_flag", "bullish", <<70, 100>>, 1, n, 2 * top,
                        2 * top + (top - start), 2 * LowestIn(r, up, n))
        bear == Pattern("bear_flag", "bearish", <<70, 100>>, 1, n, 2 * bottom,
                        2 * bottom - (start - bottom), 2 * HighestIn(r, down, n))
    IN  IF Len(b) < FlagLookback THEN {}
        ELSE {f \in {bull, bear} :
                IF f = bull THEN 100 * (top - start) > 5 * start
                                 /\ up - 1 < n - FlagTail /\ Consolidates(r, up)
                ELSE 100 * (start - bottom) > 5 * start
                     /\ down - 1 < n - FlagTail /\ Consolidates(r, down)}

\* The slopes are in price units per candle, whatever the price.  The levels
\* of a triangle are left out.
Triangles(b) ==
    LET r == Newest(b, ChannelLookback)
        hs == Extrema(Highs(r), TriangleOrder)
        ls == Extrema(Negated(Lows(r)), TriangleOrder)
        upper == Slope(hs, [i \in DOMAIN hs |-> r[hs[i]].high])
        lower == Slope(ls, [i \in DOMAIN ls |-> r[ls[i]].low])
        Flipped(s) == [s EXCEPT !.num = -@]
        Shape(name, direction, percent) ==
            Pattern(name, direction, <<percent, 100>>, Len(b) - ChannelLookback + 1, Len(b), 0, 0, 0)
    IN  IF Len(b) < ChannelLookback \/ Len(hs) < 3 \/ Len(ls) < 3 THEN {}
        ELSE CASE Gentle(upper) /\ Steeper(lower, 2) -> {Shape("ascending", "bullish", 75)}
               [] Steeper(Flipped(upper), 2) /\ Gentle(lower) -> {Shape("descending", "bearish", 75)}
               [] Steeper(Flipped(upper), 1) /\ Steeper(lower, 1)
                    -> {Shape("symmetrical", "neutral", 65)}
               [] OTHER -> {}

\* Width of the channel at the last candle, from the fits of highs and lows,
\* times a positive number; the channel exists where the slopes differ by
\* less than one.
Channel(b) ==
    LET r == Newest(b, ChannelLookback)
        n == Len(r)
        xs == [i \in 1 .. n |-> i]
        s == Slope(xs, [i \in 1 .. n |-> r[i].high - r[i].low])
        total == MapThenSumSet(LAMBDA i : r[i].high - r[i].low, 1 .. n)
        upper == Slope(xs, Highs(r))
    IN  IF Len(b) < ChannelLookback \/ Magnitude(s.num) >= s.den THEN [found |-> FALSE]
        ELSE [found |-> TRUE,
              direction |-> CASE Steeper(upper, 1) -> "ascending"
                              [] Steeper([upper EXCEPT !.num = -@], 1) -> "descending"
                              [] OTHER -> "horizontal",
              width |-> 2 * total * s.den + s.num * n * (n - 1)]

----------------------------------------------------------------------------

Detected(b) == IF Len(b) < MinChart THEN {}
               ELSE HeadAndShoulders(b) \union DoubleTopBottom(b) \union Flags(b) \union Triangles(b)

\* Sorted by confidence; equals stay in the order the detectors append them.
Priority(p) == CHOOSE i \in 1 .. 5 : <<"head_and_shoulders", "inverse_head_and_shoulders",
                                   "double_top", "double_bottom", p.name>>[i] = p.name

Before(p, q) == LET x == p.conf[1] * q.conf[2]
                    y == q.conf[1] * p.conf[2]
                IN  \/ x > y
                    \/ x = y /\ Priority(p) < Priority(q)
                    \/ x = y /\ Priority(p) = Priority(q) /\ p.last < q.last

Reported(b) == SubSeq(SetToSortSeq(Detected(b), Before), 1,
                      Min({PatternLimit, Cardinality(Detected(b))}))

ChartInit == chart = <<>>

NewCandle(c) == Len(chart) < MaxChart /\ chart' = Append(chart, c)

ChartNext == \E c \in ChartCandles : NewCandle(c)

ChartSpec == ChartInit /\ [][ChartNext]_cvars

----------------------------------------------------------------------------
(* Properties.                                                             *)

\* As many patterns as asked for, each confident enough, the surest first.
SurestFirst(r) ==
    /\ Len(r) <= PatternLimit
    /\ \A i \in DOMAIN r : 100 * r[i].conf[1] \in 65 * r[i].conf[2] .. 100 * r[i].conf[2]
    /\ \A i \in 1 .. Len(r) - 1 : r[i].conf[1] * r[i + 1].conf[2] >= r[i + 1].conf[1] * r[i].conf[2]

\* Type invariant; the reported confidences fall and stay within [0.65, 1].
ChartTypeOK ==
    /\ chart \in Seq(ChartCandles)
    /\ Channel(chart).found => Channel(chart).direction \in {"ascending", "descending", "horizontal"}
    /\ SurestFirst(Reported(chart))

\* The two flags are detected independently, each from the first close of the
\* same window; yet a window never holds both, for one consolidation cannot
\* contain both extremes.
OneFlagAtMost == Cardinality(Flags(chart)) <= 1

\* A flag keeps part of its pole: it is given up before price is back where
\* the move began, although the two percentages are of different bases.
FlagsKeepTheMove ==
    \A f \in Flags(chart) :
        LET start == 2 * Newest(chart, FlagLookback)[1].close
        IN  IF f.direction = "bullish" THEN f.invalidation > start ELSE f.invalidation < start

\* A reversal's target lies beyond its neckline, seen from where it is
\* invalidated.
ReversalsPointAway ==
    \A p \in HeadAndShoulders(chart) \union DoubleTopBottom(chart) :
        IF p.direction = "bearish" THEN p.target <= p.level /\ p.level <= p.invalidation
        ELSE p.target >= p.level /\ p.level >= p.invalidation

=============================================================================
