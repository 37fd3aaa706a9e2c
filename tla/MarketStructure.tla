--------------------------- MODULE MarketStructure ---------------------------
(***************************************************************************)
(* What the two detectors read off a candle series                         *)
(* (analysis/smc_detector.py, analysis/ict_detector.py), as the series     *)
(* grows one closed candle at a time.                                      *)
(*                                                                         *)
(* A price is a number of ticks of 0.1 % of a price near 1000; strengths   *)
(* and scores are in thousandths.  The code's window lengths are           *)
(* constants, so that a short series already fills them.                   *)
(***************************************************************************)
EXTENDS Integers, Sequences, FiniteSetsExt, SequencesExt

CONSTANTS
    Candles,        \* what a candle may be: open, high, low, close, volume
    StartHours,     \* New York hour of the first candle
    HourStep,       \* hours between two candles
    MaxBars,        \* bound: length of the series
    MinBars,        \* 50 in the code: fewer candles give an empty answer
    SwingPeriod,    \* 10: candles on either side of a swing
    BlockLookback,  \* 50: first candle that may be an order block
    RangeWindow,    \* 100 and 50: window of the premium and discount range
    FlowWindow,     \* 30: window of the order flow
    BlockLimit,     \* 10: order blocks kept
    SweepLimit      \* 10: sweeps kept

ASSUME StructureAssumption ==
    /\ MaxBars \in Nat /\ MinBars \in Nat
    /\ SwingPeriod \in Nat \ {0} /\ BlockLookback \in Nat \ {0}
    /\ RangeWindow \in Nat \ {0} /\ FlowWindow \in Nat \ {0}
    /\ \A c \in Candles :
        /\ 0 < c.low /\ c.low <= c.high /\ c.volume >= 0
        /\ c.open \in c.low .. c.high /\ c.close \in c.low .. c.high

VARIABLES
    bars,       \* the candles so far
    opened,     \* hour of the first one
    flags       \* kill zones whose class-level `active` is set

mvars == <<bars, opened, flags>>

(***************************************************************************)
(* Reading a series s; its candles are numbered from 1.                    *)
(***************************************************************************)
Recent(s, n) == SubSeq(s, IF Len(s) > n THEN Len(s) - n + 1 ELSE 1, Len(s))
Highest(s) == Max({s[i].high : i \in DOMAIN s})
Lowest(s) == Min({s[i].low : i \in DOMAIN s})
Body(c) == IF c.close > c.open THEN c.close - c.open ELSE c.open - c.close
VolumeOf(s, lo, hi) ==
    FoldLeft(LAMBDA acc, c : acc + c.volume, 0, SubSeq(s, lo, hi))
AtMost(cap, v) == IF v < cap THEN v ELSE cap
AtLeast(floor, v) == IF v > floor THEN v ELSE floor

(***************************************************************************)
(* Swings and breaks of structure.                                         *)
(***************************************************************************)
Around(s, i, p) == {j \in i - p .. i + p : j # i}

\* _find_swing_highs, _find_swing_lows: indices, in order.
SwingHighs(s, p) ==
    SetToSortSeq({i \in p + 1 .. Len(s) - p :
                    \A j \in Around(s, i, p) : s[i].high >= s[j].high}, <)

SwingLows(s, p) ==
    SetToSortSeq({i \in p + 1 .. Len(s) - p :
                    \A j \in Around(s, i, p) : s[i].low <= s[j].low}, <)

\* The swing that is active at candle i: the last one confirmed by then.
Active(swings, p, i) ==
    LET known == {k \in ToSet(swings) : k + p <= i} IN
    IF known = {} THEN 0 ELSE Max(known)

Break(kind, side, level, at) ==
    [kind |-> kind, side |-> side, level |-> level, at |-> at]

Opposite(side) == IF side = "bullish" THEN "bearish" ELSE "bullish"

\* One side of one candle: acc holds the breaks so far, the trend and the
\* swings already broken.
Crossing(acc, side, swing, level, beyond, i) ==
    IF swing = 0 \/ <<side, swing>> \in acc.broken \/ ~beyond THEN acc
    ELSE [breaks |-> Append(acc.breaks,
              Break(IF acc.trend = Opposite(side) THEN "choch" ELSE "bos",
                    side, level, i)),
          trend  |-> side,
          broken |-> acc.broken \cup {<<side, swing>>}]

\* The closes replayed against the swings confirmed lag candles after they
\* form, the high first; nothing before both sides have a swing.
Replay(s, p, lag) ==
    LET hs == SwingHighs(s, p)
        ls == SwingLows(s, p)
        Step(acc, i) ==
            LET h == Active(hs, lag, i)
                l == Active(ls, lag, i)
                up == Crossing(acc, "bullish", h,
                        IF h = 0 THEN 0 ELSE s[h].high,
                        h # 0 /\ s[i].close > s[h].high, i) IN
            Crossing(up, "bearish", l, IF l = 0 THEN 0 ELSE s[l].low,
                     l # 0 /\ s[i].close < s[l].low, i) IN
    IF hs = <<>> \/ ls = <<>> THEN <<>>
    ELSE FoldLeft(Step, [breaks |-> <<>>, trend |-> "neutral", broken |-> {}],
                  [i \in DOMAIN s |-> i]).breaks

\* Mutant: only the breaks of the last candle are replayed.
SeriesBreaksRecent(s, p) ==
    SelectSeq(Replay(s, p, p), LAMBDA b : b.at = Len(s))

\* _detect_structure_breaks_series
SeriesBreaks(s, p) == Replay(s, p, p)

\* detect_break_of_structure: the series, and the last swing of each side if
\* the last close is beyond it and no BOS of this candle names that level.
Breaks(s, p) ==
    LET hs == SwingHighs(s, p)
        ls == SwingLows(s, p)
        now == Len(s)
        series == SeriesBreaks(s, p)
        Live(side, level) == Break("bos", side, level, now)
        high == IF hs = <<>> THEN <<>>
                ELSE <<Live("bullish", s[Last(hs)].high)>>
        low == IF ls = <<>> THEN <<>>
               ELSE <<Live("bearish", s[Last(ls)].low)>>
        Fresh(b) == /\ b \notin ToSet(series)
                    /\ IF b.side = "bullish" THEN s[now].close > b.level
                       ELSE s[now].close < b.level IN
    series \o SelectSeq(high \o low, Fresh)

(***************************************************************************)
(* The premium and discount range.                                         *)
(***************************************************************************)
\* calculate_fibonacci_zones, thousandths of the range above its low.
FibLevel(s, share) ==
    LET r == Recent(s, RangeWindow) IN
    1000 * Lowest(r) + share * (Highest(r) - Lowest(r))

Equilibrium(s) == FibLevel(s, 500)

\* calculate_ote_zones: the zone and the side the price is read as.
InOte(s) ==
    /\ Highest(Recent(s, RangeWindow)) > Lowest(Recent(s, RangeWindow))
    /\ 1000 * Last(s).close \in FibLevel(s, 620) .. FibLevel(s, 790)

OteBias(s) ==
    IF 1000 * Last(s).close < FibLevel(s, 500) THEN "bullish" ELSE "bearish"

(***************************************************************************)
(* Order blocks.                                                           *)
(***************************************************************************)
\* _calculate_ob_strength, in thousandths.
BlockStrength(s, i, type) ==
    LET c == s[i]
        first == AtLeast(1, i - 20)
        base == VolumeOf(s, first, i - 1)
        volume == IF base = 0 THEN 0
                  ELSE AtMost(250, (100 * (c.volume * (i - first) - base))
                                       \div base)
        Retest(j) ==
            IF type = "bullish"
            THEN s[j].low \in c.low .. c.high /\ s[j].close > c.high
            ELSE s[j].high \in c.low .. c.high /\ s[j].close < c.low
        retests == Cardinality({j \in i + 1 .. AtMost(Len(s), i + 29) :
                                  Retest(j)})
        age == Len(s) - i + 1
        young == IF age < 5 THEN 150 ELSE IF age < 15 THEN 100
                 ELSE IF age < 30 THEN 50 ELSE 0
        solid == IF 10 * Body(c) > 8 * (c.high - c.low) THEN 100 ELSE 50 IN
    AtMost(1000, 500 + volume + AtMost(300, 100 * retests) + young + solid)

\* _check_if_tested
Tested(s, i, type) ==
    \E j \in i + 1 .. Len(s) :
        (IF type = "bullish" THEN s[j].low ELSE s[j].high)
            \in s[i].low .. s[i].high

\* detect_order_blocks: a strong candle on high volume that the next close
\* reverses; strength decides who is kept.
BlockTypes(s, i) ==
    LET c == s[i]
        first == AtLeast(1, i - 10)
        base == VolumeOf(s, first, i - 1)
        strong == /\ c.high > c.low
                  /\ 10 * Body(c) > 6 * (c.high - c.low)
                  /\ base > 0
                  /\ 2 * c.volume * (i - first) > 3 * base IN
    {t \in {"bullish", "bearish"} :
        /\ strong
        /\ IF t = "bullish"
           THEN c.close < c.open /\ s[i + 1].close > c.high
           ELSE c.close > c.open /\ s[i + 1].close < c.low}

BlocksFound(s) ==
    {[type |-> t, at |-> i, strength |-> BlockStrength(s, i, t),
      tested |-> Tested(s, i, t)] :
        <<i, t>> \in {p \in (BlockLookback + 1 .. Len(s) - 2) \X
                             {"bullish", "bearish"} :
                        p[2] \in BlockTypes(s, p[1])}}

\* filter_order_blocks_by_zone
ZoneFiltered(s, blocks) ==
    LET price == 1000 * Last(s).close IN
    {b \in blocks :
        \/ b.type = "bullish" /\ price < Equilibrium(s)
        \/ b.type = "bearish" /\ price > Equilibrium(s)}

\* The strongest of the recent or strong, the older of equals first.
OrderBlocks(s) ==
    LET found == {b \in BlocksFound(s) :
                    Len(s) - b.at + 1 <= 50 \/ b.strength > 700}
        Before(a, b) == \/ a.strength > b.strength
                        \/ a.strength = b.strength /\ a.at < b.at IN
    ZoneFiltered(s, {b \in found :
        Cardinality({a \in found : Before(a, b)}) < BlockLimit})

(***************************************************************************)
(* Fair value gaps.                                                        *)
(***************************************************************************)
\* The gap around candle i: between its neighbours, at least 0.1 % wide.
GapAt(s, i) ==
    LET up == s[i - 1].high < s[i + 1].low
        down == s[i - 1].low > s[i + 1].high IN
    [side |-> IF up THEN "bullish" ELSE IF down THEN "bearish" ELSE "none",
     top |-> IF up THEN s[i + 1].low ELSE s[i - 1].low,
     bottom |-> IF up THEN s[i - 1].high ELSE s[i + 1].high,
     at |-> i]

IsGap(g) ==
    /\ g.side # "none"
    /\ 2000 * (g.top - g.bottom) > g.top + g.bottom

\* How far candle j trades into gap g, from its near side.
Depth(s, g, j) ==
    IF g.side = "bullish" THEN g.top - s[j].low ELSE s[j].high - g.bottom

\* _check_fvg_fill: the first candle to reach the middle decides for good.
Fill(s, g) ==
    LET reaching == {j \in g.at + 2 .. Len(s) :
                        2 * Depth(s, g, j) >= g.top - g.bottom} IN
    IF reaching = {} THEN 0
    ELSE AtMost(1000, (1000 * Depth(s, g, Min(reaching)))
                          \div (g.top - g.bottom))

Gaps(s) == {g \in {GapAt(s, i) : i \in 2 .. Len(s) - 1} : IsGap(g)}

\* detect_fair_value_gaps: less than 80 % filled and recent.
ActiveGaps(s) ==
    {g \in Gaps(s) : Fill(s, g) < 800 /\ Len(s) - g.at + 1 <= 100}

(***************************************************************************)
(* Liquidity.                                                              *)
(***************************************************************************)

(***************************************************************************)
(* Kill zones: hours of New York.                                          *)
(***************************************************************************)
ZoneNames == <<"london", "new_york", "asian", "london_close">>
ZoneStart == [london |-> 2, new_york |-> 7, asian |-> 20, london_close |-> 10]
ZoneEnd == [london |-> 5, new_york |-> 10, asian |-> 0, london_close |-> 12]

\* _is_time_in_killzone at the full hour: the end is included.
InZoneNow(hour, z) ==
    IF ZoneStart[z] < ZoneEnd[z] THEN hour \in ZoneStart[z] .. ZoneEnd[z]
    ELSE hour >= ZoneStart[z] \/ hour <= ZoneEnd[z]

\* _filter_by_killzone: the end is excluded.
InZoneHours(hour, z) ==
    IF ZoneStart[z] < ZoneEnd[z] THEN hour \in ZoneStart[z] .. ZoneEnd[z] - 1
    ELSE hour >= ZoneStart[z] \/ hour < ZoneEnd[z]

HourOf(i) == (opened + HourStep * (i - 1)) % 24

\* analyze_killzone: the first zone of the table; its flag is set for good.
CurrentKillzone(hour) ==
    LET open == {k \in DOMAIN ZoneNames : InZoneNow(hour, ZoneNames[k])} IN
    IF open = {} THEN "none" ELSE ZoneNames[Min(open)]

(***************************************************************************)
(* Sweeps.                                                                 *)
(***************************************************************************)
\* _get_asian_range
AsianBars(s) == {i \in DOMAIN s : InZoneHours(HourOf(i), "asian")}
AsianHigh(s) == Max({s[i].high : i \in AsianBars(s)})
AsianLow(s) == Min({s[i].low : i \in AsianBars(s)})

\* A candle beyond the level whose successor closes back inside.
Swept(s, i, side, level) ==
    IF side = "low" THEN s[i].low < level /\ s[i + 1].close > level
    ELSE s[i].high > level /\ s[i + 1].close < level

\* detect_liquidity_sweeps: the Asian range, yesterday's low (the older half
\* of the window), the last swing highs; the significant first, then the new.
SweepsFound(s) ==
    LET asian == AsianBars(s) # {}
        half == Len(s) \div 2
        At(i, kind, side, level, rank) ==
            IF Swept(s, i, side, level)
            THEN {[kind |-> kind, level |-> level, at |-> i, rank |-> rank,
                   strength |-> (1000 * (IF side = "low" THEN level - s[i].low
                                         ELSE s[i].high - level)) \div level]}
            ELSE {} IN
    UNION {
        (IF asian THEN At(i, "asian_low", "low", AsianLow(s), 3)
                       \cup At(i, "asian_high", "high", AsianHigh(s), 3)
         ELSE {})
        \cup (IF half > 0
              THEN At(i, "previous_low", "low", Lowest(SubSeq(s, 1, half)), 2)
              ELSE {})
        \cup UNION {At(i, "swing_high", "high", s[h].high, 2) :
                      h \in ToSet(Recent(SwingHighs(s, SwingPeriod), 5))} :
        i \in 1 .. Len(s) - 1}

Sweeps(s) ==
    LET found == SweepsFound(s)
        Before(a, b) == \/ a.rank > b.rank
                        \/ a.rank = b.rank /\ a.at > b.at IN
    {b \in found : Cardinality({a \in found : Before(a, b)}) < SweepLimit}

\* detect_silver_bullet: an Asian sweep within London's hours.
SilverBullets(s) ==
    {b \in Sweeps(s) : /\ b.kind \in {"asian_low", "asian_high"}
                       /\ InZoneNow(HourOf(b.at), "london")}

BulletQuality(b) ==
    IF b.strength > 5 THEN "excellent"
    ELSE IF b.strength > 2 THEN "good" ELSE "fair"

(***************************************************************************)
(* Order flow and the score of the session.                                *)
(***************************************************************************)
\* analyze_order_flow, over the last FlowWindow candles.
OrderFlow(s) ==
    LET r == Recent(s, FlowWindow)
        n == Len(r)
        closes == FoldLeft(LAMBDA acc, c : acc + c.close, 0, r)
        tight == 20 * n * (Highest(r) - Lowest(r)) < closes
        rising == 10 * r[n].volume > 12 * r[1].volume
        Wick(c) == LET up == IF c.close > c.open THEN c.close ELSE c.open
                       down == IF c.close > c.open THEN c.open ELSE c.close
                   IN AtLeast(c.high - up, down - c.low)
        bodies == SelectSeq(r, LAMBDA c : Body(c) > 0)
        ratios == FoldLeft(LAMBDA acc, c : acc + (100 * Wick(c)) \div Body(c),
                           0, bodies)
        hunted == bodies # <<>> /\ ratios > 200 * Len(bodies)
        gain == 1000 * r[n].close - 1000 * r[1].close IN
    IF Len(s) < FlowWindow THEN "unknown"
    ELSE IF tight /\ rising
         THEN IF gain > 10 * r[1].close THEN "accumulation"
              ELSE "distribution"
    ELSE IF hunted THEN "manipulation"
    ELSE IF gain > 50 * r[1].close THEN "markup"
    ELSE IF gain < -50 * r[1].close THEN "markdown" ELSE "neutral"

\* How good the best silver bullet is, and the sweeps, on three steps each.
Grade(s, excellent, good, fair) ==
    LET qualities == {BulletQuality(b) : b \in SilverBullets(s)} IN
    IF "excellent" \in qualities THEN excellent
    ELSE IF "good" \in qualities THEN good
    ELSE IF qualities # {} THEN fair ELSE 0

SweepGrade(s, high, medium) ==
    IF \E b \in Sweeps(s) : b.rank = 3 THEN high
    ELSE IF Sweeps(s) # {} THEN medium ELSE 0

ZoneGrade(hour, main, close) ==
    IF CurrentKillzone(hour) \in {"london", "new_york"} THEN main
    ELSE IF CurrentKillzone(hour) = "london_close" THEN close ELSE 0

\* A price that is not in the zone is within five per cent of it here.
OteGrade(s, inside, near) ==
    IF InOte(s) THEN inside
    ELSE IF Highest(Recent(s, RangeWindow)) > Lowest(Recent(s, RangeWindow))
    THEN near ELSE 0

Institutional(s) == OrderFlow(s) \in {"accumulation", "distribution"}

\* assess_setup_quality
SetupQuality(s, hour) ==
    LET score == ZoneGrade(hour, 3, 2) + SweepGrade(s, 3, 2)
                 + (IF Institutional(s) THEN 2 ELSE 0)
                 + OteGrade(s, 2, 1) + Grade(s, 3, 2, 1) IN
    IF score >= 10 THEN "excellent" ELSE IF score >= 7 THEN "good"
    ELSE IF score >= 4 THEN "fair" ELSE "poor"

\* _calculate_confluence_score
ConfluenceScore(s, hour) ==
    AtMost(1000, ZoneGrade(hour, 250, 150) + SweepGrade(s, 250, 150)
                 + (IF Institutional(s) THEN 112 ELSE 0)
                 + OteGrade(s, 200, 100) + Grade(s, 250, 150, 100))

(***************************************************************************)
(* The specification: a candle closes and both detectors run.              *)
(***************************************************************************)
Hour == HourOf(Len(bars))
Analyzed == Len(bars) >= MinBars

StructureInit ==
    /\ bars = <<>>
    /\ opened \in StartHours
    /\ flags = {}

\* analyze of both detectors on the series with one more candle.
Analyze(c) ==
    /\ Len(bars) < MaxBars
    /\ bars' = Append(bars, c)
    /\ UNCHANGED opened
    /\ flags' = IF Analyzed'
                THEN flags \cup ({CurrentKillzone(Hour')} \ {"none"})
                ELSE flags

StructureNext == \E c \in Candles : Analyze(c)

StructureSpec == StructureInit /\ [][StructureNext]_mvars

(***************************************************************************)
(* Properties.                                                             *)
(***************************************************************************)
\* Types of the series, its blocks and its scores: a block's strength stays
\* within one, the lists within their limits.
StructureTypeOK ==
    /\ Len(bars) <= MaxBars /\ ToSet(bars) \subseteq Candles
    /\ flags \subseteq ToSet(ZoneNames)
    /\ Analyzed =>
        /\ \A b \in OrderBlocks(bars) : b.strength \in 0 .. 1000
        /\ ConfluenceScore(bars, Hour) \in 0 .. 1000
        /\ CurrentKillzone(Hour) # "none" => CurrentKillzone(Hour) \in flags

\* The docstring of _detect_structure_breaks_series, by definition: a break
\* is the first close beyond the latest swing confirmed by then, and a break
\* is a change of character exactly when the one before it was of the other
\* side.  Whatever is reported, its candle closed beyond its level.
BreaksAreConfirmed == Analyzed =>
    LET found == SeriesBreaks(bars, SwingPeriod)
        First(i, swing, Beyond(_)) ==
            /\ Beyond(i)
            /\ \A j \in swing + SwingPeriod .. i - 1 : ~Beyond(j)
        Up(i) == LET h == Active(SwingHighs(bars, SwingPeriod),
                                 SwingPeriod, i) IN
                 h # 0 /\ First(i, h, LAMBDA j : bars[j].close > bars[h].high)
        Down(i) == LET l == Active(SwingLows(bars, SwingPeriod),
                                   SwingPeriod, i) IN
                   l # 0 /\ First(i, l, LAMBDA j : bars[j].close < bars[l].low)
        both == /\ SwingHighs(bars, SwingPeriod) # <<>>
                /\ SwingLows(bars, SwingPeriod) # <<>> IN
    /\ {<<b.side, b.at>> : b \in ToSet(found)} =
        (IF both THEN {<<"bullish", i>> : i \in {j \in DOMAIN bars : Up(j)}}
                      \cup {<<"bearish", i>> :
                                i \in {j \in DOMAIN bars : Down(j)}}
         ELSE {})
    /\ \A k \in DOMAIN found :
        found[k].kind = "choch" <=> k > 1 /\ found[k - 1].side # found[k].side
    /\ \A b \in ToSet(Breaks(bars, SwingPeriod)) :
        IF b.side = "bullish" THEN bars[b.at].close > b.level
        ELSE bars[b.at].close < b.level

\* A price in the OTE zone is in premium: it is always read as bearish, and
\* no bullish order block survives the zone filter beside it.
OteIsPremium ==
    Analyzed /\ InOte(bars) =>
        /\ OteBias(bars) = "bearish"
        /\ \A b \in OrderBlocks(bars) : b.type = "bearish"

\* An excellent setup is never graded without a swept level, and its
\* confluence score is never below six tenths.
ExcellentIsSwept ==
    Analyzed /\ SetupQuality(bars, Hour) = "excellent" =>
        Sweeps(bars) # {} /\ ConfluenceScore(bars, Hour) >= 600

\* A new candle adds to the replayed breaks and rewrites none of them.
BreaksAreStable ==
    [][bars # <<>> => IsPrefix(SeriesBreaks(bars, SwingPeriod),
                               SeriesBreaks(bars', SwingPeriod))]_mvars

\* The fill of a gap is decided once: a later candle never changes it, and a
\* gap that is not traded any more is never offered again.
FillIsFinal ==
    [][bars # <<>> => \A g \in Gaps(bars) :
        /\ Fill(bars, g) > 0 => Fill(bars', g) = Fill(bars, g)
        /\ g \notin ActiveGaps(bars) => g \notin ActiveGaps(bars')]_mvars

=============================================================================
