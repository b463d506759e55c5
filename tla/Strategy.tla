------------------------------ MODULE Strategy ------------------------------
(***************************************************************************)
(* What the strategy layer (strategy/swing_points.py, staircase.py,        *)
(* volume_trend.py, regime.py, signal.py) computes from a window of        *)
(* candles.  A window is a sequence of candles, oldest first.  Prices and  *)
(* volumes are integers, ratios and scores are fractions <<num, den>>, so  *)
(* every comparison with a threshold is exact.  A window is not longer     *)
(* than the 120 candles detect_staircase, detect_volume_trend and the      *)
(* regime's ATR look back at, as it is with the settings shipped.          *)
(***************************************************************************)
EXTENDS Integers, Sequences, FiniteSets, FiniteSetsExt

CONSTANTS
  MinBars,       \* min_bars: candles that confirm a swing on each side
  MinStaircase,  \* candles below which detect_staircase gives up (10)
  MinSignal,     \* candles below which generate_signal gives up (20)
  BucketMinutes, \* _BUCKET_MINUTES
  AtrPeriod      \* _ATR_PERIOD

ASSUME StrategyAssumption ==
  /\ MinBars \in Nat \ {0} /\ MinStaircase \in Nat
  /\ MinSignal \in Nat \ {0, 1}
  /\ BucketMinutes \in Nat \ {0} /\ AtrPeriod \in Nat \ {0}

\* t is in minutes.  vol counts what the code sums;  n is the number of trades.
Candle == [t : Nat, high : Nat, low : Nat, close : Nat, vol : Nat, n : Nat]

Abs(x) == IF x < 0 THEN -x ELSE x
Larger(x, y) == IF x >= y THEN x ELSE y
Share(part, whole) == <<part, IF whole = 0 THEN 1 ELSE whole>>

----------------------------------------------------------------------------
(* Swing points: indices of the window                                     *)

\* Seeded fault: near the end the candles there are do for confirmation.
SwingHighsEarly(w) ==
  {i \in MinBars + 1 .. Len(w) : \A k \in 1 .. MinBars :
     w[i].high > w[i - k].high /\ (i + k \in DOMAIN w => w[i].high > w[i + k].high)}

SwingHighs(w) ==
  {i \in MinBars + 1 .. Len(w) - MinBars : \A k \in 1 .. MinBars :
     w[i].high > w[i - k].high /\ w[i].high > w[i + k].high}

SwingLows(w) ==
  {i \in MinBars + 1 .. Len(w) - MinBars : \A k \in 1 .. MinBars :
     w[i].low < w[i - k].low /\ w[i].low < w[i + k].low}

\* The last close clears the level of find_major_swing_high, or of
\* find_major_swing_low, over the candles before it.
AboveMajorHigh(w) == \A i \in 1 .. Len(w) - 1 : w[Len(w)].close > w[i].high
BelowMajorLow(w) == \A i \in 1 .. Len(w) - 1 : w[Len(w)].close < w[i].low

\* find_relevant_swing_low and _high at the last candle: candidate indices, of
\* which the code takes the largest.
StopLows(w) == {i \in SwingLows(w) : w[i].low < w[Len(w)].close}
StopHighs(w) == {i \in SwingHighs(w) : w[i].high > w[Len(w)].close}

----------------------------------------------------------------------------
(* The staircase                                                           *)

\* Neighbouring elements of a set of integers.
Pairs(S) ==
  {p \in S \X S : p[1] < p[2] /\ \A k \in S : k <= p[1] \/ k >= p[2]}

\* _check_sequential, for ascending and for descending prices.
Rising(w) ==
  Cardinality({p \in Pairs(SwingHighs(w)) : w[p[2]].high > w[p[1]].high})
    + Cardinality({p \in Pairs(SwingLows(w)) : w[p[2]].low > w[p[1]].low})

Falling(w) ==
  Cardinality({p \in Pairs(SwingHighs(w)) : w[p[2]].high < w[p[1]].high})
    + Cardinality({p \in Pairs(SwingLows(w)) : w[p[2]].low < w[p[1]].low})

AllPairs(w) == Cardinality(Pairs(SwingHighs(w))) + Cardinality(Pairs(SwingLows(w)))

\* All swings in order: 2i stands for a low at i, 2i + 1 for a high at i (the
\* sort is stable and the lows come first).
Swings(w) == {2 * i : i \in SwingLows(w)} \cup {2 * i + 1 : i \in SwingHighs(w)}

SwingPrice(w, s) == IF s % 2 = 0 THEN w[s \div 2].low ELSE w[s \div 2].high

\* _measure_moves: the moves that end in a high or in a low (kind 1 or 0) and
\* start at the other kind.
Moves(w, kind) ==
  IF Cardinality(Swings(w)) < 3 THEN {}
  ELSE {p \in Pairs(Swings(w)) : p[1] % 2 # kind /\ p[2] % 2 = kind}

TotalMove(w, kind) ==
  MapThenSumSet(LAMBDA p : Abs(SwingPrice(w, p[2]) - SwingPrice(w, p[1])),
                Moves(w, kind))

\* Average impulse over average pullback.
Asymmetry(w) ==
  LET impulse == TotalMove(w, 1)
      pullback == TotalMove(w, 0)
  IN  IF pullback > 0 /\ Moves(w, 1) = {} THEN <<0, 1>>
      ELSE IF pullback > 0
        THEN <<impulse * Cardinality(Moves(w, 0)), Cardinality(Moves(w, 1)) * pullback>>
      ELSE IF impulse > 0 THEN <<3, 1>> ELSE <<1, 1>>

\* The score of an asymmetry n / d, as a fraction of 100.
PullbackScore(n, d) ==
  IF n >= 2 * d THEN <<100, 1>>
  ELSE IF 5 * n >= 6 * d THEN <<125 * n - 50 * d, 2 * d>>
  ELSE IF n >= d THEN <<100 * n - 70 * d, d>>
  ELSE <<30 * n, d>>

\* The window's range, and the largest of its candles.
TotalRange(w) ==
  Max({w[i].high : i \in DOMAIN w}) - Min({w[i].low : i \in DOMAIN w})

WidestCandle(w) == Max({w[i].high - w[i].low : i \in DOMAIN w})

\* _measure_grindiness, scaled so that 0.7 scores 100.
ConsistencyScore(w) ==
  LET even == TotalRange(w) - WidestCandle(w)
  IN  IF TotalRange(w) <= 0 THEN <<0, 1>>
      ELSE IF 10 * even >= 7 * TotalRange(w) THEN <<100, 1>>
      ELSE <<1000 * even, 7 * TotalRange(w)>>

TrendShare(w) == Share(Larger(Rising(w), Falling(w)), AllPairs(w))

\* Ten times the composite score, 0.4, 0.3 and 0.3 of the three, is at least m.
StaircaseAtLeast(w, m) ==
  LET trend == TrendShare(w)
      asymmetry == Asymmetry(w)
      pullback == PullbackScore(asymmetry[1], asymmetry[2])
      even == ConsistencyScore(w)
  IN  400 * trend[1] * pullback[2] * even[2] + 3 * pullback[1] * trend[2] * even[2]
        + 3 * even[1] * trend[2] * pullback[2]
      >= m * trend[2] * pullback[2] * even[2]

HasSwings(w) ==
  /\ Len(w) >= MinStaircase
  /\ Cardinality(SwingHighs(w)) >= 2 \/ Cardinality(SwingLows(w)) >= 2

StaircaseValid(w) == HasSwings(w) /\ StaircaseAtLeast(w, 600)

\* A direction needs more than 0.4 of the pairs and a score of 30.
Bullish(w) ==
  /\ HasSwings(w) /\ StaircaseAtLeast(w, 300)
  /\ Rising(w) >= Falling(w) /\ 5 * Rising(w) > 2 * AllPairs(w)

Bearish(w) ==
  /\ HasSwings(w) /\ StaircaseAtLeast(w, 300)
  /\ Falling(w) > Rising(w) /\ 5 * Falling(w) > 2 * AllPairs(w)

----------------------------------------------------------------------------
(* The volume trend                                                        *)

\* The bucket a candle is added to.  Buckets are aligned to the first candle;
\* an older candle after a newer one goes to the bucket that is open.
BucketOf(w, j) == Max({(w[i].t - w[1].t) \div BucketMinutes : i \in 1 .. j})

Buckets(w) ==
  [b \in 1 .. BucketOf(w, Len(w)) + 1 |->
     MapThenSumSet(LAMBDA j : w[j].vol, {j \in DOMAIN w : BucketOf(w, j) = b - 1})]

SumOf(s, first, last) == MapThenSumSet(LAMBDA i : s[i], first .. last)

Grew(s, i) ==
  IF s[i - 1] > 0 THEN 100 * s[i] >= 105 * s[i - 1] ELSE s[i] > 0

\* The slope of the least-squares line over the mean, a fraction of the sums.
Slope(s) ==
  LET n == Len(s)
      total == SumOf(s, 1, n)
  IN  IF n < 2 \/ total <= 0 THEN <<0, 1>>
      ELSE <<6 * MapThenSumSet(LAMBDA i : (2 * i - n - 1) * s[i], 1 .. n),
             (n * n - 1) * total>>

\* The composite: 60 times the share of buckets that grew, and up to 40 for the
\* slope (0.3 or more).
VolumeValid(w) ==
  LET s == Buckets(w)
      grew == Cardinality({i \in 2 .. Len(s) : Grew(s, i)})
      steps == Larger(1, Len(s) - 1)
      slope == Slope(s)
      bonus == IF slope[1] <= 0 THEN <<0, 1>>
               ELSE IF 10 * slope[1] >= 3 * slope[2] THEN <<40, 1>>
               ELSE <<400 * slope[1], 3 * slope[2]>>
  IN  Len(w) >= 4 /\ 60 * grew * bonus[2] + bonus[1] * steps >= 60 * steps * bonus[2]

----------------------------------------------------------------------------
(* The regime                                                              *)

TrueRange(w, i) ==
  Max({w[i].high - w[i].low, Abs(w[i].high - w[i - 1].close),
       Abs(w[i].low - w[i - 1].close)})

\* _atr over the candles up to the last-th: the sum and the number of the last
\* true ranges.
Atr(w, last) ==
  LET from == Larger(2, last - AtrPeriod + 1)
  IN  Share(MapThenSumSet(LAMBDA i : TrueRange(w, i), from .. last), last - from + 1)

\* The last ranges are 1.5 times those of the window's first half, which needs
\* more than a period of candles.
VolatilityValid(w) ==
  LET now == Atr(w, Len(w))
      base == Atr(w, Len(w) \div 2)
  IN  /\ Len(w) \div 2 > AtrPeriod
      /\ base[1] > 0
      /\ 2 * now[1] * base[2] >= 3 * base[1] * now[2]

\* classify_regime.
RegimeScore(w) ==
  Cardinality({v \in {"staircase", "volume", "volatility"} :
    CASE v = "staircase" -> StaircaseValid(w)
      [] v = "volume" -> VolumeValid(w)
      [] v = "volatility" -> VolatilityValid(w)})

Tradeable(w) == RegimeScore(w) >= 2 /\ StaircaseValid(w)

----------------------------------------------------------------------------
(* The signal                                                              *)

\* The distance of the stop in thousandths of the entry price.
StopWithin(entry, stop, least, most) ==
  /\ entry # 0
  /\ 1000 * Abs(entry - stop) >= least * entry
  /\ 1000 * Abs(entry - stop) <= most * entry

\* Seeded fault: the target is above the entry whatever the direction.
Target2Above(entry, stop, dir, score) ==
  2 * entry + (IF score >= 3 THEN 3 ELSE 2) * Abs(entry - stop)

\* _calculate_tp, in half units of price: 1.5R for a score of 3, 1R below.
Target2(entry, stop, dir, score) ==
  2 * entry + dir * (IF score >= 3 THEN 3 ELSE 2) * Abs(entry - stop)

\* The signal's levels.  Rounding them to 6 decimals changes no whole price and
\* no half.
SignalOf(w, dir, stop) ==
  LET entry == w[Len(w)].close
  IN  [dir |-> dir, entry |-> entry, stop |-> stop,
       target2 |-> Target2(entry, stop, dir, RegimeScore(w)),
       limit |-> 1000 * Abs(entry - stop) < 30 * entry]

MostRecent(S) == {i \in S : \A k \in S : k <= i}

LongEntry(w) ==
  Len(w) >= MinSignal /\ AboveMajorHigh(w) /\ Bullish(w) /\ Tradeable(w)

ShortEntry(w) ==
  Len(w) >= MinSignal /\ BelowMajorLow(w) /\ Bearish(w) /\ Tradeable(w)

\* generate_signal: the signals a window gives rise to, none or one.  The stop is
\* 0.5% to 5% from the entry.  (The minimum of 1 for reward over risk always
\* holds of a target at 1R or 1.5R.)
Longs(w) ==
  IF ~LongEntry(w) THEN {}
  ELSE {SignalOf(w, 1, w[i].low) : i \in
          {j \in MostRecent(StopLows(w)) : StopWithin(w[Len(w)].close, w[j].low, 5, 50)}}

Shorts(w) ==
  IF ~ShortEntry(w) THEN {}
  ELSE {SignalOf(w, -1, w[i].high) : i \in
          {j \in MostRecent(StopHighs(w)) : StopWithin(w[Len(w)].close, w[j].high, 5, 50)}}

Signals(w) == Longs(w) \cup Shorts(w)

=============================================================================
