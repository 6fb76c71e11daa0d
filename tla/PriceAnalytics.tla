--------------------------- MODULE PriceAnalytics ---------------------------
(***************************************************************************)
(* analytics/indicators.ts, analysis.ts and report.ts, the window that     *)
(* services/stockService.ts cuts from a series, and the sampling of the    *)
(* browser's lib/chart.ts: pure functions of a sequence of closing prices, *)
(* the oldest first.                                                       *)
(*                                                                         *)
(* A number is a fraction <<n, d>> with d > 0, and null is Null; rounding  *)
(* and overflow of floating point are left out, so finiteOrNull() keeps    *)
(* every value.  The volatility, a root of logarithms, is an input.        *)
(***************************************************************************)
EXTENDS Integers, FiniteSets, Sequences, SequencesExt

CONSTANTS SmaShort, SmaLong,  \* SMA_SHORT, SMA_LONG
          RsiPeriod,          \* RSI_PERIOD
          MaxPrice            \* bound on the prices

(* 20, 50 and 14 in the code.                                              *)
ASSUME AnalyticsConstants == /\ SmaShort \in Nat \ {0} /\ SmaLong \in Nat \ {0}
                             /\ RsiPeriod \in Nat \ {0} /\ MaxPrice \in Nat \ {0}
                             /\ SmaShort <= SmaLong /\ RsiPeriod < SmaLong /\ 3 <= SmaLong

Null == <<>>
NoScore == -1

Less(a, b) == a[1] * b[2] < b[1] * a[2]
Same(a, b) == a[1] * b[2] = b[1] * a[2]
AtMost(a, b) == ~Less(b, a)
Percent(p) == <<p, 1>>

-----------------------------------------------------------------------------
(* indicators.ts                                                           *)

PeriodReturnPct(c) ==
  IF Len(c) < 2 \/ c[1] = 0 THEN Null ELSE <<(Last(c) - c[1]) * 100, c[1]>>

DailyChange(c) == IF Len(c) < 2 THEN Null ELSE <<Last(c) - c[Len(c) - 1], 1>>

DailyChangePercent(c) ==
  IF Len(c) < 2 \/ c[Len(c) - 1] = 0 THEN Null
  ELSE <<(Last(c) - c[Len(c) - 1]) * 100, c[Len(c) - 1]>>

(* The sums of the first i numbers.                                        *)
Totals(c) ==
  LET sum[i \in 0 .. Len(c)] == IF i = 0 THEN 0 ELSE sum[i - 1] + c[i] IN sum

Total(c) == Totals(c)[Len(c)]

Sma(c, period) ==
  IF period <= 0 \/ Len(c) < period THEN Null
  ELSE <<Total(SubSeq(c, Len(c) - period + 1, Len(c))), period>>

(* Faulty variant: the price that leaves the window is one too late.       *)
SmaSeriesLate(c, period) ==
  LET sum[i \in 0 .. Len(c)] ==
        IF i = 0 THEN 0 ELSE sum[i - 1] + c[i] - (IF i > period + 1 THEN c[i - period - 1] ELSE 0)
  IN  [i \in 1 .. Len(c) |-> IF i >= period THEN <<sum[i], period>> ELSE Null]

(* The sum of the window that slides over the prices.                      *)
SlidingSum(c, period) ==
  LET sum[i \in 0 .. Len(c)] ==
        IF i = 0 THEN 0 ELSE sum[i - 1] + c[i] - (IF i > period THEN c[i - period] ELSE 0)
  IN  sum

SmaSeries(c, period) ==
  [i \in 1 .. Len(c) |-> IF i >= period THEN <<SlidingSum(c, period)[i], period>> ELSE Null]

Gain(c, i) == IF c[i] > c[i - 1] THEN c[i] - c[i - 1] ELSE 0
Loss(c, i) == IF c[i] < c[i - 1] THEN c[i - 1] - c[i] ELSE 0

(* Wilder's smoothing: the averages after the first i prices.  Both have   *)
(* the denominator period^n; their numerators are kept, times scale.       *)
Averages(c, period) ==
  LET seed == [gain |-> Total([i \in 1 .. period |-> Gain(c, i + 1)]),
               loss |-> Total([i \in 1 .. period |-> Loss(c, i + 1)]), scale |-> 1]
      Smooth(a, i) == [gain |-> a.gain * (period - 1) + Gain(c, i) * a.scale * period,
                       loss |-> a.loss * (period - 1) + Loss(c, i) * a.scale * period,
                       scale |-> a.scale * period]
      avg[i \in period + 1 .. Len(c)] ==
        IF i = period + 1 THEN seed ELSE Smooth(avg[i - 1], i)
  IN  avg

Rsi(c, period) ==
  LET a == Averages(c, period)[Len(c)]
  IN  IF period <= 0 \/ Len(c) < period + 1 THEN Null
      ELSE IF a.loss = 0 THEN (IF a.gain = 0 THEN Percent(50) ELSE Percent(100))
      ELSE <<100 * a.gain, a.gain + a.loss>>

(* annualizedVolatilityPct(): two returns at least; the value is an input. *)
AnnualizedVolatilityPct(c, volatility) ==
  IF Cardinality({i \in 2 .. Len(c) : c[i - 1] > 0 /\ c[i] > 0}) < 2 THEN Null ELSE volatility

(* The highest close so far, and the worst fall from the highest.          *)
Drawdowns(c) ==
  LET Step(acc, close) ==
        LET peak == IF close > acc.peak THEN close ELSE acc.peak
            drawdown == <<(close - peak) * 100, peak>>
        IN  [peak |-> peak,
             worst |-> IF peak > 0 /\ Less(drawdown, acc.worst) THEN drawdown ELSE acc.worst]
      acc[i \in 0 .. Len(c)] ==
        IF i = 0 THEN [peak |-> c[1], worst |-> <<0, 1>>] ELSE Step(acc[i - 1], c[i])
  IN  acc

MaxDrawdownPct(c) == IF c = <<>> THEN Null ELSE Drawdowns(c)[Len(c)].worst

-----------------------------------------------------------------------------
(* analysis.ts                                                             *)

AnalyzeTrend(price, short, long) ==
  IF short = Null \/ long = Null THEN "unknown"
  ELSE CASE Less(short, price) /\ Less(long, short) -> "uptrend"
         [] Less(price, short) /\ Less(short, long) -> "downtrend"
         [] OTHER -> "sideways"

AnalyzeMomentum(rsi) ==
  IF rsi = Null THEN "unknown"
  ELSE CASE AtMost(Percent(70), rsi) -> "overbought"
         [] AtMost(rsi, Percent(30)) -> "oversold"
         [] OTHER -> "neutral"

AnalyzeRisk(vol, dd) ==
  IF vol = Null \/ dd = Null THEN "unknown"
  ELSE CASE AtMost(Percent(40), vol) \/ AtMost(dd, Percent(-30)) -> "high"
         [] Less(vol, Percent(20)) /\ Less(Percent(-15), dd) -> "low"
         [] OTHER -> "medium"

Weight == [uptrend |-> 25, downtrend |-> -25, sideways |-> 0,
           neutral |-> 15, overbought |-> -15, oversold |-> -10,
           low |-> 10, high |-> -10, medium |-> 0]

ComputeScore(trend, momentum, risk) ==
  LET score == 50 + Weight[trend] + Weight[momentum] + Weight[risk]
  IN  IF "unknown" \in {trend, momentum, risk} THEN NoScore
      ELSE IF score < 0 THEN 0 ELSE IF score > 100 THEN 100 ELSE score

-----------------------------------------------------------------------------
(* stockService.ts, report.ts                                              *)

(* sliceSeriesToRange(): the trailing bars, or a warning.                  *)
SliceSeriesToRange(c, want) ==
  [closes |-> IF Len(c) > want THEN SubSeq(c, Len(c) - want + 1, Len(c)) ELSE c,
   warnings |-> IF Len(c) < want THEN {"short window"} ELSE {}]

BuildStockReport(window, volatility) ==
  LET c == window.closes
      rsi == Rsi(c, RsiPeriod)
      vol == AnnualizedVolatilityPct(c, volatility)
      dd == MaxDrawdownPct(c)
      short == Sma(c, SmaShort)
      long == Sma(c, SmaLong)
      trend == AnalyzeTrend(<<Last(c), 1>>, short, long)
      momentum == AnalyzeMomentum(rsi)
      risk == AnalyzeRisk(vol, dd)
  IN  [series |-> [i \in 1 .. Len(c) |-> [close |-> c[i], short |-> SmaSeries(c, SmaShort)[i],
                                          long |-> SmaSeries(c, SmaLong)[i]]],
       periodReturn |-> PeriodReturnPct(c),
       change |-> DailyChange(c), changePercent |-> DailyChangePercent(c),
       short |-> short, long |-> long, rsi |-> rsi, volatility |-> vol, drawdown |-> dd,
       trend |-> trend, momentum |-> momentum, risk |-> risk,
       score |-> ComputeScore(trend, momentum, risk),
       warnings |-> window.warnings \cup (IF Len(c) < SmaLong THEN {"short history"} ELSE {})]

-----------------------------------------------------------------------------
(* chart.ts: every stride-th bar, and the last.                            *)

PrepareChartData(bars, cap) ==
  LET stride == (Len(bars) + cap - 1) \div cap
      strided == [i \in 1 .. (Len(bars) - 1) \div stride + 1 |-> bars[(i - 1) * stride + 1]]
      keepsLast == (Len(bars) - 1) % stride = 0
  IN  IF Len(bars) <= cap THEN bars
      ELSE IF keepsLast THEN strided ELSE Append(strided, Last(bars))

-----------------------------------------------------------------------------

(* The largest fall between two closes, in the order of time.              *)
Falls(c) == {<<(c[q[2]] - c[q[1]]) * 100, c[q[1]]>> :
               q \in {p \in (1 .. Len(c)) \X (1 .. Len(c)) : p[1] <= p[2]}}

(* The same prices, turned upside down.                                    *)
Mirror(c) == [i \in 1 .. Len(c) |-> MaxPrice + 1 - c[i]]

(* A report tells one story: each point of the two averages is the mean of *)
(* the closes of its window, although the sum slides, and the last one is  *)
(* the headline; the drawdown is the worst fall between any two closes;    *)
(* the RSI lies in 0..100 and treats gains and losses alike; the score is  *)
(* missing only beside a warning of a short history and else lies in       *)
(* 0..100; and its inputs are the closes of the window alone               *)
(* (indicators.ts, analysis.ts, report.ts, stockService.ts:95).            *)
ReportHolds(c, want, volatility) ==
  LET window == SliceSeriesToRange(c, want)
      w == window.closes
      r == BuildStockReport(window, volatility)
      IsMean(v, i, p) == IF i < p THEN v = Null ELSE Same(v, <<Total(SubSeq(w, i - p + 1, i)), p>>)
      mirrored == Rsi(Mirror(w), RsiPeriod)
  IN  /\ Len(r.series) = (IF Len(c) < want THEN Len(c) ELSE want)
      /\ Last(r.series).close = Last(c)
      /\ \A i \in 1 .. Len(w) : /\ IsMean(r.series[i].short, i, SmaShort)
                                /\ IsMean(r.series[i].long, i, SmaLong)
      /\ r.short = Last(r.series).short /\ r.long = Last(r.series).long
      /\ \A f \in Falls(w) : AtMost(r.drawdown, f)
      /\ \E f \in Falls(w) : Same(r.drawdown, f)
      /\ r.rsi # Null =>
           /\ AtMost(Percent(0), r.rsi) /\ AtMost(r.rsi, Percent(100))
           /\ Same(mirrored, <<100 * r.rsi[2] - r.rsi[1], r.rsi[2]>>)
      /\ IF r.score = NoScore THEN "short history" \in r.warnings ELSE r.score \in 0 .. 100
      /\ r.warnings = {} => r.score # NoScore /\ Len(w) = want

(* The chart shows bars of the series in their order, the first and the    *)
(* last among them, skipping no more than it must; it has at most one more *)
(* than the cap (chart.ts:15-46).                                          *)
ChartHolds(n, cap) ==
  LET shown == PrepareChartData([i \in 1 .. n |-> i], cap)
  IN  /\ Len(shown) <= cap + 1
      /\ n <= cap => Len(shown) = n
      /\ shown[1] = 1 /\ Last(shown) = n
      /\ \A i \in 1 .. Len(shown) - 1 : /\ shown[i] < shown[i + 1]
                                        /\ (shown[i + 1] - shown[i] - 1) * cap < n

=============================================================================
