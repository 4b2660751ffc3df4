--------------------------- MODULE StrategyAgents ---------------------------
(***************************************************************************)
(* The strategy and market-intelligence agents as functions of the candles *)
(* they are shown.  An agent answers with the set of directions it signals:*)
(* {1} is long, {-1} short and {} no signal; a rule and its mirror image   *)
(* are one formula over the direction d.  Ratios are compared by cross     *)
(* multiplication, so averages, bands and indices are exact.  A candle is  *)
(* its close and volume: it opens at the close before it and has no wicks. *)
(* Confidence, expected return, horizon and wording are left out.          *)
(***************************************************************************)
EXTENDS Integers, Sequences, SequencesExt

CONSTANTS
  None,       \* no value, for the modules that show the agents candles
  Tuning      \* the agents' constructor parameters, by agent

Directions == {1, -1}
Distance(x) == IF x < 0 THEN -x ELSE x
Recent(cs, n) == SubSeq(cs, Len(cs) - n + 1, Len(cs))
SumOf(F(_), cs) == FoldLeft(LAMBDA total, c : total + F(c), 0, cs)
Closes(cs) == SumOf(LAMBDA c : c.close, cs)
Price(cs)  == Last(cs).close
Below(r, q) == r[1] * q[2] < q[1] * r[2]        \* ratios with positive denominators

-----------------------------------------------------------------------------
(* Trend and reversion *)

Momentum(cs) ==
  LET p == Tuning.momentum
      fast == Closes(Recent(cs, p.fast))
      slow == Closes(Recent(cs, p.slow))
  IN IF Len(cs) < p.candles \/ Len(cs) < p.slow \/ Len(cs) < p.fast THEN {}
     ELSE {d \in Directions : /\ d * (fast * p.slow - slow * p.fast) > 0
                              /\ d * (Price(cs) * p.fast - fast) > 0}

\* The relative strength of the gains; with no loss it is 100, with no gain either.
Strength(gains, losses) ==
  IF losses = 0 THEN <<100, 1>> ELSE <<100 * gains, gains + losses>>

Change(cs, i) == cs[i].close - cs[i - 1].close
Gain(x) == IF x > 0 THEN x ELSE 0

Rsi(cs, n) ==
  LET steps == [i \in 1..n |-> Change(cs, Len(cs) - n + i)]
  IN Strength(SumOf(Gain, steps), SumOf(LAMBDA x : Gain(-x), steps))

\* The last close lies beyond the band and the strength confirms it.
MeanReversion(cs) ==
  LET p == Tuning.reversion
      recent == Recent(cs, p.band)
      gap == Closes(recent) - p.band * Price(cs)
      spread == p.band * SumOf(LAMBDA c : c.close * c.close, recent)
                  - Closes(recent) * Closes(recent)
      confirmed(d) == IF d = 1 THEN Below(Rsi(cs, p.rsi), <<p.oversold, 1>>)
                               ELSE Below(<<p.overbought, 1>>, Rsi(cs, p.rsi))
  IN IF Len(cs) < p.candles \/ Len(cs) < p.band \/ Len(cs) < p.rsi + 1 THEN {}
     ELSE {d \in Directions : /\ d * gap > 0
                              /\ gap * gap > p.std * p.std * spread
                              /\ confirmed(d)}

VwapReversion(cs) ==
  LET p == Tuning.vwap
      opened(i) == IF i = 1 THEN cs[i].close ELSE cs[i - 1].close
      thrice(i) == 2 * cs[i].close + opened(i)          \* high + low + close
      volume == 3 * SumOf(LAMBDA c : c.volume, cs)
      paid == SumOf(LAMBDA i : thrice(i) * cs[i].volume, [i \in DOMAIN cs |-> i])
      gap == paid - Price(cs) * volume
  IN IF Len(cs) < p.candles \/ volume = 0 \/ paid = 0 THEN {}
     ELSE {d \in Directions : d * gap > 0 /\ 1000 * Distance(gap) >= p.permille * paid}

-----------------------------------------------------------------------------
(* Breakouts and divergences *)

Ema(cs, n) ==
  FoldLeft(LAMBDA e, c : <<(n - 1) * e[1] + 2 * c.close * e[2], (n + 1) * e[2]>>,
           <<Closes(SubSeq(cs, 1, n)), n>>, SubSeq(cs, n + 1, Len(cs)))

\* n times the average true range.
TrueRange(cs, n) == SumOf(LAMBDA i : Distance(Change(cs, i)),
                          [k \in 1..n |-> Len(cs) - n + k])

VolatilityBreakout(cs) ==
  LET p == Tuning.breakout
      past == IF Len(cs) > p.candles + p.back THEN SubSeq(cs, 1, Len(cs) - p.back) ELSE cs
      mean == Ema(cs, p.ema)
      now == TrueRange(cs, p.atr)
      before == TrueRange(past, p.atr)
      expanded == IF before = 0 THEN p.expansion <= 10 ELSE 10 * now >= p.expansion * before
      gap == Price(cs) * mean[2] - mean[1]
  IN IF Len(cs) < p.candles \/ Len(cs) < p.ema \/ Len(past) < p.atr + 1 THEN {}
     ELSE {d \in Directions : d * gap * p.atr > p.width * now * mean[2] /\ expanded}

\* Wilder's smoothing; gains and losses carry the common factor n^k of the k-th bar.
RsiSeries(cs, n) ==
  LET first == [i \in 1..n |-> Change(cs, i + 1)]
      start == [gain |-> SumOf(Gain, first), loss |-> SumOf(LAMBDA x : Gain(-x), first),
                unit |-> n, out |-> << >>]
      bar(s, i) ==
        [gain |-> s.gain * (n - 1) + Gain(Change(cs, i)) * s.unit,
         loss |-> s.loss * (n - 1) + Gain(-Change(cs, i)) * s.unit,
         unit |-> s.unit * n, out |-> Append(s.out, Strength(s.gain, s.loss))]
      end == FoldLeft(bar, start, [k \in 1..(Len(cs) - n - 1) |-> k + n + 1])
  IN Append(end.out, Strength(end.gain, end.loss))

Lowest(rs)  == CHOOSE r \in rs : \A q \in rs : ~ Below(q, r)
Highest(rs) == CHOOSE r \in rs : \A q \in rs : ~ Below(r, q)
Points(r, n) == <<r[1] + n * r[2], r[2]>>

RsiDivergence(cs) ==
  LET p == Tuning.divergence
      n == p.lookback
      window == Recent(cs, n)
      rsi == Recent(RsiSeries(cs, p.rsi), n)
      early == {rsi[i] : i \in 1..(n \div 2)}
      late  == {rsi[i] : i \in (n \div 2 + 1)..n}
      firstAt(d) == CHOOSE i \in 1..n :          \* of the lowest (d = 1) or highest close
        /\ \A j \in 1..n : d * window[i].close <= d * window[j].close
        /\ \A j \in 1..(i - 1) : window[j].close # window[i].close
      extreme(d) == window[firstAt(d)].close
      atExtreme(d) == IF d = 1 THEN 100 * Price(cs) <= 101 * extreme(d)
                               ELSE 100 * Price(cs) >= 99 * extreme(d)
      turned(d) == IF d = 1 THEN Below(Points(Lowest(early), 3), Lowest(late))
                            ELSE Below(Highest(late), Points(Highest(early), -3))
      diverges(d) == firstAt(d) - 1 > n \div 2 /\ atExtreme(d) /\ turned(d)
  IN IF Len(cs) < p.candles \/ Len(cs) - p.rsi < n THEN {}
     ELSE IF diverges(1) THEN {1} ELSE {d \in {-1} : diverges(d)}

-----------------------------------------------------------------------------
(* Grid, funding, sentiment, pairs *)

\* The grid is laid around the average of the same candles.
GridLevel(cs) ==
  LET p == Tuning.grid
      n == p.candles
      centre == Closes(Recent(cs, n))
      level == (p.levels * (200 * n * Price(cs) - (200 - p.range) * centre))
                 \div (2 * p.range * centre)
  IN IF level < 0 THEN 0 ELSE IF level > p.levels THEN p.levels ELSE level

GridMove(from, to) == {d \in Directions : d * (from - to) > 0}

Funding(rate) == {d \in Directions : d * rate < 0 /\ Distance(rate) >= Tuning.funding.high}

Sentiment(score) ==
  IF score <= Tuning.sentiment.fear THEN {1}
  ELSE {d \in {-1} : score >= Tuning.sentiment.greed}

\* The last ratio of the two closes against the mean of the ratios, in deviations.
Pairs(cs, others) ==
  LET p == Tuning.pairs
      unit == FoldLeft(LAMBDA a, c : a * c.close, 1, Recent(others, p.lookback))
      ratio == [i \in 1..p.lookback |->
                  Recent(cs, p.lookback)[i].close * (unit \div Recent(others, p.lookback)[i].close)]
      total == SumOf(LAMBDA r : r, ratio)
      gap == total - p.lookback * Last(ratio)
      spread == p.lookback * SumOf(LAMBDA r : r * r, ratio) - total * total
  IN IF Len(cs) < p.candles \/ Len(others) < p.candles \/ unit = 0 \/ spread = 0 THEN {}
     ELSE {d \in Directions : d * gap > 0 /\ gap * gap >= p.deviations * p.deviations * spread}

-----------------------------------------------------------------------------
(* Market regimes.  Returns are in ten-thousandths; volatility stands for  *)
(* the variance of the last `lookback` returns, times a constant.          *)

Regimes == {"risk_on", "risk_off", "transition", "stressed"}

LabelRegime(up, vol, threshold) ==
  CASE vol > threshold /\ ~ up -> "stressed"
    [] vol <= threshold /\ up  -> "risk_on"
    [] OTHER                   -> "transition"

RegimeDirection(regime) ==
  CASE regime = "risk_on" -> {1}
    [] regime \in {"risk_off", "stressed"} -> {-1}
    [] OTHER -> {}

Return(cs, i) ==
  IF cs[i - 1].close = 0 THEN 0 ELSE (10000 * Change(cs, i)) \div cs[i - 1].close

\* The feature of every candle that has `lookback` returns behind it.
Features(cs) ==
  LET n == Tuning.regime.lookback
      returns(i) == [k \in 1..n |-> Return(cs, i - n + k)]
      volatility(rs) == n * SumOf(LAMBDA r : r * r, rs) - SumOf(LAMBDA r : r, rs)
                                                            * SumOf(LAMBDA r : r, rs)
  IN IF Len(cs) <= n THEN << >>
     ELSE [k \in 1..(Len(cs) - n) |-> [up |-> Return(cs, n + k) >= 0,
                                       vol |-> volatility(returns(n + k))]]

\* The upper quartile of the volatilities, rounded down to one of them; 2% without any.
Calibrated(cs) ==
  LET n == Tuning.regime.lookback
      vols == SortSeq([k \in DOMAIN Features(cs) |-> Features(cs)[k].vol], <)
  IN IF vols = << >> THEN 40000 * n * (n - 1) ELSE vols[(3 * (Len(vols) - 1)) \div 4 + 1]

\* A fitted model may answer with any of its states; each is labelled by the rule.
Fitted == {"rules", "hmm"}
Fit(cs) ==
  IF Len(Features(cs)) < Tuning.regime.samples \/ ~ Tuning.regime.hmmlearn
  THEN {[kind |-> "rules", threshold |-> Calibrated(cs)]}
  ELSE {[kind |-> k, threshold |-> Calibrated(cs)] : k \in Fitted}

Predict(model, cs) ==
  IF Features(cs) = << >> THEN {"transition"}
  ELSE IF model.kind = "hmm" THEN {"risk_on", "transition", "stressed"}
  ELSE {LabelRegime(Last(Features(cs)).up, Last(Features(cs)).vol, model.threshold)}
=============================================================================
