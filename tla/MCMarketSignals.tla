-------------------------- MODULE MCMarketSignals --------------------------
(* A market of two symbols, a short history and agents that look at few candles. *)
EXTENDS MarketSignals

MCSymbolList == <<"btc", "eth">>
Candled(closes) == [i \in DOMAIN closes |-> [close |-> closes[i], volume |-> 1]]
MCHistory == Candled(<<100, 96, 100, 104, 104>>)
MCFlat == Candled(<<100, 100, 100, 100, 100>>)
MCTuning ==
  [momentum   |-> [fast |-> 3, slow |-> 4, candles |-> 4],
   reversion  |-> [band |-> 3, std |-> 1, rsi |-> 2, oversold |-> 30, overbought |-> 70,
                   candles |-> 4],
   vwap       |-> [permille |-> 15, candles |-> 4],
   breakout   |-> [ema |-> 3, atr |-> 2, width |-> 1, expansion |-> 12, back |-> 1,
                   candles |-> 4],
   divergence |-> [rsi |-> 2, lookback |-> 4, candles |-> 6],
   grid       |-> [levels |-> 10, range |-> 10, candles |-> 4],
   funding    |-> [high |-> 5],
   sentiment  |-> [fear |-> 35, greed |-> 65],
   pairs      |-> [lookback |-> 4, deviations |-> 2, candles |-> 4],
   regime     |-> [lookback |-> 2, samples |-> 3, hmmlearn |-> FALSE, candles |-> 5]]
=============================================================================
