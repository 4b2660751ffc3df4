----------------------------- MODULE MCBacktest -----------------------------
(* Markets of three prices, long enough for no window, for one and for two. *)
EXTENDS Backtest

Candled(closes) == [i \in DOMAIN closes |-> [close |-> closes[i], volume |-> 1]]
MarketsOf(lengths, prices) == {Candled(c) : c \in UNION {[1..n -> prices] : n \in lengths}}
MCMarkets == MarketsOf({4, 6, 9, 10}, {80, 100})
MCTuning == [momentum |-> [fast |-> 2, slow |-> 3, candles |-> 3], funding |-> [high |-> 5]]
MCRising == {Candled([i \in 1..8 |-> 100 + 5 * i])}
=============================================================================
