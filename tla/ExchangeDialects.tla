-------------------------- MODULE ExchangeDialects --------------------------
(***************************************************************************)
(* What the five exchange providers make of an order on its way out and of *)
(* the exchange's answers on their way in.  A symbol is a base, a quote    *)
(* and the form they are written in: "slash" for BTC/USDT, "plain" for     *)
(* BTCUSDT, "dash" for BTC-USD and "bare" for a ticker without a quote.    *)
(* Letter case is left out.  An order's reply "id" carries an order id,    *)
(* "noid" does not, and "raises" stands for an exception.                  *)
(***************************************************************************)
EXTENDS Integers, Sequences, SequencesExt

Dialects == {"aster", "binance", "bybit", "coinbase", "ib"}
Forms    == {"slash", "plain", "dash", "bare"}
Magnitude(q) == IF q < 0 THEN -q ELSE q

-----------------------------------------------------------------------------
(* Names *)

\* Binance is given the functions of Aster for this and for its answers.
AsterNormalize(s) == IF s.form = "bare" THEN s ELSE [s EXCEPT !.form = "plain"]
AsterCanonical(s) ==
  IF s.form = "plain" /\ s.quote = "USDT" THEN [s EXCEPT !.form = "slash"] ELSE s

BybitQuotes == {"USDT", "USDC", "BUSD", "USD", "BTC", "ETH"}
BybitNormalize(s) == IF s.form = "slash" THEN [s EXCEPT !.form = "plain"] ELSE s
BybitCanonical(s) ==
  IF s.form = "plain" /\ s.quote \in BybitQuotes THEN [s EXCEPT !.form = "slash"] ELSE s

QuoteAlias(q) == IF q \in {"USDT", "USDC"} THEN "USD" ELSE q
CoinbaseNormalize(s) ==
  IF \/ s.form = "slash"
     \/ s.form = "plain" /\ s.quote \in {"USDT", "USDC", "USD"}
  THEN [base |-> s.base, quote |-> QuoteAlias(s.quote), form |-> "dash"]
  ELSE s
CoinbaseCanonical(s) == IF s.form = "dash" THEN [s EXCEPT !.form = "slash"] ELSE s

CryptoTickers == {"BTC", "ETH", "LTC", "BCH", "XRP", "ADA", "DOT", "SOL", "DOGE", "AVAX",
                  "LINK", "MATIC", "UNI", "SHIB", "ALGO"}
IbNormalize(s) ==
  IF s.form = "slash" THEN [base |-> s.base, quote |-> "", form |-> "bare"] ELSE s
IbCanonical(s) ==
  IF s.form = "plain" /\ s.quote = "USD" /\ s.base \in CryptoTickers
  THEN [s EXCEPT !.form = "slash"] ELSE s

NormalizeSymbol(d, s) ==
  CASE d \in {"aster", "binance"} -> AsterNormalize(s)
    [] d = "bybit"    -> BybitNormalize(s)
    [] d = "coinbase" -> CoinbaseNormalize(s)
    [] d = "ib"       -> IbNormalize(s)

ToCanonicalSymbol(d, s) ==
  CASE d \in {"aster", "binance"} -> AsterCanonical(s)
    [] d = "bybit"    -> BybitCanonical(s)
    [] d = "coinbase" -> CoinbaseCanonical(s)
    [] d = "ib"       -> IbCanonical(s)

-----------------------------------------------------------------------------
(* Orders out: the market and the product they reach *)

AsterMarket(venue)   == IF venue = "futures" THEN "futures" ELSE "spot"
BinanceMarket(venue) == IF venue = "futures" THEN "futures" ELSE "spot"
BybitMarket(venue)   == IF venue = "futures" THEN "linear" ELSE venue
IbMarket(venue) ==
  CASE venue = "futures" -> "FUT" [] venue = "options" -> "OPT" [] venue = "forex" -> "CASH"
    [] OTHER -> "STK"

PlaceAster(s, side, venue) ==
  [market |-> AsterMarket(venue), product |-> AsterNormalize(s), side |-> side]
PlaceBinance(s, side, venue) ==
  [market |-> BinanceMarket(venue), product |-> AsterNormalize(s), side |-> side]
PlaceBybit(s, side, venue) ==
  [market |-> BybitMarket(venue), product |-> BybitNormalize(s), side |-> side]
PlaceCoinbase(s, side) ==
  [market |-> "spot", product |-> CoinbaseNormalize(s), side |-> side]
PlaceIb(s, side, venue) ==
  [market |-> IbMarket(venue), product |-> IbNormalize(s), side |-> side]

PlaceOrder(d, s, side, venue) ==
  CASE d = "aster"    -> PlaceAster(s, side, venue)
    [] d = "binance"  -> PlaceBinance(s, side, venue)
    [] d = "bybit"    -> PlaceBybit(s, side, venue)
    [] d = "coinbase" -> PlaceCoinbase(s, side)
    [] d = "ib"       -> PlaceIb(s, side, venue)

\* Coinbase refuses every other venue before it calls the exchange.
Serves(d, venue) == d = "coinbase" => venue = "spot"

\* The orders a cancellation of everything in a symbol asks for.  Coinbase and
\* IB do not tell the exchange which market is meant.
AsterCancels(s, venue, o) == o.product = AsterNormalize(s) /\ o.market = AsterMarket(venue)
BinanceCancels(s, venue, o) == o.product = AsterNormalize(s) /\ o.market = BinanceMarket(venue)
BybitCancels(s, venue, o) == o.product = BybitNormalize(s) /\ o.market = BybitMarket(venue)
CoinbaseCancels(s, o) == o.product = CoinbaseNormalize(s)
IbCancels(s, o) == o.product = IbNormalize(s)

CancelAllOrders(d, s, venue, o) ==
  CASE d = "aster"    -> AsterCancels(s, venue, o)
    [] d = "binance"  -> BinanceCancels(s, venue, o)
    [] d = "bybit"    -> BybitCancels(s, venue, o)
    [] d = "coinbase" -> CoinbaseCancels(s, o)
    [] d = "ib"       -> IbCancels(s, o)

-----------------------------------------------------------------------------
(* Answers in *)

\* Bybit answers an error inside an envelope; the provider hands out the
\* envelope, which has no order id, instead of raising.
BybitAnswer(refused) == IF refused THEN "noid" ELSE "id"
CoinbaseAnswer(refused) == IF refused THEN "raises" ELSE "id"
IbAnswer(refused) == IF refused THEN "raises" ELSE "id"
AsterAnswer(refused) == IF refused THEN "raises" ELSE "id"

OrderAnswer(d, refused) ==
  CASE d \in {"aster", "binance"} -> AsterAnswer(refused)
    [] d = "bybit"    -> BybitAnswer(refused)
    [] d = "coinbase" -> CoinbaseAnswer(refused)
    [] d = "ib"       -> IbAnswer(refused)

\* A position of q lots, positive for a long one, as the exchange states it
\* and as the provider reports it: the set of its entries.
Entry(symbol, side, quantity) == [symbol |-> symbol, side |-> side, quantity |-> quantity]

AsterPosition(s, q) ==
  Entry(AsterCanonical(s), IF q >= 0 THEN "LONG" ELSE "SHORT", Magnitude(q))
AsterPositions(s, q) == {AsterPosition(s, x) : x \in {q} \ {0}}

BybitSide(q) == CASE q > 0 -> "LONG" [] q < 0 -> "SHORT" [] OTHER -> ""
BybitPositions(s, q) == {Entry(BybitCanonical(s), BybitSide(q), Magnitude(q))}

CoinbasePositions == {}

IbPositions(s, q) ==
  {Entry(IbCanonical(s), IF x > 0 THEN "LONG" ELSE "SHORT", Magnitude(x)) : x \in {q} \ {0}}

GetPositions(d, s, q) ==
  CASE d \in {"aster", "binance"} -> AsterPositions(s, q)
    [] d = "bybit"    -> BybitPositions(s, q)
    [] d = "coinbase" -> CoinbasePositions
    [] d = "ib"       -> IbPositions(s, q)

\* The balance that is parsed from an answer without entries, where NoBalance
\* makes the sync give up.
NoBalance == -1
AsterBalance(full, nav) == IF full THEN nav ELSE 0
BybitBalance(full, nav) == IF full THEN nav ELSE NoBalance
CoinbaseBalance(full, nav) == IF full THEN nav ELSE 0
IbBalance(full, nav) == IF full THEN nav ELSE 0

GetBalance(d, full, nav) ==
  CASE d \in {"aster", "binance"} -> AsterBalance(full, nav)
    [] d = "bybit"    -> BybitBalance(full, nav)
    [] d = "coinbase" -> CoinbaseBalance(full, nav)
    [] d = "ib"       -> IbBalance(full, nav)

\* A trade of order o as it reaches the fill tracker; IB's says BOT or SLD and
\* its order id is dropped.
Trade(symbol, side, id) == [symbol |-> symbol, side |-> side, id |-> id]
AsterTrade(o, id)    == Trade(AsterCanonical(o.product), o.side, id)
BybitTrade(o, id)    == Trade(BybitCanonical(o.product), o.side, id)
CoinbaseTrade(o, id) == Trade(CoinbaseCanonical(o.product), o.side, id)
IbTrade(o)           == Trade(IbCanonical(o.product), o.side, 0)

GetMyTrade(d, o, id) ==
  CASE d \in {"aster", "binance"} -> AsterTrade(o, id)
    [] d = "bybit"    -> BybitTrade(o, id)
    [] d = "coinbase" -> CoinbaseTrade(o, id)
    [] d = "ib"       -> IbTrade(o)

\* What comes of set_margin_mode and set_leverage when the exchange takes the
\* request, refuses it, or cannot be reached: "ok", or an exception.
AsterSetting(outcome) == IF outcome = "taken" THEN "ok" ELSE "raises"
BinanceSetting(outcome) == IF outcome = "taken" THEN "ok" ELSE "raises"
BybitSetting(outcome) == IF outcome = "lost" THEN "raises" ELSE "ok"
CoinbaseSetting == "unsupported"
IbSetting == "unsupported"

Setting(d, outcome) ==
  CASE d = "aster"    -> AsterSetting(outcome)
    [] d = "binance"  -> BinanceSetting(outcome)
    [] d = "bybit"    -> BybitSetting(outcome)
    [] d = "coinbase" -> CoinbaseSetting
    [] d = "ib"       -> IbSetting

-----------------------------------------------------------------------------
(* Market data in: what the calls for klines, funding rate, ticker and order *)
(* book give of the candles cs and the rates the exchange may quote.  Nothing *)
(* in the ticker or the book reaches an agent, so "seen" stands for them.     *)
(* No provider sorts the candles it is given.                                 *)

HasFunding(d) == d \notin {"coinbase", "ib"}

AsterReply(call, cs, rates) ==
  CASE call = "klines" -> {cs} [] call = "funding" -> rates [] OTHER -> {"seen"}
BinanceReply(call, cs, rates) == AsterReply(call, cs, rates)
BybitReply(call, cs, rates) ==
  CASE call = "klines" -> {cs} [] call = "funding" -> rates [] OTHER -> {"seen"}
CoinbaseReply(call, cs) == IF call = "klines" THEN {cs} ELSE {"seen"}
IbReply(call, cs) == IF call = "klines" THEN {cs} ELSE {"seen"}

Reply(d, call, cs, rates) ==
  CASE d = "aster"    -> AsterReply(call, cs, rates)
    [] d = "binance"  -> BinanceReply(call, cs, rates)
    [] d = "bybit"    -> BybitReply(call, cs, rates)
    [] d = "coinbase" -> CoinbaseReply(call, cs)
    [] d = "ib"       -> IbReply(call, cs)

\* The same when one value, of the last candle among the klines, is no number: {} when
\* the parser raises.  Bybit reads it as zero or skips a short row, IB skips the bar.
AsterMalformed == {}
CoinbaseMalformed == {}
BybitMalformed(call, cs) ==
  CASE call = "klines"  -> {Append(Front(cs), [Last(cs) EXCEPT !.close = 0]), Front(cs)}
    [] call = "funding" -> {0}
    [] OTHER            -> {"seen"}
IbMalformed(call, cs) == IF call = "klines" THEN {Front(cs)} ELSE {}

Malformed(d, call, cs) ==
  CASE d \in {"aster", "binance"} -> AsterMalformed
    [] d = "coinbase" -> CoinbaseMalformed
    [] d = "bybit"    -> BybitMalformed(call, cs)
    [] d = "ib"       -> IbMalformed(call, cs)
=============================================================================
