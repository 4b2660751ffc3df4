---------------------------- MODULE MarketSignals ----------------------------
(***************************************************************************)
(* How a cycle of the trading loop gets its signals.  The loop drains the  *)
(* alerts the webhook's thread has queued, then asks the exchange for each *)
(* symbol's klines, funding rate, ticker and order book, every call paying *)
(* the gateway's token bucket, shows what came back to all agents, and     *)
(* hands the signals over.  Agents keep memory from cycle to cycle: the    *)
(* grid its level of each symbol, the regime detector one fitted model and *)
(* one last regime for all symbols.                                        *)
(*                                                                         *)
(* `taken` and `shown` are ghosts: the alerts drained so far, and the      *)
(* candles the grid last looked at.                                        *)
(***************************************************************************)
EXTENDS StrategyAgents, ExchangeDialects

CONSTANTS
  Dialect,              \* the exchange's provider
  NewestFirst,          \* TRUE when the exchange lists the newest candle first
  SymbolList,           \* config.symbols
  History,              \* the candles a symbol starts with
  KlinesLimit,          \* config.klines_limit
  Prices, Rates,        \* what the market may do
  Faulty,               \* stateless agents that may raise
  Actions,              \* the actions an alert may ask for
  QueueLimit,           \* maxlen of the queue of alerts
  MaxTokens, Refill,    \* the bucket and what a tick adds to it
  CallCost, Patience,   \* tokens of a call, ticks a call may wait for them
  MaxCycles, MaxCandles, MaxAlerts,  \* bounds of the instance
  MaxTicks,             \* bound on the ticks no call waits for
  MaxBad                \* bound on failed or malformed replies

ASSUME BucketAssumption ==
  /\ MaxTokens \in Nat /\ Refill \in Nat /\ CallCost \in Nat \ {0} /\ CallCost <= MaxTokens
  /\ Patience \in Nat \ {0}
ASSUME QueueAssumption == QueueLimit \in Nat \ {0} /\ KlinesLimit \in Nat \ {0}

Candle == [close : Nat, volume : Nat]

\* A value that is missing is no number; a listed symbol has at least one candle.
ASSUME MarketAssumption ==
  /\ Dialect \in Dialects /\ SymbolList \in Seq(Range(SymbolList))
  /\ History \in Seq(Candle) \ {<< >>} /\ Len(History) <= KlinesLimit
  /\ Prices \subseteq Nat /\ None \notin Int
ASSUME TuningAssumption ==
  /\ {Tuning.momentum.fast, Tuning.reversion.band, Tuning.grid.candles, Tuning.grid.range}
        \subseteq Nat \ {0}
  /\ {Tuning.momentum.slow, Tuning.grid.levels} \subseteq Nat

VARIABLES
  market, arrived,      \* the exchange's candles and how many came in the run
  posted, queue,        \* alerts accepted so far, alerts waiting
  paused,               \* the operator's state as the gate reads it
  tokens, waited, clock, calls,
  call, todo, data,     \* the next call, symbols left, what the symbol's calls gave
  signals, external, errors,   \* of the cycle under way
  grid, lastRegime, model,     \* what agents remember
  order, bad, cycles, taken, shown

feed   == <<market, arrived>>
alerts == <<posted, queue>>
bucket == <<tokens, waited, clock, calls>>
cycle  == <<call, todo, data, signals, external, errors>>
memory == <<grid, lastRegime, model, shown>>
vars   == <<feed, alerts, paused, bucket, cycle, memory, order, bad, cycles, taken>>

Symbols == Range(SymbolList)
NoData  == [klines |-> << >>, rate |-> None]
Calls   == IF HasFunding(Dialect) THEN <<"klines", "funding", "ticker", "book">>
           ELSE <<"klines", "ticker", "book">>

Init ==
  /\ market = [s \in Symbols |-> History] /\ arrived = 0
  /\ posted = 0 /\ queue = << >> /\ paused = FALSE
  /\ tokens = MaxTokens /\ waited = 0 /\ clock = 0 /\ calls = 0
  /\ call = 0 /\ todo = << >> /\ data = NoData
  /\ signals = {} /\ external = << >> /\ errors = {}
  /\ grid = [s \in Symbols |-> None] /\ lastRegime = None /\ model = None
  /\ order = None /\ bad = 0 /\ cycles = 0 /\ taken = << >> /\ shown = [s \in Symbols |-> << >>]

-----------------------------------------------------------------------------
(* The outside: the market, time, the operator and TradingView *)

LastCandles(cs) == IF Len(cs) <= KlinesLimit THEN cs ELSE Recent(cs, KlinesLimit)

\* Candles are read by the calls for klines and the operator's state by the gate only,
\* so both move when one of these is next: elsewhere their moves commute.
NewCandle(s, p) ==
  /\ arrived < MaxCandles /\ call \in {0, 1}
  /\ arrived' = arrived + 1
  /\ market' = [market EXCEPT ![s] = LastCandles(Append(@, [close |-> p, volume |-> 1]))]
  /\ UNCHANGED <<alerts, paused, bucket, cycle, memory, order, bad, cycles, taken>>

\* The bucket is topped up with the time that has passed, up to its size.
Refilled == IF tokens + Refill > MaxTokens THEN MaxTokens ELSE tokens + Refill

Fetching == todo # << >> /\ call \in DOMAIN Calls
Waits == Fetching /\ tokens < CallCost

Tick ==
  /\ clock < MaxTicks \/ Waits
  /\ clock' = clock + 1
  /\ tokens' = Refilled
  /\ waited' = IF Waits THEN waited + 1 ELSE 0
  /\ UNCHANGED <<feed, alerts, paused, calls, cycle, memory, order, bad, cycles, taken>>

SetPaused ==
  /\ call = 0
  /\ paused' = ~ paused
  /\ UNCHANGED <<feed, alerts, bucket, cycle, memory, order, bad, cycles, taken>>

ActionDirection(a) == CASE a \in {"buy", "long"} -> 1 [] a \in {"sell", "short"} -> -1 [] OTHER -> 0

\* Mutant: a full queue refuses the new alert.
EnqueuedIfRoom(q, x) == IF Len(q) < QueueLimit THEN Append(q, x) ELSE q
\* The queue is a deque of limited length: a full one forgets its oldest.
Enqueued(q, x) == IF Len(q) < QueueLimit THEN Append(q, x) ELSE Append(Tail(q), x)

\* An alert that is no JSON, misses a field or the passphrase is answered and forgotten.
ReceiveAlert(a) ==
  /\ posted < MaxAlerts
  /\ posted' = posted + 1
  /\ queue' = Enqueued(queue, [id |-> posted + 1, direction |-> ActionDirection(a)])
  /\ UNCHANGED <<feed, paused, bucket, cycle, memory, order, bad, cycles, taken>>

-----------------------------------------------------------------------------
(* The loop: one cycle *)

\* A blocked cycle returns before it drains the queue.
BeginCycle ==
  /\ call = 0 /\ ~ paused /\ cycles < MaxCycles /\ cycles' = cycles + 1
  /\ external' = queue /\ queue' = << >>
  /\ taken' = taken \o [i \in DOMAIN queue |-> queue[i].id]
  /\ todo' = SymbolList /\ call' = 1 /\ data' = NoData
  /\ signals' = {} /\ errors' = {} /\ order' = None
  /\ UNCHANGED <<feed, posted, paused, bucket, memory, bad>>

NextSymbol == todo' = Tail(todo) /\ call' = 1 /\ data' = NoData

\* A call that fails leaves its part of the context empty.
Answered(answer) ==
  /\ data' = answer /\ call' = call + 1
  /\ UNCHANGED <<todo, signals, external, errors>>

\* What is raised outside the guarded call ends the symbol's turn, not the cycle.
ParseFails ==
  /\ errors' = errors \union {Head(todo)}
  /\ NextSymbol
  /\ UNCHANGED <<signals, external>>

\* What the exchange lists of a symbol; the loop asks for the candles in that order.
Candles(s) == IF NewestFirst THEN Reverse(market[s]) ELSE market[s]

With(r) ==
  CASE Calls[call] = "klines"  -> [data EXCEPT !.klines = r]
    [] Calls[call] = "funding" -> [data EXCEPT !.rate = r]
    [] OTHER -> data

\* Mutant: a call is let through while anything is left in the bucket.
AcquireAnything ==
  /\ tokens > 0
  /\ tokens' = (IF tokens >= CallCost THEN tokens - CallCost ELSE 0)
  /\ calls' = calls + 1 /\ waited' = 0
  /\ UNCHANGED clock

\* A call takes its token before it goes out, whatever comes back.
Acquire ==
  /\ tokens >= CallCost
  /\ tokens' = tokens - CallCost /\ calls' = calls + 1 /\ waited' = 0
  /\ UNCHANGED clock
Untouched == UNCHANGED <<feed, alerts, paused, memory, order, cycles, taken>>

CallReplies ==
  /\ Fetching /\ Acquire /\ Untouched /\ UNCHANGED bad
  /\ \E r \in Reply(Dialect, Calls[call], Candles(Head(todo)), Rates) : Answered(With(r))

CallFails ==
  /\ Fetching /\ Acquire /\ Untouched /\ bad < MaxBad /\ bad' = bad + 1
  /\ Answered(data)

CallIsMalformed ==
  /\ Fetching /\ Acquire /\ Untouched /\ bad < MaxBad /\ bad' = bad + 1
  /\ LET readings == Malformed(Dialect, Calls[call], Candles(Head(todo)))
     IN \/ \E r \in readings : Answered(With(r))
        \/ readings = {} /\ ParseFails

CallTimesOut ==
  /\ Fetching /\ waited >= Patience
  /\ waited' = 0 /\ UNCHANGED <<tokens, clock, calls, bad>> /\ Untouched
  /\ Answered(data)

-----------------------------------------------------------------------------
(* All agents look at what the calls gave *)

Opinions(s, agent, directions) ==
  {[agent |-> agent, symbol |-> s, direction |-> d, boosted |-> FALSE] : d \in directions}

\* The context carries neither a sentiment score nor the klines of a second symbol.
Context == [sentiment |-> None, pair |-> None]

Stateless(s, cs, rate) ==
  [momentum   |-> Opinions(s, "momentum", Momentum(cs)),
   reversion  |-> Opinions(s, "reversion", MeanReversion(cs)),
   breakout   |-> Opinions(s, "breakout", VolatilityBreakout(cs)),
   divergence |-> Opinions(s, "divergence", RsiDivergence(cs)),
   vwap       |-> Opinions(s, "vwap", VwapReversion(cs)),
   pairs      |-> Opinions(s, "pairs", IF Context.pair = None THEN {} ELSE Pairs(cs, Context.pair)),
   funding    |-> Opinions(s, "funding", IF rate = None THEN {} ELSE Funding(rate)),
   sentiment  |-> Opinions(s, "sentiment", IF Context.sentiment = None THEN {}
                                           ELSE Sentiment(Context.sentiment))]

\* Mutant: one level is kept for all symbols.
RememberOne(s, level) == [x \in Symbols |-> level]
\* The level is kept by symbol, before it is known whether there is anything to say.
Remember(s, level) == [grid EXCEPT ![s] = level]

GridAnalyze(s, cs) ==
  IF Len(cs) < Tuning.grid.candles \/ Closes(Recent(cs, Tuning.grid.candles)) = 0
  THEN [level |-> grid[s], shown |-> shown[s], says |-> {}]
  ELSE [level |-> GridLevel(cs), shown |-> cs,
        says |-> IF grid[s] = None THEN {}
                 ELSE Opinions(s, "grid", GridMove(grid[s], GridLevel(cs)))]

\* One answer per model the fit may give and regime the model may see.
RegimeAnalyze(s, cs) ==
  IF Len(cs) < Tuning.regime.candles
  THEN {[model |-> model, last |-> lastRegime, says |-> {}]}
  ELSE LET models == IF model = None THEN Fit(cs) ELSE {model}
       IN {[model |-> mr[1], last |-> mr[2],
            says |-> {[agent |-> "regime", symbol |-> s, direction |-> d,
                       boosted |-> lastRegime # None /\ mr[2] # lastRegime]
                        : d \in RegimeDirection(mr[2])}]
            : mr \in UNION {{mo} \X Predict(mo, cs) : mo \in models}}

Analyze ==
  /\ todo # << >> /\ call = Len(Calls) + 1
  /\ LET s == Head(todo)
         cs == data.klines
         says == Stateless(s, cs, data.rate)
         level == GridAnalyze(s, cs)
     IN \E raised \in SUBSET Faulty, regime \in RegimeAnalyze(s, cs) :
          /\ signals' = signals \union level.says \union regime.says
                          \union UNION {says[a] : a \in DOMAIN says \ raised}
          /\ grid' = Remember(s, level.level)
          /\ shown' = [shown EXCEPT ![s] = level.shown]
          /\ model' = regime.model /\ lastRegime' = regime.last
  /\ NextSymbol
  /\ UNCHANGED <<feed, alerts, paused, bucket, external, errors, order, bad, cycles, taken>>

\* The allocator gives a signal its side; arbitration and risk may refuse them all.
Side(x) == IF x.direction >= 0 THEN "BUY" ELSE "SELL"

Coordinate ==
  /\ call # 0 /\ todo = << >>
  /\ order' \in {None} \union {[side |-> Side(x), direction |-> x.direction]
                                 : x \in signals \union Range(external)}
  /\ call' = 0 /\ signals' = {} /\ external' = << >> /\ errors' = {}
  /\ UNCHANGED <<feed, alerts, paused, bucket, todo, data, memory, bad, cycles, taken>>

Step == BeginCycle \/ CallReplies \/ CallFails \/ CallIsMalformed \/ CallTimesOut \/ Analyze
          \/ Coordinate

Next ==
  \/ Step
  \/ Tick \/ SetPaused
  \/ \E s \in Symbols, p \in Prices : NewCandle(s, p)
  \/ \E a \in Actions : ReceiveAlert(a)

Spec == Init /\ [][Next]_vars

-----------------------------------------------------------------------------
(* Properties *)

TypeOK ==
  /\ \A s \in Symbols : Len(market[s]) <= KlinesLimit
  /\ tokens \in 0..MaxTokens /\ waited \in Nat /\ calls \in Nat
  /\ Len(queue) <= QueueLimit
  /\ call \in 0..(Len(Calls) + 1) /\ (call = 0 => todo = << >>)
  /\ \A s \in Symbols : grid[s] \in {None} \union 0..Tuning.grid.levels
  /\ lastRegime \in {None} \union Regimes

\* Every alert the webhook accepted reaches a cycle, once and in the order of acceptance,
\* or waits for one; only an alert that a full queue of newer ones pushed out is lost
\* (receive_tradingview_alert appending while drain_signals empties the queue).
AlertsInOrder ==
  /\ \A i, j \in DOMAIN taken : i < j => taken[i] < taken[j]
  /\ \A n \in 1..posted :
       \/ n \in Range(taken)
       \/ \E i \in DOMAIN queue : queue[i].id = n
       \/ n + QueueLimit <= posted

\* However calls, waits and time fall, all calls of all symbols together stay within
\* what the bucket held and what time has refilled, and no more than a full bucket of
\* them goes out in one instant (TokenBucketRateLimiter under fetch_symbol_data).
CallBudget ==
  /\ calls * CallCost + tokens <= MaxTokens + Refill * clock
  /\ tokens <= MaxTokens

\* The grid's signals are the moves between the candles it last looked at and those it
\* looks at now, whatever cycles, failed calls and candles of other symbols lie between:
\* each such move is told, in the contrary direction, and told once (GridAgent.analyze
\* and its _last_grid_level).
GridTellsMoves ==
  [][\A s \in Symbols : shown[s] # << >> /\ todo # << >> /\ todo' = Tail(todo) /\ s = Head(todo) =>
       {x \in signals' : x.agent = "grid" /\ x.symbol = s}
         = IF shown'[s] = shown[s] THEN {}
           ELSE Opinions(s, "grid", GridMove(GridLevel(shown[s]), GridLevel(shown'[s])))]_vars

\* The confidence of a regime signal is raised when the symbol's regime has changed
\* ("Boost confidence on regime transitions", regime_detector.py:106).
BoostIsTheSymbols ==
  [][\A s \in Symbols :
       (\E x \in signals' \ signals : x.agent = "regime" /\ x.symbol = s /\ x.boosted)
         => shown[s] # << >> /\ Predict(model', shown[s]) # Predict(model', shown'[s])]_vars

\* "Price dropped to lower level -> buy (contrarian)" (grid_agent.py:74): a buy of the
\* grid follows a fall of the price.
GridBuysFalls ==
  [][\A x \in signals' \ signals :
       x.agent = "grid" /\ x.direction = 1 => Price(shown'[x.symbol]) < Price(shown[x.symbol])]_vars

\* The last of the candles an agent is shown is the latest of the market when fetched.
LastIsLatest ==
  [][\A s \in Symbols : data'.klines # data.klines /\ data'.klines # << >> /\ todo # << >> =>
       Last(data'.klines) = Last(market[Head(todo)])]_vars

\* An alert to go flat opens no position (webhook.py:51, "flat / close").
FlatOpensNothing == order # None => order.direction # 0

\* An alert that waited out a pause is not traded on after it.
PauseClearsAlerts == [][paused /\ ~ paused' => queue = << >>]_vars
=============================================================================
