------------------------------ MODULE Backtest ------------------------------
(***************************************************************************)
(* A backtest and the walk-forward around it.  The walk-forward cuts the   *)
(* candles into windows of train bars followed by test bars and runs the   *)
(* engine on the test bars of each.  The engine shows a signal generator   *)
(* the window's candles up to the bar, fills its signals at the bar's      *)
(* close and keeps cash, one position, the trades and the equity curve.    *)
(* A backtest on its own is a walk-forward of one window without train.    *)
(*                                                                         *)
(* Money is in whole units, rounded down.  A position is what was paid for *)
(* it and its price; its quantity is their quotient.  `fees` is a ghost,   *)
(* the commissions charged in the window.                                  *)
(***************************************************************************)
EXTENDS StrategyAgents, FiniteSets

CONSTANTS
  Generator,            \* "any", "momentum" or "funding"
  Lookback,             \* bars the funding generator looks back
  Markets,              \* the candle sequences that may be replayed
  InitialCapital, PositionPct, CommissionPct, SlippagePct,   \* config, in whole percents
  TrainBars, TestBars, StepBars

ASSUME WindowAssumption == TrainBars \in Nat /\ TestBars \in Nat /\ StepBars \in Nat \ {0}
ASSUME CapitalAssumption ==
  /\ InitialCapital \in Nat \ {0} /\ PositionPct \in Nat /\ CommissionPct \in Nat
  /\ SlippagePct \in 0..99

\* Prices are positive; no value is no position.
Bar == [close : Nat \ {0}, volume : Nat]
ASSUME MarketsAssumption == Markets \subseteq Seq(Bar)
ASSUME NoneAssumption == None \notin [side : {"LONG", "SHORT"}, paid : Int, entry : Nat \ {0}]

VARIABLES
  candles, start,       \* the whole history and the bar before the window's first
  phase,                \* "running", "done" or "refused"
  bar,                  \* the bar of the test window that was replayed last
  capital, position, curve, trades,   \* of the engine
  fees,
  windows               \* results of the windows that have ended

engine   == <<bar, capital, position, curve, trades, fees>>
backtest == <<candles, start, phase, engine, windows>>

MinBars == TrainBars + TestBars
Test(i) == candles[start + TrainBars + i]
Shown == SubSeq(candles, start + TrainBars + 1, start + TrainBars + bar + 1)

\* Too few candles are refused before anything runs, and so is a test window of one bar.
BacktestInit ==
  /\ candles \in Markets /\ start = 0
  /\ phase = IF Len(candles) < MinBars \/ TestBars < 2 THEN "refused" ELSE "running"
  /\ bar = 1 /\ capital = InitialCapital /\ position = None
  /\ curve = <<InitialCapital>> /\ trades = << >> /\ fees = 0
  /\ windows = << >>

-----------------------------------------------------------------------------
(* Signal generators *)

\* The rate the funding generator makes up from the price, in ten-thousandths.
SyntheticRate(cs) ==
  LET past == cs[Len(cs) - Lookback].close
      change == (100 * Distance(Price(cs) - past)) \div past
  IN IF Price(cs) < past THEN -change ELSE change

Generated(cs) ==
  CASE Generator = "momentum" -> Momentum(cs)
    [] Generator = "funding" ->
         IF Len(cs) < Lookback + 1 THEN {} ELSE Funding(SyntheticRate(cs))
    [] OTHER -> {}

\* Any generator may look at the history as it likes; a signal of direction 0 is legal.
Signals ==
  IF Generator = "any" THEN {None, -1, 0, 1}
  ELSE IF Generated(Shown) = {} THEN {None} ELSE Generated(Shown)

-----------------------------------------------------------------------------
(* The engine: one bar *)

Slipped(price, direction) ==
  LET slip == (price * SlippagePct) \div 100
  IN IF direction >= 1 THEN price + slip ELSE price - slip

Notional == (capital * PositionPct) \div 100
Commission == (Notional * CommissionPct) \div 100

RealizedPnl(p, exit) ==
  ((IF p.side = "LONG" THEN exit - p.entry ELSE p.entry - exit) * p.paid) \div p.entry
MarkToMarket(cash, p, price) == IF p = None THEN cash ELSE cash + RealizedPnl(p, price)

\* A trade names the position it opens or closes by what was paid for it and its price.
BacktestTrade(kind, side, p, pnl) ==
  [kind |-> kind, side |-> side, paid |-> p.paid, entry |-> p.entry, pnl |-> pnl]

\* Mutant: whatever is closed is sold.
CloseSideSell(p) == "SELL"
CloseSide(p) == IF p.side = "LONG" THEN "SELL" ELSE "BUY"
Opposed(p, direction) == (p.side = "LONG" /\ direction <= -1) \/ (p.side = "SHORT" /\ direction >= 1)

Replaying == phase = "running" /\ bar < TestBars
Close == Test(bar + 1).close

\* Mutant: the bar's equity is booked before the bar's trade.
BookedBefore(cash, p) == curve' = Append(curve, MarkToMarket(capital, position, Close)) /\ bar' = bar + 1
\* The bar's equity is booked after the bar's trade.
Booked(cash, p) == curve' = Append(curve, MarkToMarket(cash, p, Close)) /\ bar' = bar + 1

NoSignal ==
  /\ Replaying /\ None \in Signals
  /\ Booked(capital, position)
  /\ UNCHANGED <<candles, start, phase, capital, position, trades, fees, windows>>

\* Every direction below 1 opens a short position.
Opened(direction) ==
  [side |-> IF direction >= 1 THEN "LONG" ELSE "SHORT", paid |-> Notional,
   entry |-> Slipped(Close, direction)]
Open(direction) ==
  /\ Replaying /\ direction \in Signals \ {None} /\ position = None
  /\ position' = Opened(direction)
  /\ capital' = capital - Commission /\ fees' = fees + Commission
  /\ trades' = Append(trades, BacktestTrade("open", IF direction >= 1 THEN "BUY" ELSE "SELL",
                                    Opened(direction), 0))
  /\ Booked(capital', position')
  /\ UNCHANGED <<candles, start, phase, windows>>

\* A signal that is not opposed to the position changes nothing.
Hold(direction) ==
  /\ Replaying /\ direction \in Signals \ {None}
  /\ position # None /\ ~ Opposed(position, direction)
  /\ Booked(capital, position)
  /\ UNCHANGED <<candles, start, phase, capital, position, trades, fees, windows>>

CloseOut(direction) ==
  /\ Replaying /\ direction \in Signals \ {None}
  /\ position # None /\ Opposed(position, direction)
  /\ LET pnl == RealizedPnl(position, Slipped(Close, direction))
     IN /\ capital' = capital + pnl - Commission /\ fees' = fees + Commission
        /\ trades' = Append(trades, BacktestTrade("close", CloseSide(position), position, pnl))
  /\ position' = None
  /\ Booked(capital', position')
  /\ UNCHANGED <<candles, start, phase, windows>>

-----------------------------------------------------------------------------
(* The end of a window *)

\* The forced close at the last bar pays neither slippage nor commission, and its result
\* replaces the last point of the curve.
LastPoint(cash) == [curve EXCEPT ![Len(curve)] = cash]

Forced ==
  IF position = None THEN [capital |-> capital, trades |-> trades, curve |-> curve]
  ELSE LET pnl == RealizedPnl(position, Test(TestBars).close)
       IN [capital |-> capital + pnl, curve |-> LastPoint(capital + pnl),
           trades |-> Append(trades, BacktestTrade("close", CloseSide(position), position, pnl))]

\* The drawdown of the returns of a curve, in whole percents: their peak starts with the
\* first return.
MaxDrawdown(c) ==
  LET fall(i) == LET peak == Max({c[j] : j \in 2..i}) IN (100 * (peak - c[i])) \div peak
  IN Max({fall(i) : i \in 2..Len(c)})

\* Only trades with a result count as closing trades.
Count(ts, p(_)) == Cardinality({i \in DOMAIN ts : p(ts[i])})
Result(f) ==
  [train |-> start, test |-> start + TrainBars, end |-> start + TrainBars + TestBars,
   capital |-> f.capital, fees |-> fees, trades |-> f.trades, curve |-> f.curve,
   drawdown |-> MaxDrawdown(f.curve),
   total |-> Count(f.trades, LAMBDA t : t.pnl # 0),
   wins |-> Count(f.trades, LAMBDA t : t.pnl > 0),
   losses |-> Count(f.trades, LAMBDA t : t.pnl < 0)]

\* Mutant: the next window starts after the train bars of this one.
AdvancedByTrain == start + TrainBars
Advanced == start + StepBars

EndWindow ==
  /\ phase = "running" /\ bar = TestBars
  /\ windows' = Append(windows, Result(Forced))
  /\ start' = Advanced
  /\ phase' = IF Advanced + MinBars <= Len(candles) THEN "running" ELSE "done"
  /\ bar' = 1 /\ capital' = InitialCapital /\ position' = None
  /\ curve' = <<InitialCapital>> /\ trades' = << >> /\ fees' = 0
  /\ UNCHANGED candles

Stopped == phase # "running" /\ UNCHANGED backtest

BacktestNext ==
  \/ NoSignal \/ EndWindow \/ Stopped
  \/ \E direction \in {-1, 0, 1} : Open(direction) \/ Hold(direction) \/ CloseOut(direction)

BacktestSpec == BacktestInit /\ [][BacktestNext]_backtest

\* What the walk-forward reports of its windows: returns compound, trades and wins add up.
Total(f(_)) == FoldLeft(LAMBDA acc, w : acc + f(w), 0, windows)
Aggregate ==
  [trades   |-> Total(LAMBDA w : w.total),
   wins     |-> Total(LAMBDA w : w.wins),
   drawdown |-> Max({w.drawdown : w \in Range(windows)}),
   capital  |-> FoldLeft(LAMBDA acc, w : (acc * w.capital) \div InitialCapital, InitialCapital, windows)]

-----------------------------------------------------------------------------
(* Properties *)

SumPnl(ts) == FoldLeft(LAMBDA acc, t : acc + t.pnl, 0, ts)

\* Cash is what the trades have earned less the commissions, the curve ends in cash and
\* what the position would earn, and when a window ends nothing is left to be earned:
\* its capital, its trades and its curve agree (BacktestEngine.run over opens, holds,
\* closes and the forced close that rewrites the last point).
BooksBalance ==
  /\ capital = InitialCapital + SumPnl(trades) - fees
  /\ phase = "running" /\ bar > 1
       => Last(curve) = MarkToMarket(capital, position, Test(bar).close)
  /\ \A w \in Range(windows) :
       /\ w.capital = InitialCapital + SumPnl(w.trades) - w.fees
       /\ Last(w.curve) = w.capital
       /\ Len(w.curve) = TestBars

\* In a window positions are opened and closed in turn, every one that was opened is
\* closed, on the other side and as a whole (trades of BacktestEngine.run, whatever the
\* generator says and wherever the window ends).
RoundTrips ==
  \A w \in Range(windows) :
    /\ Len(w.trades) % 2 = 0
    /\ \A i \in DOMAIN w.trades : w.trades[i].kind = IF i % 2 = 1 THEN "open" ELSE "close"
    /\ \A i \in DOMAIN w.trades : i % 2 = 0 =>
         /\ w.trades[i].side # w.trades[i - 1].side
         /\ w.trades[i].paid = w.trades[i - 1].paid /\ w.trades[i].entry = w.trades[i - 1].entry

\* With steps as long as the test windows every bar behind the first train window is
\* tested once and none twice, but for an end shorter than a step, and always after the
\* window's own train bars ("rolling train/test windows", WalkForwardOptimizer.run).
EachBarTestedOnce ==
  /\ \A w \in Range(windows) : w.test = w.train + TrainBars
  /\ \A i \in 2..Len(windows) : windows[i].test = windows[i - 1].end
  /\ phase = "done" => Len(candles) - Last(windows).end \in 0..(StepBars - 1)

\* The largest drawdown reported is that of the reported curve.
DrawdownOfCurve ==
  \A w \in Range(windows) : \A i, j \in DOMAIN w.curve :
    i < j => 100 * (w.curve[i] - w.curve[j]) <= (w.drawdown + 1) * w.curve[i]

\* A window whose trades all won has not lost money.
WinsEarn ==
  \A w \in Range(windows) : w.total > 0 /\ w.losses = 0 => w.capital >= InitialCapital

\* A signal without a direction opens no position.
FlatTradesNothing == [][~ Open(0)]_backtest

\* The train bars are what a generator is calibrated on (walk_forward.py:4): in a market
\* that rises all through, a follower of trends is in the market in every window.
TrendIsFollowed ==
  (\A i \in 2..Len(candles) : candles[i].close > candles[i - 1].close)
    => \A w \in Range(windows) : w.trades # << >>

\* A bar that is tested is tested in one window only, whatever the step.
NoBarTwice == \A i \in 2..Len(windows) : windows[i].test >= windows[i - 1].end
=============================================================================
