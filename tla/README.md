# Verification of the AIS trading system

AIS is a trading system in Python.  One process runs a trading loop: it evaluates agents on market
data, turns their signals into at most one order per cycle, checks that order, sends it to an
exchange through an MCP server, and keeps its own book of orders and positions.  A second process
serves the operator's HTTP API.  The two share Redis and a sqlite database.  This directory holds
TLA+ models of the parts of that program that are hard to get right, TLC configurations that check
them, and theorems about them that TLAPS has checked.  Paths are relative to `src/src/aiswarm/`
unless they begin with `docs/`.

## 1. The system

### 1.1 How the parts work together

    API process                         loop process (one thread + signal handlers)
    -----------                         ------------------------------------------
    routes_control  --Redis key-->      TradingLoop._check_control_state
    routes_session  --(set_...)-->      SessionManager  --Redis copy--> restart
                                        PortfolioSyncService --> SharedMemory
                                        agents -> WeightedArbitration -> Coordinator
                                          -> MandateValidator -> PortfolioAllocator -> RiskEngine
                                          -> LiveOrderExecutor -> HTTPMCPGateway -> exchange
                                        FillTracker -> OrderStore (+ mandate P&L)
                                        PortfolioReconciler, stale-order cancel
                                        StopLossManager (before the control gate)
                                        EventStore (sqlite): events and checkpoints

A cycle of the loop (`loop/trading_loop.py:222-380`) is: sync the portfolio if it is due, check
stop-losses, read the control gate, evaluate and coordinate, submit, sync fills, reconcile, cancel
stale orders.  Everything in it runs in one thread; a POSIX signal handler
(`resilience/shutdown.py`) may interrupt any of its steps, cancel orders and save a checkpoint.

### 1.2 Inventory

| Component | State it keeps | Operations | What is hard | What makes it correct |
|---|---|---|---|---|
| Order store, executor, fill tracker (`execution/order_store.py`, `live_executor.py`, `fill_tracker.py`) | records by order, exchange-id index, event log | submit, record submission/fill/cancel, cancel one/all/by symbol, restore | memory is changed before the log; lost replies; signal handler in the middle; polled trades | index and records agree; replay gives what memory held; fills are final; trades get recorded; stale orders leave |
| Operator control (`api/routes_control.py`, `_check_control_state`) | Redis key, per-process fallback | pause, resume, kill | threads race, Redis outage, API restart, gate is read once per cycle | a stop is followed by at most one order; a resume never lifts a kill |
| Trading session (`session/manager.py`) | current session, Redis copy | start, approve, activate, end, check end, restore | no lock; copy-then-store; append may raise; write may fail | signed before trading; ends on schedule, one extra cycle at most; a restart loses nothing |
| Circuit breaker and gateway (`resilience/circuit_breaker.py`, `execution/http_mcp_gateway.py`) | state, failure count, time of last failure | allow, record success/failure, reset, call_tool | outcomes arrive late and in any order; a probe may end without outcome | count agrees with state; recovers once the server does |
| Risk gate (`risk/*`, `portfolio/exposure.py`, `orchestration/memory.py`, `execution/portfolio_sync.py`) | snapshot, peak, drawdown, P&L, kill switch | sync, validate, trigger, checkpoint, restore | failed calls look like empty answers; checkpoint taken inside a sync; restart | drawdown is measured from the true peak, across restarts, and no order is approved beyond its limit |
| Risk tokens and staging (`risk/limits.py:22-128`, `orchestration/coordinator.py:132-188`, `execution/oms.py`) | tokens, staged orders | sign, verify, stage, list, execute, reject | expiry between two steps, unsynchronised dict | a staged order meets one end, decided by its token |
| Coordination and mandates (`orchestration/`, `mandates/`, `portfolio/allocator.py`) | weights, mandates, mandate trackers | arbitrate, validate, allocate, create, pause, revoke, record | the mandate is read once; check, store and log are apart; no daily reset | a stopped mandate gets at most one approval; mandate limits hold |
| Positions (`risk/stop_loss.py`, `monitoring/reconciliation.py`, `execution/portfolio_sync.py`) | snapshot, planned closes, mismatches | sync, check, close, reconcile, cancel | stale snapshots; unsigned quantities; failed reads; five dialects | a close of a fresh snapshot flattens; a reconciliation that was answered leaves the orders of matching positions alone; a breach gets closed |
| Exchange providers (`exchange/`) | none of their own | normalize, place, cancel, query, parse | five dialects of one interface | what goes out comes back as the same product, side and size |
| Loop process (`__main__.py`, `bootstrap.py`, `loop/trading_loop.py`, `resilience/shutdown.py`, `monitoring/alerts.py`, `health.py`) | handler's flag and lock, errors, heartbeat file | boot, cycle, halt, signal, alert, restart | signals interrupt anything, each other too | cancel and save once; a halt is told; a shutdown ends |
| Signals (`loop/market_data.py`, `agents/`, `resilience/rate_limiter.py`, `integrations/tradingview/`, `intelligence/regime/`) | bucket, queue of alerts, grid levels, regime, model | fetch, wait, analyze, enqueue, drain | partial failures leave partial data; memory across symbols and cycles | alerts in order and once; a budget of calls; every grid move told once |
| Evolution (`evolution/darwinian.py`, `evolution/autoresearch.py`) | outcomes, weights, trial, cooldowns | record, rank, update, propose, resolve, save, restore | ties and infinite ratios; outcomes that grow old; restart | one change at a time, reverted exactly; the better never behind |
| Backtest (`backtest/`) | cash, position, trades, curve, windows | signal, open, hold, close, force, advance | the forced close; windows at the end of the data | the books agree; round trips; each bar tested once |
| Leaderboard and profiler, simulation, regime arbiter (`orchestration/janus.py`), plugins, slippage, exports, API pages, secrets | see `PROJECT.json` | | | not modelled, section 6 |

## 2. Plan

Modules, most important first; all are written.

1. `OrderExecution` (component), `OrderLedger` (abstract lifecycle it implements).
2. `ControlGate`: operator and loop.
3. `SessionManager`: lifecycle, Redis copy, restart.
4. `CircuitBreaker`: gateway and breaker.
5. `RiskGate`: portfolio image, guards, kill switch, restart.
6. `Coordination`: signals, mandates and their tracker, staging and risk tokens.
7. `ExchangeDialects`: the five providers as operators; `PositionGuard`: account, snapshot,
   stop-loss, order path and reconciliation composed over one of them.
8. `LoopProcess`: bootstrap, loop, halt, signal handler, alerts, health, restart.
9. `StrategyAgents`: the agents as functions; `MarketSignals`: market data through one dialect and the
   token bucket, the agents' memory and the queue of alerts, composed in the cycle.
10. `Evolution`: weights and experiments.
11. `Backtest`: the engine's books and the walk-forward windows.

Proofs, in the same order: section 5.  Every safety property the runs check is a theorem;
what is left to TLC is liveness.  Two components share a proof module where one stands behind the other or where they
need the same lemmas: `PositionGuard` is proved in `CircuitBreaker_proofs`, `Evolution` in
`Coordination_proofs`, `MarketSignals` and `Backtest` in `Agents_proofs`.  Such components name their
specifications apart (`GuardSpec`, `EvolutionSpec`, `BacktestSpec`).
No module declares a `RECURSIVE` operator, so each can be proved about.

## 3. The models

Every module has one action per operation or step of a handler; a call to the exchange, Redis or
sqlite is a step boundary, because something else may happen there, and so is a change of memory that
another thread, a signal handler or a crash may find half done.  `PROJECT.json` maps each
definition to its lines.  A definition introduced by "Mutant" is a deliberately wrong variant of
the next one; it shows that the property it is listed with can fail, and is used nowhere else.

### 3.1 OrderExecution, OrderLedger

`store` is `OrderStore._orders`, `xmap` its exchange-id index, `logged` the state that replaying the
event log gives, order by order, `xorder` and `trades` the exchange.  `stage` and `todo` say how far the
loop's cycle is, `pc`, `cur`, `unsynced` and `toCancel` which call it is in the middle of, and `event`
which event that call has put into memory and not yet into the log.  `mode` is the executor's mode, chosen
at the start.

* Every `record_*` of the loop's thread is two steps, as in the code: memory and index change
  (`Track`, `RecordSubmission`, `PaperFill`, `MatchTrade`, `PlaceRaised`, `CancelAccepted`, `MarkNext`), then
  sqlite appends (`TrackLogged`, `SubmissionLogged`, `PaperSubmissionLogged`, `PaperFillLogged`, `FillLogged`,
  `FailureLogged`, `CancelLogged`) or raises (`SubmissionRaised`, and a disjunct of the others).  What each
  caller makes of the exception is its own: `submit_order` cancels the record, the others end their call.
* `Signal` and `HandlerMarks` are the shutdown callback's `cancel_all`, between any two of these steps, and
  it runs to its end before the thread goes on.  It may therefore log a cancel ahead of the submission that
  it interrupted; `overtaken` remembers the orders to which that happened, `dirty` those whose events
  sqlite refused.
* `PlaceAccepted`, `PlaceNoOrderId`, `PlaceRaised` are the outcomes of `place_order`; a lost reply leaves the
  order open at the exchange.
* `BeginCycle`, `Blocked`, `PassGate`, `NoOrder`, `EndFills` and `Leave` are the loop's way through its cycle.
  The session, the control gate and the intervals may decide either way in every cycle.
* `BeginSync`, `PollFails`, `SkipTrade`, `MatchTrade` are `FillTracker.sync_fills`; `Match` is its two-way lookup.
* `BeginCancelStale`, `CancelAccepted`, `CancelRaised` work off the list of stale orders; `LoopCancelAll` is
  `cancel_all` as the kill switch and the halt call it, `CancelForSymbol` reconciliation's answer, and
  `MarkNext` their `record_cancel`.
* `Crash` and `Exit` clear memory; `Restart` is `restore_from_events`, with its pruning.

Exchange ids are the orders they were issued for; prices and quantities are the trade they came
from.  `OrderLedger` is the lifecycle an observer of the log may rely on: no status goes back, and a
recorded fill is final.  A cancel that was logged ahead of the submission is a status of its own there,
"withdrawn", which the submission may follow.  `LedgerRefinement` states that `OrderExecution` implements
it, with `ledger` mapped to the status of each replayed record.

### 3.2 ControlGate

`key` is Redis' `ais:control:state`, `fallback` the memory of the API process; the loop's own
fallback is never written and is RUNNING for ever.  Each handler thread has a `request` that goes
through check, remember and publish.  The loop's cycle is `StopLossCheck`, `ControlCheck`,
`CoordinateAndSubmit`, `Housekeeping`, `Wake`.  `late` counts the coordinated orders since the key
last read other than RUNNING; `blind` says that the gate was passed without Redis' word; `unseeing` are the
threads whose resume could not see the kill in force: its check had no answer from Redis, or a kill was
published after it.  All three are history.

### 3.3 SessionManager

`current` is the session in memory, `saved` its copy in Redis, `task` what each thread is doing to
it.  `_transition` and `approve_session` are split where another thread may run: check, copy,
store, append, serialize, write.  `stage` is the main thread: bootstrap (`StartSession`,
`AutoApprove`, `AutoActivate`), then the loop (`CheckSessionEnd`, `TradeOrWait`, `EndCycle`).
`Clients` are the request threads of a program that shares the manager with `set_session_manager` in
one process.  In the program as it is deployed the API process has no manager: its behaviours are
those with `calls = 0`, in which no client acts, and the properties about it say so.

### 3.4 CircuitBreaker

The breaker's methods are atomic, because each holds the lock; `call_tool` is not: `Allow` or
`Reject`, `Acquire` or `Throttle` (the rate limiter), `Answer`, `RecordSuccess` or `RecordFailure`.
`since` is the time since the last failure, counted up to `RecoveryTimeout`.

### 3.5 RiskGate

`account` and `open` are the exchange; `seen`, `peak`, `drawdown` and `loss` are `SharedMemory`;
`saved` is the checkpoint.  Fractions are kept as pairs so that comparisons with percentages are
exact.  A sync is as many steps as it has calls and assignments, before the loop (`InitialSync`) and in
it (`BeginWithSync`): `ReadBalance`, `ReadPositions`, `RaisePeak`, `UpdateDrawdown`, `FinishSync`;
`BeginWithoutSync` is a cycle in which its interval has not elapsed, which may be any.  The calls in
`Failing` may fail; a failed positions call is an empty list.  `sync_daily_pnl` may read any loss,
because the records it sums are not restricted to the day and a failed call lists none.  `CloseBreached` is
the stop-loss monitor, whose orders meet no guard.  `MarketMoves` moves the NAV, the loss and the value of
what is held.  `Signal` interrupts any step, `Halt` ends the loop without a checkpoint, `Crash` without
anything.  `Boot` restores peak and drawdown but no snapshot.  `Slow` says whether a market order may rest.

### 3.6 Coordination

`registry` is `MandateRegistry._mandates`, `journal` the last event of each mandate, `tracker`
`SharedMemory.mandate_trackers`; `orders` holds every order the allocator made, with the age of its
token and its ends, and `staged` is `Coordinator._staged_orders`.

* `MatchMandate`, `Approve`, `Refuse`, `StageOrder`, `Submit` are `coordinate`; another thread may
  run between any two.  The session gate, the winning signal, the order's size and the verdict of
  the global checks are free choices.  `staging` is chosen at the start; the repository's
  `config/mandates.yaml` enables it.
* `ListStaged`, `ScanOrder`, `ScanEnds`, `ScanRaises`, `DeleteExpired`, `ListReturns` are
  `get_staged_orders`, with what Python's dictionary does when it changes under an iteration;
  `ExecuteStaged` pops, `VerifyToken` decides; `RejectStaged` is `reject_staged`.
* `BeginUpdate`, `StoreStatus`, `AppendStatus` are the check, the store and the event of creation,
  pause and revocation.
* `UpdateMandatePnl` is called for the fills of submitted orders; `Midnight` changes nothing but the
  history variable `today`, because nothing resets the trackers; `Restart` creates the configured
  mandates anew.

The API of the program as it is deployed is given neither the coordinator nor the registry: its
behaviours are those in which no client acts, and with staging enabled none of its orders leaves.

### 3.7 ExchangeDialects, PositionGuard

`ExchangeDialects` has no state: what each provider makes of a symbol, an order, a cancellation and
of the exchange's answers, one operator per method and provider, and one per interface method that
selects by provider.  A symbol is a base, a quote and a form of writing.

`PositionGuard` is a desk wired to one of the dialects.  `account`, `entry`, `mark` are the exchange, on
which each product has a name and a market (`ListedMarket`: the `Stocks` are listed by IB as such);
`snapshot` is `memory.latest_snapshot`; `orders` holds both sides' view of an order; `closes` and
`mismatched` are the lists a cycle works off.  An order trades a product when it names it on its market
(`Reaches`).  `SetupSymbol` is the account set-up, `SyncAccount` the sync before the loop too; then a cycle
is `BeginCycle`, `SyncAccount` or `SkipSync`, `CheckPositions`, `SubmitClose`, `GateCloses`, `SubmitEntry` or
`NoEntry`, `SyncFill`, `RunReconciliation` or `SkipReconciliation`, `CancelForSymbol`.  `Fill`, `OtherTrade`
and `MoveMark` happen between any two; a mark of 0 is a product without a price.  `clean` marks a close
planned from a snapshot that still is the account; `answered` and `books` say whether the exchange answered
the read behind a report, and how the account and the snapshot compared when it was made: all three are
history.  Stale orders and the cancels of a shutdown or a halt are those of `OrderExecution` and
`LoopProcess`; the desk here may stay at the head of its loop for ever.

### 3.8 LoopProcess

One thread.  `pc` is the main program's next step, `stack` the frames of the signal handler on top of
it, the last one running; a signal may interrupt a frame too, which then waits for ever if it finds the
lock taken below it (`locked`), because `threading.Lock` is not reentrant.  `LoadConfig` to `Install` is the
bootstrap in its order with its refusals; the loop's steps are those between which a signal makes a
difference.  `CycleFails` counts errors up to the halt, `DispatchToChannel` and `EmergencyCancel` are the
halt, `Restart` the container's.  `beat` is the age of the heartbeat file in cycle intervals, which
`HealthStatus` reads.

### 3.9 StrategyAgents, MarketSignals

`StrategyAgents` has each agent's answer as a set of directions, in exact ratios, a rule and its mirror
image as one formula; `Fit` and `Predict` are the regime detector with its fallback to rules (a fitted
hidden Markov model may answer anything its labels allow).

`MarketSignals` is a cycle: `BeginCycle` drains the queue of alerts, then for each symbol the calls
are made one by one (`CallReplies`, `CallFails`, `CallIsMalformed`, `CallTimesOut`: past its deadline a
call is refused even if a token came in during its last sleep), each of the replies through one dialect of `ExchangeDialects` and each paying the token bucket; `Analyze` shows the result to all
agents; `Coordinate` ends the cycle.  `grid`, `lastRegime` and `model` are what agents remember.
`ReceiveAlert` is the webhook's request thread, `Tick` the clock.  The webhook's router is mounted by no
application of the program and `--tradingview-port` is parsed and not used, so in the program as it is
deployed no alert comes in; nor do the sentiment score and the second symbol's candles that two agents
ask for (`Context`).  `RISK_OFF` is a regime no rule produces.

### 3.10 Evolution

`outcomes` is a bag of outcomes with ages for each agent, because nothing reads their order; a Sharpe
ratio is kept as its signed square, a fraction; `trial` is a sequence of at most one change.  `UpdateWeights`,
`SetWeight`, `AddAgent`, `RecordOutcome`, `StartAnew` are the weight manager's methods, `Propose`, `ProposeNothing`, `TrialGoesOn`, `ResolveTrial`,
`RegisterAgent` those of the autoresearch loop.  `DayPasses` ages the outcomes.  The program builds both
objects and calls neither from its loop: the arbitration keeps the weights it was built with, which
`ArbitrationFollowsWeights` states.  A single agent is always in the first quartile.

### 3.11 Backtest

`start` and `windows` are `WalkForwardOptimizer.run`, `bar`, `capital`, `position`, `curve`, `trades` the
engine in the window under way; `fees` is a ghost.  A signal generator is one of the repository's two or,
for the properties of the books, any.  Money is in whole units, rounded down.  `NoSignal`, `Open`, `Hold`,
`CloseOut` are one bar each, `EndWindow` the forced close, the result and the next window.

## 4. Model checking

### 4.1 Runs that pass

| Run | Properties | What it shows |
|---|---|---|
| `orders_crash` | `ExchangeMapExact`, `MemoryMatchesLog`, `FilledIsFinal`, `LinkedFillsStayHome`, `LedgerRefinement` | In paper and live mode, with one crash and one lost log write, and a signal between any memory change and its append: index, records and log agree, but for the cancel of an order whose submission the handler overtook; a fill is final; a linked trade goes to its own order; the log implements the ledger. |
| `orders_progress` | `TradesGetRecorded`, `StaleOrdersLeave` | In live mode, with gates that may stay shut, a shutdown, a restart and a lost write: as long as cycles go on getting past the gates, executions get recorded and stale orders leave the exchange. |
| `control_stop` | `AtMostOneLateOrder`, `KillOutlastsResume` | Two handler threads whose requests overlap, an outage and an API restart: of the orders let through on Redis' word, at most one follows a stop; a resume lifts a kill only if its check could not see it. |
| `session_lifecycle` | `AtMostOneOvertimeCycle`, `RestartLosesNothing`, `SignedBeforeTrading`, `EndsOnSchedule` | Crashes at every step, a failed append, a failed Redis call, an API thread on the same manager: one cycle past the schedule at most, nothing written is lost, no copy of a session is approved, active or ended without a name, an overdue session stops being active. |
| `breaker_gateway` | `CountMatchesState`, `RecoversWithServer` | Three callers whose outcomes arrive in any order: the count agrees with the state, and the breaker closes for good once the server stays up. |
| `risk_peaks` | `DrawdownFromPeak`, `PeakSurvivesRestart`, `DrawdownHolds` | Everything fails, syncs are interrupted between their steps or left out, the process ends in every way: the drawdown guard reads the distance to the highest NAV, that NAV survives restarts after signals, and no order is approved on a snapshot the limit or more below it. |
| `coordination_desk` | `AtMostOneLateApproval`, `OneEnd`, `TokenDecides` | Two request threads, expiry and a restart: a staged order meets one end, decided by its token; a stopped mandate gets at most one approval. |
| `positions_guard` | `FreshCloseFlattens`, `MatchedKeepOrders`, `BreachGetsClosed` | Over three dialects, with prices, fills, other hands' trades and failed calls between any two steps: a close of a fresh snapshot brings the position to zero; reconciliation, if the exchange answered it, cancels no order of a position the snapshot has right; a long position beyond its loss limit on the futures market is closed as long as accounts whose positions all have prices keep being synced. |
| `process_lifecycle` | `GracefulExit`, `HaltReachesChannels`, `LastCycle`, `ShutdownCompletes` | Three signals at any step and inside one another, failing cycles, kills and restarts: exit 0 means cancelled and saved once; a halt has tried every channel; one cycle at most begins after the signal; a shutdown ends unless a signal finds the lock taken by the frame it interrupted. |
| `market_signals` | `AlertsInOrder`, `CallBudget`, `GridTellsMoves` | Two cycles over two symbols with candles, alerts, pauses, failed, malformed and late calls: alerts reach a cycle in order and once, or are pushed out by newer ones; all calls stay within the bucket; the grid tells every move it sees once. |
| `evolution` | `OneChangeAtATime`, `ChangedSeldom`, `BetterIsNotBehind` | Five cycles of outcomes, ageing, updates and restarts: the parameters differ from their history by one trial, reverts are exact, no agent is changed within its cooldown, and an update never puts the better of two equals behind. |
| `backtest_windows` | `BooksBalance`, `RoundTrips`, `EachBarTestedOnce` | All markets of two prices over no, one and two windows, under every signal generator: cash, trades, fees and curve agree at every bar, every position is closed once and on the other side, every bar is tested once. |

The type invariant of each module is not among the properties of the runs: it is a theorem, except in
`ControlGate` and `Backtest`, whose proofs type only what they use; there it holds when it is added to the
configuration.

### 4.2 Bounds, and why they are enough

* Orders: two, in one slot, one of them with a mandate, two partial fills each.  Every hazard is a
  race over one order or a confusion of two; the slot is shared so that the fallback match has a
  wrong candidate.  One crash, one signal in each process and one lost write, anywhere; the theorems remove these
  bounds.  Progress is checked with one fill each, and the process ends by a signal or a halt only: after a
  crash it would be restored from the same log.
* Control: four requests let a stop, a resume and a race with a third follow a stop; one outage and
  one restart, anywhere.  `late` counts to 2, one more than is allowed.
* Session: three sessions, two crashes, one raise, one lost Redis call, two API calls: enough for a
  stale copy to be restored twice and for an approval to meet an end.
* Breaker: threshold 2, timeout 2 ticks, failures counted to 3, two outages, one reset.
* Risk: of the NAVs 8, 9 and 10 the first is beyond the drawdown limit from the last and not from the
  one between; nothing counts up, so nothing else is bounded but the exposure.

* Coordination: two orders, two threads whose roles are symmetric, two requests beside any number of
  listings, one configured mandate and one that requests may create, one restart, tokens that
  expire at the first tick: enough for two requests to want one order and for a pause to fall
  between a match and its approval.  The theorems remove these bounds.
* Positions: two bases, of which IB lists one as a stock, two lots, prices down to none, two order slots, two
  events (a price move, an entry, a trade of other hands or a failure) at any place: a close needs one move, a
  divergence one trade, and a wrong cancel an order of the other base.  Every provider that lists
  positions may list flat ones.
* Process: three signals (one to interrupt the main program, one to interrupt the handler, one to come
  after both), two channels, a halt after two errors, any number of restarts.
* Signals: two symbols, two cycles, two new candles, three alerts on a queue of two, one bad reply, one
  tick beside those a call waits for; prices that cross the grid's levels both ways.
* Evolution: two agents and one that joins, parameters whose range a step fits in twice, once and not at
  all, three outcomes, five cycles with trials of two cycles and a cooldown of four, one call by another caller.
* Backtest: markets of 4, 6, 9 and 10 bars for windows of 1 + 4 bars: too short for one window, one with a
  rest, two with none and with a rest.

`CHECK_DEADLOCK` is on everywhere.

### 4.3 What the documentation claims and the code does not do

While the modules were written, statements of documents and comments, and expectations a reader of the
code would have, turned out not to hold.  Each is a property of its module, with a comment that says
where it comes from.  The `*_claims.cfg` of a module lists them; one at a time is active, and
TLC finds each violated.  They are not among the project's runs.

| Module | Property | Claimed | What the code does |
|---|---|---|---|
| `OrderExecution` | `TradeBookedOnce` | `execution/fill_tracker.py:48` "Skip if already matched" | looks a trade id up in the index of order ids: each poll books the trade's P&L again |
| | `EmergencyCancelCloses` | `docs/operations/sessions.md:48` "All open orders are cancelled immediately." | marks orders cancelled whose symbol's call failed |
| | `PrunedOrdersAreClosed` | | restore forgets partly filled orders, and orders whose placement reply was lost, that are open at the exchange |
| | `FallbackOnlyUnlinked` | | a trade with an unknown order id fills another order of its slot |
| | `ShadowNeverSubmits` | | `submit_order` only branches on PAPER |
| | `CancelledStaysGone` | `execution/order_store.py:175` "Orders that reached a terminal state (FILLED, CANCELLED) are discarded" | the handler's cancel may be logged ahead of the submission it interrupted; a restart then restores the cancelled order as submitted |
| `ControlGate` | `FailsClosed` | `loop/trading_loop.py:203` "Fails closed" | falls back to RUNNING |
| | `AcknowledgedKillIsPublished` | `api/routes_control.py:8` "Fails closed if Redis is unavailable" | a kill succeeds although its write failed |
| | `KillIsOneWay` | `docs/reference/api.md:136` "one-way operation" | a pause replaces a kill, a resume may follow |
| | `ResumeNeverLiftsKill` | `api/routes_control.py:202` | a kill between a resume's check and its write is overwritten |
| | `NoOrdersWhileKilled` | `docs/architecture/risk-engine.md:73` "No new orders are accepted" | stop-loss orders precede the gate |
| | `KillClearsOrders` | `docs/architecture/risk-engine.md:72` "All pending orders are cancelled" | a blocked cycle cancels nothing |
| `SessionManager` | `EndsBeforeNext` | | a restart in paper mode replaces an ACTIVE session |
| | `EndedIsFinal` | | an approval stores the copy it read before the end |
| | `LiveNeedsOperator` | | a live process restores a session that paper mode approved |
| | `ReturnsAtSessionEnd` | | the loop waits for ever after the session's end |
| | `ApprovedGetsActive` | | nothing activates an approved session |
| `CircuitBreaker` | `OpensOnConsecutive` | | a success in CLOSED does not reset the count |
| | `OneProbeAtATime` | | HALF_OPEN lets every caller through |
| `RiskGate` | `LeverageCeiling` | `docs/architecture/risk-engine.md:91` "leverage = gross_exposure / nav" | divides a fraction of NAV by NAV |
| | `GrossCeiling` | `docs/architecture/risk-engine.md:107` "cannot exceed X% of NAV" | the order is checked against the last snapshot, which knows neither resting orders and stop-loss closes nor the prices since, and shows no positions when the call failed |
| | `DailyLossHardStop` | `docs/operations/risk-policy.md:14` "Hard stop when cumulative daily P&L exceeds threshold" | the first cycle after a restart, and one whose income call failed, has a loss of 0; the loss read is not the day's but that of all records listed |
| | `TrippedUntilRestart` | | the switch approves again once the loss recovers |
| | `BreachCancelsOrders` | | it cancels on its first trigger only |
| | `PositionCeiling` | | without a snapshot the NAV is 1,000,000 |
| | `ExitFindsPeakSaved` | | the interrupted sync goes on after the checkpoint |
| `Coordination` | `DailyLossStopsMandate` | `orchestration/memory.py:69` "Reset daily P&L for all mandates (called at session start)." | never calls it: an earlier profit covers today's loss |
| | `CapitalCeiling` | | the tracker's `gross_exposure` is never set |
| | `DrawdownStopsMandate` | | the drawdown is a fraction of the peak profit, and 0 before the first one |
| | `ExecutedGetsSubmitted` | | an executed order is returned to the operator and goes nowhere |
| | `ExpiredIsRevalidated` | | an expired order is dropped |
| | `NoneExecutedAfterPause` | | a staged order outlives its mandate |
| | `RevokedIsPermanent` | | a pause replaces a revocation, as does a creation that was checked before |
| | `JournalIsComplete` | | the status is changed before the append, which may raise or come second |
| `PositionGuard` | `ClosesReduce` | | the snapshot's quantity has no sign: a short position is taken for a long one, its gain for a loss, and its close sells more |
| | `CloseMeetsPosition` | | the check runs every cycle on the snapshot of the last sync and closes again |
| | `CancelledAreGone` | | a refused cancel is logged and the records are cancelled |
| | `SurgicalCancel` | `monitoring/reconciliation.py:341` "only those symbols' orders are cancelled" | a failed read is an account without positions: the orders of every product in the snapshot are cancelled; Bybit's parser reports products without a position, which the reconciler takes for missing |
| | `BreachClosedUnpriced` | | one product without a price keeps the snapshot of all from being replaced |
| | `StockBreachGetsClosed` | | every close goes out for the venue futures (`execution/live_executor.py:47`), which IB turns into a future (`exchange/providers/ib.py:202`): a stock position stays |
| `LoopProcess` | `ModeFlagOverrides` | `__main__.py:36` "Execution mode (overrides config/env)" | heeds the flag only when it says live or shadow: `--mode paper` with `mode: live` in the files (`config/live.yaml:5`) trades live |
| | `ShutdownNeverBlocks` | | a signal that finds the handler holding its lock blocks the one thread |
| | `NothingAfterCancel` | | a cycle that the handler interrupted goes on and may send an order |
| | `PausedLoopBeats` | | the heartbeat comes at the end of a cycle the gate let through |
| | `HealthNoticesLoop` | | a stale heartbeat is no error |
| `MarketSignals` | `BoostIsTheSymbols` | `agents/market_intelligence/regime_detector.py:106` "Boost confidence on regime transitions" | one last regime and one model serve all symbols |
| | `GridBuysFalls` | `agents/strategy/grid_agent.py:74` "Price dropped to lower level" | the levels move with the average: a level may fall while the price rises |
| | `FlatOpensNothing` | `integrations/tradingview/webhook.py:51` "flat / close" | a direction of 0 is given the side BUY |
| | `PauseClearsAlerts` | | alerts wait out a pause |
| | `LastIsLatest` | | a malformed last candle is left out or read as zero (Bybit); with `NewestFirst = TRUE` and `MaxBad = 0`: no provider sorts |
| `Evolution` | `KeptOnEvidence` | | when the losses of the baseline have grown old, no trade at all is an improvement |
| | `LosersAreNotBoosted` | | losses that do not vary rank as neutral, above every other loss |
| | `ArbitrationFollowsWeights` | `evolution/darwinian.py:11` "feeds directly into WeightedArbitration" | arbitration has its own weights |
| | `SettingsSurvive` | | `from_dict` goes back to the default settings |
| | `FastBelowSlow` (`Evolution_crossover.cfg`) | `evolution/autoresearch.py:18` "bounded to prevent degenerate parameters" | the fast period may pass the slow one |
| `Backtest` | `DrawdownOfCurve` | | the peak starts with the first return: a fall from the initial capital is no drawdown |
| | `WinsEarn` | | a trade's result is without its commissions |
| | `FlatTradesNothing` | | a direction of 0 opens a short position, and a long one in the live allocator |
| | `NoBarTwice` | | a step shorter than the test window tests bars twice |
| | `TrendIsFollowed` (`Backtest_train.cfg`) | `backtest/walk_forward.py:4` "using the train window for parameter calibration" | the train bars are never shown to the generator |

### 4.4 Fairness

* `OrderExecution`: `WF` on `Working`, what the one thread does once it is past the gates, and on `Age`,
  because time passes.  `SF` on `BeginSync` and `CancelAccepted`: an exchange that is polled, or asked to
  cancel, again and again answers some time.  Nothing makes the loop begin a cycle, pass its gates or
  restart, because nothing does in the code: a paused or killed cycle returns before the fills
  (`trading_loop.py:262-272`), an ended session waits for ever (147-149), a halt or a shutdown leaves the loop
  (144).  The two properties have as their premise what they need of it: that cycles with a due fill sync,
  or cycles that reach the reconciliation, keep coming.  The exchange is never obliged to fill an order.
* `SessionManager`: `WF` on the main thread and on each task, and on the passing of the schedule.
* `CircuitBreaker`: `WF` on the clock and on each caller's steps; `SF` on `Acquire`, because a caller
  whose wait timed out asks again and the bucket refills.  Nothing is assumed of the server:
  `RecoversWithServer` speaks of behaviours in which it stays up.
* `PositionGuard`: `WF` on the filling of what rests, and nothing of the loop, for the reasons above.
  `BreachGetsClosed` has the premise `SyncsPriced`: accounts are synced again and again in which every
  position has a price.  The failures are bounded, so a call is answered in the end.
* `LoopProcess`: `WF` on the one thread, whose step is the handler's while there is a frame.  Nothing is
  assumed of signals, kills, fills and restarts.

## 5. Proofs

| Theorem | Module | States |
|---|---|---|
| `Invariance`, `TypeCorrect`, `IndexExact`, `RestoreExact` | `OrderExecution_proofs` | `[]IInv`, and from it `TypeOK`, `ExchangeMapExact`, `MemoryMatchesLog` |
| `FilledStays`, `LinkedFillsMatch` | `OrderExecution_proofs` | the action properties `FilledIsFinal`, `LinkedFillsStayHome` |
| `LogImplementsLedger` | `OrderExecution_proofs` | `OrderExecution` implements `OrderLedger` |
| `LateOrders`, `OneLateOrder`, `KillOutlasts` | `ControlGate_proofs` | `LateOrderWasPastGate`, `AtMostOneLateOrder`; and `KillOutlastsResume` |
| `Invariance`, `TypeCorrect`, `SignedFirst`, `OneOvertimeCycle`, `RestartReads` | `SessionManager_proofs` | `[]IInv`, and from it `TypeOK`, `SignedBeforeTrading`, `AtMostOneOvertimeCycle`, `RestartLosesNothing` |
| `CountExact`, `TypeCorrect` | `CircuitBreaker_proofs` | `CountMatchesState`, `TypeOK` |
| `GuardInvariance`, `GuardTypeCorrect`, `FreshClosesFlatten` | `CircuitBreaker_proofs` | `[]GuardInv`, and from it `GuardTypeOK` and the action property `FreshCloseFlattens` |
| `MatchedKept` | `CircuitBreaker_proofs` | `MatchedKeepOrders` |
| `TypeCorrect`, `PeakMeasured`, `PeakKept` | `RiskGate_proofs` | `TypeOK`, `DrawdownFromPeak`, `PeakSurvivesRestart` |
| `DrawdownStops` | `RiskGate_proofs` | `DrawdownHolds` |
| `Invariance`, `TypeCorrect`, `OrdersEndOnce`, `TokensDecide`, `OneLateApproval` | `Coordination_proofs` | `[]IInv`, and from it `TypeOK`, `OneEnd`, `TokenDecides`, `AtMostOneLateApproval` |
| `EvolutionInvariance`, `EvolutionTypeCorrect`, `OneChange`, `SeldomChanged` | `Coordination_proofs` | `[]EvolutionInv`, and from it `EvolutionTypeOK`, `OneChangeAtATime`, `ChangedSeldom` |
| `BetterStaysAhead` | `Coordination_proofs` | `BetterIsNotBehind`, if the settings are `Sensible` |
| `Invariance`, `TypeCorrect`, `ExitsGracefully`, `HaltAlerts`, `OneLateCycle` | `LoopProcess_proofs` | `[]IInv`, and from it `TypeOK`, `GracefulExit`, `HaltReachesChannels`, `LastCycle` |
| `Invariance`, `TypeCorrect`, `CallsWithinBudget`, `AlertsReachCycles` | `Agents_proofs` | `[]IInv`, and from it `TypeOK`, `CallBudget`, `AlertsInOrder` |
| `GridTells` | `Agents_proofs` | `GridTellsMoves`, if no symbol is listed twice |
| `BacktestInvariance`, `BooksBalanced`, `TripsClosed` | `Agents_proofs` | `[]BacktestInv`, and from it `BooksBalance`, `RoundTrips` |
| `BarsTestedOnce` | `Agents_proofs` | `EachBarTestedOnce`, if the windows step by the test window |

The only assumptions are those named in the modules, on the types of the constants
(`BoundsAssumption`, `OrderDataAssumption`, `ModeAssumption`, `ControlBounds`, `SessionBounds`,
`BreakerBounds`, `RiskBounds`, `CoordinationBounds`, `ProcessAssumption`, `BucketAssumption`,
`QueueAssumption`, `MarketAssumption`, `TuningAssumption`, `GuardAssumption`, `FleetAssumption`,
`TrialAssumption`, `ManagerAssumption`, `WindowAssumption`, `CapitalAssumption`, `MarketsAssumption`, `NoneAssumption`), which TLC evaluates in each run, and those a theorem states itself.  Where a theorem speaks of any
number of threads, signals, crashes or cycles, the model's bounds on them are constants it leaves open.

*Orders.*  `MemoryMatchesLog` compares memory with the log once the append under way is done (`LogAfter`); it
is not inductive: a cancel of an order that has been filled meanwhile would break it, and so would a call
that goes on from a record the handler has changed under it.  `IInv` adds what the program relies on.
`InFlight`: what the call in hand has made of its order so far, in memory and in the log, before and
after the handler; until `record_submission` has made the order open in memory the handler leaves it
alone, because `cancel_all` only marks SUBMITTED orders.  `CallEvents`: which call appends which event.
`CancelQueues`: the orders that the loop, or the handler, has listed for cancelling have not been filled
since, because fills are recorded by the same thread, which the handler does not let run.  `LogFollowsMemory`: a fill
reaches the log after memory, and an order is logged as submitted together with its id.  `NoRecord` and
`Uncreated` say what is empty.  TLC finds `IInv` to hold when it is added to
`OrderExecution_crash.cfg`; the proof has one lemma per action.  The one place where memory and log
part without a lost write is the handler's cancel between a submission's memory change and its append:
the order is in `overtaken`, memory shows it cancelled and the log submitted.  The refinement maps each append to one
edge of the ledger, taken by one order, and every other step to a stutter; the same place is the edge from
"withdrawn" to "submitted".

*Control.*  `LateOrderWasPastGate` is the inductive strengthening of `AtMostOneLateOrder`: after the one
late order the loop is not past the gate again, unless it passed without Redis' word.  `KillOutlasts` rests on
`ResumeInv`: a thread that is past a resume's check is among the `unseeing`, or no kill is in force.  Requests may
overlap, Redis may fail and the API restart.

*Session.*  `SignedBeforeTrading` is not inductive: a thread could be about to store a copy it read before
anybody signed.  `Underway` says for each step of `approve_session` and `_transition` what the thread may
rely on (who signs comes before the check, what is stored was read signed), whichever thread wrote in
between, because no transition removes a signature.  `AtMostOneOvertimeCycle` needs `Stages` and `Overtime`: until the
API is called the loop has an overdue active session at its gate only if the end passed after it looked,
and a restart looks again before the first cycle.  `RestartLosesNothing` needs `Copied`: what the loop is about to
write is what is in memory.

*Breaker.*  `CountMatchesState` is inductive with the types.  It needs `MaxFailures >=
FailureThreshold` only because the model caps the count.

*Positions.*  Neither property is about one state, so `GuardInv` carries what was true when a close was
planned or a report was made to the step that acts on it.  `Snapped`: the snapshot bears the provider's
names of the products, and no dialect changes a base on its way out or in (`NormalizeKeepsBase`,
`CanonicalKeepsBase`), so the close reaches the product it was planned for.  `Planned`: the snapshot stays
in place while its closes wait.  `CleanCloses`: a clean close that rests sells exactly what the account
holds, because every trade of the product soils the orders of it.  `Reported` says that what is left of a report
on an answered read names no product that was held and that the snapshot had in its size; the flat products that
Bybit lists are not held, so the theorem needs no hypothesis about them.  On a failed read the report names
every product of the snapshot, and `SurgicalCancel` is violated.

*Risk.*  `DrawdownFromPeak` needs that the checkpoint never holds more than the peak while the process
is to run, and it says nothing of the peak and the drawdown while a sync is between the two.
`PeakSurvivesRestart` needs the record in the checkpoint once the process was told to stop.
`DrawdownHolds` follows from both: at the approval the guard has read the distance from a peak that is
at least the highest NAV known.

*Coordination.*  `IInv` adds to the properties that an order in `coordinate` or popped by a request is
in one hand (`InOneHand`), that what a scan has collected stays expired (`FoundExpired`), and that no
order of a mandate with a late approval waits for another (`LateWasMatched`).  The one assumption is
`CoordinationBounds`.

*Evolution.*  `OneChangeAtATime` relates parameters to a history that grows, so the proof is about the last
entry of an agent's parameter that was kept: an entry that is appended is the latest, and a reverted one
changes nothing.  It is inductive with `WithinBounds` and `Told`: parameters keep within the bounds they are
moved in, and what the history and the trial name is a parameter of a registered agent.  `ChangedSeldom` counts entries; `Seldom` ties the count to the
clock: the k-th change of an agent was made in cycle `modified` of it, which is at least (k - 1) cooldowns and one
cycle, and each entry of the history has taken its trial's cycles and the step that began it.
`BetterIsNotBehind` rests on four facts.  `SpreadNotNegative`: the count of an agent's outcomes times the sum of
their squares is at least the square of their sum, by induction over the subsets of a finite set, so that a ratio's
denominator is never negative.  `BelowBoth`: if b is below a and c is not, b is below c; this and
`BelowOneWay` make the comparison of fractions, infinity among them, a sort whatever ties there are.  `BetterRanksBefore`: the agents ahead of the better are fewer.  `FactorFollowsRank`: the first
quartile wins over the last in a fleet so small that an agent is in both.  The invariant `Recorded` says that
outcomes stay finite bags of numbers through additions, pruning and the days, `Weighed` that no weight is
negative.  `Sensible` is the hypothesis that a boost does not shrink a weight, a decay does not grow it, and neither
the least weight nor one that is asked for is negative; `bootstrap` and `add_agent` take these numbers unchecked
(`bootstrap.py:384`, `darwinian.py:266`), and with a negative weight the better of two equals would fall behind.

*Process.*  `GracefulExit` speaks of a process that has ended; what makes it true is a fact about the handler's
stack, `Cleanup`: however the frames interrupt one another, at most one of them has initiated the shutdown
and is not through, and the counts of callbacks and checkpoints say where it is.  `Places` says that the loop is left for a
halt or a shutdown only, `Halt` that the alerts still to be sent and those tried are the channels,
`Cycles` that no cycle is late while the loop is between its check and the next.

*Signals.*  `CallBudget` is inductive with the types of the bucket.  `AlertsInOrder` needs `Ordered`: the
queue is the gapless end of what was posted, and what was drained is older.  `GridTellsMoves` relates
two looks at a symbol, so `Looked` says that the level the grid remembers is that of the candles it last
saw, and `Unsaid` that nothing has been said yet of a symbol whose turn is still to come; the latter needs
that no symbol is listed twice, else the signals of two turns are one set.
The sums of the agents are folds.  That the sum of any candles' closes is a number is the lemma `SumsAreNumbers`, which shows, by induction over the subsets of a finite set, that the
function the fold is defined by exists; what the other agents' indices compute is not proved.

*Backtest.*  `BooksBalance` is inductive only together with the rest of the engine: `Engine` says that the
curve has a point for every bar so far and that the window's bars exist, `Books` that cash is what the
trades have brought, `Trips` that the trades so far are pairs but for the one that is open, which is the
position's, `Rolled` where the windows are and that those that ended agree.  The sums over the trades are folds; `Unrolled` and `SumAppend` show by induction over the length that
an appended trade adds its profit.  `EachBarTestedOnce` is a property of walk-forward windows that step by their
own length, and `StepBars = TestBars` is the hypothesis of the theorem; with another step bars are tested twice
(`NoBarTwice`).

Liveness under fairness, and `ENABLED`, are checked by TLC only: TLAPS has no proof of them here.
Those are `TradesGetRecorded`, `StaleOrdersLeave`, `EndsOnSchedule`, `RecoversWithServer`, `BreachGetsClosed` and
`ShutdownCompletes`.  No module uses a `RECURSIVE` operator.

## 6. What is not modelled

`PROJECT.json` gives each component its status and the reason.  Left out:

* Code that no other part of the program calls: `simulation/` and `backtest/monte_carlo.py`,
  `resilience/retry.py`, `execution/oms.py`, the plugin manager, the slippage models, and the
  instruction builders of the executors that no caller submits.
* The regime arbiter of `orchestration/janus.py`: the bootstrap builds it for a configuration with cohorts and
  the loop stores it, and nothing asks it for a weight.  `get_current_params` of the tuning loop is
  likewise modelled as state, since no agent reads it.
* Statistics: the leaderboard, the profiler, the alpha store and the quantitative measures but the
  drawdown.  They reach no order except through a signal's confidence, which is a free choice.
* Edges of the process: authentication, the API's own rate limiter, status pages, exports, secrets,
  logging, metrics and the wording of alerts.  A refused request changes nothing.
* Parts of modelled components: `persist_snapshot`; the balance half of the reconciliation, which raises
  alerts only; the order book behind the liquidity guard, whose verdict is a free choice; the two keys of
  a token's rotation; prices and quantities below what a property tells apart.

Clocks are steps that may be taken at any time, or are counted in ticks up to a timeout.
