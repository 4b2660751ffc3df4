------------------------------ MODULE RiskGate ------------------------------
(***************************************************************************)
(* The gate every coordinated order passes: the portfolio's image in       *)
(* SharedMemory, synchronized from the exchange in some of the cycles, the *)
(* risk engine's guards that read it, and the kill switch.  A process may  *)
(* crash, halt after too many failed cycles, or be ended by a signal whose *)
(* handler cancels all orders, saves a checkpoint and returns into the     *)
(* step it interrupted.  A stop-loss order passes no guard.                *)
(*                                                                         *)
(* Money is in whole units and a fraction is kept as a record of two of    *)
(* them, so that comparisons are exact.  The exchange changes at any       *)
(* moment, also between the calls of one sync.                             *)
(***************************************************************************)
EXTENDS Integers

CONSTANTS
  Navs,             \* balances the account may have
  Losses,           \* realized losses
  Notionals,        \* sizes the allocator gives an order
  MaxPositionPct, MaxGrossPct, MaxLossPct, MaxDrawdownPct,  \* risk.yaml, in percent
  MaxLeverage,      \* max_leverage
  DefaultNav,       \* the NAV that is taken when there is no snapshot
  Failing,          \* the calls that may fail; a failed income call is a loss of 0
  Restarts,         \* how a process may end: by "crash", "signal" or "halt"
  Slow,             \* an order may rest for longer than a cycle
  MaxGross          \* bound: exposure

Calls == {"balance", "positions", "place", "cancel", "checkpoint"}

ASSUME RiskBounds ==
  /\ Navs \subseteq Nat \ {0} /\ Losses \subseteq Nat /\ 0 \in Losses
  /\ Notionals \subseteq Nat \ {0}
  /\ {MaxPositionPct, MaxGrossPct, MaxLossPct, MaxDrawdownPct, MaxLeverage, MaxGross}
       \subseteq Nat
  /\ DefaultNav \in Nat \ {0} /\ MaxDrawdownPct <= 100
  /\ Failing \subseteq Calls /\ Restarts \subseteq {"crash", "signal", "halt"}
  /\ Slow \in BOOLEAN

VARIABLES
  account,   \* at the exchange: balance, exposure, realized loss of the day
  open,      \* at the exchange: notional of our resting orders
  balance,   \* the balance a sync has read, or 0
  seen,      \* SharedMemory.latest_snapshot: nav (0: none) and exposure
  peak,      \* SharedMemory.peak_nav
  drawdown,  \* SharedMemory.rolling_drawdown: lost, of
  loss,      \* SharedMemory.latest_pnl, as a loss: lost, of
  tripped,   \* KillSwitch._triggered
  saved,     \* the last "shared_memory" checkpoint: peak, drawdown
  stage,     \* where the process is
  looping,   \* the loop has been entered
  order,     \* notional of the approved order in hand, or 0
  running,   \* GracefulShutdown.is_running
  highest    \* history: highest NAV synced before a signal, since the last crash
             \* or halt, both of which go back to the checkpoint

exchange == <<account, open>>
memory   == <<seen, peak, drawdown, loss>>
control  == <<looping, running>>
vars == <<exchange, balance, memory, tripped, saved, stage, order, control, highest>>

None == [lost |-> 0, of |-> 1]
NoSnapshot == [nav |-> 0, gross |-> 0]
Up == stage # "down"

Init ==
  /\ account \in [nav : Navs, gross : {0}, lost : Losses]
  /\ open = 0
  /\ balance = 0 /\ seen = NoSnapshot /\ peak = 0 /\ drawdown = None /\ loss = None
  /\ tripped = FALSE
  /\ saved = [peak |-> 0, drawdown |-> None]
  /\ stage = "down" /\ order = 0 /\ looping = FALSE /\ running = TRUE
  /\ highest = 0

-----------------------------------------------------------------------------
(* The guards *)

Reaches(fraction, pct) == fraction.lost * 100 >= pct * fraction.of

\* KillSwitch.triggered's condition; DrawdownGuard.
LossBreach(fraction) == Reaches(fraction, MaxLossPct)
DrawdownBreach == Reaches(drawdown, MaxDrawdownPct)

\* SharedMemory.current_leverage divides the snapshot's gross_exposure, a
\* fraction of NAV already, by the NAV.
LeverageBreach == seen.gross > MaxLeverage * seen.nav * seen.nav

\* ExposureManager.check_order.
ExposureBreach(n) ==
  LET nav == IF seen = NoSnapshot THEN DefaultNav ELSE seen.nav
  IN  n * 100 > MaxPositionPct * nav \/ (seen.gross + n) * 100 > MaxGrossPct * nav

\* RiskEngine.validate; `liquid` is the liquidity guard's verdict.
Passes(n, liquid) ==
  /\ ~LossBreach(loss) /\ ~ExposureBreach(n)
  /\ ~DrawdownBreach /\ ~LeverageBreach /\ liquid

-----------------------------------------------------------------------------
(* The exchange *)

\* Prices move, and with them the value of what is held.
MarketMoves ==
  /\ \E nav \in Navs, lost \in Losses,
        gross \in IF account.gross = 0 THEN {0} ELSE 1..MaxGross :
       account' = [nav |-> nav, gross |-> gross, lost |-> lost]
  /\ UNCHANGED <<open, balance, memory, tripped, saved, stage, order, control, highest>>

\* What has rested is executed; it opens a position or closes one.
RestingFills ==
  /\ open > 0 /\ open' = 0
  /\ \E gross \in {account.gross + open, account.gross - open} :
       /\ gross \in 0..MaxGross
       /\ account' = [account EXCEPT !.gross = gross]
  /\ UNCHANGED <<balance, memory, tripped, saved, stage, order, control, highest>>

\* A market order: it is executed at once, or rests, or is refused.
Place(n) ==
  \/ \E gross \in {account.gross + n, account.gross - n} :
       /\ gross \in 0..MaxGross
       /\ account' = [account EXCEPT !.gross = gross]
       /\ UNCHANGED open
  \/ /\ Slow /\ open + n <= MaxGross
     /\ open' = open + n /\ UNCHANGED account
  \/ "place" \in Failing /\ UNCHANGED exchange

\* cancel_all.
CancelAll == open' \in IF "cancel" \in Failing THEN {0, open} ELSE {0}

-----------------------------------------------------------------------------
(* Portfolio sync: sync_account's two calls and update_snapshot's three      *)
(* assignments are steps of their own, between which a signal is handled.    *)

\* get_balance: without an answer the sync is over.
ReadBalance ==
  \/ stage' = "positions" /\ balance' = account.nav
  \/ "balance" \in Failing /\ balance' = 0
     /\ stage' = IF looping THEN "pnl" ELSE "top"

\* run() syncs the account once before the loop, and not the P&L.
InitialSync ==
  /\ stage = "start" /\ ReadBalance
  /\ UNCHANGED <<exchange, memory, tripped, saved, order, control, highest>>

\* A cycle syncs when portfolio_sync_interval, which is configured, has elapsed.
BeginWithSync ==
  /\ stage = "cycle" /\ ReadBalance
  /\ UNCHANGED <<exchange, memory, tripped, saved, order, control, highest>>
BeginWithoutSync ==
  /\ stage = "cycle" /\ stage' = "stops"
  /\ UNCHANGED <<exchange, balance, memory, tripped, saved, order, control, highest>>

\* get_positions: a call that failed returns no positions.
ReadPositions ==
  /\ stage = "positions" /\ stage' = "peak"
  /\ \E gross \in {account.gross} \union (IF "positions" \in Failing THEN {0} ELSE {}) :
       seen' = [nav |-> balance, gross |-> gross]
  /\ UNCHANGED <<exchange, balance, peak, drawdown, loss, tripped, saved, order, control, highest>>

\* Mutant: the NAV of the snapshot becomes the peak.
PeakFollowsNav == seen.nav
HigherPeak == IF seen.nav > peak THEN seen.nav ELSE peak

RaisePeak ==
  /\ stage = "peak" /\ stage' = "drawdown"
  /\ peak' = HigherPeak
  /\ highest' = IF running /\ seen.nav > highest THEN seen.nav ELSE highest
  /\ UNCHANGED <<exchange, balance, seen, drawdown, loss, tripped, saved, order, control>>

UpdateDrawdown ==
  /\ stage = "drawdown" /\ stage' = IF looping THEN "pnl" ELSE "top"
  /\ drawdown' = [lost |-> peak - seen.nav, of |-> peak]
  /\ balance' = 0
  /\ UNCHANGED <<exchange, seen, peak, loss, tripped, saved, order, control, highest>>

\* sync_daily_pnl: the records the exchange lists are not restricted to the
\* day, and a failed call lists none, so that any loss may be read.
SyncPnl ==
  \E lost \in Losses :
    loss' = IF seen = NoSnapshot THEN loss ELSE [lost |-> lost, of |-> seen.nav]
FinishSync ==
  /\ stage = "pnl" /\ stage' = "stops"
  /\ SyncPnl
  /\ UNCHANGED <<exchange, balance, seen, peak, drawdown, tripped, saved, order, control, highest>>

-----------------------------------------------------------------------------
(* The process *)

\* Mutant: the checkpoint's peak is not restored.
RestoredPeakForgotten == 0
RestoredPeak == saved.peak

\* bootstrap, with _restore_checkpoint.
Boot ==
  /\ stage = "down" /\ stage' = "start"
  /\ balance' = 0 /\ seen' = NoSnapshot /\ loss' = None
  /\ peak' = RestoredPeak /\ drawdown' = saved.drawdown
  /\ tripped' = FALSE /\ order' = 0 /\ looping' = FALSE /\ running' = TRUE
  /\ UNCHANGED <<exchange, saved, highest>>

\* The loop's condition, and the session's.
BeginCycle ==
  /\ stage = "top" /\ running /\ stage' = "cycle"
  /\ looping' = TRUE
  /\ UNCHANGED <<exchange, balance, memory, tripped, saved, order, running, highest>>

\* The stop-loss check, before the control gate: its closes meet no guard.
CloseBreached ==
  /\ stage = "stops" /\ seen # NoSnapshot
  /\ \E n \in Notionals : Place(n)
  /\ UNCHANGED <<balance, memory, tripped, saved, stage, order, control, highest>>
StopsChecked ==
  /\ stage = "stops" /\ stage' = "decide"
  /\ UNCHANGED <<exchange, balance, memory, tripped, saved, order, control, highest>>

\* The gate is closed, or coordinate finds no signal or no mandate.
NoOrder ==
  /\ stage = "decide" /\ stage' = "top"
  /\ UNCHANGED <<exchange, balance, memory, tripped, saved, order, control, highest>>

\* The engine looks at an order; the kill switch acts on its first trigger.
KillSwitch ==
  IF LossBreach(loss) /\ ~tripped
  THEN tripped' = TRUE /\ CancelAll
  ELSE UNCHANGED <<tripped, open>>
Reject ==
  /\ stage = "decide" /\ stage' = "top"
  /\ \E n \in Notionals, liquid \in BOOLEAN : ~Passes(n, liquid)
  /\ KillSwitch
  /\ UNCHANGED <<account, balance, memory, saved, order, control, highest>>
Approve ==
  /\ stage = "decide" /\ stage' = "submit"
  /\ \E n \in Notionals : Passes(n, TRUE) /\ order' = n
  /\ UNCHANGED <<exchange, balance, memory, tripped, saved, control, highest>>

\* submit_order.
Submit ==
  /\ stage = "submit" /\ stage' = "top" /\ order' = 0
  /\ Place(order)
  /\ UNCHANGED <<balance, memory, tripped, saved, control, highest>>

\* Mutant: the NAV is saved for the peak.
CheckpointOfNav == [peak |-> seen.nav, drawdown |-> drawdown]

\* _checkpoint, as far as it is restored.
Checkpoint == [peak |-> peak, drawdown |-> drawdown]

\* A signal: the loop is told to stop, orders are cancelled, the checkpoint
\* is saved, and the step that was interrupted goes on.
Signal ==
  /\ "signal" \in Restarts /\ Up /\ running
  /\ running' = FALSE
  /\ CancelAll
  /\ \/ saved' = Checkpoint /\ UNCHANGED highest
     \/ "checkpoint" \in Failing /\ UNCHANGED saved /\ highest' = saved.peak
  /\ UNCHANGED <<account, balance, memory, tripped, stage, order, looping>>
Exit ==
  /\ stage = "top" /\ ~running /\ stage' = "down"
  /\ UNCHANGED <<exchange, balance, memory, tripped, saved, order, control, highest>>

\* _halt, after max_consecutive_errors: no checkpoint is saved.
Halt ==
  /\ "halt" \in Restarts /\ Up /\ looping
  /\ stage' = "down"
  /\ highest' = saved.peak
  /\ CancelAll
  /\ UNCHANGED <<account, balance, memory, tripped, saved, order, control>>

Crash ==
  /\ "crash" \in Restarts /\ Up
  /\ stage' = "down"
  /\ highest' = saved.peak
  /\ UNCHANGED <<exchange, balance, memory, tripped, saved, order, control>>

Next ==
  \/ MarketMoves \/ RestingFills
  \/ Boot \/ InitialSync \/ BeginCycle \/ BeginWithSync \/ BeginWithoutSync
  \/ ReadPositions \/ RaisePeak \/ UpdateDrawdown \/ FinishSync
  \/ CloseBreached \/ StopsChecked \/ NoOrder \/ Reject \/ Approve \/ Submit
  \/ Signal \/ Exit \/ Halt \/ Crash

Spec == Init /\ [][Next]_vars

-----------------------------------------------------------------------------
(* Properties *)

Fraction == [lost : Nat, of : Nat \ {0}]

TypeOK ==
  /\ account \in [nav : Navs, gross : 0..MaxGross, lost : Losses]
  /\ open \in 0..MaxGross
  /\ balance \in Navs \union {0}
  /\ seen \in {NoSnapshot} \union [nav : Navs, gross : 0..MaxGross]
  /\ peak \in Navs \union {0} /\ highest \in Navs \union {0}
  /\ drawdown \in Fraction /\ loss \in Fraction
  /\ saved \in [peak : Navs \union {0}, drawdown : Fraction]
  /\ stage \in {"down", "start", "top", "cycle", "positions", "peak", "drawdown", "pnl",
                "stops", "decide", "submit"}
  /\ order \in Notionals \union {0}
  /\ tripped \in BOOLEAN /\ running \in BOOLEAN /\ looping \in BOOLEAN

\* Restarts and failed calls never let the drawdown be measured from less
\* than the highest NAV the process has synced, or the checkpoint's peak, and
\* what the guard reads is the distance from that peak to the snapshot.
DrawdownFromPeak ==
  Up => /\ running => peak >= saved.peak
        /\ stage # "peak" => peak >= seen.nav
        /\ seen.nav > 0 /\ stage \notin {"peak", "drawdown"}
             => drawdown = [lost |-> peak - seen.nav, of |-> peak]

\* The peak survives every restart that follows a signal: whatever NAV was
\* synced before it still counts after it.  A crash or a halt goes back to
\* the last checkpoint, and no further.
PeakSurvivesRestart == Up => peak >= highest

\* "Rejects orders when rolling peak-to-trough drawdown exceeds the configured
\* maximum" (docs/architecture/risk-engine.md:79): no order is approved on a
\* snapshot that lies the limit or more below the highest NAV known, of this
\* process or of one that a signal ended.
DrawdownHolds ==
  [][Approve /\ seen # NoSnapshot
       => seen.nav * 100 > (100 - MaxDrawdownPct) * highest]_vars

-----------------------------------------------------------------------------
(* What the documentation says and the code does not do *)

\* "Max gross exposure: Sum of all position absolute values cannot exceed X%
\* of NAV" (docs/architecture/risk-engine.md:107): the snapshot may be older
\* than the orders sent since, and than the prices.
GrossCeiling ==
  [][Approve => (account.gross + open + order') * 100 <= MaxGrossPct * account.nav]_vars

\* "Daily loss limit -- Hard stop when cumulative daily P&L exceeds
\* threshold" (docs/operations/risk-policy.md:14): the loss may not have been
\* asked for since the start or since the last cycles.
DailyLossHardStop ==
  [][Approve => ~LossBreach([lost |-> account.lost, of |-> account.nav])]_vars

\* "Manual restart required to resume" (docs/architecture/risk-engine.md:75).
TrippedUntilRestart == [][Approve => ~tripped]_vars

\* "All pending orders are cancelled" (docs/architecture/risk-engine.md:72).
BreachCancelsOrders == [][Reject /\ LossBreach(loss) => open' = 0]_vars

\* "leverage = gross_exposure / nav, REJECT if leverage > max_leverage"
\* (docs/architecture/risk-engine.md:91).
LeverageCeiling == [][Approve => seen.gross <= MaxLeverage * seen.nav]_vars

\* "Max position weight: Single position cannot exceed X% of NAV"
\* (docs/architecture/risk-engine.md:106).
PositionCeiling ==
  [][Approve => seen # NoSnapshot /\ order' * 100 <= MaxPositionPct * seen.nav]_vars

\* "After loop exits, handler has already saved checkpoint"
\* (resilience/shutdown.py:18).
ExitFindsPeakSaved == [][Exit => saved.peak = peak]_vars
=============================================================================
