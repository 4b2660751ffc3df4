--------------------------- MODULE PositionGuard ---------------------------
(***************************************************************************)
(* How the desk watches the positions it holds: the account set-up, the    *)
(* sync of the account into the snapshot, the stop-loss monitor that plans *)
(* closes from the snapshot, the executor that sends them and the          *)
(* coordinator's entries, the fill tracker, and the reconciliation that    *)
(* cancels the orders of diverging symbols.  The account at the exchange   *)
(* moves meanwhile: prices move, orders fill, other hands trade.           *)
(***************************************************************************)
EXTENDS ExchangeDialects, FiniteSets

CONSTANTS
  Exchanges,    \* the dialects one of which the desk is wired to
  ListingFlat,  \* those of them whose exchange lists products without a position
  Bases,        \* the products held
  Stocks,       \* those of them that IB holds as stocks, the others being futures there
  MaxQty,       \* bound: the size of a position
  Prices,       \* the prices of the model, 0 for a product without a quote
  MaxLossPct,   \* config: max_position_loss_pct
  MaxOrders,    \* bound: the orders known at a time
  MaxEvents     \* bound: moves, trades of other hands, entries and failures

ASSUME GuardAssumption ==
  /\ Exchanges \subseteq Dialects /\ Exchanges # {} /\ ListingFlat \subseteq Exchanges
  /\ Stocks \subseteq Bases
  /\ MaxQty \in Nat \ {0} /\ MaxOrders \in Nat \ {0} /\ MaxEvents \in Nat
  /\ Bases # {} /\ Prices \subseteq Nat /\ MaxLossPct \in 0..99

VARIABLES
  dialect,      \* the provider the registry made
  account,      \* at the exchange: lots by base, negative for a short position
  entry, mark,  \* at the exchange: entry price by base, and mark price, 0 when not quoted
  orders,       \* both sides' view of the last orders, by slot
  snapshot,     \* memory.latest_snapshot: whether there is one, and its positions
  closes,       \* closing orders planned and not yet submitted
  mismatched,   \* symbols of the report still to be cancelled
  answered,     \* history: the exchange answered the read of that report
  books,        \* history: by base, how account and snapshot compared at that read
  configured,   \* setup_symbol's outcome by base
  stage, events

report == <<mismatched, answered, books>>
guard  == <<dialect, account, entry, mark, orders, snapshot, closes, report,
           configured, stage, events>>

Slots == 1..MaxOrders
Lots  == -MaxQty..MaxQty
Plain(b) == [base |-> b, quote |-> "USDT", form |-> "plain"]

\* How the exchange itself lists a base.
Listed(b) ==
  CASE dialect = "coinbase" -> [base |-> b, quote |-> "USD", form |-> "dash"]
    [] dialect = "ib"       -> [base |-> b, quote |-> "", form |-> "bare"]
    [] OTHER                -> Plain(b)

\* The market on which the exchange holds it.
ListedMarket(b) ==
  CASE dialect = "coinbase" -> "spot" [] dialect = "bybit" -> "linear"
    [] dialect = "ib"       -> IF b \in Stocks THEN "STK" ELSE "FUT"
    [] OTHER                -> "futures"

NoOrder == [local |-> "none", venue |-> "none", symbol |-> Plain(CHOOSE b \in Bases : TRUE),
            market |-> "", product |-> Plain(CHOOSE b \in Bases : TRUE),
            side |-> "BUY", quantity |-> 0, kind |-> "entry", clean |-> FALSE]

Event == /\ events < MaxEvents
         /\ events' = events + 1

-----------------------------------------------------------------------------
(* The stop-loss monitor *)

\* The quantity of a snapshot's position is copied from the exchange entry,
\* whose sign is in its side.
Holding(e) == [symbol |-> e.symbol, quantity |-> e.quantity,
               avg |-> entry[e.symbol.base], market |-> mark[e.symbol.base]]

\* record_entry and set_entry_prices are never called: avg_price is the entry.
Loss(p) == IF p.quantity > 0 THEN p.avg - p.market ELSE p.market - p.avg
\* Mutant: the loss of a short position, for every position.
BreachesInverted(p) == 100 * (p.market - p.avg) > MaxLossPct * p.avg
Breaches(p) == p.avg > 0 /\ 100 * Loss(p) > MaxLossPct * p.avg

\* Mutant: the close adds to the position.
BuildCloseSameSide(p) == [symbol |-> p.symbol, quantity |-> Magnitude(p.quantity),
                          side |-> IF p.quantity > 0 THEN "BUY" ELSE "SELL"]
BuildClose(p) == [symbol |-> p.symbol, quantity |-> Magnitude(p.quantity),
                  side |-> IF p.quantity > 0 THEN "SELL" ELSE "BUY"]

-----------------------------------------------------------------------------
(* The reconciler *)

Quantities(positions, s) == {p.quantity : p \in {q \in positions : q.symbol = s}}

\* Mutant: every symbol of the comparison is reported.
MismatchesAll(reading) ==
  {p.symbol : p \in snapshot.positions} \cup {e.symbol : e \in reading}

\* A symbol on one side only, or in two sizes: the side is not compared, and
\* without a snapshot every position of the exchange is missing.
Mismatches(reading) ==
  IF ~snapshot.taken THEN {e.symbol : e \in reading}
  ELSE {s \in {p.symbol : p \in snapshot.positions} \cup {e.symbol : e \in reading} :
          Quantities(snapshot.positions, s) # Quantities(reading, s)}

\* get_positions: what the exchange lists, flat products among it for some; a
\* call that fails is an account without positions.
Reading(listed) ==
  IF ~listed THEN {}
  ELSE UNION {GetPositions(dialect, Listed(b), account[b]) :
                b \in {c \in Bases : account[c] # 0 \/ dialect \in ListingFlat}}
HeldInSnapshot(b) == {p.quantity : p \in {q \in snapshot.positions : q.symbol.base = b}}

\* How the account and the snapshot really compare.
Compared(b) ==
  IF HeldInSnapshot(b) # IF account[b] = 0 THEN {} ELSE {Magnitude(account[b])} THEN "differ"
  ELSE IF account[b] = 0 THEN "flat" ELSE "held"

-----------------------------------------------------------------------------
(* The loop *)

GuardInit ==
  /\ dialect \in Exchanges
  /\ account \in [Bases -> {0, MaxQty}]
  /\ entry = [b \in Bases |-> 2] /\ mark = [b \in Bases |-> 2]
  /\ orders = [i \in Slots |-> NoOrder]
  /\ snapshot = [taken |-> FALSE, positions |-> {}]
  /\ closes = {} /\ mismatched = {} /\ answered = TRUE /\ books = [b \in Bases |-> "differ"]
  /\ configured = [b \in Bases |-> "todo"]
  /\ stage = "setup" /\ events = 0

\* A symbol is configured when neither call raises; the loop starts either way.
SetupSymbol(b) ==
  /\ stage = "setup" /\ configured[b] = "todo"
  /\ \E margin, leverage \in {"taken", "refused", "lost"} :
       /\ IF margin = "taken" /\ leverage = "taken" THEN UNCHANGED events ELSE Event
       /\ configured' = [configured EXCEPT ![b] =
            IF {Setting(dialect, margin), Setting(dialect, leverage)} \subseteq {"ok", "unsupported"}
            THEN "yes" ELSE "no"]
  /\ stage' = IF \E c \in Bases \ {b} : configured[c] = "todo" THEN "setup" ELSE "start"
  /\ UNCHANGED <<dialect, account, entry, mark, orders, snapshot, closes, report>>

\* The head of the loop.  Nothing obliges it to be passed: the loop may wait for a
\* session for ever, or have been halted or shut down.
BeginCycle ==
  /\ stage = "top"
  /\ stage' = "sync"
  /\ UNCHANGED <<dialect, account, entry, mark, orders, snapshot, closes, report, configured,
                 events>>

\* The balance and the positions are read, before the loop and in it.  A balance that
\* is missing or empty, or a position without a price, leaves the old snapshot in
\* place; positions that cannot be read are an empty list, and the sync succeeds.
SyncAccount ==
  /\ stage \in {"start", "sync"}
  /\ \E balanced, full, listed \in BOOLEAN :
       LET held == {Holding(e) : e \in {x \in Reading(listed) : x.quantity # 0}}
       IN /\ IF balanced /\ full /\ listed THEN UNCHANGED events ELSE Event
          /\ snapshot' = IF /\ balanced /\ GetBalance(dialect, full, 1) > 0
                            /\ \A p \in held : p.avg > 0 /\ p.market > 0
                         THEN [taken |-> TRUE, positions |-> held] ELSE snapshot
  /\ stage' = IF stage = "start" THEN "top" ELSE "stops"
  /\ UNCHANGED <<dialect, account, entry, mark, orders, closes, report, configured>>

\* The sync interval has not elapsed: the stop-loss check runs all the same.
SkipSync ==
  /\ stage = "sync"
  /\ stage' = "stops"
  /\ UNCHANGED <<dialect, account, entry, mark, orders, snapshot, closes, report, configured,
                 events>>

CheckPositions ==
  /\ stage = "stops"
  /\ closes' = {BuildClose(p) : p \in {q \in snapshot.positions : Breaches(q)}}
  /\ stage' = "submit"
  /\ UNCHANGED <<dialect, account, entry, mark, orders, snapshot, report, configured, events>>

\* A close is clean when the account still is what the snapshot says, long, and
\* no other order of the product can fill.
Clean(c) == LET b == c.symbol.base
            IN /\ account[b] > 0 /\ HeldInSnapshot(b) = {account[b]}
               /\ \A i \in Slots : ~(orders[i].venue = "resting" /\ orders[i].product.base = b)
Soiled(b) == [i \in Slots |-> IF orders[i].product.base = b
                              THEN [orders[i] EXCEPT !.clean = FALSE] ELSE orders[i]]

\* An order trades a product of the account when it names it on its market.
Reaches(placed, b) == /\ Serves(dialect, "futures")
                      /\ placed.product = Listed(b) /\ placed.market = ListedMarket(b)

\* submit_order: the order is tracked, then sent.  A reply with an id opens it;
\* a reply without one leaves it pending; an exception, a lost reply among them,
\* cancels it.  Every order goes out for the venue futures.
Submit(o, kind) ==
  \E i \in Slots, outcome \in {"taken", "refused", "lost"} :
    LET placed  == PlaceOrder(dialect, o.symbol, o.side, "futures")
        reaches == Reaches(placed, o.symbol.base)
        answer  == IF ~Serves(dialect, "futures") \/ outcome = "lost" THEN "raises"
                   ELSE OrderAnswer(dialect, ~reaches \/ outcome = "refused")
    IN /\ orders[i].venue # "resting"
       /\ IF outcome = "taken" /\ kind = "close" THEN UNCHANGED events ELSE Event
       /\ orders' = [Soiled(o.symbol.base) EXCEPT ![i] =
            [local |-> CASE answer = "id" -> "open" [] answer = "noid" -> "pending"
                         [] OTHER -> "cancelled",
             venue |-> IF reaches /\ outcome # "refused" THEN "resting" ELSE "none",
             symbol |-> o.symbol, market |-> placed.market, product |-> placed.product,
             side |-> placed.side, quantity |-> o.quantity, kind |-> kind,
             clean |-> kind = "close" /\ Clean(o)]]

\* Closes go straight to the executor, before the control gate.
SubmitClose ==
  /\ stage = "submit"
  /\ \E c \in closes : Submit(c, "close") /\ closes' = closes \ {c}
  /\ UNCHANGED <<dialect, account, entry, mark, snapshot, report, configured, stage>>

ClosesSubmitted ==
  /\ stage = "submit" /\ closes = {}
  /\ stage' = "gate"
  /\ UNCHANGED <<dialect, account, entry, mark, orders, snapshot, closes, report, configured,
                 events>>

\* A closed gate ends the cycle, reconciliation included.
GateCloses ==
  /\ stage = "gate"
  /\ Event
  /\ stage' = "top"
  /\ UNCHANGED <<dialect, account, entry, mark, orders, snapshot, closes, report, configured>>

SubmitEntry ==
  /\ stage = "gate"
  /\ \E b \in Bases, side \in {"BUY", "SELL"} :
       Submit([symbol |-> Plain(b), side |-> side, quantity |-> 1], "entry")
  /\ stage' = "fills"
  /\ UNCHANGED <<dialect, account, entry, mark, snapshot, closes, report, configured>>

NoEntry ==
  /\ stage = "gate"
  /\ stage' = "fills"
  /\ UNCHANGED <<dialect, account, entry, mark, orders, snapshot, closes, report, configured,
                 events>>

-----------------------------------------------------------------------------
(* Fills and reconciliation *)

\* _match_trade_to_order: the record with the trade's order id, else an open
\* record of the symbol, as Aster writes it, and the side.
MatchTrade(t) ==
  IF t.id # 0 /\ orders[t.id].local \in {"open", "filled"} THEN {t.id}
  ELSE {j \in Slots : /\ orders[j].local = "open" /\ orders[j].side = t.side
                      /\ AsterNormalize(orders[j].symbol) = AsterNormalize(t.symbol)}

SyncFill(i) ==
  /\ stage = "fills" /\ orders[i].venue = "done"
  /\ \E j \in MatchTrade(GetMyTrade(dialect, orders[i], i)) :
       /\ orders[j].local = "open"
       /\ orders' = [orders EXCEPT ![j].local = "filled"]
  /\ UNCHANGED <<dialect, account, entry, mark, snapshot, closes, report, configured, stage,
                 events>>

SyncedFills ==
  /\ stage = "fills"
  /\ stage' = "reconcile"
  /\ UNCHANGED <<dialect, account, entry, mark, orders, snapshot, closes, report, configured,
                 events>>

\* The report, and in answered and books what it was made from.
RunReconciliation ==
  /\ stage = "reconcile"
  /\ answered' \in BOOLEAN
  /\ IF answered' THEN UNCHANGED events ELSE Event
  /\ mismatched' = Mismatches(Reading(answered'))
  /\ books' = [b \in Bases |-> Compared(b)]
  /\ stage' = "cancel"
  /\ UNCHANGED <<dialect, account, entry, mark, orders, snapshot, closes, configured>>

\* The interval of the reconciliation has not elapsed.
SkipReconciliation ==
  /\ stage = "reconcile"
  /\ stage' = "top"
  /\ UNCHANGED <<dialect, account, entry, mark, orders, snapshot, closes, report, configured,
                 events>>

\* The two venues are asked in turn; the records that name the symbol exactly
\* so are cancelled whatever the answers were.
CancelForSymbol ==
  /\ stage = "cancel"
  /\ \E s \in mismatched, refusing \in SUBSET {"futures", "spot"} :
       /\ IF refusing = {} THEN UNCHANGED events ELSE Event
       /\ mismatched' = mismatched \ {s}
       /\ orders' = [i \in Slots |->
            LET o == orders[i]
                gone == /\ o.venue = "resting"
                        /\ \E v \in {"futures", "spot"} \ refusing :
                             CancelAllOrders(dialect, s, v, o)
            IN [o EXCEPT !.venue = IF gone THEN "cancelled" ELSE o.venue,
                         !.local = IF o.local = "open" /\ o.symbol = s THEN "cancelled"
                                   ELSE o.local]]
  /\ UNCHANGED <<dialect, account, entry, mark, snapshot, closes, answered, books, configured,
                 stage>>

NextCycle ==
  /\ stage = "cancel" /\ mismatched = {}
  /\ stage' = "top" /\ answered' = TRUE /\ books' = [b \in Bases |-> "differ"]
  /\ UNCHANGED <<dialect, account, entry, mark, orders, snapshot, closes, mismatched,
                 configured, events>>

-----------------------------------------------------------------------------
(* The exchange *)

Signed(o) == IF o.side = "BUY" THEN o.quantity ELSE -o.quantity
Moved(b, q) == /\ account' = [account EXCEPT ![b] = @ + q]
               /\ entry' = [entry EXCEPT ![b] = IF account[b] = 0 /\ mark[b] > 0 THEN mark[b]
                                              ELSE @]

\* A fill without a quote leaves the entry price that was known.
\* An order that the bound on positions leaves no room for expires.
Fill(i) ==
  LET o == orders[i]  b == o.product.base
  IN /\ o.venue = "resting"
     /\ IF account[b] + Signed(o) \in Lots
        THEN /\ Moved(b, Signed(o))
             /\ orders' = [Soiled(b) EXCEPT ![i] = [o EXCEPT !.venue = "done"]]
        ELSE /\ orders' = [orders EXCEPT ![i].venue = "expired"]
             /\ UNCHANGED <<account, entry>>
     /\ UNCHANGED <<dialect, mark, snapshot, closes, report, configured, stage, events>>

OtherTrade(b, q) ==
  /\ Event /\ account[b] + q \in Lots
  /\ Moved(b, q)
  /\ orders' = Soiled(b)
  /\ UNCHANGED <<dialect, mark, snapshot, closes, report, configured, stage>>

MoveMark(b, p) ==
  /\ Event /\ p # mark[b]
  /\ mark' = [mark EXCEPT ![b] = p]
  /\ UNCHANGED <<dialect, account, entry, orders, snapshot, closes, report, configured, stage>>

GuardNext ==
  \/ \E b \in Bases : SetupSymbol(b)
  \/ BeginCycle \/ SyncAccount \/ SkipSync \/ CheckPositions \/ SubmitClose \/ ClosesSubmitted
  \/ GateCloses \/ SubmitEntry \/ NoEntry \/ SyncedFills
  \/ \E i \in Slots : SyncFill(i) \/ Fill(i)
  \/ RunReconciliation \/ SkipReconciliation \/ CancelForSymbol \/ NextCycle
  \/ \E b \in Bases : \/ \E q \in {-1, 1} : OtherTrade(b, q)
                      \/ \E p \in Prices : MoveMark(b, p)

GuardSpec == GuardInit /\ [][GuardNext]_guard

\* What rests at the exchange fills; of the loop nothing is assumed.
FairGuardSpec == GuardSpec /\ \A i \in Slots : WF_guard(Fill(i))

-----------------------------------------------------------------------------
(* Properties *)

GuardTypeOK ==
  /\ dialect \in Exchanges /\ account \in [Bases -> Lots]
  /\ \A i \in Slots : orders[i].local \in {"none", "pending", "open", "filled", "cancelled"}
  /\ \A p \in snapshot.positions : p.quantity \in 0..MaxQty

\* A close planned from a snapshot that still is the account, of a long position
\* nobody else trades, brings the position to zero when it fills: neither the
\* dialect's symbols nor the monitor's side and size lose anything on the way.
FreshCloseFlattens ==
  [][\A i \in Slots :
       orders[i].clean /\ orders[i].venue = "resting" /\ orders'[i].venue = "done"
         => account'[orders[i].product.base] = 0]_guard

\* Reconciliation takes from the exchange no order of a product that is held and that
\* the snapshot has in its size, provided the exchange answered the read of its
\* positions: names, sizes and the orders asked for agree in every dialect.
MatchedKeepOrders ==
  [][stage = "cancel" /\ mismatched' # mismatched /\ answered =>
       \A i \in Slots : orders'[i].venue # orders[i].venue
                          => books[orders[i].product.base] # "held"]_guard

\* A long position on the futures market at a loss beyond the limit is closed,
\* whatever the control gate says, as long as the loop keeps syncing an account whose
\* positions all have a price.
LongBreach(b) == /\ account[b] > 0 /\ mark[b] > 0
                 /\ 100 * (entry[b] - mark[b]) > MaxLossPct * entry[b]
BreachOver(b) == account[b] <= 0 \/ mark[b] >= entry[b] \/ mark[b] = 0
OnFutures(b)  == ListedMarket(b) \in {"futures", "linear", "FUT"}
Priced        == \A b \in Bases : account[b] # 0 => mark[b] > 0
SyncsPriced   == []<><<SyncAccount /\ Priced>>_guard
BreachGetsClosed ==
  SyncsPriced => \A b \in Bases : LongBreach(b) /\ OnFutures(b) ~> BreachOver(b)

\* A product without a price does not keep the stop-loss from another product.
BreachClosedUnpriced ==
  []<><<SyncAccount>>_guard => \A b \in Bases : LongBreach(b) /\ OnFutures(b) ~> BreachOver(b)

\* The stop-loss closes a stock as it does a future (IB serves both).
StockBreachGetsClosed ==
  SyncsPriced =>
    \A b \in Bases : LongBreach(b) /\ ListedMarket(b) = "STK" ~> BreachOver(b)

\* The surgical cancel takes from the exchange only orders of products on which account
\* and snapshot differed (reconciliation.py: only those symbols' orders are cancelled).
SurgicalCancel ==
  [][stage = "cancel" /\ mismatched' # mismatched =>
       \A i \in Slots : orders'[i].venue # orders[i].venue
                          => books[orders[i].product.base] = "differ"]_guard

\* A close never enlarges a position (stop_loss.py: a short one is bought back).
ClosesReduce ==
  [][\A i \in Slots :
       /\ orders[i].venue = "resting" /\ orders[i].kind = "close" /\ orders'[i].venue = "done"
       /\ account'[orders[i].product.base] # account[orders[i].product.base]
       => Signed(orders[i]) * account[orders[i].product.base] <= 0]_guard

\* A close finds a position to close: a snapshot that is older than the last
\* close is closed again.
CloseMeetsPosition ==
  [][\A i \in Slots :
       orders[i].venue = "resting" /\ orders[i].kind = "close" /\ orders'[i].venue = "done"
         => account[orders[i].product.base] # 0]_guard

\* A record that says cancelled has nothing resting at the exchange.
CancelledAreGone ==
  \A i \in Slots : orders[i].local = "cancelled" => orders[i].venue # "resting"
=============================================================================
