----------------------- MODULE CircuitBreaker_proofs -----------------------
(***************************************************************************)
(* Theorems of CircuitBreaker, for any callers, threshold and timeout, and *)
(* of PositionGuard, the desk whose calls go through that gateway, for any *)
(* dialects, products, sizes, prices and numbers of orders and events.     *)
(***************************************************************************)
EXTENDS CircuitBreaker, PositionGuard, TLAPS

-----------------------------------------------------------------------------
(* CircuitBreaker: the count *)

\* The breaker's own part of the type invariant, and the history's.
BreakerTyped ==
  /\ state \in CircuitState
  /\ failures \in 0..MaxFailures /\ since \in 0..RecoveryTimeout

CallsTyped ==
  /\ call \in [Callers -> {"none", "waiting", "posting", "answered", "failed"}]
  /\ serverUp \in BOOLEAN
  /\ streak \in 0..MaxFailures /\ probes \subseteq Callers
  /\ outages \in 0..MaxOutages /\ resets \in 0..MaxResets

CountInv == BreakerTyped /\ CountMatchesState

LEMMA CountInit == Init => CountInv
  BY BreakerBounds DEF Init, CountInv, BreakerTyped, CircuitState, CountMatchesState

\* What the methods return keeps the count and the state in step.
LEMMA SuccessKeeps ==
  ASSUME CountInv
  PROVE  /\ StateAfterSuccess \in CircuitState /\ CountAfterSuccess \in 0..MaxFailures
         /\ StateAfterSuccess = "closed" <=> CountAfterSuccess < FailureThreshold
  BY BreakerBounds DEF CountInv, BreakerTyped, CountMatchesState, CircuitState,
     StateAfterSuccess, CountAfterSuccess

LEMMA FailureKeeps ==
  ASSUME CountInv
  PROVE  /\ StateAfterFailure \in CircuitState /\ CountAfterFailure \in 0..MaxFailures
         /\ StateAfterFailure = "closed" <=> CountAfterFailure < FailureThreshold
  BY BreakerBounds DEF CountInv, BreakerTyped, CountMatchesState, CircuitState,
     StateAfterFailure, CountAfterFailure

LEMMA StateNowKeeps ==
  ASSUME CountInv
  PROVE  StateNow \in CircuitState /\ (StateNow = "closed" <=> state = "closed")
  BY DEF CountInv, BreakerTyped, CircuitState, StateNow, Recovering

LEMMA CountStep == CountInv /\ [Next]_vars => CountInv'
<1> SUFFICES ASSUME CountInv, [Next]_vars PROVE CountInv' OBVIOUS
<1> USE DEF CountInv, BreakerTyped, CountMatchesState
<1>1. CASE UNCHANGED vars BY <1>1 DEF vars, breaker
<1>2. ASSUME NEW c \in Callers, Step(c) PROVE CountInv'
  <2>1. CASE Allow(c) BY <2>1, StateNowKeeps DEF Allow
  <2>2. CASE Reject(c) BY <2>2, StateNowKeeps DEF Reject
  <2>3. CASE Acquire(c) \/ Throttle(c) \/ Answer(c)
    BY <2>3 DEF Acquire, Throttle, Answer, breaker
  <2>4. CASE RecordSuccess(c) BY <2>4, SuccessKeeps DEF RecordSuccess
  <2>5. CASE RecordFailure(c)
    <3>1. since' \in 0..RecoveryTimeout BY <2>5, BreakerBounds DEF RecordFailure
    <3> QED BY <2>5, <3>1, FailureKeeps DEF RecordFailure
  <2> QED BY <1>2, <2>1, <2>2, <2>3, <2>4, <2>5 DEF Step
<1>3. CASE Tick BY <1>3, BreakerBounds DEF Tick
<1>4. CASE ServerFails \/ ServerReturns BY <1>4 DEF ServerFails, ServerReturns, breaker
<1>5. CASE Reset BY <1>5, BreakerBounds DEF Reset, CircuitState
<1> QED BY <1>1, <1>2, <1>3, <1>4, <1>5 DEF Next

\* CLOSED means fewer failures than the threshold and nothing else does.
THEOREM CountExact == Spec => []CountMatchesState
<1>1. CountInv => CountMatchesState BY DEF CountInv
<1> QED BY CountInit, CountStep, <1>1, PTL DEF Spec

-----------------------------------------------------------------------------
(* CircuitBreaker: the types of the calls *)

LEMMA CallsStep == CallsTyped /\ [Next]_vars => CallsTyped'
<1> SUFFICES ASSUME CallsTyped, [Next]_vars PROVE CallsTyped' OBVIOUS
<1> USE DEF CallsTyped
<1>1. CASE UNCHANGED vars BY <1>1 DEF vars, history
<1>2. ASSUME NEW c \in Callers, Step(c) PROVE CallsTyped'
  <2>1. CASE Allow(c) BY <2>1 DEF Allow
  <2>2. CASE Reject(c) BY <2>2 DEF Reject, history
  <2>3. CASE Acquire(c) BY <2>3 DEF Acquire, history
  <2>4. CASE Throttle(c) BY <2>4 DEF Throttle
  <2>5. CASE Answer(c)
    <3>1. CASE serverUp BY <2>5, <3>1 DEF Answer, history
    <3>2. CASE ~serverUp BY <2>5, <3>2 DEF Answer, history
    <3> QED BY <3>1, <3>2
  <2>6. CASE RecordSuccess(c) BY <2>6, BreakerBounds DEF RecordSuccess
  <2>7. CASE RecordFailure(c) BY <2>7, BreakerBounds DEF RecordFailure
  <2> QED BY <1>2, <2>1, <2>2, <2>3, <2>4, <2>5, <2>6, <2>7 DEF Step
<1>3. CASE Tick BY <1>3 DEF Tick, history
<1>4. CASE ServerFails
  <2>1. serverUp' \in BOOLEAN BY <1>4 DEF ServerFails
  <2> QED BY <1>4, <2>1, BreakerBounds DEF ServerFails, history
<1>5. CASE ServerReturns
  <2>1. serverUp' \in BOOLEAN BY <1>5 DEF ServerReturns
  <2> QED BY <1>5, <2>1 DEF ServerReturns, history
<1>6. CASE Reset BY <1>6, BreakerBounds DEF Reset, history
<1> QED BY <1>1, <1>2, <1>3, <1>4, <1>5, <1>6 DEF Next

\* Type correctness.
THEOREM TypeCorrect == Spec => []TypeOK
<1>1. Init => CallsTyped
  <2>1. Init => serverUp \in BOOLEAN BY DEF Init
  <2> QED BY <2>1, BreakerBounds DEF Init, CallsTyped
<1>2. CountInv /\ CallsTyped => TypeOK
  BY DEF CountInv, BreakerTyped, CallsTyped, TypeOK
<1> QED BY CountInit, CountStep, CallsStep, <1>1, <1>2, PTL DEF Spec

-----------------------------------------------------------------------------
(* PositionGuard: what a dialect does to a name *)

Symbol == [base : Bases, quote : {"USDT", "USDC", "USD", ""}, form : Forms]

\* How the provider the desk is wired to reports the product of a base.
Name(b) == ToCanonicalSymbol(dialect, Listed(b))

LEMMA ListedNames ==
  ASSUME NEW b \in Bases
  PROVE  /\ Listed(b) \in Symbol /\ Listed(b).base = b
         /\ Plain(b) \in Symbol /\ Plain(b).base = b
  BY DEF Listed, Plain, Symbol, Forms

\* No dialect changes the base of a symbol, on its way out or in.
LEMMA NormalizeKeepsBase ==
  ASSUME NEW s \in Symbol, NEW d \in Dialects
  PROVE  NormalizeSymbol(d, s) \in Symbol /\ NormalizeSymbol(d, s).base = s.base
<1>1. AsterNormalize(s) \in Symbol /\ AsterNormalize(s).base = s.base
  BY DEF AsterNormalize, Symbol, Forms
<1>2. BybitNormalize(s) \in Symbol /\ BybitNormalize(s).base = s.base
  BY DEF BybitNormalize, Symbol, Forms
<1>3. CoinbaseNormalize(s) \in Symbol /\ CoinbaseNormalize(s).base = s.base
  BY DEF CoinbaseNormalize, QuoteAlias, Symbol, Forms
<1>4. IbNormalize(s) \in Symbol /\ IbNormalize(s).base = s.base
  BY DEF IbNormalize, Symbol, Forms
<1> QED BY <1>1, <1>2, <1>3, <1>4 DEF NormalizeSymbol, Dialects

LEMMA CanonicalKeepsBase ==
  ASSUME NEW s \in Symbol, NEW d \in Dialects
  PROVE  ToCanonicalSymbol(d, s) \in Symbol /\ ToCanonicalSymbol(d, s).base = s.base
<1>1. AsterCanonical(s) \in Symbol /\ AsterCanonical(s).base = s.base
  BY DEF AsterCanonical, Symbol, Forms
<1>2. BybitCanonical(s) \in Symbol /\ BybitCanonical(s).base = s.base
  BY DEF BybitCanonical, Symbol, Forms
<1>3. CoinbaseCanonical(s) \in Symbol /\ CoinbaseCanonical(s).base = s.base
  BY DEF CoinbaseCanonical, Symbol, Forms
<1>4. IbCanonical(s) \in Symbol /\ IbCanonical(s).base = s.base
  BY DEF IbCanonical, Symbol, Forms
<1> QED BY <1>1, <1>2, <1>3, <1>4 DEF ToCanonicalSymbol, Dialects

\* An order goes out on the side it has and under the name the dialect gives its symbol,
LEMMA PlacedAs ==
  ASSUME NEW s \in Symbol, NEW d \in Dialects, NEW side
  PROVE  LET placed == PlaceOrder(d, s, side, "futures")
         IN /\ placed.side = side /\ placed.product = NormalizeSymbol(d, s)
            /\ placed.market \in {"futures", "spot", "linear", "FUT"}
  BY DEF PlaceOrder, NormalizeSymbol, Dialects, PlaceAster, PlaceBinance, PlaceBybit,
     PlaceCoinbase, PlaceIb, AsterMarket, BinanceMarket, BybitMarket, IbMarket

\* and a cancellation of everything in a symbol asks for the orders under that name.
LEMMA CancelsOfName ==
  ASSUME NEW s, NEW d \in Dialects, NEW v, NEW o, CancelAllOrders(d, s, v, o)
  PROVE  o.product = NormalizeSymbol(d, s)
  BY DEF CancelAllOrders, NormalizeSymbol, Dialects, AsterCancels, BinanceCancels,
     BybitCancels, CoinbaseCancels, IbCancels

\* What a provider reports of a position carries the canonical name and the unsigned size.
LEMMA PositionsReported ==
  ASSUME NEW s, NEW d \in Dialects, NEW q \in Int, NEW e \in GetPositions(d, s, q)
  PROVE  e.symbol = ToCanonicalSymbol(d, s) /\ e.quantity = Magnitude(q)
  BY DEF GetPositions, ToCanonicalSymbol, Dialects, AsterPositions, AsterPosition,
     BybitPositions, CoinbasePositions, IbPositions, Entry

LEMMA PositionReported ==
  ASSUME NEW s, NEW d \in Dialects \ {"coinbase"}, NEW q \in Int \ {0}
  PROVE  GetPositions(d, s, q) # {}
<1>1. AsterPositions(s, q) # {} BY DEF AsterPositions
<1>2. BybitPositions(s, q) # {} BY DEF BybitPositions
<1>3. IbPositions(s, q) # {} BY DEF IbPositions
<1> QED BY <1>1, <1>2, <1>3 DEF GetPositions, Dialects

-----------------------------------------------------------------------------
(* PositionGuard: the inductive invariant *)

Reached == {"", "futures", "spot", "linear", "FUT"}
OrderRecord ==
  [local : {"none", "pending", "open", "filled", "cancelled"},
   venue : {"none", "resting", "done", "expired", "cancelled"},
   symbol : Symbol, market : Reached, product : Symbol, side : {"BUY", "SELL"},
   quantity : Int, kind : {"entry", "close"}, clean : BOOLEAN]
Position == [symbol : Symbol, quantity : 1..MaxQty, avg : Nat, market : Nat]

DeskTyped ==
  /\ dialect \in Exchanges /\ account \in [Bases -> Lots]
  /\ entry \in [Bases -> Nat] /\ mark \in [Bases -> Nat]
  /\ orders \in [Slots -> OrderRecord]

\* The snapshot holds positions under the names the provider reports, of any size but 0.
Snapped ==
  /\ snapshot \in [taken : BOOLEAN, positions : SUBSET Position]
  /\ \A p \in snapshot.positions : p.symbol = Name(p.symbol.base) /\ dialect # "coinbase"
  /\ ~snapshot.taken => snapshot.positions = {}

\* Closes wait only while the snapshot that they were planned from is in place.
Planned ==
  /\ \A c \in closes : \E p \in snapshot.positions : c = BuildClose(p)
  /\ closes # {} => stage = "submit"

\* A clean close that rests sells exactly what the account holds.
CleanClose(o) == /\ o.side = "SELL" /\ o.quantity = account[o.product.base]
CleanCloses ==
  \A i \in Slots : orders[i].clean /\ orders[i].venue = "resting" => CleanClose(orders[i])

GuardInv == DeskTyped /\ Snapped /\ Planned /\ CleanCloses

\* What is left of a report on an answered read names no product that is held and matched.
Reported ==
  answered => \A s \in mismatched : s \in Symbol /\ books[s.base] # "held"

-----------------------------------------------------------------------------
(* PositionGuard: each action keeps it *)

LEMMA MagnitudeIs ==
  ASSUME NEW q \in Lots
  PROVE  Magnitude(q) \in 0..MaxQty /\ (Magnitude(q) = 0 <=> q = 0) /\ (q > 0 => Magnitude(q) = q)
  BY GuardAssumption DEF Magnitude, Lots

LEMMA NameOf ==
  ASSUME DeskTyped, NEW b \in Bases
  PROVE  Name(b) \in Symbol /\ Name(b).base = b
  BY ListedNames, CanonicalKeepsBase, GuardAssumption DEF Name, DeskTyped

\* An entry of a reading has the provider's name of its product and the account's size.
LEMMA ReadingTells ==
  ASSUME DeskTyped, NEW listed \in BOOLEAN, NEW e \in Reading(listed)
  PROVE  /\ e.symbol \in Symbol /\ e.symbol = Name(e.symbol.base)
         /\ e.quantity = Magnitude(account[e.symbol.base])
         /\ dialect # "coinbase"
<1>1. PICK b \in Bases : /\ e \in GetPositions(dialect, Listed(b), account[b])
                         /\ account[b] # 0 \/ dialect \in ListingFlat
  BY DEF Reading
<1>2. dialect \in Dialects /\ account[b] \in Int BY GuardAssumption DEF DeskTyped, Lots
<1>3. e.symbol = Name(b) /\ e.quantity = Magnitude(account[b])
  BY <1>1, <1>2, PositionsReported DEF Name
<1>4. dialect # "coinbase" BY <1>1 DEF GetPositions, CoinbasePositions
<1> QED BY <1>1, <1>3, <1>4, NameOf

\* What both the trades and the changes of price leave in place.
LEMMA SnappedStays ==
  ASSUME Snapped, UNCHANGED <<dialect, snapshot>> PROVE Snapped'
<1>1. \A b : Name(b)' = Name(b) BY DEF Name, Listed, Plain
<1> QED BY <1>1 DEF Snapped

\* The steps that only move the loop on.
LEMMA LoopMovesOn ==
  ASSUME GuardInv, stage # "submit" \/ closes = {},
         UNCHANGED <<dialect, account, entry, mark, orders, snapshot, closes>>
  PROVE  GuardInv'
<1>1. DeskTyped' BY DEF GuardInv, DeskTyped
<1>2. Snapped' BY SnappedStays DEF GuardInv
<1>3. closes = {} BY DEF GuardInv, Planned
<1>4. Planned' BY <1>3 DEF Planned
<1>5. CleanCloses' BY DEF GuardInv, CleanCloses, CleanClose
<1> QED BY <1>1, <1>2, <1>4, <1>5 DEF GuardInv

LEMMA SyncAccountKeeps == GuardInv /\ SyncAccount => GuardInv'
<1> SUFFICES ASSUME GuardInv, SyncAccount PROVE GuardInv' OBVIOUS
<1>1. PICK balanced, full, listed \in BOOLEAN :
        LET held == {Holding(e) : e \in {x \in Reading(listed) : x.quantity # 0}}
        IN snapshot' = IF /\ balanced /\ GetBalance(dialect, full, 1) > 0
                          /\ \A p \in held : p.avg > 0 /\ p.market > 0
                       THEN [taken |-> TRUE, positions |-> held] ELSE snapshot
  BY DEF SyncAccount
<1> DEFINE held == {Holding(e) : e \in {x \in Reading(listed) : x.quantity # 0}}
<1>2. \A p \in held : /\ p \in Position /\ p.symbol = Name(p.symbol.base)
                       /\ dialect # "coinbase"
  <2> SUFFICES ASSUME NEW e \in Reading(listed), e.quantity # 0
               PROVE  /\ Holding(e) \in Position /\ dialect # "coinbase"
                      /\ Holding(e).symbol = Name(Holding(e).symbol.base)
    OBVIOUS
  <2>1. /\ e.symbol \in Symbol /\ e.symbol = Name(e.symbol.base)
        /\ e.quantity = Magnitude(account[e.symbol.base]) /\ dialect # "coinbase"
    BY ReadingTells DEF GuardInv
  <2>2. e.symbol.base \in Bases BY <2>1 DEF Symbol, Forms
  <2>3. account[e.symbol.base] \in Lots BY <2>2 DEF GuardInv, DeskTyped
  <2>4. e.quantity \in 1..MaxQty BY <2>1, <2>3, MagnitudeIs, GuardAssumption
  <2>5. entry[e.symbol.base] \in Nat /\ mark[e.symbol.base] \in Nat
    BY <2>2 DEF GuardInv, DeskTyped
  <2> QED BY <2>1, <2>4, <2>5 DEF Holding, Position
<1>3. snapshot' = [taken |-> TRUE, positions |-> held] \/ snapshot' = snapshot
  BY <1>1
<1> HIDE DEF held
<1>4. /\ stage \in {"start", "sync"} /\ UNCHANGED <<dialect, account, entry, mark, orders, closes>>
  BY DEF SyncAccount
<1>5. Snapped'
  <2>1. \A b : Name(b)' = Name(b) BY <1>4 DEF Name, Listed, Plain
  <2>2. held \in SUBSET Position BY <1>2
  <2>3. CASE snapshot' = [taken |-> TRUE, positions |-> held]
    BY <1>2, <1>4, <2>1, <2>2, <2>3 DEF Snapped
  <2>4. CASE snapshot' = snapshot BY <1>4, <2>4, SnappedStays DEF GuardInv
  <2> QED BY <1>3, <2>3, <2>4
<1>6. DeskTyped' BY <1>4 DEF GuardInv, DeskTyped
<1>7. Planned' BY <1>4 DEF GuardInv, Planned
<1>8. CleanCloses' BY <1>4 DEF GuardInv, CleanCloses, CleanClose
<1> QED BY <1>5, <1>6, <1>7, <1>8 DEF GuardInv

LEMMA CheckPositionsKeeps == GuardInv /\ CheckPositions => GuardInv'
<1> SUFFICES ASSUME GuardInv, CheckPositions PROVE GuardInv' OBVIOUS
<1>1. /\ closes' = {BuildClose(p) : p \in {q \in snapshot.positions : Breaches(q)}}
      /\ stage' = "submit" /\ UNCHANGED <<dialect, account, entry, mark, orders, snapshot>>
  BY DEF CheckPositions
<1>2. DeskTyped' BY <1>1 DEF GuardInv, DeskTyped
<1>3. Snapped' BY <1>1, SnappedStays DEF GuardInv
<1>4. Planned' BY <1>1 DEF Planned
<1>5. CleanCloses' BY <1>1 DEF GuardInv, CleanCloses, CleanClose
<1> QED BY <1>2, <1>3, <1>4, <1>5 DEF GuardInv

\* Soiling changes the mark of clean closes and nothing else.
LEMMA SoiledIs ==
  ASSUME DeskTyped, NEW b
  PROVE  /\ Soiled(b) \in [Slots -> OrderRecord]
         /\ \A j \in Slots :
              /\ Soiled(b)[j].venue = orders[j].venue /\ Soiled(b)[j].product = orders[j].product
              /\ Soiled(b)[j].side = orders[j].side /\ Soiled(b)[j].quantity = orders[j].quantity
              /\ Soiled(b)[j].clean => orders[j].clean /\ orders[j].product.base # b
<1> SUFFICES ASSUME NEW j \in Slots
             PROVE  /\ Soiled(b)[j] \in OrderRecord
                    /\ Soiled(b)[j].venue = orders[j].venue
                    /\ Soiled(b)[j].product = orders[j].product
                    /\ Soiled(b)[j].side = orders[j].side
                    /\ Soiled(b)[j].quantity = orders[j].quantity
                    /\ Soiled(b)[j].clean => orders[j].clean /\ orders[j].product.base # b
  BY DEF Soiled
<1>1. orders[j] \in OrderRecord BY DEF DeskTyped
<1>2. Soiled(b)[j] = IF orders[j].product.base = b THEN [orders[j] EXCEPT !.clean = FALSE]
                     ELSE orders[j]
  BY DEF Soiled
<1> QED BY <1>1, <1>2 DEF OrderRecord

LEMMA SubmitSends ==
  ASSUME NEW o, NEW kind, Submit(o, kind)
  PROVE  \E i, sent : /\ orders' = [Soiled(o.symbol.base) EXCEPT ![i] = sent]
                      /\ sent.venue \in {"resting", "none"}
<1> DEFINE placed  == PlaceOrder(dialect, o.symbol, o.side, "futures")
           reaches == Reaches(placed, o.symbol.base)
<1>1. PICK i \in Slots, outcome \in {"taken", "refused", "lost"} :
        LET answer == IF ~Serves(dialect, "futures") \/ outcome = "lost" THEN "raises"
                      ELSE OrderAnswer(dialect, ~reaches \/ outcome = "refused")
        IN orders' = [Soiled(o.symbol.base) EXCEPT ![i] =
            [local |-> CASE answer = "id" -> "open" [] answer = "noid" -> "pending"
                         [] OTHER -> "cancelled",
             venue |-> IF reaches /\ outcome # "refused" THEN "resting" ELSE "none",
             symbol |-> o.symbol, market |-> placed.market, product |-> placed.product,
             side |-> placed.side, quantity |-> o.quantity, kind |-> kind,
             clean |-> kind = "close" /\ Clean(o)]]
  BY DEF Submit
<1> DEFINE answer == IF ~Serves(dialect, "futures") \/ outcome = "lost" THEN "raises"
                     ELSE OrderAnswer(dialect, ~reaches \/ outcome = "refused")
           sent ==
            [local |-> CASE answer = "id" -> "open" [] answer = "noid" -> "pending"
                         [] OTHER -> "cancelled",
             venue |-> IF reaches /\ outcome # "refused" THEN "resting" ELSE "none",
             symbol |-> o.symbol, market |-> placed.market, product |-> placed.product,
             side |-> placed.side, quantity |-> o.quantity, kind |-> kind,
             clean |-> kind = "close" /\ Clean(o)]
<1>2. sent.venue \in {"resting", "none"} OBVIOUS
<1>3. orders' = [Soiled(o.symbol.base) EXCEPT ![i] = sent] BY <1>1
<1> HIDE DEF sent
<1> QED BY <1>2, <1>3

\* An order goes out; when it is a clean close of the snapshot it sells what the account holds.
LEMMA SubmitKeeps ==
  ASSUME GuardInv, NEW o, NEW kind \in {"entry", "close"}, Submit(o, kind),
         o.symbol \in Symbol, o.side \in {"BUY", "SELL"}, o.quantity \in Int,
         kind = "close" => (\E p \in snapshot.positions : o = BuildClose(p)),
         UNCHANGED <<dialect, account, entry, mark, snapshot>>
  PROVE  DeskTyped' /\ Snapped' /\ CleanCloses'
<1> DEFINE placed  == PlaceOrder(dialect, o.symbol, o.side, "futures")
           reaches == Reaches(placed, o.symbol.base)
           Local   == {"none", "pending", "open", "filled", "cancelled"}
<1>1. PICK i \in Slots, local \in Local, venue \in {"none", "resting"} :
        /\ venue = "resting" => reaches
        /\ orders' = [Soiled(o.symbol.base) EXCEPT ![i] =
             [local |-> local, venue |-> venue, symbol |-> o.symbol, market |-> placed.market,
              product |-> placed.product, side |-> placed.side, quantity |-> o.quantity,
              kind |-> kind, clean |-> kind = "close" /\ Clean(o)]]
  <2>1. PICK i \in Slots, outcome \in {"taken", "refused", "lost"} :
         LET answer == IF ~Serves(dialect, "futures") \/ outcome = "lost" THEN "raises"
                       ELSE OrderAnswer(dialect, ~reaches \/ outcome = "refused")
         IN orders' = [Soiled(o.symbol.base) EXCEPT ![i] =
            [local |-> CASE answer = "id" -> "open" [] answer = "noid" -> "pending"
                         [] OTHER -> "cancelled",
             venue |-> IF reaches /\ outcome # "refused" THEN "resting" ELSE "none",
             symbol |-> o.symbol, market |-> placed.market, product |-> placed.product,
             side |-> placed.side, quantity |-> o.quantity, kind |-> kind,
             clean |-> kind = "close" /\ Clean(o)]]
    BY DEF Submit
  <2> DEFINE answer == IF ~Serves(dialect, "futures") \/ outcome = "lost" THEN "raises"
                       ELSE OrderAnswer(dialect, ~reaches \/ outcome = "refused")
             local  == CASE answer = "id" -> "open" [] answer = "noid" -> "pending"
                         [] OTHER -> "cancelled"
             venue  == IF reaches /\ outcome # "refused" THEN "resting" ELSE "none"
  <2>2. local \in Local /\ venue \in {"none", "resting"} /\ (venue = "resting" => reaches)
    OBVIOUS
  <2> QED BY <2>1, <2>2
<1> DEFINE b == o.symbol.base
           made == [local |-> local, venue |-> venue, symbol |-> o.symbol, market |-> placed.market,
                   product |-> placed.product, side |-> placed.side, quantity |-> o.quantity,
                   kind |-> kind, clean |-> kind = "close" /\ Clean(o)]
<1>2. dialect \in Dialects /\ b \in Bases
  BY GuardAssumption DEF GuardInv, DeskTyped, Symbol, Forms
<1>3. /\ placed.side = o.side /\ placed.product = NormalizeSymbol(dialect, o.symbol)
      /\ placed.market \in Reached /\ placed.product \in Symbol /\ placed.product.base = b
  <2>1. /\ placed.side = o.side /\ placed.product = NormalizeSymbol(dialect, o.symbol)
        /\ placed.market \in {"futures", "spot", "linear", "FUT"}
    BY <1>2, PlacedAs
  <2> HIDE DEF placed
  <2> QED BY <1>2, <2>1, NormalizeKeepsBase DEF Reached
<1> HIDE DEF placed, reaches
<1>4. made \in OrderRecord BY <1>1, <1>3 DEF OrderRecord
<1>5. /\ orders' = [Soiled(b) EXCEPT ![i] = made]
      /\ Soiled(b) \in [Slots -> OrderRecord]
  BY <1>1, SoiledIs DEF GuardInv
<1>6. DeskTyped' BY <1>4, <1>5 DEF GuardInv, DeskTyped
<1>7. CleanCloses'
  <2> SUFFICES ASSUME NEW j \in Slots, orders'[j].clean, orders'[j].venue = "resting"
               PROVE  /\ orders'[j].side = "SELL"
                      /\ orders'[j].quantity = account[orders'[j].product.base]
    BY DEF CleanCloses, CleanClose
  <2>1. CASE j = i
    <3>1. orders'[j] = made BY <1>5, <2>1
    <3>2. kind = "close" /\ Clean(o)
      <4>1. made.clean BY <3>1
      <4> QED BY <4>1
    <3>3. PICK p \in snapshot.positions : o = BuildClose(p) BY <3>2
    <3>4. p \in Position BY DEF GuardInv, Snapped
    <3>5. p.symbol = o.symbol BY <3>3 DEF BuildClose
    <3>6. p.quantity \in HeldInSnapshot(b) BY <3>5 DEF HeldInSnapshot
    <3>7. p.quantity = account[b] /\ p.quantity > 0 BY <3>2, <3>6 DEF Clean
    <3>8. o.side = "SELL" /\ o.quantity = p.quantity
      <4>1. p.quantity \in Int BY <3>4, GuardAssumption DEF Position
      <4> QED BY <3>3, <3>7, <4>1 DEF BuildClose, Magnitude
    <3> QED BY <1>3, <3>1, <3>7, <3>8
  <2>2. CASE j # i
    <3>1. orders'[j] = Soiled(b)[j] BY <1>5, <2>2
    <3> QED BY <3>1, SoiledIs DEF GuardInv, CleanCloses, CleanClose
  <2> QED BY <2>1, <2>2
<1>8. Snapped' BY SnappedStays DEF GuardInv
<1> QED BY <1>6, <1>7, <1>8

LEMMA SubmitCloseKeeps == GuardInv /\ SubmitClose => GuardInv'
<1> SUFFICES ASSUME GuardInv, SubmitClose PROVE GuardInv' OBVIOUS
<1>1. PICK c \in closes : Submit(c, "close") /\ closes' = closes \ {c} BY DEF SubmitClose
<1>2. /\ stage = "submit"
      /\ UNCHANGED <<dialect, account, entry, mark, snapshot, stage>>
  BY DEF SubmitClose
<1>3. PICK p \in snapshot.positions : c = BuildClose(p) BY DEF GuardInv, Planned
<1>4. p \in Position BY DEF GuardInv, Snapped
<1>5. c.symbol \in Symbol /\ c.side \in {"BUY", "SELL"} /\ c.quantity \in Int
  BY <1>3, <1>4 DEF BuildClose, Magnitude, Position
<1>6. DeskTyped' /\ Snapped' /\ CleanCloses' BY <1>1, <1>2, <1>3, <1>5, SubmitKeeps
<1>7. Planned' BY <1>1, <1>2 DEF GuardInv, Planned, BuildClose
<1> QED BY <1>6, <1>7 DEF GuardInv

LEMMA SubmitEntryKeeps == GuardInv /\ SubmitEntry => GuardInv'
<1> SUFFICES ASSUME GuardInv, SubmitEntry PROVE GuardInv' OBVIOUS
<1>1. PICK b \in Bases, side \in {"BUY", "SELL"} :
        Submit([symbol |-> Plain(b), side |-> side, quantity |-> 1], "entry")
  BY DEF SubmitEntry
<1>2. stage = "gate" /\ UNCHANGED <<dialect, account, entry, mark, snapshot, closes>>
  BY DEF SubmitEntry
<1>3. DeskTyped' /\ Snapped' /\ CleanCloses'
  BY <1>1, <1>2, SubmitKeeps, ListedNames
<1>4. Planned' BY <1>2 DEF GuardInv, Planned
<1> QED BY <1>3, <1>4 DEF GuardInv

\* The steps that change an order's status and nothing that a clean close rests on.
LEMMA SyncFillKeeps == ASSUME GuardInv, NEW i \in Slots, SyncFill(i) PROVE GuardInv'
<1>1. PICK j \in MatchTrade(GetMyTrade(dialect, orders[i], i)) :
        /\ orders[j].local = "open"
        /\ orders' = [orders EXCEPT ![j].local = "filled"]
  BY DEF SyncFill
<1>2. stage = "fills" /\ UNCHANGED <<dialect, account, entry, mark, snapshot, closes, stage>>
  BY DEF SyncFill
<1>3. orders \in [Slots -> OrderRecord] BY DEF GuardInv, DeskTyped
<1>4. orders' \in [Slots -> OrderRecord]
  BY <1>1, <1>3 DEF OrderRecord
<1>5. \A k \in Slots :
        /\ orders'[k].venue = orders[k].venue /\ orders'[k].product = orders[k].product
        /\ orders'[k].side = orders[k].side /\ orders'[k].quantity = orders[k].quantity
        /\ orders'[k].clean = orders[k].clean
  BY <1>1, <1>3 DEF OrderRecord
<1>6. DeskTyped' BY <1>2, <1>4 DEF GuardInv, DeskTyped
<1>7. Snapped' BY <1>2, SnappedStays DEF GuardInv
<1>8. Planned' BY <1>2 DEF GuardInv, Planned
<1>9. CleanCloses' BY <1>2, <1>5 DEF GuardInv, CleanCloses, CleanClose
<1> QED BY <1>6, <1>7, <1>8, <1>9 DEF GuardInv

LEMMA CancelChanges ==
  ASSUME DeskTyped, CancelForSymbol, NEW k \in Slots
  PROVE  /\ orders'[k] \in OrderRecord
         /\ orders'[k].venue \in {orders[k].venue, "cancelled"}
         /\ orders'[k].product = orders[k].product /\ orders'[k].side = orders[k].side
         /\ orders'[k].quantity = orders[k].quantity /\ orders'[k].clean = orders[k].clean
<1>1. PICK s \in mismatched, refusing \in SUBSET {"futures", "spot"} :
        orders' = [i \in Slots |->
          LET o == orders[i]
              gone == /\ o.venue = "resting"
                      /\ \E v \in {"futures", "spot"} \ refusing :
                           CancelAllOrders(dialect, s, v, o)
          IN [o EXCEPT !.venue = IF gone THEN "cancelled" ELSE o.venue,
                       !.local = IF o.local = "open" /\ o.symbol = s THEN "cancelled"
                                 ELSE o.local]]
  BY DEF CancelForSymbol
<1>2. PICK venue \in {orders[k].venue, "cancelled"}, local \in {orders[k].local, "cancelled"} :
        orders'[k] = [orders[k] EXCEPT !.venue = venue, !.local = local]
  BY <1>1
<1>3. orders[k] \in OrderRecord BY DEF DeskTyped
<1> QED BY <1>2, <1>3 DEF OrderRecord

LEMMA CancelForSymbolKeeps == GuardInv /\ CancelForSymbol => GuardInv'
<1> SUFFICES ASSUME GuardInv, CancelForSymbol PROVE GuardInv' OBVIOUS
<1>2. stage = "cancel" /\ UNCHANGED <<dialect, account, entry, mark, snapshot, closes, stage>>
  BY DEF CancelForSymbol
<1>4. \A k \in Slots :
        /\ orders'[k] \in OrderRecord
        /\ orders'[k].venue \in {orders[k].venue, "cancelled"}
        /\ orders'[k].product = orders[k].product /\ orders'[k].side = orders[k].side
        /\ orders'[k].quantity = orders[k].quantity /\ orders'[k].clean = orders[k].clean
  BY CancelChanges DEF GuardInv
<1>5. orders' \in [Slots -> OrderRecord] BY <1>4 DEF CancelForSymbol
<1>6. DeskTyped' BY <1>2, <1>5 DEF GuardInv, DeskTyped
<1>7. Snapped' BY <1>2, SnappedStays DEF GuardInv
<1>8. Planned' BY <1>2 DEF GuardInv, Planned
<1>9. CleanCloses' BY <1>2, <1>4 DEF GuardInv, CleanCloses, CleanClose
<1> QED BY <1>6, <1>7, <1>8, <1>9 DEF GuardInv

\* A trade moves the account of one product, and no order of that product stays clean.
LEMMA TradeKeeps ==
  ASSUME GuardInv, NEW b \in Bases, NEW q \in Int, account[b] + q \in Lots, Moved(b, q),
         orders' \in [Slots -> OrderRecord],
         \A j \in Slots : orders'[j].clean /\ orders'[j].venue = "resting"
                            => orders'[j] = Soiled(b)[j],
         UNCHANGED <<dialect, mark, snapshot, closes, stage>>
  PROVE  GuardInv'
<1>1. account' = [account EXCEPT ![b] = @ + q] BY DEF Moved
<1>2. account' \in [Bases -> Lots] BY <1>1 DEF GuardInv, DeskTyped
<1>3. entry' \in [Bases -> Nat] BY DEF Moved, GuardInv, DeskTyped
<1>4. DeskTyped' BY <1>2, <1>3 DEF GuardInv, DeskTyped
<1>5. CleanCloses'
  <2> SUFFICES ASSUME NEW j \in Slots, orders'[j].clean, orders'[j].venue = "resting"
               PROVE  /\ orders'[j].side = "SELL"
                      /\ orders'[j].quantity = account'[orders'[j].product.base]
    BY DEF CleanCloses, CleanClose
  <2>1. /\ orders[j].venue = "resting" /\ orders[j].clean /\ orders[j].product.base # b
        /\ orders'[j].product = orders[j].product /\ orders'[j].side = orders[j].side
        /\ orders'[j].quantity = orders[j].quantity
    BY SoiledIs DEF GuardInv
  <2>2. orders[j].product.base \in Bases BY DEF GuardInv, DeskTyped, OrderRecord, Symbol, Forms
  <2>3. account'[orders[j].product.base] = account[orders[j].product.base]
    BY <1>1, <2>1, <2>2 DEF GuardInv, DeskTyped
  <2> QED BY <2>1, <2>3 DEF GuardInv, CleanCloses, CleanClose
<1>6. Snapped' BY SnappedStays DEF GuardInv
<1>7. Planned' BY DEF GuardInv, Planned
<1> QED BY <1>4, <1>5, <1>6, <1>7 DEF GuardInv

LEMMA FillKeeps == ASSUME GuardInv, NEW i \in Slots, Fill(i) PROVE GuardInv'
<1> DEFINE o == orders[i]  b == o.product.base
<1>1. /\ orders \in [Slots -> OrderRecord] /\ o \in OrderRecord
      /\ b \in Bases /\ Signed(o) \in Int
  <2>1. orders \in [Slots -> OrderRecord] /\ o \in OrderRecord BY DEF GuardInv, DeskTyped
  <2>2. b \in Bases BY <2>1 DEF OrderRecord, Symbol
  <2>3. Signed(o) \in Int BY <2>1 DEF OrderRecord, Signed
  <2> QED BY <2>1, <2>2, <2>3
<1>2. UNCHANGED <<dialect, mark, snapshot, closes, stage>> BY DEF Fill
<1>3. CASE account[b] + Signed(o) \in Lots
  <2>1. Moved(b, Signed(o)) /\ orders' = [Soiled(b) EXCEPT ![i] = [o EXCEPT !.venue = "done"]]
    BY <1>3 DEF Fill
  <2>2. [o EXCEPT !.venue = "done"] \in OrderRecord /\ [o EXCEPT !.venue = "done"].venue = "done"
    BY <1>1 DEF OrderRecord
  <2>3. Soiled(b) \in [Slots -> OrderRecord] BY SoiledIs DEF GuardInv
  <2>4. orders' \in [Slots -> OrderRecord] BY <2>1, <2>2, <2>3
  <2>5. \A j \in Slots : orders'[j].venue = "resting" => orders'[j] = Soiled(b)[j]
    BY <2>1, <2>2, <2>3
  <2> QED BY <1>1, <1>2, <1>3, <2>1, <2>4, <2>5, TradeKeeps
<1>4. CASE ~(account[b] + Signed(o) \in Lots)
  <2>1. orders' = [orders EXCEPT ![i].venue = "expired"] /\ UNCHANGED <<account, entry>>
    BY <1>4 DEF Fill
  <2>2. orders' \in [Slots -> OrderRecord] BY <1>1, <2>1 DEF OrderRecord
  <2>3. \A j \in Slots : orders'[j].venue = "resting" => orders'[j] = orders[j]
    BY <1>1, <2>1 DEF OrderRecord
  <2>4. DeskTyped' BY <1>2, <2>1, <2>2 DEF GuardInv, DeskTyped
  <2>5. Snapped' BY <1>2, SnappedStays DEF GuardInv
  <2>6. Planned' BY <1>2 DEF GuardInv, Planned
  <2>7. CleanCloses' BY <2>1, <2>3 DEF GuardInv, CleanCloses, CleanClose
  <2> QED BY <2>4, <2>5, <2>6, <2>7 DEF GuardInv
<1> QED BY <1>3, <1>4

LEMMA OtherTradeKeeps ==
  ASSUME GuardInv, NEW b \in Bases, NEW q \in {-1, 1}, OtherTrade(b, q) PROVE GuardInv'
<1>1. /\ account[b] + q \in Lots /\ Moved(b, q) /\ orders' = Soiled(b)
      /\ UNCHANGED <<dialect, mark, snapshot, closes, stage>>
  BY DEF OtherTrade
<1>2. orders' \in [Slots -> OrderRecord] BY <1>1, SoiledIs DEF GuardInv
<1> QED BY <1>1, <1>2, TradeKeeps

LEMMA MoveMarkKeeps ==
  ASSUME GuardInv, NEW b \in Bases, NEW p \in Prices, MoveMark(b, p) PROVE GuardInv'
<1>1. /\ mark' = [mark EXCEPT ![b] = p]
      /\ UNCHANGED <<dialect, account, entry, orders, snapshot, closes, stage>>
  BY DEF MoveMark
<1>2. DeskTyped' BY <1>1, GuardAssumption DEF GuardInv, DeskTyped
<1>3. Snapped' BY <1>1, SnappedStays DEF GuardInv
<1>4. Planned' BY <1>1 DEF GuardInv, Planned
<1>5. CleanCloses' BY <1>1 DEF GuardInv, CleanCloses, CleanClose
<1> QED BY <1>2, <1>3, <1>4, <1>5 DEF GuardInv

LEMMA GuardStarts == GuardInit => GuardInv
<1> SUFFICES ASSUME GuardInit PROVE GuardInv OBVIOUS
<1> USE DEF GuardInit
<1>1. NoOrder \in OrderRecord
  <2>1. (CHOOSE b \in Bases : TRUE) \in Bases BY GuardAssumption
  <2> DEFINE anchor == Plain(CHOOSE b \in Bases : TRUE)
  <2>2. anchor \in Symbol BY <2>1, ListedNames
  <2> DEFINE none == [local |-> "none", venue |-> "none", symbol |-> anchor, market |-> "",
                      product |-> anchor, side |-> "BUY", quantity |-> 0, kind |-> "entry",
                      clean |-> FALSE]
  <2>3. NoOrder = none BY DEF NoOrder
  <2> HIDE DEF anchor
  <2>4. none \in OrderRecord BY <2>2 DEF OrderRecord, Reached
  <2> QED BY <2>3, <2>4
<1>2. account \in [Bases -> Lots] BY GuardAssumption DEF Lots
<1>3. DeskTyped BY <1>1, <1>2 DEF DeskTyped
<1>4. Snapped BY DEF Snapped
<1>5. Planned BY DEF Planned
<1>6. CleanCloses BY DEF CleanCloses, NoOrder
<1> QED BY <1>3, <1>4, <1>5, <1>6 DEF GuardInv

LEMMA GuardStep == GuardInv /\ [GuardNext]_guard => GuardInv'
<1> SUFFICES ASSUME GuardInv, [GuardNext]_guard PROVE GuardInv' OBVIOUS
<1>1. CASE UNCHANGED guard
  <2>1. UNCHANGED <<dialect, account, entry, mark, orders, snapshot, closes, stage>>
    BY <1>1 DEF guard
  <2>2. DeskTyped' BY <2>1 DEF GuardInv, DeskTyped
  <2>3. Snapped' BY <2>1, SnappedStays DEF GuardInv
  <2>4. Planned' BY <2>1 DEF GuardInv, Planned, BuildClose
  <2>5. CleanCloses' BY <2>1 DEF GuardInv, CleanCloses, CleanClose
  <2> QED BY <2>2, <2>3, <2>4, <2>5 DEF GuardInv
<1>2. ASSUME NEW b \in Bases, SetupSymbol(b) PROVE GuardInv'
  BY <1>2, LoopMovesOn DEF SetupSymbol
<1>3. CASE SyncAccount BY <1>3, SyncAccountKeeps
<1>4. CASE BeginCycle \/ SkipSync BY <1>4, LoopMovesOn DEF BeginCycle, SkipSync
<1>5. CASE CheckPositions BY <1>5, CheckPositionsKeeps
<1>6. CASE SubmitClose BY <1>6, SubmitCloseKeeps
<1>7. CASE ClosesSubmitted BY <1>7, LoopMovesOn DEF ClosesSubmitted
<1>8. CASE GateCloses BY <1>8, LoopMovesOn DEF GateCloses
<1>9. CASE SubmitEntry BY <1>9, SubmitEntryKeeps
<1>10. CASE NoEntry BY <1>10, LoopMovesOn DEF NoEntry
<1>11. CASE SyncedFills BY <1>11, LoopMovesOn DEF SyncedFills
<1>12. ASSUME NEW i \in Slots, SyncFill(i) \/ Fill(i) PROVE GuardInv'
  BY <1>12, SyncFillKeeps, FillKeeps
<1>13. CASE RunReconciliation \/ SkipReconciliation
  BY <1>13, LoopMovesOn DEF RunReconciliation, SkipReconciliation
<1>14. CASE CancelForSymbol BY <1>14, CancelForSymbolKeeps
<1>15. CASE NextCycle BY <1>15, LoopMovesOn DEF NextCycle
<1>16. ASSUME NEW b \in Bases, NEW q \in {-1, 1}, OtherTrade(b, q) PROVE GuardInv'
  BY <1>16, OtherTradeKeeps
<1>17. ASSUME NEW b \in Bases, NEW p \in Prices, MoveMark(b, p) PROVE GuardInv'
  BY <1>17, MoveMarkKeeps
<1> QED BY <1>1, <1>2, <1>3, <1>4, <1>5, <1>6, <1>7, <1>8, <1>9, <1>10, <1>11, <1>12, <1>13,
           <1>14, <1>15, <1>16, <1>17 DEF GuardNext

\* The snapshot bears the provider's names, what waits to be closed is in it, and a clean
\* close that rests sells what the account holds (sync_account, check_positions,
\* submit_order, with fills and other hands' trades at any time).
THEOREM GuardInvariance == GuardSpec => []GuardInv
<1> QED BY GuardStarts, GuardStep, PTL DEF GuardSpec

\* Type correctness.
THEOREM GuardTypeCorrect == GuardSpec => []GuardTypeOK
<1>1. GuardInv => GuardTypeOK
  BY GuardAssumption DEF GuardInv, DeskTyped, Snapped, OrderRecord, Position, GuardTypeOK
<1> QED BY <1>1, GuardInvariance, PTL

-----------------------------------------------------------------------------
\* A close of a snapshot that still is the account brings the position to zero when it
\* fills, for any products, sizes, prices and dialects and whatever else happens while it
\* rests (StopLossMonitor.check_positions through LiveOrderExecutor.submit_order).
THEOREM FreshClosesFlatten == GuardSpec => FreshCloseFlattens
<1> DEFINE Flattens == \A i \in Slots :
             orders[i].clean /\ orders[i].venue = "resting" /\ orders'[i].venue = "done"
               => account'[orders[i].product.base] = 0
<1>1. GuardInv /\ [GuardNext]_guard => [Flattens]_guard
  <2> SUFFICES ASSUME GuardInv, GuardNext, NEW i \in Slots,
                      orders[i].clean, orders[i].venue = "resting", orders'[i].venue = "done"
               PROVE  account'[orders[i].product.base] = 0
    OBVIOUS
  <2> DEFINE o == orders[i]  b == o.product.base
  <2>1. o \in OrderRecord /\ b \in Bases BY DEF GuardInv, DeskTyped, OrderRecord, Symbol, Forms
  <2>2. CASE UNCHANGED orders BY <2>2
  <2>3. CASE Fill(i)
    <3>1. o.side = "SELL" /\ o.quantity = account[b] /\ account[b] \in Lots
      BY <2>1 DEF GuardInv, CleanCloses, CleanClose, DeskTyped
    <3>2. account[b] + Signed(o) = 0 /\ 0 \in Lots
      BY <3>1, GuardAssumption DEF Signed, Lots
    <3>3. account' = [account EXCEPT ![b] = @ + Signed(o)]
      BY <2>3, <3>2 DEF Fill, Moved
    <3> QED BY <2>1, <3>2, <3>3 DEF GuardInv, DeskTyped
  <2>4. ASSUME NEW j \in Slots, j # i, Fill(j) PROVE FALSE
    <3>1. orders'[i] = Soiled(orders[j].product.base)[i] \/ orders'[i] = orders[i]
      BY <2>4, SoiledIs DEF Fill, GuardInv, DeskTyped
    <3> QED BY <3>1, SoiledIs DEF GuardInv
  <2>5. ASSUME NEW j \in Slots, SyncFill(j) PROVE FALSE
    <3>1. PICK k : orders' = [orders EXCEPT ![k].local = "filled"] BY <2>5 DEF SyncFill
    <3> QED BY <2>1, <3>1 DEF GuardInv, DeskTyped, OrderRecord
  <2>6. ASSUME NEW c, NEW kind, Submit(c, kind) PROVE FALSE
    <3>1. PICK k, sent : /\ orders' = [Soiled(c.symbol.base) EXCEPT ![k] = sent]
                         /\ sent.venue \in {"resting", "none"}
      BY <2>6, SubmitSends
    <3>2. Soiled(c.symbol.base) \in [Slots -> OrderRecord] BY SoiledIs DEF GuardInv
    <3>3. orders'[i].venue \in {"resting", "none"} BY <3>1, <3>2, SoiledIs DEF GuardInv
    <3> QED BY <3>3
  <2>7. CASE CancelForSymbol
    BY <2>7, CancelChanges DEF GuardInv
  <2>8. ASSUME NEW c \in Bases, NEW q \in {-1, 1}, OtherTrade(c, q) PROVE FALSE
    BY <2>8, SoiledIs DEF OtherTrade, GuardInv
  <2> QED BY <2>2, <2>3, <2>4, <2>5, <2>6, <2>7, <2>8
          DEF GuardNext, SetupSymbol, BeginCycle, SyncAccount, SkipSync, CheckPositions,
              SubmitClose, ClosesSubmitted, GateCloses, SubmitEntry, NoEntry, SyncedFills,
              RunReconciliation, SkipReconciliation, NextCycle, MoveMark
<1> QED BY <1>1, GuardInvariance, PTL DEF GuardSpec, FreshCloseFlattens

-----------------------------------------------------------------------------
(* PositionGuard: what a report names *)

\* What a report on an answered read names is not a product held and matched: the entry
\* of such a product has the name and the size that the snapshot has.
LEMMA ReportNamesUnmatched ==
  ASSUME GuardInv, NEW s \in Mismatches(Reading(TRUE))
  PROVE  s \in Symbol /\ Compared(s.base) # "held"
<1>1. s \in {p.symbol : p \in snapshot.positions} \cup {e.symbol : e \in Reading(TRUE)}
  BY DEF Mismatches
<1>2. s \in Symbol /\ s = Name(s.base)
  <2>1. CASE s \in {p.symbol : p \in snapshot.positions}
    BY <2>1 DEF GuardInv, Snapped, Position
  <2>2. CASE s \in {e.symbol : e \in Reading(TRUE)} BY <2>2, ReadingTells DEF GuardInv
  <2> QED BY <1>1, <2>1, <2>2
<1> DEFINE b == s.base
<1>3. b \in Bases BY <1>2 DEF Symbol, Forms
<1>4. ASSUME Compared(b) = "held" PROVE FALSE
  <2>1. account[b] # 0 /\ HeldInSnapshot(b) = {Magnitude(account[b])}
    BY <1>4 DEF Compared
  <2>2. snapshot.taken /\ dialect # "coinbase"
    BY <2>1 DEF HeldInSnapshot, GuardInv, Snapped
  <2>3. Quantities(snapshot.positions, s) = {Magnitude(account[b])}
    <3>1. \A p \in snapshot.positions : p.symbol = s <=> p.symbol.base = b
      BY <1>2 DEF GuardInv, Snapped
    <3> QED BY <2>1, <3>1 DEF Quantities, HeldInSnapshot
  <2>4. Quantities(Reading(TRUE), s) \subseteq {Magnitude(account[b])}
    BY ReadingTells DEF Quantities, GuardInv
  <2>5. Quantities(Reading(TRUE), s) # {}
    <3>1. account[b] \in Int \ {0} /\ dialect \in Dialects \ {"coinbase"}
      BY <1>3, <2>1, <2>2, GuardAssumption DEF GuardInv, DeskTyped, Lots
    <3>2. PICK e : e \in GetPositions(dialect, Listed(b), account[b])
      BY <3>1, PositionReported
    <3>3. e \in Reading(TRUE) BY <1>3, <2>1, <3>2 DEF Reading
    <3>4. e.symbol = s BY <1>2, <3>1, <3>2, PositionsReported DEF Name
    <3> QED BY <3>3, <3>4 DEF Quantities
  <2>6. Quantities(snapshot.positions, s) # Quantities(Reading(TRUE), s)
    BY <2>2 DEF Mismatches
  <2> QED BY <2>3, <2>4, <2>5, <2>6
<1> QED BY <1>2, <1>4

LEMMA ReportedStarts == GuardInit => Reported
  BY DEF GuardInit, Reported

LEMMA ReportedStep == GuardInv /\ Reported /\ [GuardNext]_guard => Reported'
<1> SUFFICES ASSUME GuardInv, Reported, [GuardNext]_guard PROVE Reported' OBVIOUS
<1>1. CASE UNCHANGED report BY <1>1 DEF Reported, report
<1>2. CASE RunReconciliation
  <2> SUFFICES ASSUME answered', NEW s \in mismatched'
               PROVE  s \in Symbol /\ books'[s.base] # "held"
    BY DEF Reported
  <2>1. mismatched' = Mismatches(Reading(TRUE)) /\ books' = [b \in Bases |-> Compared(b)]
    <3>1. answered' = TRUE BY <1>2 DEF RunReconciliation
    <3> QED BY <1>2, <3>1 DEF RunReconciliation
  <2>2. s \in Symbol /\ Compared(s.base) # "held" BY <2>1, ReportNamesUnmatched
  <2>3. s.base \in Bases BY <2>2 DEF Symbol
  <2> QED BY <2>1, <2>2, <2>3
<1>3. CASE CancelForSymbol BY <1>3 DEF CancelForSymbol, Reported
<1>4. CASE NextCycle BY <1>4 DEF NextCycle, Reported
<1> QED BY <1>1, <1>2, <1>3, <1>4
        DEF guard, report, GuardNext, SetupSymbol, BeginCycle, SyncAccount, SkipSync,
            CheckPositions, SubmitClose, ClosesSubmitted, GateCloses, SubmitEntry, NoEntry,
            SyncedFills, SyncFill, SkipReconciliation, Fill, OtherTrade, MoveMark

\* When the exchange answered, reconciliation cancels there no order of a held product
\* that the snapshot has in its size, whatever else the exchange lists
\* (run_full_reconciliation, cancel_orders_for_symbol, in each of the five dialects).
THEOREM MatchedKept == GuardSpec => MatchedKeepOrders
<1> DEFINE Kept == stage = "cancel" /\ mismatched' # mismatched /\ answered =>
             \A i \in Slots : orders'[i].venue # orders[i].venue
                                => books[orders[i].product.base] # "held"
<1>1. GuardInv /\ Reported /\ [GuardNext]_guard => [Kept]_guard
  <2> SUFFICES ASSUME GuardInv, Reported, GuardNext, stage = "cancel",
                      mismatched' # mismatched, answered,
                      NEW i \in Slots, orders'[i].venue # orders[i].venue
               PROVE  books[orders[i].product.base] # "held"
    OBVIOUS
  <2>1. CancelForSymbol
    BY DEF GuardNext, SetupSymbol, BeginCycle, SyncAccount, SkipSync, CheckPositions,
           SubmitClose, ClosesSubmitted, GateCloses, SubmitEntry, NoEntry, SyncedFills,
           SyncFill, Fill, RunReconciliation, SkipReconciliation, NextCycle, OtherTrade,
           MoveMark, report
  <2>2. PICK s \in mismatched, refusing \in SUBSET {"futures", "spot"} :
          orders' = [k \in Slots |->
            LET o == orders[k]
                gone == /\ o.venue = "resting"
                        /\ \E v \in {"futures", "spot"} \ refusing :
                             CancelAllOrders(dialect, s, v, o)
            IN [o EXCEPT !.venue = IF gone THEN "cancelled" ELSE o.venue,
                         !.local = IF o.local = "open" /\ o.symbol = s THEN "cancelled"
                                   ELSE o.local]]
    BY <2>1 DEF CancelForSymbol
  <2>3. orders[i] \in OrderRecord BY DEF GuardInv, DeskTyped
  <2>4. PICK v : CancelAllOrders(dialect, s, v, orders[i])
    BY <2>2, <2>3 DEF OrderRecord
  <2>5. dialect \in Dialects /\ s \in Symbol /\ books[s.base] # "held"
    BY GuardAssumption DEF GuardInv, DeskTyped, Reported
  <2>6. orders[i].product = NormalizeSymbol(dialect, s) BY <2>4, <2>5, CancelsOfName
  <2> QED BY <2>5, <2>6, NormalizeKeepsBase
<1> QED BY <1>1, GuardInvariance, ReportedStarts, ReportedStep, PTL DEF GuardSpec, MatchedKeepOrders
=============================================================================
