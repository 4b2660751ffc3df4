--------------------------- MODULE OrderExecution ---------------------------
(***************************************************************************)
(* The life of an order between the trading loop and the exchange:         *)
(* LiveOrderExecutor (submit, cancel, cancel_all), OrderStore (the         *)
(* in-memory book, its exchange-id index and the event log it is rebuilt   *)
(* from) and FillTracker (polling the exchange's trades).                  *)
(*                                                                         *)
(* One thread runs the loop's steps one after the other: `stage` says how  *)
(* far its cycle is, `pc` which call it is in the middle of, and `event`   *)
(* which event it has already put into memory and not yet into the log.    *)
(* Between any two of these steps the exchange executes or drops orders,   *)
(* the process may crash, and a POSIX signal may run cancel_all to its end *)
(* on the same thread.                                                     *)
(*                                                                         *)
(* Data is abstracted: an exchange order id is the internal order it was   *)
(* issued for, so `xmap` is a set; the log is the state its replay yields, *)
(* order by order; prices and quantities are the trade they came from.     *)
(***************************************************************************)
EXTENDS Naturals

CONSTANTS
  MaxOrders,     \* bound: orders submitted in one behaviour
  Symbols,       \* traded symbols
  SymbolOf,      \* order -> its symbol
  SideOf,        \* order -> BUY or SELL
  Mandated,      \* the orders that carry a mandate id
  MaxFills,      \* bound: partial executions of one order
  Linked,        \* whether the exchange's trades carry an order id
  Modes,         \* modes a process may be run in: "paper", "shadow", "live"
  MaxBooked,     \* bound: how often we count the booking of one trade
  MaxCrashes,    \* bound: crashes of the process
  MaxLogFaults   \* bound: event-log writes that raise

Orders == 1..MaxOrders

ASSUME BoundsAssumption ==
  /\ MaxOrders \in Nat /\ MaxFills \in Nat
  /\ MaxBooked \in Nat /\ MaxCrashes \in Nat /\ MaxLogFaults \in Nat
ASSUME OrderDataAssumption ==
  /\ SymbolOf \in [Orders -> Symbols]
  /\ DOMAIN SideOf = Orders
  /\ Mandated \subseteq Orders
ASSUME ModeAssumption ==
  /\ Linked \in BOOLEAN
  /\ Modes \subseteq {"paper", "shadow", "live"}

VARIABLES
  (* the process's memory *)
  store,      \* OrderStore._orders
  xmap,       \* OrderStore._exchange_map, as the orders it maps to
  aged,       \* orders submitted longer ago than order_timeout_seconds
  booked,     \* how often each trade's P&L went to its mandate's tracker
  (* the loop's thread *)
  stage,      \* the part of its cycle the loop has reached
  todo,       \* symbols that part of the cycle has still to serve
  pc,         \* the call it is in the middle of
  cur,        \* the order that call is about
  event,      \* the event of cur that is in memory and not yet appended
  unsynced,   \* trades the fill sync under way has still to look at
  toCancel,   \* orders the cancellation under way has still to cancel
  (* the signal handler, which runs on the loop's thread *)
  sig,        \* GracefulShutdown: no signal yet, in cancel_all, or done
  marks,      \* orders its cancel_all has still to record as cancelled
  up,         \* the process runs
  mode,       \* AsterExecutor.mode, from the environment
  (* what survives a crash *)
  logged,     \* replay of the event log
  created,    \* orders created so far
  (* the exchange *)
  xorder,     \* state of each order at the exchange
  trades,     \* executions it lists
  (* bounds and history *)
  crashes, faults,
  dirty,      \* orders for which memory holds an event the log missed
  overtaken   \* orders the handler cancelled before their submission was logged

memory   == <<store, xmap, aged, booked>>
thread   == <<pc, cur, event, unsynced, toCancel>>
cycle    == <<stage, todo>>
handler  == <<sig, marks>>
log      == <<logged, faults, dirty, overtaken>>
exchange == <<xorder, trades>>
vars == <<memory, thread, cycle, handler, up, mode, log, created, exchange, crashes>>

-----------------------------------------------------------------------------
(* Records of the order store *)

Status   == {"absent", "tracked", "submitted", "filled", "cancelled"}
Terminal == {"filled", "cancelled"}

\* The k-th execution of order o's exchange order; k = 0 is the fill that
\* paper mode simulates, and NoFill the fill price and quantity None.
Trade  == Orders \X (1..MaxFills)
NoFill == <<0, 0>>
Fill   == (0..MaxOrders) \X (0..MaxFills)

OrderRecord == [status : Status, xid : BOOLEAN, fill : Fill]

Absent  == [status |-> "absent", xid |-> FALSE, fill |-> NoFill]
Tracked == [status |-> "tracked", xid |-> FALSE, fill |-> NoFill]

\* The in-memory half of record_submission, record_fill and record_cancel.
WithSubmission(r) == [status |-> "submitted", xid |-> TRUE, fill |-> r.fill]
WithFill(r, t)    == [status |-> "filled", xid |-> r.xid, fill |-> t]
WithCancel(r)     == [r EXCEPT !.status = "cancelled"]

\* Mutants: replay that ignores the cancel, or the fill, events.
ReplayCancelledIgnored(r) == r
ReplayFillIgnored(r, t)   == r

Submitted == WithSubmission(Tracked)

\* What restore_from_events makes of the event each of them appends.
Replayed(r, new)    == IF r = Absent THEN Absent ELSE new
ReplaySubmitted(r)  == Replayed(r, [status |-> "submitted", xid |-> TRUE, fill |-> r.fill])
ReplayFill(r, t)    == Replayed(r, [status |-> "filled", xid |-> r.xid, fill |-> t])
ReplayCancelled(r)  == Replayed(r, [r EXCEPT !.status = "cancelled"])

\* Mutant: finished orders are pruned, their exchange ids are not.
RestoredMapUnpruned == {o \in Orders : logged[o].xid}

\* restore_from_events: what is left of a replayed record, and of the
\* exchange-id index, after finished orders were pruned.
RestoredRecord(r) == IF r.status \in Terminal THEN Absent ELSE r
RestoredMap ==
  {o \in Orders : logged[o].xid} \ {o \in Orders : logged[o].status \in Terminal}

\* Mutant: get_open_orders returns everything that was not cancelled.
NotCancelledOrders == {o \in Orders : store[o].status \notin {"absent", "cancelled"}}

\* get_open_orders.
OpenOrders == {o \in Orders : store[o].status = "submitted"}
First(S)   == {o \in S : \A p \in S : o <= p}

-----------------------------------------------------------------------------
(* EventStore.append: the memory has already changed when it is called.    *)

Events == {"none", "tracked", "submitted", "fill", "cancelled"}

\* What replay makes of record r once event e is in the log, for an order
\* that memory shows filled by t.
Image(e, r, t) ==
  CASE e = "tracked"   -> Tracked
    [] e = "submitted" -> ReplaySubmitted(r)
    [] e = "fill"      -> ReplayFill(r, t)
    [] e = "cancelled" -> ReplayCancelled(r)
    [] OTHER           -> r

\* The loop's thread can run: a signal handler runs to its end first.
Running == up /\ sig # "cancelling"
Calling(call)   == Running /\ pc = call /\ event = "none"
Appending(call) == Running /\ pc = call /\ event # "none"

\* The event waiting is in the log.
Appended ==
  /\ logged' = [logged EXCEPT ![cur] = Image(event, @, store[cur].fill)]
  /\ UNCHANGED <<faults, dirty, overtaken>>

\* sqlite raised (locked by the append it interrupted, disk full): the event
\* of order o is lost, the memory is not.
AppendRaised(o) ==
  /\ faults < MaxLogFaults
  /\ faults' = faults + 1
  /\ dirty' = dirty \union {o}
  /\ UNCHANGED <<logged, overtaken>>

-----------------------------------------------------------------------------
(* Initial state: a first start on an empty database *)

Init ==
  /\ store = [o \in Orders |-> Absent]
  /\ xmap = {} /\ aged = {}
  /\ booked = [t \in Trade |-> 0]
  /\ stage = "top" /\ todo = {}
  /\ pc = "idle" /\ cur = 0 /\ event = "none" /\ unsynced = {} /\ toCancel = {}
  /\ sig = "none" /\ marks = {}
  /\ up = TRUE /\ mode \in Modes
  /\ logged = [o \in Orders |-> Absent]
  /\ created = 0
  /\ xorder = [o \in Orders |-> "none"]
  /\ trades = {}
  /\ crashes = 0 /\ faults = 0 /\ dirty = {} /\ overtaken = {}

-----------------------------------------------------------------------------
(* TradingLoop.run: the cycle and its gates.  Whether the session allows   *)
(* trading, whether the control state does and whether an interval has     *)
(* elapsed is decided elsewhere: each may turn out either way in any cycle *)
(* and for as long as it likes.                                            *)

AtStage(s) == Calling("idle") /\ stage = s

MoveTo(s, symbols) ==
  /\ stage' = s /\ todo' = symbols
  /\ UNCHANGED <<memory, thread, handler, up, mode, log, created, exchange, crashes>>

\* No shutdown, and the session allows trading.
BeginCycle == AtStage("top") /\ sig = "none" /\ MoveTo("guard", {})

\* The control state is paused, killed or unreadable: the cycle returns
\* before fills, reconciliation and stale orders.
Blocked == AtStage("guard") /\ MoveTo("top", {})

\* Trading is allowed; the fill sync of this cycle is due or is not.
PassGate == AtStage("guard") /\ \E due \in {{}, Symbols} : MoveTo("desk", due)

NoOrder == AtStage("desk") /\ MoveTo("fills", todo)

\* The fill sync is through; reconciliation flags some symbols.
EndFills ==
  /\ AtStage("fills") /\ todo = {}
  /\ \E flagged \in SUBSET Symbols : MoveTo("recon", flagged)

\* After a shutdown, or a halt, the loop ends and the process with it.
Leave == AtStage("top") /\ sig = "done" /\ MoveTo("out", {})

-----------------------------------------------------------------------------
(* LiveOrderExecutor.submit_order *)

\* A stop-loss close (guard) or the coordinator's order (desk) enters the
\* executor; OrderStore.track puts the record into memory.
Track ==
  /\ AtStage("guard") \/ AtStage("desk")
  /\ created < MaxOrders
  /\ created' = created + 1
  /\ store' = [store EXCEPT ![created + 1] = Tracked]
  /\ cur' = created + 1 /\ event' = "tracked"
  /\ pc' = IF mode = "paper" THEN "simulating" ELSE "placing"
  /\ stage' = IF stage = "desk" THEN "fills" ELSE stage
  /\ UNCHANGED <<xmap, aged, booked, unsynced, toCancel, todo, handler, up, mode, log,
                 exchange, crashes>>

\* track appends, outside any try block: if that raises, the call ends.
TrackLogged ==
  /\ Appending("placing") \/ (Appending("simulating") /\ event = "tracked")
  /\ event' = "none"
  /\ \/ Appended /\ UNCHANGED <<pc, cur>>
     \/ AppendRaised(cur) /\ pc' = "idle" /\ cur' = 0
  /\ UNCHANGED <<memory, unsynced, toCancel, cycle, handler, up, mode, created,
                 exchange, crashes>>

\* The exchange accepts the order and its reply carries the order id.
PlaceAccepted ==
  /\ Calling("placing")
  /\ xorder' = [xorder EXCEPT ![cur] = "open"]
  /\ pc' = "recording"
  /\ UNCHANGED <<memory, cur, event, unsynced, toCancel, cycle, handler, up, mode, log,
                 created, trades, crashes>>

\* The reply carries no order id: submit_order reports a failure and leaves
\* the record as it is.
PlaceNoOrderId ==
  /\ Calling("placing")
  /\ pc' = "idle" /\ cur' = 0
  /\ UNCHANGED <<memory, event, unsynced, toCancel, cycle, handler, up, mode, log,
                 created, exchange, crashes>>

\* place_order raises, with or without the order having reached the
\* exchange: the except clause cancels the record.
PlaceRaised ==
  /\ Calling("placing")
  /\ xorder' \in {xorder, [xorder EXCEPT ![cur] = "open"]}
  /\ store' = [store EXCEPT ![cur] = WithCancel(@)]
  /\ pc' = "failing" /\ event' = "cancelled"
  /\ UNCHANGED <<xmap, aged, booked, cur, unsynced, toCancel, cycle, handler, up, mode,
                 log, created, trades, crashes>>

\* record_submission: memory and index change; the order is open from here on.
RecordSubmission ==
  /\ Calling("recording") \/ Calling("simulating")
  /\ store' = [store EXCEPT ![cur] = WithSubmission(@)]
  /\ xmap' = xmap \union {cur}
  /\ event' = "submitted"
  /\ UNCHANGED <<aged, booked, pc, cur, unsynced, toCancel, cycle, handler, up, mode, log,
                 created, exchange, crashes>>

\* record_submission appends.
SubmissionLogged ==
  /\ Appending("recording") /\ Appended
  /\ event' = "none" /\ pc' = "idle" /\ cur' = 0
  /\ UNCHANGED <<memory, unsynced, toCancel, cycle, handler, up, mode, created,
                 exchange, crashes>>

\* The append raises inside the try block: the except clause cancels the
\* record it left submitted.
SubmissionRaised ==
  /\ Appending("recording") /\ AppendRaised(cur)
  /\ store' = [store EXCEPT ![cur] = WithCancel(@)]
  /\ pc' = "failing" /\ event' = "cancelled"
  /\ UNCHANGED <<xmap, aged, booked, cur, unsynced, toCancel, cycle, handler, up, mode,
                 created, exchange, crashes>>

\* The record_cancel of the except clause appends.
FailureLogged ==
  /\ Appending("failing")
  /\ Appended \/ AppendRaised(cur)
  /\ event' = "none" /\ pc' = "idle" /\ cur' = 0
  /\ UNCHANGED <<memory, unsynced, toCancel, cycle, handler, up, mode, created,
                 exchange, crashes>>

\* Paper mode: no try block, and the simulated fill follows the submission.
PaperSubmissionLogged ==
  /\ Appending("simulating") /\ event = "submitted"
  /\ event' = "none"
  /\ \/ Appended /\ pc' = "filling" /\ UNCHANGED cur
     \/ AppendRaised(cur) /\ pc' = "idle" /\ cur' = 0
  /\ UNCHANGED <<memory, unsynced, toCancel, cycle, handler, up, mode, created,
                 exchange, crashes>>

PaperFill ==
  /\ Calling("filling")
  /\ store' = [store EXCEPT ![cur] = WithFill(@, <<cur, 0>>)]
  /\ event' = "fill"
  /\ UNCHANGED <<xmap, aged, booked, pc, cur, unsynced, toCancel, cycle, handler, up, mode,
                 log, created, exchange, crashes>>

PaperFillLogged ==
  /\ Appending("filling")
  /\ Appended \/ AppendRaised(cur)
  /\ event' = "none" /\ pc' = "idle" /\ cur' = 0
  /\ UNCHANGED <<memory, unsynced, toCancel, cycle, handler, up, mode, created,
                 exchange, crashes>>

-----------------------------------------------------------------------------
(* FillTracker *)

\* Ids of exchange orders and of trades; the exchange's two id spaces.
ExchangeId(o) == <<"order", o>>
TradeId(t)    == <<"trade", t>>

\* Mutant: the trade counts as known as soon as its order is indexed.
AlreadyIndexed(t) == t[1] \in xmap

\* "Check if we already know about this trade": the record whose exchange
\* id is the trade's id, if it has a fill price.
AlreadyMatched(t) ==
  \E o \in xmap : ExchangeId(o) = TradeId(t) /\ store[o].fill # NoFill

\* _match_trade_to_order, as the set of at most one record: by order id if
\* the trade has one that is indexed, else the first open order of the same
\* symbol and side.
MatchById(t) == {o \in xmap : Linked /\ o = t[1] /\ store[o] # Absent}
MatchBySlot(t) ==
  First({o \in OpenOrders : /\ store[o].xid
                            /\ SymbolOf[o] = SymbolOf[t[1]]
                            /\ SideOf[o] = SideOf[t[1]]})

\* Mutant: the two ways of matching in the opposite order.
MatchSlotFirst(t) == IF MatchBySlot(t) # {} THEN MatchBySlot(t) ELSE MatchById(t)

Match(t) == IF MatchById(t) # {} THEN MatchById(t) ELSE MatchBySlot(t)

\* sync_fills(symbol) fetches the exchange's trade list.
BeginSync(s) ==
  /\ AtStage("fills") /\ s \in todo
  /\ todo' = todo \ {s}
  /\ unsynced' = {t \in trades : SymbolOf[t[1]] = s}
  /\ pc' = IF unsynced' = {} THEN "idle" ELSE "syncing"
  /\ UNCHANGED <<memory, cur, event, toCancel, stage, handler, up, mode, log, created,
                 exchange, crashes>>

\* The exchange does not answer, or answers with an empty list.
PollFails(s) == AtStage("fills") /\ s \in todo /\ MoveTo("fills", todo \ {s})

\* The trade is skipped: known already, or no order matches it.
SkipTrade ==
  /\ Calling("syncing")
  /\ \E t \in unsynced :
       /\ AlreadyMatched(t) \/ Match(t) = {}
       /\ unsynced' = unsynced \ {t}
  /\ pc' = IF unsynced' = {} THEN "idle" ELSE "syncing"
  /\ UNCHANGED <<memory, cur, event, toCancel, cycle, handler, up, mode, log, created,
                 exchange, crashes>>

\* The trade is recorded in memory as the fill of the order it matches.
MatchTrade ==
  /\ Calling("syncing")
  /\ \E t \in unsynced :
     \E o \in Match(t) :
       /\ ~AlreadyMatched(t)
       /\ store' = [store EXCEPT ![o] = WithFill(@, t)]
       /\ cur' = o
  /\ event' = "fill"
  /\ UNCHANGED <<xmap, aged, booked, pc, unsynced, toCancel, cycle, handler, up, mode, log,
                 created, exchange, crashes>>

\* The fill is appended and its P&L added to the order's mandate.  If the
\* append raises, the sync of the symbol ends there, before the mandate.
FillLogged ==
  /\ Appending("syncing")
  /\ LET t == store[cur].fill IN
     \/ /\ Appended
        /\ booked' = IF cur \in Mandated /\ booked[t] < MaxBooked
                     THEN [booked EXCEPT ![t] = @ + 1] ELSE booked
        /\ unsynced' = unsynced \ {t}
     \/ /\ AppendRaised(cur)
        /\ unsynced' = {}
        /\ UNCHANGED booked
  /\ event' = "none" /\ cur' = 0
  /\ pc' = IF unsynced' = {} THEN "idle" ELSE "syncing"
  /\ UNCHANGED <<store, xmap, aged, toCancel, cycle, handler, up, mode, created, exchange,
                 crashes>>

-----------------------------------------------------------------------------
(* Cancellation by the loop *)

\* Mutant: the stale scan looks at orders not yet submitted.
StaleUnsubmitted == {o \in aged : store[o].status = "tracked"}

\* Mutant: the stale scan does not ask for the status.
StaleOfAnyStatus == {o \in aged : store[o] # Absent}

\* get_stale_orders.
StaleOrders == OpenOrders \intersect aged

\* An open order passes order_timeout_seconds.
Age(o) ==
  /\ up /\ o \in OpenOrders \ aged
  /\ aged' = aged \union {o}
  /\ UNCHANGED <<store, xmap, booked, thread, cycle, handler, up, mode, log, created,
                 exchange, crashes>>

\* The last step of a cycle.
BeginCancelStale ==
  /\ AtStage("recon") /\ todo = {}
  /\ toCancel' = StaleOrders
  /\ pc' = IF toCancel' = {} THEN "idle" ELSE "cancelling"
  /\ stage' = "top"
  /\ UNCHANGED <<memory, cur, event, unsynced, todo, handler, up, mode, log, created,
                 exchange, crashes>>

NextStale(o) ==
  /\ Calling("cancelling")
  /\ o \in First(toCancel)
  /\ toCancel' = toCancel \ {o}

\* cancel_order: the exchange cancels the order and the record follows.
CancelAccepted(o) ==
  /\ NextStale(o)
  /\ store[o].xid /\ xorder[o] = "open"
  /\ xorder' = [xorder EXCEPT ![o] = "cancelled"]
  /\ store' = [store EXCEPT ![o] = WithCancel(@)]
  /\ cur' = o /\ event' = "cancelled"
  /\ UNCHANGED <<xmap, aged, booked, pc, unsynced, cycle, handler, up, mode, log, created,
                 trades, crashes>>

\* cancel_order: the record is unknown or has no exchange id, or the call
\* raises (the order is not open any more, or the reply was lost).
CancelRaised(o) ==
  /\ NextStale(o)
  /\ \/ UNCHANGED xorder
     \/ /\ store[o].xid /\ xorder[o] = "open"
        /\ xorder' = [xorder EXCEPT ![o] = "cancelled"]
  /\ pc' = IF toCancel' = {} THEN "idle" ELSE "cancelling"
  /\ UNCHANGED <<memory, cur, event, unsynced, cycle, handler, up, mode, log, created,
                 trades, crashes>>

\* The exchange drops every open order of the symbols it answers for.
ExchangeCancels(answering) ==
  xorder' = [o \in Orders |-> IF xorder[o] = "open" /\ SymbolOf[o] \in answering
                              THEN "cancelled" ELSE xorder[o]]

\* Orders S are about to be recorded as cancelled, one after the other.
BeginMarking(S) ==
  /\ toCancel' = S
  /\ pc' = IF S = {} THEN "idle" ELSE "marking"
  /\ UNCHANGED <<memory, cur, event, unsynced, handler, up, mode, log, created, trades,
                 crashes>>

\* cancel_all by the loop: the kill switch while an order is coordinated,
\* which is rejected, and _halt after too many failed cycles.
LoopCancelAll ==
  /\ \/ AtStage("desk") /\ stage' = "fills" /\ UNCHANGED todo
     \/ AtStage("top") /\ stage' = "out" /\ UNCHANGED todo
  /\ \E answering \in SUBSET Symbols : ExchangeCancels(answering)
  /\ BeginMarking(OpenOrders)

\* cancel_for_symbols, one symbol: reconciliation's answer to a mismatch.
CancelForSymbol(s) ==
  /\ AtStage("recon") /\ s \in todo
  /\ todo' = todo \ {s} /\ UNCHANGED stage
  /\ \E answering \in SUBSET {s} : ExchangeCancels(answering)
  /\ BeginMarking({o \in OpenOrders : SymbolOf[o] = s})

\* record_cancel for the next of them.
MarkNext(o) ==
  /\ Calling("marking") /\ o \in First(toCancel)
  /\ toCancel' = toCancel \ {o}
  /\ store' = [store EXCEPT ![o] = WithCancel(@)]
  /\ cur' = o /\ event' = "cancelled"
  /\ UNCHANGED <<xmap, aged, booked, pc, unsynced, cycle, handler, up, mode, log, created,
                 exchange, crashes>>

\* That record_cancel, or cancel_order's, appends.  If it raises, cancel_order
\* swallows it, and cancel_all and cancel_for_symbols end there.
CancelLogged ==
  /\ Appending("cancelling") \/ Appending("marking")
  /\ \/ Appended /\ UNCHANGED toCancel
     \/ /\ AppendRaised(cur)
        /\ toCancel' = IF pc = "marking" THEN {} ELSE toCancel
  /\ event' = "none" /\ cur' = 0
  /\ pc' = IF toCancel' = {} THEN "idle" ELSE pc
  /\ UNCHANGED <<memory, unsynced, cycle, handler, up, mode, created, exchange, crashes>>

-----------------------------------------------------------------------------
(* The signal handler: GracefulShutdown runs its callbacks once, cancel_all *)
(* first, in the middle of whatever the loop is doing.                      *)

Signal ==
  /\ up /\ sig = "none"
  /\ \E answering \in SUBSET Symbols : ExchangeCancels(answering)
  /\ marks' = OpenOrders
  /\ sig' = IF marks' = {} THEN "done" ELSE "cancelling"
  /\ UNCHANGED <<memory, thread, cycle, up, mode, log, created, trades, crashes>>

\* record_cancel by the handler: nothing but a crash comes between its
\* memory change and its append, and a crash takes the memory along.
HandlerMarks(o) ==
  /\ up /\ sig = "cancelling" /\ o \in First(marks)
  /\ store' = [store EXCEPT ![o] = WithCancel(@)]
  /\ \/ /\ logged' = [logged EXCEPT ![o] = ReplayCancelled(@)]
        /\ overtaken' = IF o = cur /\ event = "submitted" THEN overtaken \union {o}
                                                          ELSE overtaken
        /\ marks' = marks \ {o}
        /\ UNCHANGED <<faults, dirty>>
     \/ AppendRaised(o) /\ marks' = {}
  /\ sig' = IF marks' = {} THEN "done" ELSE "cancelling"
  /\ UNCHANGED <<xmap, aged, booked, thread, cycle, up, mode, created, exchange, crashes>>

-----------------------------------------------------------------------------
(* The process ends and is started again *)

MemoryLost ==
  /\ up' = FALSE
  /\ store' = [o \in Orders |-> Absent]
  /\ xmap' = {} /\ aged' = {}
  /\ booked' = [t \in Trade |-> 0]
  /\ stage' = "top" /\ todo' = {}
  /\ pc' = "idle" /\ cur' = 0 /\ event' = "none" /\ unsynced' = {} /\ toCancel' = {}
  /\ sig' = "none" /\ marks' = {}
  /\ dirty' = {} /\ overtaken' = {}
  /\ UNCHANGED <<logged, faults, created, exchange, mode>>

Crash == up /\ crashes < MaxCrashes /\ crashes' = crashes + 1 /\ MemoryLost

\* The loop has returned.
Exit == AtStage("out") /\ MemoryLost /\ UNCHANGED crashes

\* bootstrap: OrderStore.restore_from_events on a fresh store.
Restart ==
  /\ ~up
  /\ up' = TRUE
  /\ store' = [o \in Orders |-> RestoredRecord(logged[o])]
  /\ xmap' = RestoredMap
  /\ UNCHANGED <<aged, booked, thread, cycle, handler, log, created, exchange, crashes,
                 mode>>

-----------------------------------------------------------------------------
(* The exchange *)

FillsOf(o) == {k \in 1..MaxFills : <<o, k>> \in trades}

\* An open order executes, in part or for the rest of its quantity.
ExchangeFills(o) ==
  /\ xorder[o] = "open"
  /\ \E k \in 1..MaxFills :
       /\ FillsOf(o) = 1..(k - 1)
       /\ trades' = trades \union {<<o, k>>}
       /\ \/ xorder' = [xorder EXCEPT ![o] = "filled"]
          \/ k < MaxFills /\ UNCHANGED xorder
  /\ UNCHANGED <<memory, thread, cycle, handler, up, mode, log, created, crashes>>

\* An open order ends without this process: expiry, or the operator.
ExchangeDrops(o) ==
  /\ xorder[o] = "open"
  /\ xorder' = [xorder EXCEPT ![o] = "cancelled"]
  /\ UNCHANGED <<memory, thread, cycle, handler, up, mode, log, created, trades, crashes>>

-----------------------------------------------------------------------------

Gates      == BeginCycle \/ Blocked \/ PassGate \/ LoopCancelAll
Placing    == PlaceAccepted \/ PlaceNoOrderId \/ PlaceRaised
Recording  == RecordSubmission \/ PaperFill
Logging    == \/ TrackLogged \/ SubmissionLogged \/ SubmissionRaised \/ FailureLogged
              \/ PaperSubmissionLogged \/ PaperFillLogged \/ FillLogged \/ CancelLogged
Syncing    == SkipTrade \/ MatchTrade \/ \E s \in Symbols : BeginSync(s) \/ PollFails(s)
Cancelling == \E o \in Orders : CancelAccepted(o) \/ CancelRaised(o) \/ MarkNext(o)
Reconciling == \E s \in Symbols : CancelForSymbol(s)
Handling   == \E o \in Orders : HandlerMarks(o)

\* What the thread does once it is past the gates of a cycle.
Working ==
  \/ NoOrder \/ Placing \/ Recording \/ Logging \/ Syncing \/ EndFills \/ Reconciling
  \/ BeginCancelStale \/ Cancelling \/ Handling

Next ==
  \/ Gates \/ Leave \/ Track \/ Working
  \/ Signal
  \/ Crash \/ Exit \/ Restart
  \/ \E o \in Orders : Age(o) \/ ExchangeFills(o) \/ ExchangeDrops(o)

Spec == Init /\ [][Next]_vars

\* The thread does not stop in the middle of a cycle, time passes, and the
\* exchange answers a poll, and accepts a cancel, that is made again and
\* again.  Nothing makes the loop begin a cycle, pass its gates or restart.
FairSpec ==
  /\ Spec
  /\ WF_vars(Working)
  /\ \A o \in Orders : WF_vars(Age(o))
  /\ \A s \in Symbols : SF_vars(BeginSync(s))
  /\ \A o \in Orders : SF_vars(CancelAccepted(o))

-----------------------------------------------------------------------------
(* Properties *)

Calls == {"idle", "placing", "recording", "failing", "simulating", "filling",
          "syncing", "cancelling", "marking"}

TypeOK ==
  /\ store \in [Orders -> OrderRecord] /\ logged \in [Orders -> OrderRecord]
  /\ xmap \subseteq Orders /\ aged \subseteq Orders
  /\ dirty \subseteq Orders /\ overtaken \subseteq Orders
  /\ booked \in [Trade -> 0..MaxBooked]
  /\ stage \in {"top", "guard", "desk", "fills", "recon", "out"}
  /\ todo \subseteq Symbols
  /\ pc \in Calls /\ cur \in 0..MaxOrders /\ event \in Events
  /\ unsynced \subseteq Trade /\ toCancel \subseteq Orders
  /\ sig \in {"none", "cancelling", "done"} /\ marks \subseteq Orders
  /\ up \in BOOLEAN /\ mode \in Modes
  /\ created \in 0..MaxOrders
  /\ xorder \in [Orders -> {"none", "open", "filled", "cancelled"}]
  /\ trades \subseteq Trade
  /\ crashes \in 0..MaxCrashes /\ faults \in 0..MaxLogFaults

\* The exchange-id index and the records never disagree, across failed
\* appends, crashes and the pruning of restore_from_events: an id leads to
\* a record exactly when the record carries the id.
ExchangeMapExact == xmap = {o \in Orders : store[o].xid}

\* Replay of order o once the append under way is done.
LogAfter(o) == IF o = cur THEN Image(event, logged[o], store[o].fill) ELSE logged[o]

\* What a crash would restore is what memory holds.  For every order none of
\* whose events was lost, replaying the log and the append under way gives
\* the record in memory, or a finished order that an earlier restart pruned;
\* the one exception is an order whose submission the signal handler
\* overtook, and that differs by exactly the handler's cancel.
MemoryMatchesLog ==
  up => \A o \in Orders \ dirty :
          \/ store[o] = LogAfter(o)
          \/ store[o] = Absent /\ logged[o].status \in Terminal
          \/ o \in overtaken /\ store[o] = WithCancel(LogAfter(o))

\* No interleaving of the loop, the signal handler's cancel_all, crashes and
\* lost writes takes a recorded fill back: FILLED orders leave only with
\* the process.
FilledIsFinal ==
  [][\A o \in Orders : store[o].status = "filled"
                         => store'[o].status = "filled" \/ ~up']_vars

\* A trade that names an order id in the index never becomes the fill of
\* another order.
LinkedFillsStayHome ==
  [][\A o \in Orders :
       store'[o].fill \notin {store[o].fill, NoFill}
       => ~Linked \/ store'[o].fill[1] \notin xmap \/ store'[o].fill[1] = o]_vars

\* The log implements the lifecycle of OrderLedger, in which a cancel that
\* was written ahead of the order's submission is a withdrawal.
LedgerStatus(r) == IF r.status = "cancelled" /\ ~r.xid THEN "withdrawn" ELSE r.status
Ledger == INSTANCE OrderLedger WITH ledger <- [o \in Orders |-> LedgerStatus(logged[o])]
LedgerRefinement == Ledger!LedgerSpec

\* While cycles with a fill sync that is due go on getting past the gates (no
\* pause, kill, ended session, halt or shutdown for good), an order the store
\* shows as submitted and that the exchange has executed, in whole or part,
\* does not stay submitted for ever.
TradesGetRecorded ==
  []<>(stage = "fills" /\ todo = Symbols)
  => \A o \in Orders :
       (store[o].status = "submitted" /\ FillsOf(o) # {}) ~> store[o].status # "submitted"

\* While cycles go on getting past the gates, an open order the store knows
\* does not rest at the exchange for ever: the stale-order scan cancels it,
\* or a fill or cancel ends it first.
StaleOrdersLeave ==
  []<>(stage = "recon")
  => \A o \in Orders :
       (store[o].status = "submitted" /\ xorder[o] = "open")
       ~> (store[o].status # "submitted" \/ xorder[o] # "open")

-----------------------------------------------------------------------------
(* The inductive invariant behind the theorems of OrderExecution_proofs *)

\* The order in hand has the record, and the log, that its call has made so
\* far.  The handler can cancel it only after record_submission has made it
\* open in memory.
InFlight ==
  /\ pc \in {"placing", "recording", "simulating", "filling", "failing"} \/ event # "none"
     => up /\ cur \in Orders
  /\ pc \in {"placing", "recording", "simulating"} /\ event \in {"none", "tracked"}
     => /\ cur \notin dirty /\ store[cur] = Tracked
        /\ logged[cur] = IF event = "none" THEN Tracked ELSE Absent
  /\ event = "submitted"
     => /\ store[cur] \in {Submitted, WithCancel(Submitted)}
        /\ logged[cur] \in {Tracked, WithCancel(Tracked)}
        /\ store[cur] = Submitted => cur \notin dirty /\ logged[cur] = Tracked
  /\ event = "fill" => store[cur].status = "filled"
  /\ event = "cancelled" => store[cur].status = "cancelled"
  /\ pc = "filling" => store[cur] # Absent

\* Which call appends which event.
CallEvents ==
  /\ event = "tracked"   => pc \in {"placing", "simulating"}
  /\ event = "submitted" => pc \in {"recording", "simulating"}
  /\ event = "fill"      => pc \in {"syncing", "filling"}
  /\ event = "cancelled" => pc \in {"failing", "cancelling", "marking"}

\* Orders not created yet have left no trace.
Uncreated ==
  \A o \in Orders :
    o > created => store[o] = Absent /\ logged[o] = Absent /\ o \notin dirty

\* A record with status absent is no record at all, and a process that is
\* down has none.
NoRecord ==
  \A o \in Orders : /\ store[o].status = "absent" => store[o] = Absent
                    /\ logged[o].status = "absent" => logged[o] = Absent
                    /\ ~up => store[o] = Absent

\* A fill reaches the log only after memory, only fills carry a trade, an
\* order is logged as submitted together with its exchange id, and the orders
\* the handler overtook were in the log.
LogFollowsMemory ==
  \A o \in Orders :
    /\ logged[o].status = "filled" => store[o].status \in {"filled", "absent"}
    /\ logged[o].status # "filled" => logged[o].fill = NoFill
    /\ logged[o].status = "tracked" => ~logged[o].xid
    /\ logged[o].status = "submitted" => logged[o].xid
    /\ o \in overtaken => logged[o] # Absent

\* The orders about to be cancelled, by the loop or by the handler, have not
\* been filled since they were listed.
CancelQueues ==
  /\ toCancel # {} => up /\ pc \in {"cancelling", "marking"}
  /\ \A o \in toCancel : store[o].status \in {"submitted", "cancelled"}
  /\ marks # {} => up /\ sig = "cancelling"
  /\ \A o \in marks : store[o].status = "submitted"

\* All of it together holds initially and is preserved by every step.
IInv ==
  /\ TypeOK
  /\ ExchangeMapExact
  /\ MemoryMatchesLog
  /\ InFlight
  /\ CallEvents
  /\ Uncreated
  /\ NoRecord
  /\ LogFollowsMemory
  /\ CancelQueues

-----------------------------------------------------------------------------
(* What the documentation says and the code does not do *)

\* "Terminal statuses that do not require active tracking after restore"
\* (order_store.py:31): a pruned order is finished at the exchange.
PrunedOrdersAreClosed ==
  up => \A o \in Orders :
          store[o] = Absent /\ logged[o].status \in Terminal => xorder[o] # "open"

\* "Skip if already matched" (fill_tracker.py:48): one trade, one booking.
TradeBookedOnce == \A t \in Trade : booked[t] <= 1

\* "Fallback: match by symbol + side (for trades without order_id linkage)"
\* (fill_tracker.py:115): a linked trade fills the order it belongs to.
FallbackOnlyUnlinked ==
  Linked => \A o \in Orders : store[o].fill # NoFill => store[o].fill[1] = o

\* "All open orders are cancelled immediately" (docs/operations/sessions.md:48):
\* cancel_all leaves none of the orders it marks open at the exchange.
EmergencyCancelCloses ==
  [][Signal => \A o \in OpenOrders : xorder'[o] # "open"]_vars

\* "shadow: Fetch real data but do NOT submit orders" (aster_executor.py:6).
ShadowNeverSubmits == mode = "shadow" => \A o \in Orders : xorder[o] = "none"

\* "Orders that reached a terminal state (FILLED, CANCELLED) are discarded so
\* only potentially-orphaned orders remain" (order_store.py:175-177): no order
\* recorded as cancelled is one that a restart would restore as submitted.
CancelledStaysGone ==
  \A o \in Orders \ dirty :
    store[o].status = "cancelled" /\ event = "none" => logged[o].status # "submitted"
=============================================================================
