---------------------------- MODULE Coordination ----------------------------
(***************************************************************************)
(* From a selected signal to an order that may leave: the mandate that     *)
(* covers it, the mandate's budget, the risk token, and the staging desk   *)
(* where orders wait for an operator when staging is enabled.              *)
(*                                                                         *)
(* The loop's thread runs coordinate.  Request threads (Clients) list,     *)
(* execute and reject staged orders and create, pause and revoke mandates; *)
(* nothing locks the dictionaries they share.  The deployed program gives  *)
(* its API neither the coordinator nor the registry: its behaviours are    *)
(* those in which no client acts.                                          *)
(*                                                                         *)
(* A (strategy, symbol) pair is named by the one mandate that covers it,   *)
(* as in config/mandates.yaml.  The session gate and the global risk       *)
(* checks are SessionManager and RiskGate; here their verdict is free.     *)
(***************************************************************************)
EXTENDS Integers, FiniteSets, FiniteSetsExt, Sequences

CONSTANTS
  Mandates,        \* mandate ids, one for each pair that signals name
  ConfigMandates,  \* those the configuration registers at the start
  Clients,         \* request threads
  Notionals,       \* what the allocator may size an order to
  MaxCapital, MaxPosition, MaxDailyLoss,  \* a mandate's budget
  MaxDrawdown,     \* the same, in percent of the peak
  Moves,           \* profits and losses that one fill may realise
  TokenTTL,        \* ticks for which a risk token is valid
  MaxOrders, MaxRequests, MaxPnl, MaxDays, MaxRestarts   \* bounds

ASSUME CoordinationBounds ==
  /\ ConfigMandates \subseteq Mandates
  /\ Notionals \subseteq Nat \ {0} /\ Moves \subseteq Nat
  /\ {MaxCapital, MaxPosition, MaxDailyLoss, MaxDrawdown, TokenTTL, MaxOrders,
      MaxRequests, MaxPnl, MaxDays, MaxRestarts} \subseteq Nat

VARIABLES
  registry,  \* MandateRegistry._mandates: the status of each
  journal,   \* the status in the last mandate event of the log
  tracker,   \* SharedMemory.mandate_trackers
  today,     \* history: P&L realised under each mandate since midnight
  staging,   \* staging_enabled
  orders,    \* every order the allocator made, with what became of it
  staged,    \* Coordinator._staged_orders
  loop,      \* the loop's thread in coordinate
  client,    \* each request thread
  late,      \* history: orders approved since the mandate stopped being active
  requests, days, restarts   \* counters for the bounds

desk == <<orders, staged>>
governance == <<registry, journal>>
budget == <<tracker, today>>
counters == <<requests, days, restarts>>
vars == <<governance, budget, staging, desk, loop, client, late, counters>>

Status == {"absent", "active", "paused", "revoked"}
Outcome == {"refused", "submitted", "executed", "dropped", "rejected", "expired", "lost"}
Unused == [daily |-> 0, nav |-> 0, peak |-> 0]
AtRest == [at |-> "idle", order |-> 0]
Free == [at |-> "free"]
Issued == 1..Len(orders)

Init ==
  /\ registry = [m \in Mandates |-> IF m \in ConfigMandates THEN "active" ELSE "absent"]
  /\ journal = registry
  /\ tracker = [m \in Mandates |-> Unused] /\ today = [m \in Mandates |-> 0]
  /\ staging \in BOOLEAN
  /\ orders = <<>> /\ staged = {} /\ loop = AtRest
  /\ client = [c \in Clients |-> Free]
  /\ late = [m \in Mandates |-> 0]
  /\ requests = 0 /\ days = 0 /\ restarts = 0

-----------------------------------------------------------------------------
(* Risk tokens.  A token carries the time it was signed; age counts from   *)
(* there, for the orders that can still be asked about.                    *)

Live(o) == orders[o].age <= TokenTTL

Verifying == {client[c].order : c \in {d \in Clients : client[d].at = "verify"}}
Signed == staged \union Verifying \union (IF loop.at = "approved" THEN {loop.order} ELSE {})
End(o, outcome) == [orders EXCEPT ![o].ends = Append(@, outcome)]

Tick ==
  /\ \E o \in Signed : Live(o)
  /\ orders' = [o \in Issued |->
       IF o \in Signed /\ Live(o) THEN [orders[o] EXCEPT !.age = @ + 1] ELSE orders[o]]
  /\ UNCHANGED <<governance, budget, staging, staged, loop, client, late, counters>>

-----------------------------------------------------------------------------
(* Coordinator.coordinate.                                                 *)

\* Mutant: every registered mandate is searched.
MatchesRegistered(m) == registry[m] # "absent"
Matches(m) == registry[m] = "active"

\* select_signal, order_from_signal and validate_order.  Without an active
\* mandate the order is forgotten at once.  The loop keeps the mandate object
\* it found: what happens to the registry from here on does not reach it.
MatchMandate(m, n) ==
  /\ loop.at = "idle" /\ Len(orders) < MaxOrders
  /\ Matches(m)
  /\ orders' = Append(orders, [mandate |-> m, notional |-> n, age |-> 0, ends |-> <<>>])
  /\ loop' = [at |-> "matched", order |-> Len(orders) + 1]
  /\ UNCHANGED <<governance, budget, staging, staged, client, late, counters>>

DrawdownBreached(t) == t.peak > 0 /\ (t.peak - t.nav) * 100 >= MaxDrawdown * t.peak

LossBreached(t) == t.daily < 0 /\ -t.daily >= MaxDailyLoss

\* The checks of validate_with_mandate.  tracker.gross_exposure is never set.
WithinBudget(m, n) ==
  /\ ~LossBreached(tracker[m]) /\ ~DrawdownBreached(tracker[m])
  /\ n <= MaxCapital
  /\ n <= IF MaxPosition > 0 THEN MaxPosition ELSE MaxCapital

\* validate_with_mandate approves and signs.
Approve ==
  /\ loop.at = "matched"
  /\ LET m == orders[loop.order].mandate IN
       /\ WithinBudget(m, orders[loop.order].notional)
       /\ late' = IF registry[m] = "active" \/ late[m] = 2 THEN late
                                                          ELSE [late EXCEPT ![m] = @ + 1]
  /\ loop' = [loop EXCEPT !.at = "approved"]
  /\ UNCHANGED <<governance, budget, staging, desk, client, counters>>

\* A global check or the budget refuses, or the decision log cannot be written.
Refuse ==
  /\ loop.at \in {"matched", "approved"}
  /\ orders' = End(loop.order, "refused")
  /\ loop' = AtRest
  /\ UNCHANGED <<governance, budget, staging, staged, client, late, counters>>

StageOrder ==
  /\ loop.at = "approved" /\ staging
  /\ staged' = staged \union {loop.order}
  /\ loop' = AtRest
  /\ UNCHANGED <<governance, budget, staging, orders, client, late, counters>>

\* coordinate returns the order and the cycle hands it to the executor.
Submit ==
  /\ loop.at = "approved" /\ ~staging
  /\ orders' = End(loop.order, "submitted")
  /\ loop' = AtRest
  /\ UNCHANGED <<governance, budget, staging, staged, client, late, counters>>

-----------------------------------------------------------------------------
(* The P&L of a fill of one of the mandate's orders (FillTracker, later in *)
(* the same cycle) and midnight, at which no code resets the trackers.     *)

Bounded(x) == -MaxPnl <= x /\ x <= MaxPnl

Higher(x, y) == IF x > y THEN x ELSE y

UpdateMandatePnl(m, d) ==
  /\ loop.at = "idle"
  /\ \E o \in Issued : orders[o].mandate = m /\ orders[o].ends = <<"submitted">>
  /\ Bounded(tracker[m].nav + d) /\ Bounded(today[m] + d)
  /\ tracker' = [tracker EXCEPT ![m] =
       [daily |-> @.daily + d, nav |-> @.nav + d, peak |-> Higher(@.peak, @.nav + d)]]
  /\ today' = [today EXCEPT ![m] = @ + d]
  /\ UNCHANGED <<governance, staging, desk, loop, client, late, counters>>

Midnight ==
  /\ days < MaxDays /\ days' = days + 1
  /\ today' = [m \in Mandates |-> 0]
  /\ UNCHANGED <<governance, tracker, staging, desk, loop, client, late, requests, restarts>>

-----------------------------------------------------------------------------
(* The staging desk.                                                       *)

Take(c) == requests < MaxRequests /\ client[c] = Free /\ requests' = requests + 1
Become(c, state) == client' = [client EXCEPT ![c] = state]

\* get_staged_orders walks the dictionary in the order of insertion, which is
\* the order of the ids; each step notices that its size has changed.
ListStaged(c) ==
  /\ client[c] = Free
  /\ Become(c, [at |-> "scan", cursor |-> 0, size |-> Cardinality(staged), expired |-> {}])
  /\ UNCHANGED <<governance, budget, staging, desk, loop, late, counters>>

Ahead(c) == {o \in staged : o > client[c].cursor}
ScanIntact(c) == client[c].at = "scan" /\ Cardinality(staged) = client[c].size

\* Mutant: the scan collects the wrong orders.
StaleIn(c, o) == IF Live(o) THEN client[c].expired \union {o} ELSE client[c].expired
ExpiredIn(c, o) == IF Live(o) THEN client[c].expired ELSE client[c].expired \union {o}

ScanOrder(c) ==
  /\ ScanIntact(c)
  /\ \E o \in Ahead(c) :
       /\ \A p \in Ahead(c) : o <= p
       /\ Become(c, [client[c] EXCEPT !.cursor = o, !.expired = ExpiredIn(c, o)])
  /\ UNCHANGED <<governance, budget, staging, desk, loop, late, counters>>

ScanEnds(c) ==
  /\ ScanIntact(c) /\ Ahead(c) = {}
  /\ Become(c, [at |-> "delete", expired |-> client[c].expired])
  /\ UNCHANGED <<governance, budget, staging, desk, loop, late, counters>>

\* "dictionary changed size during iteration": the request fails.
ScanRaises(c) ==
  /\ client[c].at = "scan" /\ ~ScanIntact(c)
  /\ Become(c, Free)
  /\ UNCHANGED <<governance, budget, staging, desk, loop, late, counters>>

\* del of an order that somebody else took raises KeyError.
DeleteExpired(c) ==
  /\ client[c].at = "delete"
  /\ \E o \in client[c].expired :
       /\ \A p \in client[c].expired : o <= p
       /\ IF o \in staged
            THEN /\ staged' = staged \ {o} /\ orders' = End(o, "expired")
                 /\ Become(c, [client[c] EXCEPT !.expired = @ \ {o}])
            ELSE Become(c, Free) /\ UNCHANGED desk
  /\ UNCHANGED <<governance, budget, staging, loop, late, counters>>

ListReturns(c) ==
  /\ client[c].at = "delete" /\ client[c].expired = {}
  /\ Become(c, Free)
  /\ UNCHANGED <<governance, budget, staging, desk, loop, late, counters>>

\* Mutant: the order is read first and removed once it was verified.
LeftByPeek(o) == staged
LeftByPop(o) == staged \ {o}

\* execute_staged: pop, then verify the token.
ExecuteStaged(c, o) ==
  /\ Take(c) /\ o \in staged
  /\ staged' = LeftByPop(o)
  /\ Become(c, [at |-> "verify", order |-> o])
  /\ UNCHANGED <<governance, budget, staging, orders, loop, late, days, restarts>>

\* The order goes back to the operator as APPROVED, or is dropped with a 404.
VerifyToken(c) ==
  /\ client[c].at = "verify"
  /\ orders' = End(client[c].order, IF Live(client[c].order) THEN "executed" ELSE "dropped")
  /\ Become(c, Free)
  /\ UNCHANGED <<governance, budget, staging, staged, loop, late, counters>>

RejectStaged(c, o) ==
  /\ Take(c) /\ o \in staged
  /\ staged' = staged \ {o} /\ orders' = End(o, "rejected")
  /\ UNCHANGED <<governance, budget, staging, loop, client, late, days, restarts>>

-----------------------------------------------------------------------------
(* Mandates.  A request checks that the mandate exists, or for a creation  *)
(* that it does not; then it stores the new status; then it appends.       *)

Legal(m, status) == (registry[m] = "absent") <=> (status = "active")

BeginUpdate(c, m, status) ==
  /\ Take(c) /\ status \in Status \ {"absent"} /\ Legal(m, status)
  /\ Become(c, [at |-> "store", mandate |-> m, status |-> status])
  /\ UNCHANGED <<governance, budget, staging, desk, loop, late, days, restarts>>

StoreStatus(c) ==
  /\ client[c].at = "store"
  /\ LET m == client[c].mandate IN
       /\ registry' = [registry EXCEPT ![m] = client[c].status]
       /\ late' = IF client[c].status = "active" THEN [late EXCEPT ![m] = 0] ELSE late
  /\ Become(c, [client[c] EXCEPT !.at = "append"])
  /\ UNCHANGED <<journal, budget, staging, desk, loop, counters>>

\* The append may raise: the request fails and the status stays.
AppendStatus(c) ==
  /\ client[c].at = "append"
  /\ \/ journal' = [journal EXCEPT ![client[c].mandate] = client[c].status]
     \/ UNCHANGED journal
  /\ Become(c, Free)
  /\ UNCHANGED <<registry, budget, staging, desk, loop, late, counters>>

-----------------------------------------------------------------------------
\* The process ends and starts: memory is new, the configured mandates are
\* created again, each with its event.  Nothing reads the mandate events back.
Restart ==
  /\ restarts < MaxRestarts /\ restarts' = restarts + 1
  /\ registry' = [m \in Mandates |-> IF m \in ConfigMandates THEN "active" ELSE "absent"]
  /\ journal' = [m \in Mandates |-> IF m \in ConfigMandates THEN "active" ELSE journal[m]]
  /\ tracker' = [m \in Mandates |-> Unused]
  /\ orders' = [o \in Issued |-> IF orders[o].ends = <<>>
                  THEN [orders[o] EXCEPT !.ends = <<"lost">>] ELSE orders[o]]
  /\ staged' = {} /\ loop' = AtRest /\ client' = [c \in Clients |-> Free]
  /\ late' = [m \in Mandates |-> 0]
  /\ UNCHANGED <<today, staging, requests, days>>

Coordinate ==
  \/ \E m \in Mandates, n \in Notionals : MatchMandate(m, n)
  \/ Approve \/ Refuse \/ StageOrder \/ Submit

Handle(c) ==
  \/ ListStaged(c) \/ ScanOrder(c) \/ ScanEnds(c) \/ ScanRaises(c)
  \/ DeleteExpired(c) \/ ListReturns(c)
  \/ \E o \in staged : ExecuteStaged(c, o) \/ RejectStaged(c, o)
  \/ VerifyToken(c)
  \/ \E m \in Mandates, status \in Status : BeginUpdate(c, m, status)
  \/ StoreStatus(c) \/ AppendStatus(c)

Next ==
  \/ Coordinate
  \/ \E c \in Clients : Handle(c)
  \/ \E m \in Mandates, d \in Moves : UpdateMandatePnl(m, d) \/ UpdateMandatePnl(m, -d)
  \/ Tick \/ Midnight \/ Restart

Spec == Init /\ [][Next]_vars
FairSpec == Spec /\ WF_vars(Coordinate)
                 /\ \A c \in Clients : WF_vars(Handle(c))

-----------------------------------------------------------------------------
(* Properties.                                                             *)

\* The shapes of the state.
Order == [mandate : Mandates, notional : Notionals, age : 0..TokenTTL + 1,
          ends : {<<>>} \union {<<e>> : e \in Outcome}]
Client == {Free}
  \union [at : {"scan"}, cursor : Nat, size : Nat, expired : SUBSET Nat]
  \union [at : {"delete"}, expired : SUBSET Nat]
  \union [at : {"verify"}, order : Nat]
  \union [at : {"store", "append"}, mandate : Mandates, status : Status \ {"absent"}]
TypeOK ==
  /\ registry \in [Mandates -> Status] /\ journal \in [Mandates -> Status]
  /\ tracker \in [Mandates -> [daily : Int, nav : Int, peak : Nat]]
  /\ today \in [Mandates -> Int] /\ staging \in BOOLEAN
  /\ orders \in Seq(Order) /\ staged \subseteq Issued
  /\ loop \in [at : {"idle", "matched", "approved"}, order : Nat]
  /\ client \in [Clients -> Client]
  /\ late \in [Mandates -> 0..2]
  /\ {requests, days, restarts} \subseteq Nat

\* A mandate that is paused or revoked ("stop matching new orders to it",
\* api/routes_mandates.py:114) is followed by the approval of at most one more
\* order, the one that coordinate had matched already: _mandates is read once.
AtMostOneLateApproval == \A m \in Mandates : late[m] <= 1

\* However list, execute and reject requests, the loop and restarts interleave
\* on _staged_orders, an order meets one end, and none while it is staged.
OneEnd == \A o \in Issued : /\ Len(orders[o].ends) <= 1
                            /\ o \in staged => orders[o].ends = <<>>

\* After the late approval, no order of the mandate is on its way to another.
LateWasMatched ==
  \A m \in Mandates : late[m] >= 1 =>
    registry[m] # "active" /\ ~(loop.at = "matched" /\ orders[loop.order].mandate = m)

\* An order in coordinate or popped by a request is in one hand, and has not ended.
Open(o) == o \in Issued /\ o \notin staged /\ orders[o].ends = <<>>
InOneHand ==
  /\ loop.at # "idle" => Open(loop.order)
  /\ \A c \in Clients : client[c].at = "verify" =>
       /\ Open(client[c].order)
       /\ loop.at # "idle" => loop.order # client[c].order
       /\ \A d \in Clients \ {c} :
            client[d].at = "verify" => client[d].order # client[c].order

\* What a scan collected has expired: a token does not become valid again.
FoundExpired ==
  \A c \in Clients : client[c].at \in {"scan", "delete"} =>
    \A o \in client[c].expired : o \in Issued /\ ~Live(o)

\* The inductive invariant behind the two properties above and the next one.
IInv == /\ TypeOK /\ AtMostOneLateApproval /\ LateWasMatched
        /\ OneEnd /\ InOneHand /\ FoundExpired

\* get_staged_orders and execute_staged let go only of orders whose token ran
\* out, and hand over only orders whose token is live at that moment, although
\* other requests run between the verification and the removal.
TokenDecides ==
  [][\A o \in Issued : orders'[o].ends # orders[o].ends =>
       /\ orders'[o].ends \in {<<"expired">>, <<"dropped">>} => orders[o].age > TokenTTL
       /\ orders'[o].ends = <<"executed">> => orders[o].age <= TokenTTL]_vars

-----------------------------------------------------------------------------
(* Documented, and not so in the code.                                     *)

\* A mandate that lost max_daily_loss ("Max daily loss as fraction of mandate
\* capital", mandates/models.py:30) since midnight gets no approval.
DailyLossStopsMandate ==
  [][loop.at = "matched" /\ loop'.at = "approved"
       => -today[orders[loop.order].mandate] < MaxDailyLoss]_vars

\* "Max notional capital for this mandate" (mandates/models.py:28).
CapitalCeiling ==
  \A m \in Mandates :
    MapThenSumSet(LAMBDA o : orders[o].notional,
      {o \in Issued : orders[o].mandate = m /\ orders[o].ends = <<"submitted">>}) <= MaxCapital

\* "maximum drawdown as a fraction of max_capital" (docs/adr/0004-mandate-governance.md:55).
DrawdownStopsMandate ==
  [][loop.at = "matched" /\ loop'.at = "approved" =>
       LET t == tracker[orders[loop.order].mandate]
       IN  (t.peak - t.nav) * 100 < MaxDrawdown * MaxCapital]_vars

\* "Execute a staged order (approve for submission to OMS)" (api/routes_session.py:170).
ExecutedGetsSubmitted ==
  \A o \in 1..MaxOrders :
    (o \in Issued /\ orders[o].ends = <<"executed">>)
      ~> (o \in Issued /\ orders[o].ends = <<"submitted">>)

\* "If the token has expired, re-validates the order through the risk engine."
\* (orchestration/coordinator.py:152)
ExpiredIsRevalidated == \A o \in Issued : orders[o].ends # <<"dropped">>

\* "Operators can pause or revoke a single strategy's mandate without stopping
\* the entire system." (docs/adr/0004-mandate-governance.md:120)
NoneExecutedAfterPause ==
  [][\A o \in Issued : orders[o].ends = <<>> /\ orders'[o].ends = <<"executed">>
                         => registry[orders[o].mandate] = "active"]_vars

\* "Revoke a mandate - permanent deactivation." (mandates/registry.py:106)
RevokedIsPermanent ==
  [][\A m \in Mandates : registry[m] = "revoked" => registry'[m] = "revoked"]_vars

\* "All mandate lifecycle events (creation, status changes) are persisted in the
\* EventStore" (docs/adr/0004-mandate-governance.md:125).
JournalIsComplete == (\A c \in Clients : client[c] = Free) => journal = registry
=============================================================================
