------------------------- MODULE Coordination_proofs -------------------------
(***************************************************************************)
(* Theorems about Coordination and about Evolution, from whose weights the *)
(* arbitration is built.  Coordination: its types; that an order meets one *)
(* end; that its token decides between the ends; and that a mandate that   *)
(* was paused or revoked is followed by at most one approval.  Evolution:  *)
(* its types; that one parameter at a time is off its accepted value; that *)
(* agents are changed as seldom as the cooldown and the trials ask; and    *)
(* that an update never puts the better of two equal agents behind.        *)
(***************************************************************************)
EXTENDS Coordination, Evolution, SequenceTheorems, FiniteSetTheorems, WellFoundedInduction, TLAPS

\* An order ends: nothing else about the orders changes.
LEMMA EndFacts ==
  ASSUME TypeOK, NEW o \in Issued, orders[o].ends = <<>>, NEW e \in Outcome,
         orders' = End(o, e)
  PROVE  /\ orders' \in Seq(Order) /\ Len(orders') = Len(orders)
         /\ \A p \in Issued : /\ orders'[p].mandate = orders[p].mandate
                              /\ orders'[p].age = orders[p].age
                              /\ orders'[p].ends = IF p = o THEN <<e>> ELSE orders[p].ends
<1>1. orders \in Seq(Order) /\ o \in 1..Len(orders)
  BY DEF TypeOK, Issued
<1>2. orders[o] \in Order
  BY <1>1, ElementOfSeq
<1>3. Append(<<>>, e) = <<e>>
  OBVIOUS
<1> DEFINE r == [orders[o] EXCEPT !.ends = <<e>>]
<1>4. orders' = [orders EXCEPT ![o] = r]
  BY <1>3 DEF End
<1>5. /\ r \in Order /\ r.ends = <<e>>
      /\ r.mandate = orders[o].mandate /\ r.age = orders[o].age
  BY <1>2 DEF Order
<1> HIDE DEF r
<1>6. /\ orders' \in Seq(Order) /\ Len(orders') = Len(orders)
      /\ \A p \in 1..Len(orders) : orders'[p] = IF p = o THEN r ELSE orders[p]
  BY <1>1, <1>4, <1>5, ExceptSeq
<1> QED
  BY <1>5, <1>6 DEF Issued

\* The orders that one order more or the clock leaves as they were.
LEMMA IssueFacts ==
  ASSUME TypeOK, NEW m \in Mandates, NEW n \in Notionals,
         orders' = Append(orders, [mandate |-> m, notional |-> n, age |-> 0, ends |-> <<>>])
  PROVE  /\ orders' \in Seq(Order) /\ Len(orders') = Len(orders) + 1
         /\ \A p \in Issued : orders'[p] = orders[p]
         /\ LET o == Len(orders) + 1
            IN  o \in Nat /\ o \notin Issued /\ orders'[o].ends = <<>> /\ orders'[o].mandate = m
<1>1. orders \in Seq(Order) /\ Len(orders) \in Nat
  BY LenProperties DEF TypeOK
<1> DEFINE r == [mandate |-> m, notional |-> n, age |-> 0, ends |-> <<>>]
<1>2. r \in Order /\ r.ends = <<>> /\ r.mandate = m
  BY CoordinationBounds DEF Order
<1> HIDE DEF r
<1>3. orders' = Append(orders, r)
  BY DEF r
<1> QED
  BY <1>1, <1>2, <1>3, AppendProperties DEF Issued

LEMMA TickFacts ==
  ASSUME TypeOK, Tick
  PROVE  /\ orders' \in Seq(Order) /\ Len(orders') = Len(orders)
         /\ \A p \in Issued : /\ orders'[p].mandate = orders[p].mandate
                              /\ orders'[p].ends = orders[p].ends
                              /\ orders[p].age > TokenTTL => orders'[p].age > TokenTTL
<1>1. orders \in Seq(Order) /\ Len(orders) \in Nat /\ TokenTTL \in Nat
  BY LenProperties, CoordinationBounds DEF TypeOK
<1>2. \A p \in Issued : orders[p] \in Order
  BY <1>1, ElementOfSeq DEF Issued
<1>3. orders' = [o \in Issued |->
       IF o \in Signed /\ Live(o) THEN [orders[o] EXCEPT !.age = @ + 1] ELSE orders[o]]
  BY DEF Tick
<1>4. \A p \in Issued : /\ orders'[p] \in Order
                        /\ orders'[p].mandate = orders[p].mandate
                        /\ orders'[p].ends = orders[p].ends
                        /\ orders[p].age > TokenTTL => orders'[p].age > TokenTTL
  <2> TAKE p \in Issued
  <2>1. CASE p \in Signed /\ Live(p)
    <3>1. orders'[p] = [orders[p] EXCEPT !.age = @ + 1]
      BY <1>3, <2>1
    <3>2. orders[p] \in Order /\ orders[p].age <= TokenTTL
      BY <1>2, <2>1 DEF Live
    <3>3. orders[p].age + 1 \in 0..TokenTTL + 1
      BY <1>1, <3>2 DEF Order
    <3>4. orders'[p] \in Order
      BY <3>1, <3>2, <3>3 DEF Order
    <3>5. orders'[p].mandate = orders[p].mandate /\ orders'[p].ends = orders[p].ends
      BY <3>1, <3>2 DEF Order
    <3>6. ~(orders[p].age > TokenTTL)
      BY <1>1, <3>2 DEF Order
    <3> QED
      BY <3>4, <3>5, <3>6
  <2>2. CASE ~(p \in Signed /\ Live(p))
    BY <1>2, <1>3, <2>2
  <2> QED
    BY <2>1, <2>2
<1>5. orders' \in [1..Len(orders) -> Order]
  BY <1>3, <1>4 DEF Issued
<1>6. orders' \in Seq(Order) /\ Len(orders') = Len(orders)
  BY <1>1, <1>5, SeqDef
<1> QED
  BY <1>4, <1>6

LEMMA BecomeFacts ==
  ASSUME TypeOK, NEW c \in Clients, NEW state, Become(c, state)
  PROVE  /\ client'[c] = state
         /\ \A d \in Clients \ {c} : client'[d] = client[d]
         /\ state \in Client => client' \in [Clients -> Client]
BY DEF TypeOK, Become

\* Each request's state has the fields that belong to its step.
LEMMA ClientFields ==
  ASSUME TypeOK, NEW c \in Clients
  PROVE  /\ client[c].at = "scan" =>
              client[c] \in [at : {"scan"}, cursor : Nat, size : Nat, expired : SUBSET Nat]
         /\ client[c].at = "delete" => client[c] \in [at : {"delete"}, expired : SUBSET Nat]
         /\ client[c].at = "verify" => client[c] \in [at : {"verify"}, order : Nat]
         /\ client[c].at \in {"store", "append"} =>
              client[c] \in [at : {"store", "append"}, mandate : Mandates,
                             status : Status \ {"absent"}]
BY DEF TypeOK, Client, Free

-----------------------------------------------------------------------------
(* Types.                                                                  *)

LEMMA InitType == Init => TypeOK
<1> SUFFICES ASSUME Init PROVE TypeOK
  OBVIOUS
<1> USE DEF Init
<1>1. registry \in [Mandates -> Status] /\ journal \in [Mandates -> Status]
  BY DEF Status
<1>2. tracker \in [Mandates -> [daily : Int, nav : Int, peak : Nat]] /\ today \in [Mandates -> Int]
  BY DEF Unused
<1>3. orders \in Seq(Order) /\ staged \subseteq Issued /\ staging \in BOOLEAN
  BY DEF Issued
<1>4. loop \in [at : {"idle", "matched", "approved"}, order : Nat]
  BY DEF AtRest
<1>5. client \in [Clients -> Client]
  BY DEF Client
<1>6. late \in [Mandates -> 0..2] /\ {requests, days, restarts} \subseteq Nat
  OBVIOUS
<1> QED
  BY <1>1, <1>2, <1>3, <1>4, <1>5, <1>6 DEF TypeOK

LEMMA MatchType ==
  ASSUME IInv, NEW m \in Mandates, NEW n \in Notionals, MatchMandate(m, n)
  PROVE  TypeOK'
<1> USE DEF MatchMandate, governance, budget, counters
<1>1. TypeOK /\ Len(orders) \in Nat
  BY LenProperties DEF IInv, TypeOK
<1>2. orders' \in Seq(Order) /\ Len(orders') = Len(orders) + 1
  BY <1>1, IssueFacts
<1>3. staged' \subseteq Issued'
  BY <1>1, <1>2 DEF TypeOK, Issued
<1>4. loop' \in [at : {"idle", "matched", "approved"}, order : Nat]
  BY <1>1
<1> QED
  BY <1>1, <1>2, <1>3, <1>4 DEF TypeOK

LEMMA ApproveType == ASSUME IInv, Approve PROVE TypeOK'
<1> USE DEF Approve, governance, budget, counters, desk
<1>1. TypeOK
  BY DEF IInv
<1>2. loop' \in [at : {"idle", "matched", "approved"}, order : Nat]
  BY <1>1 DEF TypeOK
<1> DEFINE m == orders[loop.order].mandate
<1>3. CASE late' = late
  BY <1>1, <1>2, <1>3 DEF TypeOK, Issued
<1>4. CASE late[m] # 2 /\ late' = [late EXCEPT ![m] = @ + 1]
  <2>1. late \in [Mandates -> 0..2]
    BY <1>1 DEF TypeOK
  <2>2. m \in Mandates => late[m] + 1 \in 0..2
    BY <1>4, <2>1
  <2>3. late' \in [Mandates -> 0..2]
    BY <1>4, <2>1, <2>2
  <2> QED
    BY <1>1, <1>2, <2>3 DEF TypeOK, Issued
<1> QED
  BY <1>3, <1>4

LEMMA EndType ==
  ASSUME IInv, NEW o, Open(o) \/ o \in staged, NEW e \in Outcome, orders' = End(o, e)
  PROVE  orders' \in Seq(Order) /\ Issued' = Issued
<1>1. TypeOK /\ o \in Issued /\ orders[o].ends = <<>>
  BY DEF IInv, Open, OneEnd, TypeOK
<1> QED
  BY <1>1, EndFacts DEF Issued

LEMMA RefuseType == ASSUME IInv, Refuse PROVE TypeOK'
<1> USE DEF Refuse, governance, budget, counters
<1>1. TypeOK /\ Open(loop.order)
  BY DEF IInv, InOneHand
<1>2. orders' \in Seq(Order) /\ Issued' = Issued
  BY <1>1, EndType DEF Outcome
<1> QED
  BY <1>1, <1>2 DEF TypeOK, AtRest

LEMMA StageType == ASSUME IInv, StageOrder PROVE TypeOK'
<1> USE DEF StageOrder, governance, budget, counters
<1>1. TypeOK /\ Open(loop.order)
  BY DEF IInv, InOneHand
<1> QED
  BY <1>1 DEF TypeOK, AtRest, Open, Issued

LEMMA SubmitType == ASSUME IInv, Submit PROVE TypeOK'
<1> USE DEF Submit, governance, budget, counters
<1>1. TypeOK /\ Open(loop.order)
  BY DEF IInv, InOneHand
<1>2. orders' \in Seq(Order) /\ Issued' = Issued
  BY <1>1, EndType DEF Outcome
<1> QED
  BY <1>1, <1>2 DEF TypeOK, AtRest

LEMMA PnlType ==
  ASSUME IInv, NEW m \in Mandates, NEW d \in Int, UpdateMandatePnl(m, d)
  PROVE  TypeOK'
<1> USE DEF UpdateMandatePnl, governance, desk, counters
<1>1. TypeOK
  BY DEF IInv
<1>2. tracker[m] \in [daily : Int, nav : Int, peak : Nat] /\ today[m] \in Int
  BY <1>1 DEF TypeOK
<1>3. [daily |-> tracker[m].daily + d, nav |-> tracker[m].nav + d,
       peak |-> Higher(tracker[m].peak, tracker[m].nav + d)] \in [daily : Int, nav : Int, peak : Nat]
  BY <1>2 DEF Higher
<1>4. tracker' \in [Mandates -> [daily : Int, nav : Int, peak : Nat]]
  BY <1>1, <1>3 DEF TypeOK
<1>5. today' \in [Mandates -> Int]
  BY <1>1, <1>2 DEF TypeOK
<1> QED
  BY <1>1, <1>4, <1>5 DEF TypeOK, Issued

LEMMA ClockType == ASSUME IInv, Tick \/ Midnight PROVE TypeOK'
<1> USE DEF governance, budget, desk, counters
<1>1. TypeOK
  BY DEF IInv
<1>2. CASE Tick
  BY <1>1, <1>2, TickFacts DEF TypeOK, Tick, Issued
<1>3. CASE Midnight
  BY <1>1, <1>3 DEF TypeOK, Midnight, Issued
<1> QED
  BY <1>2, <1>3

LEMMA ListType ==
  ASSUME IInv, NEW c \in Clients,
         ListStaged(c) \/ ScanOrder(c) \/ ScanEnds(c) \/ ScanRaises(c) \/ ListReturns(c)
  PROVE  TypeOK'
<1> USE DEF governance, budget, desk, counters
<1>1. TypeOK /\ staged \subseteq Nat /\ Cardinality(staged) \in Nat
  <2>1. TypeOK /\ Len(orders) \in Nat
    BY LenProperties DEF IInv, TypeOK
  <2>2. staged \subseteq 1..Len(orders)
    BY <2>1 DEF TypeOK, Issued
  <2>3. IsFiniteSet(1..Len(orders))
    BY <2>1, FS_Interval
  <2>4. Cardinality(staged) \in Nat
    BY <2>2, <2>3, FS_Subset, FS_CardinalityType
  <2> QED
    BY <2>1, <2>2, <2>4
<1>2. \E state \in Client : Become(c, state)
  <2>1. CASE ListStaged(c)
    BY <1>1, <2>1 DEF ListStaged, Client
  <2>2. CASE ScanOrder(c)
    <3>1. client[c] \in [at : {"scan"}, cursor : Nat, size : Nat, expired : SUBSET Nat]
      BY <1>1, <2>2, ClientFields DEF ScanOrder, ScanIntact
    <3>2. PICK o \in staged : Become(c, [client[c] EXCEPT !.cursor = o, !.expired = ExpiredIn(c, o)])
      BY <2>2 DEF ScanOrder, Ahead
    <3>3. o \in Nat /\ ExpiredIn(c, o) \in SUBSET Nat
      BY <1>1, <3>1, <3>2 DEF ExpiredIn
    <3>4. [client[c] EXCEPT !.cursor = o, !.expired = ExpiredIn(c, o)] \in Client
      BY <3>1, <3>3 DEF Client
    <3> QED
      BY <3>2, <3>4
  <2>3. CASE ScanEnds(c)
    <3>1. client[c].expired \in SUBSET Nat
      BY <1>1, <2>3, ClientFields DEF ScanEnds, ScanIntact
    <3> QED
      BY <2>3, <3>1 DEF ScanEnds, Client
  <2>4. CASE ScanRaises(c) \/ ListReturns(c)
    BY <2>4 DEF ScanRaises, ListReturns, Client
  <2> QED
    BY <2>1, <2>2, <2>3, <2>4
<1>3. client' \in [Clients -> Client]
  BY <1>1, <1>2, BecomeFacts
<1>4. UNCHANGED <<governance, budget, staging, desk, loop, late, counters>>
  BY DEF ListStaged, ScanOrder, ScanEnds, ScanRaises, ListReturns
<1> QED
  BY <1>1, <1>3, <1>4 DEF TypeOK, Issued

LEMMA DeskType ==
  ASSUME IInv, NEW c \in Clients,
         \/ DeleteExpired(c) \/ VerifyToken(c)
         \/ \E o \in staged : ExecuteStaged(c, o) \/ RejectStaged(c, o)
  PROVE  TypeOK'
<1> USE DEF governance, budget, counters
<1>1. TypeOK /\ client \in [Clients -> Client]
  BY DEF IInv, TypeOK
<1>2. CASE DeleteExpired(c)
  <2>1. client[c] \in [at : {"delete"}, expired : SUBSET Nat]
    BY <1>1, <1>2, ClientFields DEF DeleteExpired
  <2>2. PICK o \in client[c].expired :
          \/ /\ o \in staged /\ staged' = staged \ {o} /\ orders' = End(o, "expired")
             /\ Become(c, [client[c] EXCEPT !.expired = @ \ {o}])
          \/ Become(c, Free) /\ UNCHANGED desk
    BY <1>2 DEF DeleteExpired
  <2>3. [client[c] EXCEPT !.expired = @ \ {o}] \in Client /\ Free \in Client
    BY <2>1 DEF Client
  <2>4. client' \in [Clients -> Client]
    BY <1>1, <2>2, <2>3, BecomeFacts
  <2>5. orders' \in Seq(Order) /\ Issued' = Issued
    BY <1>1, <2>2, EndType DEF Outcome, desk, TypeOK, Issued
  <2>6. staged' \subseteq staged
    BY <2>2 DEF desk
  <2> QED
    BY <1>1, <1>2, <2>4, <2>5, <2>6 DEF TypeOK, DeleteExpired
<1>3. CASE VerifyToken(c)
  <2>1. Open(client[c].order)
    BY <1>3 DEF IInv, InOneHand, VerifyToken
  <2>2. orders' \in Seq(Order) /\ Issued' = Issued
    BY <1>3, <2>1, EndType DEF Outcome, VerifyToken
  <2>3. client' \in [Clients -> Client]
    BY <1>1, <1>3, BecomeFacts DEF VerifyToken, Client
  <2> QED
    BY <1>1, <1>3, <2>2, <2>3 DEF TypeOK, VerifyToken
<1>4. ASSUME NEW o \in staged, ExecuteStaged(c, o) PROVE TypeOK'
  <2>1. o \in Nat
    BY <1>1 DEF TypeOK, Issued
  <2>2. [at |-> "verify", order |-> o] \in Client
    BY <2>1 DEF Client
  <2>3. client' \in [Clients -> Client]
    BY <1>1, <1>4, <2>2, BecomeFacts DEF ExecuteStaged
  <2> QED
    BY <1>1, <1>4, <2>3 DEF TypeOK, ExecuteStaged, Take, LeftByPop, Issued
<1>5. ASSUME NEW o \in staged, RejectStaged(c, o) PROVE TypeOK'
  <2>1. orders' \in Seq(Order) /\ Issued' = Issued
    BY <1>5, EndType DEF Outcome, RejectStaged
  <2> QED
    BY <1>1, <1>5, <2>1 DEF TypeOK, RejectStaged, Take
<1> QED
  BY <1>2, <1>3, <1>4, <1>5

LEMMA UpdateType ==
  ASSUME IInv, NEW c \in Clients,
         \/ StoreStatus(c) \/ AppendStatus(c)
         \/ \E m \in Mandates, status \in Status : BeginUpdate(c, m, status)
  PROVE  TypeOK'
<1> USE DEF governance, budget, desk, counters
<1>1. TypeOK /\ client \in [Clients -> Client]
  BY DEF IInv, TypeOK
<1> DEFINE Updating == [at : {"store", "append"}, mandate : Mandates, status : Status \ {"absent"}]
<1>2. CASE StoreStatus(c)
  <2>1. client[c] \in Updating
    BY <1>1, <1>2, ClientFields DEF StoreStatus
  <2>2. registry' \in [Mandates -> Status]
    BY <1>1, <1>2, <2>1 DEF TypeOK, StoreStatus
  <2>3. late' \in [Mandates -> 0..2]
    BY <1>1, <1>2, <2>1 DEF TypeOK, StoreStatus
  <2>4. [client[c] EXCEPT !.at = "append"] \in Client
    BY <2>1 DEF Client
  <2>5. client' \in [Clients -> Client]
    BY <1>1, <1>2, <2>4, BecomeFacts DEF StoreStatus
  <2> QED
    BY <1>1, <1>2, <2>2, <2>3, <2>5 DEF TypeOK, StoreStatus, Issued
<1>3. CASE AppendStatus(c)
  <2>1. client[c] \in Updating
    BY <1>1, <1>3, ClientFields DEF AppendStatus
  <2>2. journal' \in [Mandates -> Status]
    BY <1>1, <1>3, <2>1 DEF TypeOK, AppendStatus
  <2>3. client' \in [Clients -> Client]
    BY <1>1, <1>3, BecomeFacts DEF AppendStatus, Client
  <2> QED
    BY <1>1, <1>3, <2>2, <2>3 DEF TypeOK, AppendStatus, Issued
<1>4. ASSUME NEW m \in Mandates, NEW status \in Status, BeginUpdate(c, m, status) PROVE TypeOK'
  <2>1. [at |-> "store", mandate |-> m, status |-> status] \in Client
    BY <1>4 DEF BeginUpdate, Client
  <2>2. client' \in [Clients -> Client]
    BY <1>1, <1>4, <2>1, BecomeFacts DEF BeginUpdate
  <2>3. requests' \in Nat
    BY <1>1, <1>4 DEF TypeOK, BeginUpdate, Take
  <2>4. UNCHANGED <<registry, journal, tracker, today, staging, orders, staged, loop, late, days, restarts>>
    BY <1>4 DEF BeginUpdate
  <2> QED
    BY <1>1, <2>2, <2>3, <2>4 DEF TypeOK, Issued
<1> QED
  BY <1>2, <1>3, <1>4

LEMMA RestartType == ASSUME IInv, Restart PROVE TypeOK'
<1> USE DEF Restart
<1>1. TypeOK
  BY DEF IInv
<1>2. orders' \in Seq(Order) /\ Issued' = Issued
  <2>1. orders \in Seq(Order) /\ Len(orders) \in Nat
    BY <1>1, LenProperties DEF TypeOK
  <2>2. \A p \in 1..Len(orders) : orders[p] \in Order
    BY <2>1, ElementOfSeq
  <2>3. \A p \in 1..Len(orders) : [orders[p] EXCEPT !.ends = <<"lost">>] \in Order
    BY <2>2 DEF Order, Outcome
  <2>4. orders' \in [1..Len(orders) -> Order]
    BY <2>2, <2>3 DEF Issued
  <2> QED
    BY <2>1, <2>4, SeqDef DEF Issued
<1>3. registry' \in [Mandates -> Status] /\ journal' \in [Mandates -> Status]
  BY <1>1 DEF TypeOK, Status
<1>4. tracker' \in [Mandates -> [daily : Int, nav : Int, peak : Nat]] /\ today' = today
  BY DEF Unused
<1>5. client' \in [Clients -> Client]
  BY DEF Client
<1> QED
  BY <1>1, <1>2, <1>3, <1>4, <1>5 DEF TypeOK, AtRest

-----------------------------------------------------------------------------
(* Every order is in one hand and meets one end.                           *)

Hands == OneEnd /\ InOneHand /\ FoundExpired

\* A request that takes a step away from the desk holds and finds nothing new.
LEMMA AwayFromDesk ==
  ASSUME IInv, NEW c \in Clients, NEW state, Become(c, state),
         state.at \notin {"verify", "scan", "delete"}, UNCHANGED <<desk, loop>>
  PROVE  Hands'
<1>1. TypeOK /\ UNCHANGED <<orders, staged, loop>> /\ Issued' = Issued
  BY DEF IInv, desk, Issued
<1>2. client'[c] = state /\ \A d \in Clients \ {c} : client'[d] = client[d]
  BY <1>1, BecomeFacts
<1>3. OneEnd'
  BY <1>1 DEF IInv, OneEnd
<1>4. InOneHand'
  BY <1>1, <1>2 DEF IInv, InOneHand, Open
<1>5. FoundExpired'
  BY <1>1, <1>2 DEF IInv, FoundExpired, Live
<1> QED
  BY <1>3, <1>4, <1>5 DEF Hands

LEMMA MatchHands ==
  ASSUME IInv, NEW m \in Mandates, NEW n \in Notionals, MatchMandate(m, n)
  PROVE  Hands'
<1> DEFINE o == Len(orders) + 1
<1>1. TypeOK /\ Len(orders) \in Nat /\ staged \subseteq Issued
  BY LenProperties DEF IInv, TypeOK
<1>2. /\ Len(orders') = Len(orders) + 1 /\ \A p \in Issued : orders'[p] = orders[p]
      /\ o \in Nat /\ o \notin Issued /\ orders'[o].ends = <<>>
  BY <1>1, IssueFacts DEF MatchMandate
<1>3. Issued' = Issued \union {o}
  BY <1>1, <1>2 DEF Issued
<1>4. loop' = [at |-> "matched", order |-> o] /\ loop.at = "idle"
      /\ staged' = staged /\ client' = client
  BY DEF MatchMandate
<1> HIDE DEF o
<1>5. OneEnd'
  <2>1. Len(<<>>) = 0
    OBVIOUS
  <2>2. ASSUME NEW p \in Issued' PROVE Len(orders'[p].ends) <= 1 /\ (p \in staged' => orders'[p].ends = <<>>)
    BY <1>1, <1>2, <1>3, <1>4, <2>1 DEF IInv, OneEnd
  <2> QED
    BY <2>2 DEF OneEnd
<1>6. InOneHand'
  BY <1>1, <1>2, <1>3, <1>4 DEF IInv, InOneHand, Open
<1>7. FoundExpired'
  BY <1>2, <1>3, <1>4 DEF IInv, FoundExpired, Live
<1> QED
  BY <1>5, <1>6, <1>7 DEF Hands

LEMMA ApproveHands == ASSUME IInv, Approve PROVE Hands'
<1>1. UNCHANGED <<orders, staged, client>> /\ Issued' = Issued
  BY DEF Approve, desk, Issued
<1>2. loop.at = "matched" /\ loop'.order = loop.order
  BY DEF IInv, TypeOK, Approve
<1>3. OneEnd' /\ FoundExpired'
  BY <1>1 DEF IInv, OneEnd, FoundExpired, Live
<1>4. InOneHand'
  BY <1>1, <1>2 DEF IInv, InOneHand, Open
<1> QED
  BY <1>3, <1>4 DEF Hands

\* An order that was in one hand or on the desk ends, and is in no hand after.
LEMMA EndHands ==
  ASSUME IInv, NEW o \in Issued, orders[o].ends = <<>>, NEW e \in Outcome, orders' = End(o, e),
         staged' = staged \ {o},
         loop'.at # "idle" => loop' = loop /\ loop.order # o,
         \A c \in Clients : client'[c].at = "verify" =>
           client'[c] = client[c] /\ client[c].order # o,
         \A c \in Clients : client'[c].at \in {"scan", "delete"} =>
           client[c].at \in {"scan", "delete"} /\ client'[c].expired \subseteq client[c].expired
  PROVE  Hands'
<1>1. TypeOK
  BY DEF IInv
<1>2. /\ Len(orders') = Len(orders)
      /\ \A p \in Issued : /\ orders'[p].age = orders[p].age
                           /\ orders'[p].ends = IF p = o THEN <<e>> ELSE orders[p].ends
  BY <1>1, EndFacts
<1>3. Issued' = Issued
  BY <1>2 DEF Issued
<1>4. OneEnd'
  <2>1. ASSUME NEW p \in Issued
        PROVE  Len(orders'[p].ends) <= 1 /\ (p \in staged' => orders'[p].ends = <<>>)
    <3>1. CASE p = o
      <4>1. orders'[p].ends = <<e>> /\ p \notin staged'
        BY <1>2, <3>1
      <4> QED
        BY <4>1
    <3>2. CASE p # o
      <4>1. orders'[p].ends = orders[p].ends /\ (p \in staged' => p \in staged)
        BY <1>2, <3>2
      <4>2. Len(orders[p].ends) <= 1 /\ (p \in staged => orders[p].ends = <<>>)
        BY DEF IInv, OneEnd
      <4> QED
        BY <4>1, <4>2
    <3> QED
      BY <3>1, <3>2
  <2> QED
    BY <1>3, <2>1 DEF OneEnd
<1>5. InOneHand'
  BY <1>2, <1>3 DEF IInv, InOneHand, Open
<1>6. FoundExpired'
  BY <1>2, <1>3 DEF IInv, FoundExpired, Live
<1> QED
  BY <1>4, <1>5, <1>6 DEF Hands

LEMMA LoopEndHands == ASSUME IInv, Refuse \/ Submit PROVE Hands'
<1>1. PICK e \in Outcome : orders' = End(loop.order, e)
  BY DEF Refuse, Submit, Outcome
<1>2. Open(loop.order) /\ loop.at # "idle"
  BY DEF IInv, InOneHand, Refuse, Submit
<1>3. loop'.at = "idle" /\ client' = client /\ staged' = staged
  BY DEF Refuse, Submit, AtRest
<1>4. \A c \in Clients : client[c].at = "verify" => client[c].order # loop.order
  BY <1>2 DEF IInv, InOneHand
<1>5. loop.order \in Issued /\ orders[loop.order].ends = <<>> /\ staged' = staged \ {loop.order}
  BY <1>2, <1>3 DEF Open
<1> QED
  BY <1>1, <1>3, <1>4, <1>5, EndHands

LEMMA StageHands == ASSUME IInv, StageOrder PROVE Hands'
<1>1. UNCHANGED <<orders, client>> /\ Issued' = Issued
      /\ staged' = staged \union {loop.order} /\ loop'.at = "idle" /\ loop.at # "idle"
  BY DEF StageOrder, AtRest, Issued
<1>2. Open(loop.order)
  BY <1>1 DEF IInv, InOneHand
<1>3. OneEnd' /\ FoundExpired'
  BY <1>1, <1>2 DEF IInv, OneEnd, FoundExpired, Live, Open
<1>4. InOneHand'
  BY <1>1, <1>2 DEF IInv, InOneHand, Open
<1> QED
  BY <1>3, <1>4 DEF Hands

LEMMA ClockHands ==
  ASSUME IInv,
         Tick \/ Midnight \/ \E m \in Mandates, d \in Int : UpdateMandatePnl(m, d)
  PROVE  Hands'
<1>1. UNCHANGED <<staged, client, loop>>
  BY DEF Tick, Midnight, UpdateMandatePnl, desk
<1>2. /\ Issued' = Issued
      /\ \A p \in Issued : /\ orders'[p].ends = orders[p].ends
                           /\ orders[p].age > TokenTTL => orders'[p].age > TokenTTL
  <2>1. CASE Tick
    BY <2>1, TickFacts DEF IInv, Issued
  <2>2. CASE orders' = orders
    BY <2>2 DEF Issued
  <2>3. Tick \/ orders' = orders
    BY DEF Midnight, UpdateMandatePnl, desk
  <2> QED
    BY <2>1, <2>2, <2>3
<1>3. \A p \in Issued : ~Live(p) => ~Live(p)'
  <2>1. \A p \in Issued : orders[p].age \in Nat /\ TokenTTL \in Nat
    <3>1. \A p \in Issued : orders[p] \in Order
      BY ElementOfSeq DEF IInv, TypeOK, Issued
    <3> QED
      BY <3>1, CoordinationBounds DEF Order
  <2>2. orders' \in Seq(Order) /\ \A p \in Issued : orders'[p] \in Order
    <3>1. orders' \in Seq(Order)
      BY ClockType, TickFacts DEF IInv, TypeOK, Tick, Midnight, UpdateMandatePnl, desk
    <3> QED
      BY <1>2, <3>1, ElementOfSeq DEF Issued
  <2>3. \A p \in Issued : orders'[p].age \in Nat
    BY <2>2, CoordinationBounds DEF Order
  <2> QED
    BY <1>2, <2>1, <2>3 DEF Live
<1>4. OneEnd' /\ InOneHand'
  BY <1>1, <1>2 DEF IInv, OneEnd, InOneHand, Open
<1>5. FoundExpired'
  BY <1>1, <1>2, <1>3 DEF IInv, FoundExpired
<1> QED
  BY <1>4, <1>5 DEF Hands

LEMMA ScanHands ==
  ASSUME IInv, NEW c \in Clients,
         ListStaged(c) \/ ScanOrder(c) \/ ScanEnds(c) \/ ScanRaises(c) \/ ListReturns(c)
  PROVE  Hands'
<1>1. TypeOK /\ UNCHANGED <<orders, staged, loop>> /\ Issued' = Issued
  BY DEF IInv, desk, Issued, ListStaged, ScanOrder, ScanEnds, ScanRaises, ListReturns
<1>2. CASE ScanRaises(c) \/ ListReturns(c)
  <2>1. Become(c, Free) /\ Free.at \notin {"verify", "scan", "delete"}
    BY <1>2 DEF ScanRaises, ListReturns, Free
  <2> QED
    BY <1>1, <2>1, AwayFromDesk DEF desk
<1>3. CASE ListStaged(c) \/ ScanOrder(c) \/ ScanEnds(c)
  <2>1. \E state : /\ Become(c, state) /\ state.at # "verify"
                   /\ \A o \in state.expired : o \in Issued /\ ~Live(o)
    <3>1. CASE ListStaged(c)
      BY <3>1 DEF ListStaged
    <3>2. CASE ScanOrder(c)
      <4>1. client[c] \in [at : {"scan"}, cursor : Nat, size : Nat, expired : SUBSET Nat]
        BY <1>1, <3>2, ClientFields DEF ScanOrder, ScanIntact
      <4>2. PICK o \in staged :
              Become(c, [client[c] EXCEPT !.cursor = o, !.expired = ExpiredIn(c, o)])
        BY <3>2 DEF ScanOrder, Ahead
      <4>3. \A p \in ExpiredIn(c, o) : p \in Issued /\ ~Live(p)
        BY <1>1, <4>1, <4>2 DEF ExpiredIn, IInv, FoundExpired, TypeOK
      <4> DEFINE state == [client[c] EXCEPT !.cursor = o, !.expired = ExpiredIn(c, o)]
      <4>4. state.at = "scan" /\ state.expired = ExpiredIn(c, o)
        BY <4>1
      <4> QED
        BY <4>2, <4>3, <4>4
    <3>3. CASE ScanEnds(c)
      BY <3>3 DEF ScanEnds, ScanIntact, IInv, FoundExpired
    <3> QED
      BY <1>3, <3>1, <3>2, <3>3
  <2>2. PICK state : /\ Become(c, state) /\ state.at # "verify"
                     /\ \A o \in state.expired : o \in Issued /\ ~Live(o)
    BY <2>1
  <2>3. client'[c] = state /\ \A d \in Clients \ {c} : client'[d] = client[d]
    BY <1>1, <2>2, BecomeFacts
  <2>4. OneEnd'
    BY <1>1 DEF IInv, OneEnd
  <2>5. InOneHand'
    BY <1>1, <2>2, <2>3 DEF IInv, InOneHand, Open
  <2>6. FoundExpired'
    BY <1>1, <2>2, <2>3 DEF IInv, FoundExpired, Live
  <2> QED
    BY <2>4, <2>5, <2>6 DEF Hands
<1> QED
  BY <1>2, <1>3

LEMMA DeleteHands == ASSUME IInv, NEW c \in Clients, DeleteExpired(c) PROVE Hands'
<1>1. TypeOK /\ client[c] \in [at : {"delete"}, expired : SUBSET Nat]
  BY ClientFields DEF IInv, DeleteExpired
<1>2. PICK o \in client[c].expired :
        \/ /\ o \in staged /\ staged' = staged \ {o} /\ orders' = End(o, "expired")
           /\ Become(c, [client[c] EXCEPT !.expired = @ \ {o}])
        \/ Become(c, Free) /\ UNCHANGED desk
  BY DEF DeleteExpired
<1>3. loop' = loop
  BY DEF DeleteExpired
<1>4. CASE Become(c, Free) /\ UNCHANGED desk
  BY <1>3, <1>4, AwayFromDesk DEF Free
<1>5. CASE /\ o \in staged /\ staged' = staged \ {o} /\ orders' = End(o, "expired")
           /\ Become(c, [client[c] EXCEPT !.expired = @ \ {o}])
  <2> DEFINE state == [client[c] EXCEPT !.expired = @ \ {o}]
  <2>1. state.at = "delete" /\ state.expired \subseteq client[c].expired
    BY <1>1
  <2>2. client'[c] = state /\ \A d \in Clients \ {c} : client'[d] = client[d]
    BY <1>1, <1>5, BecomeFacts
  <2>3. o \in Issued /\ orders[o].ends = <<>>
    BY <1>5 DEF IInv, TypeOK, OneEnd
  <2>4. loop'.at # "idle" => loop' = loop /\ loop.order # o
    BY <1>3, <1>5 DEF IInv, InOneHand, Open
  <2>5. \A d \in Clients : client'[d].at = "verify" => client'[d] = client[d] /\ client[d].order # o
    BY <1>5, <2>1, <2>2 DEF IInv, InOneHand, Open
  <2>6. \A d \in Clients : client'[d].at \in {"scan", "delete"} =>
          client[d].at \in {"scan", "delete"} /\ client'[d].expired \subseteq client[d].expired
    BY <1>1, <2>1, <2>2
  <2> QED
    BY <1>5, <2>3, <2>4, <2>5, <2>6, EndHands DEF Outcome
<1> QED
  BY <1>2, <1>4, <1>5

LEMMA ExecuteHands ==
  ASSUME IInv, NEW c \in Clients, NEW o \in staged, ExecuteStaged(c, o)
  PROVE  Hands'
<1>1. TypeOK /\ UNCHANGED <<orders, loop>> /\ Issued' = Issued /\ staged' = staged \ {o}
      /\ Become(c, [at |-> "verify", order |-> o])
  BY DEF IInv, Issued, ExecuteStaged, LeftByPop
<1>2. client'[c] = [at |-> "verify", order |-> o] /\ \A d \in Clients \ {c} : client'[d] = client[d]
  BY <1>1, BecomeFacts
<1>3. o \in Issued /\ orders[o].ends = <<>>
  BY DEF IInv, TypeOK, OneEnd
<1>4. OneEnd'
  BY <1>1 DEF IInv, OneEnd
<1>5. InOneHand'
  <2>1. loop'.at # "idle" => Open(loop.order)' /\ loop'.order # o
    BY <1>1 DEF IInv, InOneHand, Open
  <2>2. ASSUME NEW d \in Clients \ {c}, client'[d].at = "verify"
        PROVE  /\ Open(client[d].order)' /\ client'[d].order # o
               /\ loop'.at # "idle" => loop'.order # client'[d].order
               /\ \A e \in Clients \ {c, d} :
                    client'[e].at = "verify" => client'[e].order # client'[d].order
    BY <1>1, <1>2, <2>2 DEF IInv, InOneHand, Open
  <2>3. Open(o)'
    BY <1>1, <1>3 DEF Open
  <2> QED
    BY <1>1, <1>2, <2>1, <2>2, <2>3 DEF InOneHand
<1>6. FoundExpired'
  BY <1>1, <1>2 DEF IInv, FoundExpired, Live
<1> QED
  BY <1>4, <1>5, <1>6 DEF Hands

LEMMA VerifyHands == ASSUME IInv, NEW c \in Clients, VerifyToken(c) PROVE Hands'
<1> DEFINE o == client[c].order
<1>1. client[c].at = "verify" /\ loop' = loop /\ staged' = staged /\ Become(c, Free)
  BY DEF VerifyToken
<1>2. Open(o)
  BY <1>1 DEF IInv, InOneHand
<1>3. PICK e \in Outcome : orders' = End(o, e)
  BY DEF VerifyToken, Outcome
<1>4. client'[c] = Free /\ \A d \in Clients \ {c} : client'[d] = client[d]
  BY <1>1, BecomeFacts DEF IInv
<1>5. Free.at = "free"
  BY DEF Free
<1>6. loop.at # "idle" => loop.order # o
  BY <1>1 DEF IInv, InOneHand
<1>7. \A d \in Clients : client'[d].at = "verify" => client'[d] = client[d] /\ client[d].order # o
  BY <1>1, <1>4, <1>5 DEF IInv, InOneHand
<1>8. \A d \in Clients : client'[d].at \in {"scan", "delete"} =>
        client[d].at \in {"scan", "delete"} /\ client'[d].expired \subseteq client[d].expired
  BY <1>4, <1>5
<1>9. o \in Issued /\ orders[o].ends = <<>> /\ staged' = staged \ {o}
  BY <1>1, <1>2 DEF Open
<1> QED
  BY <1>1, <1>3, <1>6, <1>7, <1>8, <1>9, EndHands

LEMMA RejectHands ==
  ASSUME IInv, NEW c \in Clients, NEW o \in staged, RejectStaged(c, o)
  PROVE  Hands'
<1>1. /\ loop' = loop /\ client' = client /\ staged' = staged \ {o}
      /\ orders' = End(o, "rejected") /\ "rejected" \in Outcome
  BY DEF RejectStaged, Outcome
<1>2. o \in Issued /\ orders[o].ends = <<>>
  BY DEF IInv, TypeOK, OneEnd
<1>3. loop.at # "idle" => loop.order # o
  BY DEF IInv, InOneHand, Open
<1>4. \A d \in Clients : client[d].at = "verify" => client[d].order # o
  BY DEF IInv, InOneHand, Open
<1> QED
  BY <1>1, <1>2, <1>3, <1>4, EndHands

LEMMA RestartHands == ASSUME IInv, Restart PROVE Hands'
<1>1. /\ staged' = {} /\ loop'.at = "idle" /\ \A c \in Clients : client'[c].at = "free"
  BY DEF Restart, AtRest, Free
<1>2. Issued' = Issued
  BY RestartType DEF Restart, Issued, IInv, TypeOK
<1>3. \A o \in Issued : Len(orders'[o].ends) <= 1
  <2> TAKE o \in Issued
  <2>1. orders[o] \in Order
    BY ElementOfSeq DEF IInv, TypeOK, Issued
  <2>2. CASE orders[o].ends = <<>>
    <3>1. orders'[o].ends = <<"lost">>
      BY <2>1, <2>2 DEF Restart, Order
    <3> QED
      BY <3>1
  <2>3. CASE orders[o].ends # <<>>
    BY <2>3 DEF Restart, IInv, OneEnd
  <2> QED
    BY <2>2, <2>3
<1> QED
  BY <1>1, <1>2, <1>3 DEF Hands, OneEnd, InOneHand, FoundExpired

-----------------------------------------------------------------------------
(* Mandates.                                                               *)

Lateness == AtMostOneLateApproval /\ LateWasMatched

\* Whatever neither approves nor changes a status, and leaves the loop's order
\* and its mandate alone or lets it go, leaves the lateness as it was.
LEMMA SameLateness ==
  ASSUME IInv, UNCHANGED <<registry, late>>,
         loop'.at = "matched" =>
           /\ loop' = loop
           /\ orders'[loop.order].mandate = orders[loop.order].mandate
  PROVE  Lateness'
BY DEF IInv, Lateness, AtMostOneLateApproval, LateWasMatched

LEMMA MatchLateness ==
  ASSUME IInv, NEW m \in Mandates, NEW n \in Notionals, MatchMandate(m, n)
  PROVE  Lateness'
<1>1. UNCHANGED <<registry, late>> /\ registry[m] = "active"
      /\ loop' = [at |-> "matched", order |-> Len(orders) + 1]
  BY DEF MatchMandate, governance, Matches
<1>2. orders'[Len(orders) + 1].mandate = m
  BY IssueFacts DEF IInv, MatchMandate
<1> QED
  BY <1>1, <1>2 DEF IInv, Lateness, AtMostOneLateApproval, LateWasMatched

LEMMA ApproveLateness == ASSUME IInv, Approve PROVE Lateness'
<1> DEFINE m == orders[loop.order].mandate
<1>1. /\ loop.at = "matched" /\ loop'.at = "approved" /\ registry' = registry
      /\ late' = IF registry[m] = "active" \/ late[m] = 2 THEN late ELSE [late EXCEPT ![m] = @ + 1]
  BY DEF Approve, governance, IInv, TypeOK
<1>2. LateWasMatched'
  <2> SUFFICES ASSUME NEW n \in Mandates, late'[n] >= 1 PROVE registry[n] # "active"
    BY <1>1 DEF LateWasMatched
  <2>1. late \in [Mandates -> 0..2]
    BY DEF IInv, TypeOK
  <2>2. CASE late[n] >= 1
    BY <2>2 DEF IInv, LateWasMatched
  <2>3. CASE ~(late[n] >= 1)
    <3>1. n = m /\ registry[m] # "active"
      BY <1>1, <2>1, <2>3
    <3> QED
      BY <3>1
  <2> QED
    BY <2>2, <2>3
<1>3. AtMostOneLateApproval'
  <2>1. CASE late' = late
    BY <2>1 DEF IInv, AtMostOneLateApproval
  <2>2. CASE registry[m] # "active" /\ late' = [late EXCEPT ![m] = @ + 1]
    <3>1. late \in [Mandates -> 0..2]
      BY DEF IInv, TypeOK
    <3>2. m \in Mandates => ~(late[m] >= 1)
      BY <1>1, <2>2 DEF IInv, LateWasMatched
    <3>3. m \in Mandates => late[m] + 1 <= 1
      BY <3>1, <3>2
    <3> QED
      BY <2>2, <3>1, <3>3 DEF IInv, AtMostOneLateApproval
  <2> QED
    BY <1>1, <2>1, <2>2
<1> QED
  BY <1>2, <1>3 DEF Lateness

LEMMA StoreLateness == ASSUME IInv, NEW c \in Clients, StoreStatus(c) PROVE Lateness'
<1> DEFINE m == client[c].mandate
           status == client[c].status
<1>1. /\ UNCHANGED <<orders, loop>> /\ registry' = [registry EXCEPT ![m] = status]
      /\ late' = IF status = "active" THEN [late EXCEPT ![m] = 0] ELSE late
  BY DEF StoreStatus, desk
<1>2. registry \in [Mandates -> Status] /\ late \in [Mandates -> 0..2]
  BY DEF IInv, TypeOK
<1>3. AtMostOneLateApproval'
  BY <1>1, <1>2 DEF IInv, AtMostOneLateApproval
<1>4. LateWasMatched'
  <2> SUFFICES ASSUME NEW n \in Mandates, late'[n] >= 1
               PROVE  registry'[n] # "active"
                      /\ ~(loop.at = "matched" /\ orders[loop.order].mandate = n)
    BY <1>1 DEF LateWasMatched
  <2>1. late[n] >= 1 /\ (n = m => status # "active")
    BY <1>1, <1>2
  <2>2. registry[n] # "active" /\ ~(loop.at = "matched" /\ orders[loop.order].mandate = n)
    BY <2>1 DEF IInv, LateWasMatched
  <2> QED
    BY <1>1, <1>2, <2>1, <2>2
<1> QED
  BY <1>3, <1>4 DEF Lateness

LEMMA RestartLateness == ASSUME IInv, Restart PROVE Lateness'
BY DEF Restart, Lateness, AtMostOneLateApproval, LateWasMatched

-----------------------------------------------------------------------------
(* The invariant.                                                          *)

LEMMA InitInv == Init => IInv
<1> SUFFICES ASSUME Init PROVE IInv
  OBVIOUS
<1>1. TypeOK
  BY InitType
<1>2. Issued = {} /\ staged = {}
  BY DEF Init, Issued
<1>3. loop.at = "idle" /\ \A c \in Clients : client[c].at = "free"
  BY DEF Init, AtRest, Free
<1>4. \A m \in Mandates : late[m] = 0
  BY DEF Init
<1>5. OneEnd /\ InOneHand /\ FoundExpired
  BY <1>2, <1>3 DEF OneEnd, InOneHand, FoundExpired
<1>6. AtMostOneLateApproval /\ LateWasMatched
  BY <1>4 DEF AtMostOneLateApproval, LateWasMatched
<1> QED
  BY <1>1, <1>5, <1>6 DEF IInv

LEMMA LoopStep == ASSUME IInv, Coordinate PROVE IInv'
<1>1. ASSUME NEW m \in Mandates, NEW n \in Notionals, MatchMandate(m, n)
      PROVE  TypeOK' /\ Hands' /\ Lateness'
  BY <1>1, MatchType, MatchHands, MatchLateness
<1>2. CASE Approve
  BY <1>2, ApproveType, ApproveHands, ApproveLateness DEF IInv, Hands, Lateness
<1>3. CASE Refuse
  <2>1. Lateness'
    BY <1>3, SameLateness DEF Refuse, AtRest, governance
  <2> QED
    BY <1>3, <2>1, RefuseType, LoopEndHands DEF IInv, Hands, Lateness
<1>4. CASE StageOrder
  <2>1. Lateness'
    BY <1>4, SameLateness DEF StageOrder, AtRest, governance
  <2> QED
    BY <1>4, <2>1, StageType, StageHands DEF IInv, Hands, Lateness
<1>5. CASE Submit
  <2>1. Lateness'
    BY <1>5, SameLateness DEF Submit, AtRest, governance
  <2> QED
    BY <1>5, <2>1, SubmitType, LoopEndHands DEF IInv, Hands, Lateness
<1> QED
  BY <1>1, <1>2, <1>3, <1>4, <1>5 DEF Coordinate, IInv, Hands, Lateness

\* A request that ends an order ends none that the loop holds.
LEMMA EndsElsewhere ==
  ASSUME IInv, loop.at = "matched", NEW o \in Issued, orders[o].ends = <<>>,
         NEW e \in Outcome, orders' = End(o, e)
  PROVE  orders'[loop.order].mandate = orders[loop.order].mandate
<1>1. loop.order \in Issued
  BY DEF IInv, InOneHand, Open
<1> QED
  BY <1>1, EndFacts DEF IInv

LEMMA ListStep ==
  ASSUME IInv, NEW c \in Clients,
         ListStaged(c) \/ ScanOrder(c) \/ ScanEnds(c) \/ ScanRaises(c) \/ ListReturns(c)
  PROVE  IInv'
<1>1. UNCHANGED <<registry, late, orders, loop>>
  BY DEF ListStaged, ScanOrder, ScanEnds, ScanRaises, ListReturns, governance, desk
<1>2. Lateness'
  BY <1>1, SameLateness
<1> QED
  BY <1>2, ListType, ScanHands DEF IInv, Hands, Lateness

LEMMA DeskStep ==
  ASSUME IInv, NEW c \in Clients,
         \/ DeleteExpired(c) \/ VerifyToken(c)
         \/ \E o \in staged : ExecuteStaged(c, o) \/ RejectStaged(c, o)
  PROVE  IInv'
<1>1. TypeOK'
  BY DeskType
<1>2. UNCHANGED <<registry, late, loop>>
  BY DEF DeleteExpired, VerifyToken, ExecuteStaged, RejectStaged, governance
<1>3. \/ UNCHANGED orders
      \/ \E o \in Issued, e \in Outcome : orders[o].ends = <<>> /\ orders' = End(o, e)
  <2>1. CASE DeleteExpired(c)
    BY <2>1 DEF DeleteExpired, desk, Outcome, IInv, TypeOK, OneEnd
  <2>2. CASE VerifyToken(c)
    BY <2>2 DEF VerifyToken, Outcome, IInv, InOneHand, Open
  <2>3. ASSUME NEW o \in staged, RejectStaged(c, o)
        PROVE  \E p \in Issued, e \in Outcome : orders[p].ends = <<>> /\ orders' = End(p, e)
    BY <2>3 DEF RejectStaged, Outcome, IInv, TypeOK, OneEnd
  <2>4. ASSUME NEW o \in staged, ExecuteStaged(c, o) PROVE UNCHANGED orders
    BY <2>4 DEF ExecuteStaged
  <2> QED
    BY <2>1, <2>2, <2>3, <2>4
<1>4. Lateness'
  <2>1. loop.at = "matched" => orders'[loop.order].mandate = orders[loop.order].mandate
    BY <1>3, EndsElsewhere
  <2> QED
    BY <1>2, <2>1, SameLateness
<1>5. Hands'
  BY DeleteHands, VerifyHands, ExecuteHands, RejectHands
<1> QED
  BY <1>1, <1>4, <1>5 DEF IInv, Hands, Lateness

LEMMA UpdateStep ==
  ASSUME IInv, NEW c \in Clients,
         \/ StoreStatus(c) \/ AppendStatus(c)
         \/ \E m \in Mandates, status \in Status : BeginUpdate(c, m, status)
  PROVE  IInv'
<1>1. TypeOK'
  BY UpdateType
<1>2. UNCHANGED <<desk, loop>>
  BY DEF StoreStatus, AppendStatus, BeginUpdate
<1>3. Hands'
  <2>1. CASE StoreStatus(c)
    <3>1. [client[c] EXCEPT !.at = "append"].at = "append"
      BY <2>1, ClientFields DEF StoreStatus, IInv
    <3> QED
      BY <1>2, <2>1, <3>1, AwayFromDesk DEF StoreStatus
  <2>2. CASE AppendStatus(c)
    BY <1>2, <2>2, AwayFromDesk DEF AppendStatus, Free
  <2>3. ASSUME NEW m \in Mandates, NEW status \in Status, BeginUpdate(c, m, status) PROVE Hands'
    BY <1>2, <2>3, AwayFromDesk DEF BeginUpdate
  <2> QED
    BY <2>1, <2>2, <2>3
<1>4. Lateness'
  <2>1. CASE StoreStatus(c)
    BY <2>1, StoreLateness
  <2>2. CASE UNCHANGED <<registry, late>>
    BY <1>2, <2>2, SameLateness DEF desk
  <2>3. StoreStatus(c) \/ UNCHANGED <<registry, late>>
    BY DEF AppendStatus, BeginUpdate, governance
  <2> QED
    BY <2>1, <2>2, <2>3
<1> QED
  BY <1>1, <1>3, <1>4 DEF IInv, Hands, Lateness

LEMMA ClockStep ==
  ASSUME IInv,
         Tick \/ Midnight \/ \E m \in Mandates, d \in Int : UpdateMandatePnl(m, d)
  PROVE  IInv'
<1>1. TypeOK'
  BY ClockType, PnlType
<1>2. Hands'
  BY ClockHands
<1>3. UNCHANGED <<registry, late, loop>>
  BY DEF Tick, Midnight, UpdateMandatePnl, governance
<1>4. loop.at = "matched" => orders'[loop.order].mandate = orders[loop.order].mandate
  <2>1. loop.at = "matched" => loop.order \in Issued
    BY DEF IInv, InOneHand, Open
  <2>2. CASE Tick
    BY <2>1, <2>2, TickFacts DEF IInv
  <2>3. CASE UNCHANGED orders
    BY <2>3
  <2>4. Tick \/ UNCHANGED orders
    BY DEF Midnight, UpdateMandatePnl, desk
  <2> QED
    BY <2>2, <2>3, <2>4
<1>5. Lateness'
  BY <1>3, <1>4, SameLateness
<1> QED
  BY <1>1, <1>2, <1>5 DEF IInv, Hands, Lateness

LEMMA RestartStep == ASSUME IInv, Restart PROVE IInv'
BY RestartType, RestartHands, RestartLateness DEF IInv, Hands, Lateness

LEMMA StutterStep == ASSUME IInv, UNCHANGED vars PROVE IInv'
<1>1. /\ UNCHANGED <<registry, journal, tracker, today, staging, orders, staged, loop>>
      /\ UNCHANGED <<client, late, requests, days, restarts>> /\ Issued' = Issued
  BY DEF vars, governance, budget, desk, counters, Issued
<1> QED
  BY <1>1 DEF IInv, TypeOK, AtMostOneLateApproval, LateWasMatched, OneEnd, InOneHand,
     Open, FoundExpired, Live

LEMMA NextInv == ASSUME IInv, [Next]_vars PROVE IInv'
<1>1. ASSUME NEW c \in Clients, Handle(c) PROVE IInv'
  BY <1>1, ListStep, DeskStep, UpdateStep DEF Handle
<1>2. ASSUME NEW m \in Mandates, NEW d \in Moves,
             UpdateMandatePnl(m, d) \/ UpdateMandatePnl(m, -d)
      PROVE  IInv'
  <2>1. d \in Int /\ -d \in Int
    BY CoordinationBounds
  <2> QED
    BY <1>2, <2>1, ClockStep
<1> QED
  BY <1>1, <1>2, LoopStep, ClockStep, RestartStep, StutterStep DEF Next

\* The inductive invariant holds, whatever the numbers of mandates, request
\* threads, orders and requests, and the limits of a mandate.
THEOREM Invariance == Spec => []IInv
BY InitInv, NextInv, PTL DEF Spec

\* The state always has its shape.
THEOREM TypeCorrect == Spec => []TypeOK
<1>1. IInv => TypeOK
  BY DEF IInv
<1> QED
  BY <1>1, Invariance, PTL

\* A paused or revoked mandate is followed by at most one approval.
THEOREM OneLateApproval == Spec => []AtMostOneLateApproval
<1>1. IInv => AtMostOneLateApproval
  BY DEF IInv
<1> QED
  BY <1>1, Invariance, PTL

\* An order meets one end, whoever works on the staging desk at the same time.
THEOREM OrdersEndOnce == Spec => []OneEnd
<1>1. IInv => OneEnd
  BY DEF IInv
<1> QED
  BY <1>1, Invariance, PTL

\* What a scan or an execution lets go has expired, and what an execution hands
\* over is live at that moment.
LEMMA TokenStep ==
  ASSUME IInv, [Next]_vars, NEW o \in Issued, orders'[o].ends # orders[o].ends
  PROVE  /\ orders'[o].ends \in {<<"expired">>, <<"dropped">>} => orders[o].age > TokenTTL
         /\ orders'[o].ends = <<"executed">> => orders[o].age <= TokenTTL
<1>1. TypeOK /\ orders[o].age \in Nat /\ TokenTTL \in Nat
  <2>1. orders[o] \in Order
    BY ElementOfSeq DEF IInv, TypeOK, Issued
  <2> QED
    BY <2>1, CoordinationBounds DEF Order, IInv
\* An end that is none of the three.
<1>2. ASSUME NEW e \in Outcome \ {"expired", "dropped", "executed"},
             orders'[o].ends = <<e>>
      PROVE  <<e>> \notin {<<"expired">>, <<"dropped">>, <<"executed">>}
  OBVIOUS
<1>3. ASSUME NEW p \in Issued, orders[p].ends = <<>>, NEW e \in Outcome, orders' = End(p, e)
      PROVE  p = o /\ orders'[o].ends = <<e>>
  BY <1>1, <1>3, EndFacts
<1>4. CASE Coordinate
  <2>1. PICK e \in {"refused", "submitted"} : orders' = End(loop.order, e) /\ loop.at # "idle"
    <3>1. Refuse \/ Submit
      BY <1>1, <1>4, IssueFacts DEF Coordinate, MatchMandate, Approve, StageOrder, desk
    <3> QED
      BY <3>1 DEF Refuse, Submit
  <2>2. loop.order \in Issued /\ orders[loop.order].ends = <<>>
    BY <2>1 DEF IInv, InOneHand, Open
  <2> QED
    BY <1>2, <1>3, <2>1, <2>2 DEF Outcome
<1>5. ASSUME NEW c \in Clients, Handle(c)
      PROVE  /\ orders'[o].ends \in {<<"expired">>, <<"dropped">>} => orders[o].age > TokenTTL
             /\ orders'[o].ends = <<"executed">> => orders[o].age <= TokenTTL
  <2>1. \/ DeleteExpired(c) \/ VerifyToken(c) \/ \E p \in staged : RejectStaged(c, p)
    BY <1>5 DEF Handle, ListStaged, ScanOrder, ScanEnds, ScanRaises, ListReturns,
       ExecuteStaged, BeginUpdate, StoreStatus, AppendStatus, desk
  <2>2. CASE DeleteExpired(c)
    <3>1. PICK p \in client[c].expired : p \in staged /\ orders' = End(p, "expired")
      BY <2>2 DEF DeleteExpired, desk
    <3>2. p \in Issued /\ orders[p].ends = <<>> /\ ~Live(p)
      BY <2>2, <3>1 DEF DeleteExpired, IInv, FoundExpired, OneEnd
    <3>3. p = o /\ orders'[o].ends = <<"expired">>
      BY <1>3, <3>1, <3>2 DEF Outcome
    <3> QED
      BY <1>1, <3>2, <3>3 DEF Live
  <2>3. CASE VerifyToken(c)
    <3> DEFINE p == client[c].order
               e == IF Live(p) THEN "executed" ELSE "dropped"
    <3>1. orders' = End(p, e) /\ e \in Outcome
      BY <2>3 DEF VerifyToken, Outcome
    <3>2. p \in Issued /\ orders[p].ends = <<>>
      BY <2>3 DEF VerifyToken, IInv, InOneHand, Open
    <3>3. p = o /\ orders'[o].ends = <<e>>
      BY <1>3, <3>1, <3>2
    <3> QED
      BY <1>1, <3>3 DEF Live
  <2>4. ASSUME NEW p \in staged, RejectStaged(c, p)
        PROVE  orders'[o].ends = <<"rejected">>
    BY <1>3, <2>4 DEF RejectStaged, Outcome, IInv, TypeOK, OneEnd
  <2> QED
    BY <1>2, <2>1, <2>2, <2>3, <2>4 DEF Outcome
<1>6. CASE Tick
  BY <1>1, <1>6, TickFacts
<1>7. CASE Restart
  <2>1. orders[o] \in Order
    BY ElementOfSeq DEF IInv, TypeOK, Issued
  <2>2. orders'[o].ends = <<"lost">>
    BY <1>7, <2>1 DEF Restart, Order
  <2> QED
    BY <1>2, <2>2 DEF Outcome
<1>8. CASE UNCHANGED orders
  BY <1>8
<1>9. Coordinate \/ (\E c \in Clients : Handle(c)) \/ Tick \/ Restart \/ UNCHANGED orders
  BY DEF Next, UpdateMandatePnl, Midnight, desk, vars
<1> QED
  BY <1>4, <1>5, <1>6, <1>7, <1>8, <1>9

\* Expiry and execution follow the token, for any interleaving with the loop.
THEOREM TokensDecide == Spec => TokenDecides
<1>1. IInv /\ [Next]_vars =>
        [\A o \in Issued : orders'[o].ends # orders[o].ends =>
           /\ orders'[o].ends \in {<<"expired">>, <<"dropped">>} => orders[o].age > TokenTTL
           /\ orders'[o].ends = <<"executed">> => orders[o].age <= TokenTTL]_vars
  BY TokenStep
<1> QED
  BY <1>1, Invariance, PTL DEF Spec, TokenDecides

-----------------------------------------------------------------------------
(* Evolution: sets and sequences *)

\* Induction over the subsets of a finite set.
LEMMA SubsetInduction ==
  ASSUME NEW D, IsFiniteSet(D), NEW T,
         \A s \in SUBSET D : (\A r \in SUBSET s : r # s => r \in T) => s \in T
  PROVE  SUBSET D \subseteq T
<1> DEFINE W == {s \in SUBSET D : s \notin T}
<1>1. SUFFICES ASSUME W # {} PROVE FALSE OBVIOUS
<1>2. IsWellFoundedOn(StrictSubsetOrdering(D), SUBSET D)
  BY FS_FiniteSubsetsOfFinite, FS_StrictSubsetOrderingWellFounded
<1>3. PICK s \in W : \A r \in W : <<r, s>> \notin StrictSubsetOrdering(D)
  <2>1. W \subseteq SUBSET D OBVIOUS
  <2> HIDE DEF W
  <2> QED BY <1>1, <1>2, <2>1, WFMin
<1>4. \A r \in SUBSET s : r # s => r \in T
  BY <1>3 DEF StrictSubsetOrdering
<1> QED BY <1>3, <1>4

\* A finite set of integers that is not empty has a greatest element.
LEMMA MaxOfFinite ==
  ASSUME NEW D \in SUBSET Int, IsFiniteSet(D)
  PROVE  \A s \in SUBSET D : s # {} => Max(s) \in s /\ \A y \in s : Max(s) >= y
<1> DEFINE HasMax(s) == \E x \in s : \A y \in s : x >= y
           T == {s \in SUBSET D : s # {} => HasMax(s)}
<1>1. ASSUME NEW s \in SUBSET D, \A r \in SUBSET s : r # s => r \in T, s # {}
      PROVE  HasMax(s)
  <2>1. PICK x \in s : TRUE BY <1>1
  <2>2. CASE s \ {x} = {}
    <3>1. s = {x} BY <2>1, <2>2
    <3>2. x \in Int /\ x >= x OBVIOUS
    <3> QED BY <3>1, <3>2
  <2>3. CASE s \ {x} # {}
    <3>1. s \ {x} \in T BY <1>1
    <3>2. PICK m \in s \ {x} : \A y \in s \ {x} : m >= y BY <2>3, <3>1
    <3>3. x \in Int /\ m \in Int OBVIOUS
    <3>4. CASE m >= x BY <3>2, <3>4
    <3>5. CASE ~(m >= x)
      <4>1. \A y \in s : x >= y BY <3>2, <3>3, <3>5
      <4> QED BY <4>1
    <3> QED BY <3>4, <3>5
  <2> QED BY <2>2, <2>3
<1>2. SUBSET D \subseteq T
  <2>1. \A s \in SUBSET D : (\A r \in SUBSET s : r # s => r \in T) => s \in T BY <1>1
  <2> HIDE DEF T
  <2> QED BY <2>1, SubsetInduction
<1> QED BY <1>2 DEF Max

\* A sequence of anything, one longer.
LEMMA OneMore ==
  ASSUME NEW s, s \in Seq(Range(s)), NEW x
  PROVE  /\ Append(s, x) \in Seq(Range(Append(s, x))) /\ Len(s) \in Nat
         /\ Len(Append(s, x)) = Len(s) + 1 /\ Append(s, x)[Len(s) + 1] = x
         /\ \A i \in 1..Len(s) : Append(s, x)[i] = s[i]
<1> DEFINE S == Range(s) \union {x}
           a == Append(s, x)
<1>1. s \in Seq(S) /\ x \in S
  <2>1. Len(s) \in Nat /\ DOMAIN s = 1..Len(s) BY EmptySeq
  <2>2. \A i \in 1..Len(s) : s[i] \in S BY <2>1 DEF Range
  <2>3. s \in [1..Len(s) -> S] BY <2>1, <2>2
  <2> HIDE DEF S
  <2>4. s \in Seq(S) BY <2>1, <2>3
  <2> QED BY <2>4 DEF S
<1> HIDE DEF S
<1>2. /\ a \in Seq(S) /\ Len(a) = Len(s) + 1 /\ a[Len(s) + 1] = x
      /\ \A i \in 1..Len(s) : a[i] = s[i] /\ Len(s) \in Nat
  BY <1>1, AppendProperties
<1> HIDE DEF a
<1>3. Len(a) \in Nat /\ DOMAIN a = 1..Len(a) BY <1>2
<1>4. \A i \in 1..Len(a) : a[i] \in Range(a) BY <1>3 DEF Range
<1>5. a = [i \in 1..Len(a) |-> a[i]] BY <1>2, <1>3
<1>6. a \in [1..Len(a) -> Range(a)] BY <1>4, <1>5
<1>7. a \in Seq(Range(a)) BY <1>3, <1>6
<1>8. Len(s) \in Nat BY EmptySeq
<1> QED BY <1>2, <1>7, <1>8 DEF a

-----------------------------------------------------------------------------
(* Evolution: the inductive invariant *)

\* Parameters are tuned within their bounds, and only those of registered agents.
WithinBounds ==
  /\ DOMAIN tuned \subseteq Agents /\ DOMAIN modified = DOMAIN tuned
  /\ \A a \in DOMAIN tuned :
       /\ DOMAIN tuned[a] = DOMAIN Tuning[a]
       /\ \A p \in DOMAIN tuned[a] : tuned[a][p] \in Tuning[a][p].lo..Tuning[a][p].hi

\* What was changed was a parameter of a registered agent.
Told ==
  /\ history \in Seq(Range(history)) /\ trial \in Seq(Range(trial)) /\ Len(trial) \in {0, 1}
  /\ \A i \in 1..Len(history) : history[i].agent \in DOMAIN tuned
  /\ trial # << >> =>
       /\ DOMAIN Tried = {"agent", "parameter", "old", "new", "baseline", "elapsed"}
       /\ Tried.agent \in DOMAIN tuned /\ Tried.parameter \in DOMAIN tuned[Tried.agent]
       /\ Tried.elapsed \in Nat
       /\ LET b == Tuning[Tried.agent][Tried.parameter] IN Tried.old \in b.lo..b.hi

\* How often an agent was changed, and the cycles that it took.
Changes(a) == {i \in 1..Len(history) : history[i].agent = a}
Times(a) == Cardinality(Changes(a)) + (IF trial # << >> /\ Tried.agent = a THEN 1 ELSE 0)
Turn == Max({1, TrialCycles}) + 1
Seldom ==
  /\ cycle \in 0..MaxCycles
  /\ \A a \in DOMAIN tuned : Times(a) > 0 =>
       /\ modified[a] \in Nat /\ modified[a] <= cycle
       /\ (Times(a) - 1) * Cooldown + 1 <= modified[a]
  /\ Len(history) * Turn + (IF trial = << >> THEN 0 ELSE 1 + Tried.elapsed) <= cycle

EvolutionInv == WithinBounds /\ Told /\ OneChangeAtATime /\ Seldom

-----------------------------------------------------------------------------
(* Evolution: its helpers *)

LEMMA TurnFacts ==
  /\ Turn \in Nat /\ Turn >= 2 /\ Turn >= TrialCycles + 1
  /\ \A n \in Int : n + 1 >= 1 /\ n + 1 >= TrialCycles => n + 2 >= Turn
<1>1. {1, TrialCycles} \in SUBSET Int /\ IsFiniteSet({1, TrialCycles})
  <2>1. IsFiniteSet({1}) /\ {1, TrialCycles} = {1} \union {TrialCycles} BY FS_Singleton
  <2>2. IsFiniteSet({1} \union {TrialCycles}) BY <2>1, FS_AddElement
  <2> QED BY <2>1, <2>2, TrialAssumption
<1>2. /\ Max({1, TrialCycles}) \in {1, TrialCycles}
      /\ \A y \in {1, TrialCycles} : Max({1, TrialCycles}) >= y
  BY <1>1, MaxOfFinite
<1> DEFINE m == Max({1, TrialCycles})
<1> HIDE DEF m
<1>3. m \in {1, TrialCycles} /\ m >= 1 /\ m >= TrialCycles BY <1>2 DEF m
<1>4. Turn = m + 1 BY DEF Turn, m
<1> QED BY <1>3, <1>4, TrialAssumption

\* The greatest and the least of two numbers.
LEMMA MaxOfTwo ==
  ASSUME NEW x \in Int, NEW y \in Int
  PROVE  Max({x, y}) = IF x >= y THEN x ELSE y
<1>1. {x, y} \in SUBSET Int /\ IsFiniteSet({x, y})
  <2>1. IsFiniteSet({x}) /\ {x, y} = {x} \union {y} BY FS_Singleton
  <2> QED BY <2>1, FS_AddElement
<1>2. Max({x, y}) \in {x, y} /\ \A z \in {x, y} : Max({x, y}) >= z BY <1>1, MaxOfFinite
<1> QED BY <1>2

LEMMA MinOfTwo ==
  ASSUME NEW x \in Int, NEW y \in Int
  PROVE  Min({x, y}) = IF x <= y THEN x ELSE y
<1> DEFINE m == IF x <= y THEN x ELSE y
<1>1. m \in {x, y} /\ \A z \in {x, y} : m <= z OBVIOUS
<1>2. Min({x, y}) \in {x, y} /\ \A z \in {x, y} : Min({x, y}) <= z BY <1>1 DEF Min
<1> QED BY <1>2

LEMMA MovedWithin ==
  ASSUME NEW a \in Agents, NEW p \in DOMAIN Tuning[a], NEW v \in Int, NEW d \in {-1, 1}
  PROVE  LET b == Tuning[a][p] IN Moved(b, v, d) \in b.lo..b.hi
<1> DEFINE b == Tuning[a][p]
<1>1. b.lo \in Int /\ b.hi \in Int /\ b.step \in Nat /\ b.lo <= b.hi BY TuningAssumption
<1> HIDE DEF b
<1>2. ASSUME NEW x \in Int PROVE Within(b, x) \in b.lo..b.hi
  <2>1. Min({b.hi, x}) = IF b.hi <= x THEN b.hi ELSE x BY <1>1, MinOfTwo
  <2>2. Min({b.hi, x}) \in Int /\ Min({b.hi, x}) <= b.hi BY <1>1, <2>1
  <2>3. Within(b, x) = IF b.lo >= Min({b.hi, x}) THEN b.lo ELSE Min({b.hi, x})
    BY <1>1, <2>2, MaxOfTwo DEF Within
  <2> QED BY <1>1, <2>2, <2>3
<1>3. d * b.step \in Int BY <1>1
<1>4. v + d * b.step \in Int /\ v - d * b.step \in Int BY <1>3
<1>5. Moved(b, v, d) \in b.lo..b.hi BY <1>2, <1>4 DEF Moved
<1> QED BY <1>5 DEF b

LEMMA HistoryIndices ==
  ASSUME Told
  PROVE  /\ Len(history) \in Nat /\ DOMAIN history = 1..Len(history)
         /\ \A s \in SUBSET (1..Len(history)) : IsFiniteSet(s)
         /\ \A s \in SUBSET (1..Len(history)) : s # {} => Max(s) \in s
<1>1. Len(history) \in Nat /\ DOMAIN history = 1..Len(history) BY EmptySeq DEF Told
<1>2. IsFiniteSet(1..Len(history)) /\ 1..Len(history) \in SUBSET Int BY <1>1, FS_Interval
<1>3. \A s \in SUBSET (1..Len(history)) : IsFiniteSet(s) BY <1>2, FS_Subset
<1>4. \A s \in SUBSET (1..Len(history)) : s # {} => Max(s) \in s BY <1>2, MaxOfFinite
<1> QED BY <1>1, <1>3, <1>4

\* What a change that ends does to the value accepted for a parameter.
LEMMA AcceptedNext ==
  ASSUME Told, NEW x, history' = Append(history, x), NEW a, NEW p
  PROVE  Accepted(a, p)' = IF x.agent = a /\ x.parameter = p /\ x.status = "kept"
                           THEN x.new ELSE Accepted(a, p)
<1> DEFINE n == Len(history)
           hit(y) == y.agent = a /\ y.parameter = p /\ y.status = "kept"
           kept == {i \in 1..n : hit(history[i])}
           next == {i \in 1..n + 1 : hit(history'[i])}
<1>1. /\ n \in Nat /\ history' \in Seq(Range(history')) /\ Len(history') = n + 1
      /\ history'[n + 1] = x /\ \A i \in 1..n : history'[i] = history[i]
  BY OneMore DEF Told
<1>2. DOMAIN history = 1..n /\ DOMAIN history' = 1..n + 1 BY <1>1, HistoryIndices
<1>3. Accepted(a, p) = IF kept = {} THEN Tuning[a][p].start ELSE history[Max(kept)].new
  BY <1>2 DEF Accepted
<1>4. Accepted(a, p)' = IF next = {} THEN Tuning[a][p].start ELSE history'[Max(next)].new
  BY <1>2 DEF Accepted
<1>5. CASE hit(x)
  <2>1. n + 1 \in next BY <1>1, <1>5
  <2>2. next \in SUBSET (1..n + 1) OBVIOUS
  <2>3. next \in SUBSET Int /\ IsFiniteSet(next)
    <3>1. IsFiniteSet(1..n + 1) BY <1>1, FS_Interval
    <3> QED BY <3>1, FS_Subset
  <2> HIDE DEF next
  <2>4. Max(next) \in next /\ \A y \in next : Max(next) >= y BY <2>1, <2>3, MaxOfFinite
  <2>5. Max(next) \in 1..n + 1 /\ Max(next) >= n + 1 BY <2>1, <2>2, <2>4
  <2>6. Max(next) = n + 1 BY <1>1, <2>5
  <2> QED BY <1>1, <1>4, <1>5, <2>1, <2>6
<1>6. CASE ~hit(x)
  <2>1. next = kept
    <3>1. \A i \in 1..n + 1 : i \in 1..n \/ i = n + 1 BY <1>1
    <3>2. \A i \in 1..n : i \in 1..n + 1 BY <1>1
    <3> QED BY <1>1, <1>6, <3>1, <3>2
  <2>2. kept # {} => Max(kept) \in 1..n
    <3>1. kept \in SUBSET (1..n) OBVIOUS
    <3> QED BY <3>1, HistoryIndices
  <2> QED BY <1>1, <1>3, <1>4, <1>6, <2>1, <2>2
<1> QED BY <1>5, <1>6

LEMMA ChangesCount ==
  ASSUME Told, NEW a
  PROVE  Cardinality(Changes(a)) \in Nat /\ (Changes(a) = {} <=> Cardinality(Changes(a)) = 0)
<1>1. IsFiniteSet(Changes(a)) BY HistoryIndices DEF Changes
<1> QED BY <1>1, FS_CardinalityType, FS_EmptySet

LEMMA ChangesNext ==
  ASSUME Told, NEW x, history' = Append(history, x), NEW a
  PROVE  Cardinality(Changes(a))' = Cardinality(Changes(a)) + IF x.agent = a THEN 1 ELSE 0
<1> DEFINE n == Len(history)
<1>1. /\ n \in Nat /\ Len(history') = n + 1
      /\ history'[n + 1] = x /\ \A i \in 1..n : history'[i] = history[i]
  BY OneMore DEF Told
<1>2. \A i \in 1..n + 1 : i \in 1..n \/ i = n + 1 BY <1>1
<1>3. \A i \in 1..n : i \in 1..n + 1 /\ i # n + 1 BY <1>1
<1>4. IsFiniteSet(Changes(a)) /\ Cardinality(Changes(a)) \in Nat
  BY HistoryIndices, ChangesCount DEF Changes
<1>5. CASE x.agent = a
  <2>1. Changes(a)' = Changes(a) \union {n + 1} BY <1>1, <1>2, <1>3, <1>5 DEF Changes
  <2>2. n + 1 \notin Changes(a) BY <1>3 DEF Changes
  <2>3. Cardinality(Changes(a) \union {n + 1}) = Cardinality(Changes(a)) + 1
    BY <1>4, <2>2, FS_AddElement
  <2> QED BY <1>5, <2>1, <2>3
<1>6. CASE x.agent # a
  <2>1. Changes(a)' = Changes(a) BY <1>1, <1>2, <1>3, <1>6 DEF Changes
  <2> QED BY <1>4, <1>6, <2>1
<1> QED BY <1>5, <1>6

LEMMA TimesTyped ==
  ASSUME Told, NEW a
  PROVE  Times(a) \in Nat /\ (a \notin DOMAIN tuned => Times(a) = 0)
<1>1. Cardinality(Changes(a)) \in Nat BY ChangesCount
<1>2. ASSUME a \notin DOMAIN tuned PROVE Changes(a) = {} /\ ~(trial # << >> /\ Tried.agent = a)
  BY <1>2 DEF Told, Changes
<1>3. Changes(a) = {} => Cardinality(Changes(a)) = 0 BY ChangesCount
<1> QED BY <1>1, <1>2, <1>3 DEF Times

\* A sequence of one element.
LEMMA OneElement ==
  ASSUME NEW x
  PROVE  <<x>> \in Seq(Range(<<x>>)) /\ Len(<<x>>) = 1 /\ <<x>>[1] = x /\ <<x>> # << >>
<1>1. Range(<<x>>) = {x}
  <2>1. DOMAIN <<x>> = {1}
    <3>1. DOMAIN <<x>> = 1..1 /\ 1..1 = {1} OBVIOUS
    <3> QED BY <3>1
  <2> QED BY <2>1 DEF Range
<1> QED BY <1>1

-----------------------------------------------------------------------------
(* Evolution: the steps *)

LEMMA ProposeKeeps == ASSUME EvolutionInv, Propose PROVE EvolutionInv'
<1> DEFINE change(a, p, new) ==
             /\ Rested(a)
             /\ trial' = <<[agent |-> a, parameter |-> p, old |-> tuned[a][p], new |-> new,
                            baseline |-> Performance(a), elapsed |-> 0]>>
             /\ tuned' = [tuned EXCEPT ![a][p] = new]
             /\ modified' = [modified EXCEPT ![a] = cycle + 1]
<1>0. PICK a \in DOMAIN tuned :
        \E p \in DOMAIN tuned[a], d \in {-1, 1} : change(a, p, Moved(Tuning[a][p], tuned[a][p], d))
  BY DEF Propose, Candidate
<1>1. PICK p \in DOMAIN tuned[a], d \in {-1, 1} : change(a, p, Moved(Tuning[a][p], tuned[a][p], d))
  BY <1>0
<1>2. /\ trial = << >> /\ cycle < MaxCycles /\ cycle' = cycle + 1
      /\ history' = history
  BY DEF Propose
<1> DEFINE new == Moved(Tuning[a][p], tuned[a][p], d)
           t == [agent |-> a, parameter |-> p, old |-> tuned[a][p], new |-> new,
                 baseline |-> Performance(a), elapsed |-> 0]
<1>3. /\ trial' = <<t>> /\ trial' # << >> /\ Len(trial') = 1 /\ Tried' = t
      /\ trial' \in Seq(Range(trial'))
  BY <1>1, OneElement DEF Tried
<1>4. /\ t.agent = a /\ t.parameter = p /\ t.old = tuned[a][p] /\ t.new = new /\ t.elapsed = 0
      /\ DOMAIN t = {"agent", "parameter", "old", "new", "baseline", "elapsed"}
  OBVIOUS
<1>5. a \in Agents /\ p \in DOMAIN Tuning[a]
      /\ tuned[a][p] \in Tuning[a][p].lo..Tuning[a][p].hi
  BY DEF EvolutionInv, WithinBounds
<1>6. tuned[a][p] \in Int BY <1>5, TuningAssumption
<1>7. new \in Tuning[a][p].lo..Tuning[a][p].hi BY <1>5, <1>6, MovedWithin
<1> HIDE DEF t, new
<1>8. /\ DOMAIN tuned' = DOMAIN tuned /\ \A b \in DOMAIN tuned : DOMAIN tuned'[b] = DOMAIN tuned[b]
      /\ \A b \in DOMAIN tuned : \A q \in DOMAIN tuned[b] :
           tuned'[b][q] = IF b = a /\ q = p THEN new ELSE tuned[b][q]
  <2>1. tuned' = [tuned EXCEPT ![a] = [tuned[a] EXCEPT ![p] = new]] BY <1>1 DEF new
  <2>2. \A b \in DOMAIN tuned : tuned'[b] = IF b = a THEN [tuned[a] EXCEPT ![p] = new] ELSE tuned[b]
    BY <2>1
  <2> QED BY <2>1, <2>2
<1>9. WithinBounds'
  <2>1. DOMAIN modified' = DOMAIN modified BY <1>1
  <2> QED BY <1>7, <1>8, <2>1 DEF EvolutionInv, WithinBounds
<1>10. Told' BY <1>2, <1>3, <1>4, <1>5, <1>8 DEF EvolutionInv, Told
<1>11. OneChangeAtATime'
  <2>1. \A b, q : Accepted(b, q)' = Accepted(b, q) BY <1>2 DEF Accepted
  <2>2. \A b \in DOMAIN tuned : \A q \in DOMAIN tuned[b] : tuned[b][q] = Accepted(b, q)
    BY <1>2 DEF EvolutionInv, OneChangeAtATime
  <2>3. ASSUME NEW b \in DOMAIN tuned', NEW q \in DOMAIN tuned'[b]
        PROVE  IF trial' # << >> /\ Tried'.agent = b /\ Tried'.parameter = q
               THEN Tried'.old = Accepted(b, q)' /\ tuned'[b][q] = Tried'.new
               ELSE tuned'[b][q] = Accepted(b, q)'
    <3>1. b \in DOMAIN tuned /\ q \in DOMAIN tuned[b] BY <1>8, <2>3
    <3>2. tuned[b][q] = Accepted(b, q)' BY <2>1, <2>2, <3>1
    <3> QED BY <1>3, <1>4, <1>8, <3>1, <3>2
  <2> QED BY <2>3 DEF OneChangeAtATime
<1>12. Seldom'
  <2>0. cycle \in 0..MaxCycles /\ cycle' \in 0..MaxCycles
    BY <1>2, TrialAssumption DEF EvolutionInv, Seldom
  <2>1. \A b : Changes(b)' = Changes(b) BY <1>2 DEF Changes
  <2>2. \A b : Times(b) = Cardinality(Changes(b)) /\ Times(b) \in Nat
    <3>1. \A b : Cardinality(Changes(b)) \in Nat BY ChangesCount DEF EvolutionInv
    <3> QED BY <1>2, <3>1 DEF Times
  <2>3. \A b : Times(b)' = Times(b) + IF b = a THEN 1 ELSE 0
    BY <1>3, <1>4, <2>1, <2>2 DEF Times
  <2>4. ASSUME NEW b \in DOMAIN tuned', Times(b)' > 0
        PROVE  /\ modified'[b] \in Nat /\ modified'[b] <= cycle'
               /\ (Times(b)' - 1) * Cooldown + 1 <= modified'[b]
    <3>1. b \in DOMAIN tuned /\ b \in DOMAIN modified BY <1>8, <2>4 DEF EvolutionInv, WithinBounds
    <3>2. CASE b # a
      <4>1. Times(b)' = Times(b) /\ modified'[b] = modified[b] BY <1>1, <2>2, <2>3, <3>1, <3>2
      <4> QED BY <1>2, <2>0, <2>4, <3>1, <4>1 DEF EvolutionInv, Seldom
    <3>3. CASE b = a
      <4>1. modified'[b] = cycle + 1 /\ Times(b)' = Times(b) + 1 BY <1>1, <2>3, <3>1, <3>3
      <4>2. CASE Times(b) = 0
        <5>1. (Times(b)' - 1) * Cooldown = 0 BY <4>1, <4>2, TrialAssumption
        <5> QED BY <1>2, <2>0, <4>1, <5>1
      <4>3. CASE Times(b) > 0
        <5> DEFINE k == Times(b)
        <5>1. k \in Nat /\ Cooldown \in Nat BY <2>2, TrialAssumption
        <5>2. modified[b] \in Nat /\ (k - 1) * Cooldown + 1 <= modified[b]
          BY <3>1, <4>3 DEF EvolutionInv, Seldom
        <5>3. cycle + 1 - modified[b] >= Cooldown BY <1>1, <3>3 DEF Rested
        <5>4. (Times(b)' - 1) * Cooldown = k * Cooldown BY <4>1, <5>1
        <5> HIDE DEF k
        <5>5. k * Cooldown = (k - 1) * Cooldown + Cooldown /\ (k - 1) * Cooldown \in Int BY <5>1
        <5>6. k * Cooldown + 1 <= cycle + 1 BY <2>0, <5>1, <5>2, <5>3, <5>5
        <5> QED BY <1>2, <2>0, <4>1, <5>4, <5>6
      <4> QED BY <2>2, <4>2, <4>3
    <3> QED BY <3>2, <3>3
  <2>5. Len(history') * Turn + (IF trial' = << >> THEN 0 ELSE 1 + Tried'.elapsed) <= cycle'
    <3> DEFINE m == Len(history) * Turn
    <3>1. m \in Int
      <4>1. Len(history) \in Nat /\ Turn \in Nat BY HistoryIndices, TurnFacts DEF EvolutionInv
      <4> QED BY <4>1
    <3>2. m + 0 <= cycle BY <1>2 DEF EvolutionInv, Seldom
    <3>3. Len(history') * Turn = m BY <1>2
    <3> HIDE DEF m
    <3>4. (IF trial' = << >> THEN 0 ELSE 1 + Tried'.elapsed) = 1 BY <1>3, <1>4
    <3> QED BY <1>2, <2>0, <3>1, <3>2, <3>3, <3>4
  <2> QED BY <2>0, <2>4, <2>5 DEF Seldom
<1> QED BY <1>9, <1>10, <1>11, <1>12 DEF EvolutionInv

LEMMA GoesOnKeeps == ASSUME EvolutionInv, TrialGoesOn PROVE EvolutionInv'
<1>1. /\ trial # << >> /\ cycle < MaxCycles /\ cycle' = cycle + 1
      /\ trial' = <<[Tried EXCEPT !.elapsed = Tried.elapsed + 1]>>
      /\ UNCHANGED <<tuned, modified, history>>
  BY DEF TrialGoesOn
<1> DEFINE t == [Tried EXCEPT !.elapsed = Tried.elapsed + 1]
<1>2. /\ trial' # << >> /\ Len(trial') = 1 /\ Tried' = t /\ trial' \in Seq(Range(trial'))
  BY <1>1, OneElement DEF Tried
<1>3. /\ t.agent = Tried.agent /\ t.parameter = Tried.parameter /\ t.old = Tried.old
      /\ t.new = Tried.new /\ t.elapsed = Tried.elapsed + 1 /\ DOMAIN t = DOMAIN Tried
  BY <1>1 DEF EvolutionInv, Told
<1> HIDE DEF t
<1>4. Tried.elapsed \in Nat BY <1>1 DEF EvolutionInv, Told
<1>5. WithinBounds' BY <1>1 DEF EvolutionInv, WithinBounds
<1>6. Told' BY <1>1, <1>2, <1>3, <1>4 DEF EvolutionInv, Told
<1>7. OneChangeAtATime'
  <2>1. \A b, q : Accepted(b, q)' = Accepted(b, q) BY <1>1 DEF Accepted
  <2> QED BY <1>1, <1>2, <1>3, <2>1 DEF EvolutionInv, OneChangeAtATime
<1>8. Seldom'
  <2>0. cycle \in 0..MaxCycles /\ cycle' \in 0..MaxCycles
    BY <1>1, TrialAssumption DEF EvolutionInv, Seldom
  <2>1. \A b : Changes(b)' = Changes(b) BY <1>1 DEF Changes
  <2>2. \A b : Times(b)' = Times(b) BY <1>1, <1>2, <1>3, <2>1 DEF Times
  <2>3. ASSUME NEW b \in DOMAIN tuned', Times(b)' > 0
        PROVE  /\ modified'[b] \in Nat /\ modified'[b] <= cycle'
               /\ (Times(b)' - 1) * Cooldown + 1 <= modified'[b]
    <3>1. /\ modified[b] \in Nat /\ modified[b] <= cycle
          /\ (Times(b) - 1) * Cooldown + 1 <= modified[b]
      BY <1>1, <2>2, <2>3 DEF EvolutionInv, Seldom
    <3> QED BY <1>1, <2>0, <2>2, <3>1
  <2>4. Len(history') * Turn + (IF trial' = << >> THEN 0 ELSE 1 + Tried'.elapsed) <= cycle'
    <3> DEFINE m == Len(history) * Turn
    <3>1. m \in Int
      <4>1. Len(history) \in Nat /\ Turn \in Nat BY HistoryIndices, TurnFacts DEF EvolutionInv
      <4> QED BY <4>1
    <3>2. m + (1 + Tried.elapsed) <= cycle BY <1>1 DEF EvolutionInv, Seldom
    <3>3. Len(history') * Turn = m BY <1>1
    <3> HIDE DEF m
    <3>4. (IF trial' = << >> THEN 0 ELSE 1 + Tried'.elapsed) = 2 + Tried.elapsed
      BY <1>2, <1>3, <1>4
    <3> QED BY <1>1, <1>4, <2>0, <3>1, <3>2, <3>3, <3>4
  <2> QED BY <2>0, <2>3, <2>4 DEF Seldom
<1> QED BY <1>5, <1>6, <1>7, <1>8 DEF EvolutionInv

LEMMA ResolveKeeps == ASSUME EvolutionInv, ResolveTrial PROVE EvolutionInv'
<1> DEFINE a == Tried.agent
           p == Tried.parameter
           kept == Improved(Tried.baseline, FinalSharpe)
           x == [agent |-> a, parameter |-> p, new |-> Tried.new,
                 status |-> IF kept THEN "kept" ELSE "reverted"]
<1>1. /\ trial # << >> /\ cycle < MaxCycles /\ cycle' = cycle + 1
      /\ Tried.elapsed + 1 >= TrialCycles
      /\ history' = Append(history, x) /\ trial' = << >> /\ modified' = modified
      /\ tuned' = IF kept THEN tuned ELSE [tuned EXCEPT ![a][p] = Tried.old]
  BY DEF ResolveTrial, AfterTrial
<1> HIDE DEF kept
<1>2. x.agent = a /\ x.parameter = p /\ x.new = Tried.new /\ (x.status = "kept" <=> kept)
  OBVIOUS
<1> HIDE DEF x
<1>3. /\ a \in DOMAIN tuned /\ p \in DOMAIN tuned[a] /\ Tried.elapsed \in Nat
      /\ Tried.old \in Tuning[a][p].lo..Tuning[a][p].hi
  BY <1>1 DEF EvolutionInv, Told
<1>4. /\ DOMAIN tuned' = DOMAIN tuned /\ \A b \in DOMAIN tuned : DOMAIN tuned'[b] = DOMAIN tuned[b]
      /\ \A b \in DOMAIN tuned : \A q \in DOMAIN tuned[b] :
           tuned'[b][q] = IF b = a /\ q = p /\ ~kept THEN Tried.old ELSE tuned[b][q]
  <2> HIDE DEF a, p
  <2>1. CASE kept BY <1>1, <2>1
  <2>2. CASE ~kept
    <3>1. tuned' = [tuned EXCEPT ![a] = [tuned[a] EXCEPT ![p] = Tried.old]] BY <1>1, <2>2
    <3>2. \A b \in DOMAIN tuned :
            tuned'[b] = IF b = a THEN [tuned[a] EXCEPT ![p] = Tried.old] ELSE tuned[b]
      BY <3>1
    <3> QED BY <2>2, <3>1, <3>2
  <2> QED BY <2>1, <2>2
<1>5. /\ Len(history) \in Nat /\ history' \in Seq(Range(history'))
      /\ Len(history') = Len(history) + 1
      /\ history'[Len(history) + 1] = x /\ \A i \in 1..Len(history) : history'[i] = history[i]
  BY <1>1, OneMore DEF EvolutionInv, Told
<1>6. trial' \in Seq(Range(trial')) /\ Len(trial') = 0 BY <1>1, EmptySeq
<1> HIDE DEF a, p
<1>7. WithinBounds' BY <1>1, <1>3, <1>4 DEF EvolutionInv, WithinBounds
<1>8. Told'
  <2>1. ASSUME NEW i \in 1..Len(history') PROVE history'[i].agent \in DOMAIN tuned'
    <3>1. CASE i = Len(history) + 1 BY <1>2, <1>3, <1>4, <1>5, <3>1
    <3>2. CASE i # Len(history) + 1
      <4>1. i \in 1..Len(history) BY <1>5, <3>2
      <4> QED BY <1>4, <1>5, <4>1 DEF EvolutionInv, Told
    <3> QED BY <3>1, <3>2
  <2> QED BY <1>1, <1>5, <1>6, <2>1 DEF Told
<1>9. OneChangeAtATime'
  <2>1. ASSUME NEW b \in DOMAIN tuned', NEW q \in DOMAIN tuned'[b]
        PROVE  tuned'[b][q] = Accepted(b, q)'
    <3>1. Accepted(b, q)' = IF x.agent = b /\ x.parameter = q /\ x.status = "kept"
                            THEN x.new ELSE Accepted(b, q)
      BY <1>1, AcceptedNext DEF EvolutionInv
    <3>2. b \in DOMAIN tuned /\ q \in DOMAIN tuned[b] BY <1>4, <2>1
    <3>3. IF a = b /\ p = q THEN Tried.old = Accepted(b, q) /\ tuned[b][q] = Tried.new
          ELSE tuned[b][q] = Accepted(b, q)
      BY <1>1, <3>2 DEF EvolutionInv, OneChangeAtATime, a, p
    <3> QED BY <1>2, <1>4, <3>1, <3>2, <3>3
  <2> QED BY <1>1, <2>1 DEF OneChangeAtATime
<1>10. Seldom'
  <2>0. cycle \in 0..MaxCycles /\ cycle' \in 0..MaxCycles
    BY <1>1, TrialAssumption DEF EvolutionInv, Seldom
  <2>1. \A b : Cardinality(Changes(b)) \in Nat BY ChangesCount DEF EvolutionInv
  <2>2. \A b : Times(b)' = Times(b)
    <3>1. \A b : Cardinality(Changes(b))' = Cardinality(Changes(b)) + IF a = b THEN 1 ELSE 0
      BY <1>1, <1>2, ChangesNext DEF EvolutionInv
    <3> QED BY <1>1, <2>1, <3>1 DEF Times, a
  <2>3. ASSUME NEW b \in DOMAIN tuned', Times(b)' > 0
        PROVE  /\ modified'[b] \in Nat /\ modified'[b] <= cycle'
               /\ (Times(b)' - 1) * Cooldown + 1 <= modified'[b]
    <3>1. /\ modified[b] \in Nat /\ modified[b] <= cycle
          /\ (Times(b) - 1) * Cooldown + 1 <= modified[b]
      BY <1>4, <2>2, <2>3 DEF EvolutionInv, Seldom
    <3> QED BY <1>1, <2>0, <2>2, <3>1
  <2>4. Len(history') * Turn + (IF trial' = << >> THEN 0 ELSE 1 + Tried'.elapsed) <= cycle'
    <3> DEFINE n == Len(history)
               m == n * Turn
    <3>1. n \in Nat /\ Turn \in Nat BY <1>5, TurnFacts
    <3>2. m \in Int /\ (n + 1) * Turn = m + Turn BY <3>1
    <3>3. m + (1 + Tried.elapsed) <= cycle BY <1>1 DEF EvolutionInv, Seldom
    <3>4. Tried.elapsed + 2 >= Turn BY <1>1, <1>3, TurnFacts
    <3>5. Len(history') * Turn = (n + 1) * Turn BY <1>5
    <3> HIDE DEF n, m
    <3>6. (n + 1) * Turn + 0 <= cycle + 1 BY <1>3, <2>0, <3>1, <3>2, <3>3, <3>4
    <3> QED BY <1>1, <3>5, <3>6
  <2> QED BY <2>0, <2>3, <2>4 DEF Seldom
<1> QED BY <1>7, <1>8, <1>9, <1>10 DEF EvolutionInv

LEMMA CalmKeeps == ASSUME EvolutionInv, UNCHANGED research PROVE EvolutionInv'
<1>1. UNCHANGED <<tuned, modified, trial, history, cycle>> BY DEF research
<1>2. WithinBounds' BY <1>1 DEF EvolutionInv, WithinBounds
<1>3. Told'
  <2>1. Tried' = Tried BY <1>1 DEF Tried
  <2>2. Told BY DEF EvolutionInv
  <2> QED BY <1>1, <2>1, <2>2 DEF Told
<1>4. OneChangeAtATime'
  <2>1. \A b, q : Accepted(b, q)' = Accepted(b, q) BY <1>1 DEF Accepted
  <2>2. Tried' = Tried BY <1>1 DEF Tried
  <2> QED BY <1>1, <2>1, <2>2 DEF EvolutionInv, OneChangeAtATime
<1>5. Seldom' BY <1>1 DEF EvolutionInv, Seldom, Times, Changes, Tried
<1> QED BY <1>2, <1>3, <1>4, <1>5 DEF EvolutionInv

LEMMA NothingKeeps == ASSUME EvolutionInv, ProposeNothing PROVE EvolutionInv'
<1>1. /\ trial = << >> /\ cycle < MaxCycles /\ cycle' = cycle + 1
      /\ UNCHANGED <<tuned, modified, trial, history>>
  BY DEF ProposeNothing
<1>2. WithinBounds' BY <1>1 DEF EvolutionInv, WithinBounds
<1>3. Told'
  <2>1. Tried' = Tried BY <1>1 DEF Tried
  <2>2. Told BY DEF EvolutionInv
  <2> QED BY <1>1, <2>1, <2>2 DEF Told
<1>4. OneChangeAtATime'
  <2>1. \A b, q : Accepted(b, q)' = Accepted(b, q) BY <1>1 DEF Accepted
  <2>2. Tried' = Tried BY <1>1 DEF Tried
  <2> QED BY <1>1, <2>1, <2>2 DEF EvolutionInv, OneChangeAtATime
<1>5. Seldom'
  <2>1. cycle \in 0..MaxCycles /\ cycle' \in 0..MaxCycles
    BY <1>1, TrialAssumption DEF EvolutionInv, Seldom
  <2>2. \A b : Times(b)' = Times(b) BY <1>1 DEF Times, Changes, Tried
  <2>3. ASSUME NEW b \in DOMAIN tuned', Times(b)' > 0
        PROVE  /\ modified'[b] \in Nat /\ modified'[b] <= cycle'
               /\ (Times(b)' - 1) * Cooldown + 1 <= modified'[b]
    <3>1. /\ modified[b] \in Nat /\ modified[b] <= cycle
          /\ (Times(b) - 1) * Cooldown + 1 <= modified[b]
      BY <1>1, <2>2, <2>3 DEF EvolutionInv, Seldom
    <3> QED BY <1>1, <2>1, <2>2, <3>1
  <2>4. Len(history') * Turn + (IF trial' = << >> THEN 0 ELSE 1 + Tried'.elapsed) <= cycle'
    <3> DEFINE m == Len(history) * Turn
    <3>1. m \in Int
      <4>1. Len(history) \in Nat /\ Turn \in Nat BY HistoryIndices, TurnFacts DEF EvolutionInv
      <4> QED BY <4>1
    <3>2. m + 0 <= cycle BY <1>1 DEF EvolutionInv, Seldom
    <3>3. Len(history') * Turn = m BY <1>1
    <3> HIDE DEF m
    <3> QED BY <1>1, <2>1, <3>1, <3>2, <3>3
  <2> QED BY <2>1, <2>3, <2>4 DEF Seldom
<1> QED BY <1>2, <1>3, <1>4, <1>5 DEF EvolutionInv

LEMMA RegisterKeeps == ASSUME EvolutionInv, NEW a \in Agents, RegisterAgent(a) PROVE EvolutionInv'
<1>1. /\ a \notin DOMAIN tuned /\ UNCHANGED <<trial, history, cycle>>
      /\ tuned' = Put(tuned, a, Started(a)) /\ modified' = Put(modified, a, Never)
  BY DEF RegisterAgent
<1>2. /\ DOMAIN tuned' = DOMAIN tuned \union {a} /\ DOMAIN modified' = DOMAIN modified \union {a}
      /\ \A b \in DOMAIN tuned : tuned'[b] = tuned[b] /\ tuned'[a] = Started(a)
      /\ \A b \in DOMAIN modified : b # a => modified'[b] = modified[b]
      /\ tuned'[a] = Started(a)
  BY <1>1 DEF Put
<1>3. /\ DOMAIN Started(a) = DOMAIN Tuning[a]
      /\ \A p \in DOMAIN Tuning[a] : Started(a)[p] = Tuning[a][p].start
  BY DEF Started
<1>4. WithinBounds'
  <2>1. \A p \in DOMAIN Tuning[a] : Tuning[a][p].start \in Tuning[a][p].lo..Tuning[a][p].hi
    BY TuningAssumption
  <2> QED BY <1>2, <1>3, <2>1 DEF EvolutionInv, WithinBounds
<1>5. Told'
  <2>1. trial # << >> => Tried.agent \in DOMAIN tuned BY DEF EvolutionInv, Told
  <2> QED BY <1>1, <1>2, <2>1 DEF EvolutionInv, Told, Tried
<1>6. OneChangeAtATime'
  <2>1. \A b, q : Accepted(b, q)' = Accepted(b, q) BY <1>1 DEF Accepted
  <2>2. \A q : Accepted(a, q) = Tuning[a][q].start
    <3>1. DOMAIN history = 1..Len(history) BY HistoryIndices DEF EvolutionInv
    <3>2. \A i \in DOMAIN history : history[i].agent # a BY <1>1, <3>1 DEF EvolutionInv, Told
    <3> QED BY <3>2 DEF Accepted
  <2>3. ~(trial # << >> /\ Tried.agent = a) BY <1>1 DEF EvolutionInv, Told
  <2> QED BY <1>1, <1>2, <1>3, <2>1, <2>2, <2>3 DEF EvolutionInv, OneChangeAtATime, Tried
<1>7. Seldom'
  <2>1. \A b : Times(b)' = Times(b) BY <1>1 DEF Times, Changes, Tried
  <2>2. Times(a) = 0 BY <1>1, TimesTyped DEF EvolutionInv
  <2>3. DOMAIN modified = DOMAIN tuned BY DEF EvolutionInv, WithinBounds
  <2> QED BY <1>1, <1>2, <2>1, <2>2, <2>3 DEF EvolutionInv, Seldom, Tried
<1> QED BY <1>4, <1>5, <1>6, <1>7 DEF EvolutionInv

\* Every agent that bootstrap builds starts within its bounds.
LEMMA StartsBounded ==
  \A a \in Range(Fleet) :
    /\ a \in Agents /\ DOMAIN Started(a) = DOMAIN Tuning[a]
    /\ \A p \in DOMAIN Started(a) :
         /\ Started(a)[p] = Tuning[a][p].start
         /\ Started(a)[p] \in Tuning[a][p].lo..Tuning[a][p].hi
<1>1. \A a \in Range(Fleet) : a \in Agents
  <2>1. DOMAIN Fleet = 1..Len(Fleet) /\ \A i \in 1..Len(Fleet) : Fleet[i] \in Agents
    BY FleetAssumption, ElementOfSeq, EmptySeq
  <2> QED BY <2>1 DEF Range
<1> QED BY <1>1, TuningAssumption DEF Started

LEMMA NoChanges == Cardinality({}) = 0 /\ << >> \in Seq(Range(<< >>)) /\ Len(<< >>) = 0
BY FS_EmptySet, EmptySeq

LEMMA EvolutionStarts == ASSUME EvolutionInit PROVE EvolutionInv
<1>1. /\ tuned = [a \in Range(Fleet) |-> Started(a)] /\ modified = [a \in Range(Fleet) |-> Never]
      /\ trial = << >> /\ history = << >> /\ cycle = 0
  BY DEF EvolutionInit
<1>2. WithinBounds BY <1>1, StartsBounded DEF WithinBounds
<1>3. Told BY <1>1, NoChanges DEF Told
<1>4. OneChangeAtATime
  <2>1. \A a, p : Accepted(a, p) = Tuning[a][p].start BY <1>1 DEF Accepted
  <2> QED BY <1>1, <2>1, StartsBounded DEF OneChangeAtATime
<1>5. Seldom
  <2>1. \A a : Times(a) = 0 BY <1>1, NoChanges DEF Times, Changes
  <2>2. Len(history) * Turn = 0 BY <1>1, TurnFacts
  <2> QED BY <1>1, <2>1, <2>2, TrialAssumption DEF Seldom
<1> QED BY <1>2, <1>3, <1>4, <1>5 DEF EvolutionInv

LEMMA AnewKeeps == ASSUME NEW saved \in BOOLEAN, StartAnew(saved) PROVE EvolutionInv'
<1>1. /\ tuned' = [a \in Range(Fleet) |-> Started(a)]
      /\ modified' = [a \in Range(Fleet) |-> Never]
      /\ trial' = << >> /\ history' = << >> /\ cycle' = 0
  BY DEF StartAnew
<1>2. WithinBounds' BY <1>1, StartsBounded DEF WithinBounds
<1>3. Told' BY <1>1, NoChanges DEF Told
<1>4. OneChangeAtATime'
  <2>1. \A a, p : Accepted(a, p)' = Tuning[a][p].start BY <1>1 DEF Accepted
  <2> QED BY <1>1, <2>1, StartsBounded DEF OneChangeAtATime
<1>5. Seldom'
  <2>1. \A a : Times(a)' = 0 BY <1>1, NoChanges DEF Times, Changes
  <2>2. Len(history') * Turn = 0 BY <1>1, TurnFacts
  <2> QED BY <1>1, <2>1, <2>2, TrialAssumption DEF Seldom
<1> QED BY <1>2, <1>3, <1>4, <1>5 DEF EvolutionInv

\* The state of the autoresearch loop, for any agents, parameters, outcomes and weights.
THEOREM EvolutionInvariance == EvolutionSpec => []EvolutionInv
<1>1. EvolutionInit => EvolutionInv BY EvolutionStarts
<1>2. EvolutionInv /\ [EvolutionNext]_evolution => EvolutionInv'
  <2>1. SUFFICES ASSUME EvolutionInv, [EvolutionNext]_evolution PROVE EvolutionInv' OBVIOUS
  <2>2. CASE Step
    BY <2>1, <2>2, ProposeKeeps, NothingKeeps, GoesOnKeeps, ResolveKeeps DEF Step
  <2>3. ASSUME NEW a \in Agents, RegisterAgent(a) PROVE EvolutionInv' BY <2>1, <2>3, RegisterKeeps
  <2>4. ASSUME NEW saved \in BOOLEAN, StartAnew(saved) PROVE EvolutionInv' BY <2>4, AnewKeeps
  <2>5. CASE UNCHANGED research BY <2>1, <2>5, CalmKeeps
  <2> QED
    BY <2>1, <2>2, <2>3, <2>4, <2>5
    DEF EvolutionNext, UpdateWeights, DayPasses, RecordOutcome, SetWeight, AddAgent, evolution
<1> QED BY <1>1, <1>2, PTL DEF EvolutionSpec

\* However trials run, are kept and are reverted, one parameter at most differs from its
\* accepted value, and a revert gets back exactly that.
THEOREM OneChange == EvolutionSpec => []OneChangeAtATime
<1>1. EvolutionInv => OneChangeAtATime BY DEF EvolutionInv
<1> QED BY <1>1, EvolutionInvariance, PTL

\* k changes of one agent take k - 1 cooldowns, k changes of all of them k - 1 trials.
THEOREM SeldomChanged == EvolutionSpec => []ChangedSeldom
<1>1. ASSUME EvolutionInv PROVE ChangedSeldom
  <2> DEFINE all == history \o trial
             n == Len(history)
             of(a) == Cardinality({i \in DOMAIN all : all[i].agent = a})
  <2>1. Told /\ Seldom /\ n \in Nat /\ cycle \in Nat
    BY <1>1, HistoryIndices DEF EvolutionInv, Seldom
  <2>2. /\ Len(all) = n + Len(trial) /\ DOMAIN all = 1..Len(all)
        /\ \A i \in 1..n : all[i] = history[i]
        /\ trial # << >> => Len(trial) = 1 /\ all[n + 1] = Tried
        /\ trial = << >> => Len(trial) = 0
    <3> DEFINE R == Range(history) \union Range(trial)
    <3>1. history \in Seq(R) /\ trial \in Seq(R)
      <4>1. Range(history) \subseteq R /\ Range(trial) \subseteq R OBVIOUS
      <4> HIDE DEF R
      <4> QED BY <2>1, <4>1, SeqMonotonic DEF Told
    <3> HIDE DEF R
    <3>2. /\ all \in Seq(R) /\ Len(all) = n + Len(trial)
          /\ \A i \in 1..n + Len(trial) : all[i] = IF i <= n THEN history[i] ELSE trial[i - n]
      BY <3>1, ConcatProperties
    <3>3. trial # << >> => Len(trial) = 1 BY <2>1, <3>1, EmptySeq DEF Told
    <3>4. trial = << >> => Len(trial) = 0 BY <3>1, EmptySeq
    <3>5. DOMAIN all = 1..Len(all) BY <3>2
    <3> HIDE DEF all
    <3>6. \A i \in 1..n : i \in 1..n + Len(trial) /\ i <= n BY <2>1, <3>3, <3>4
    <3>7. trial # << >> => n + 1 \in 1..n + Len(trial) /\ ~(n + 1 <= n) /\ n + 1 - n = 1
      BY <2>1, <3>3
    <3> QED BY <3>2, <3>3, <3>4, <3>5, <3>6, <3>7 DEF Tried
  <2> HIDE DEF all
  <2>3. ASSUME NEW a PROVE of(a) = Times(a)
    <3> DEFINE c == {i \in DOMAIN all : all[i].agent = a}
    <3>1. IsFiniteSet(Changes(a)) /\ Cardinality(Changes(a)) \in Nat
      BY <2>1, HistoryIndices, ChangesCount DEF Changes
    <3>2. CASE trial # << >> /\ Tried.agent = a
      <4>1. c = Changes(a) \union {n + 1}
        <5>1. \A i \in 1..n + 1 : i \in 1..n \/ i = n + 1 BY <2>1
        <5>2. \A i \in 1..n : i \in 1..n + 1 BY <2>1
        <5>3. n + 1 \in 1..n + 1 BY <2>1
        <5> QED BY <2>2, <3>2, <5>1, <5>2, <5>3 DEF Changes
      <4>2. n + 1 \notin Changes(a) BY <2>1 DEF Changes
      <4>3. Cardinality(Changes(a) \union {n + 1}) = Cardinality(Changes(a)) + 1
        BY <3>1, <4>2, FS_AddElement
      <4> QED BY <3>2, <4>1, <4>3 DEF Times
    <3>3. CASE trial # << >> /\ Tried.agent # a
      <4>1. c = Changes(a)
        <5>1. \A i \in 1..n + 1 : i \in 1..n \/ i = n + 1 BY <2>1
        <5>2. \A i \in 1..n : i \in 1..n + 1 BY <2>1
        <5> QED BY <2>2, <3>3, <5>1, <5>2 DEF Changes
      <4> QED BY <3>1, <3>3, <4>1 DEF Times
    <3>4. CASE trial = << >>
      <4>1. c = Changes(a) BY <2>1, <2>2, <3>4 DEF Changes
      <4>2. Times(a) = Cardinality(Changes(a)) + 0 BY <3>4 DEF Times
      <4>3. Times(a) = Cardinality(Changes(a)) BY <3>1, <4>2
      <4> QED BY <4>1, <4>3
    <3> QED BY <3>2, <3>3, <3>4
  <2>4. ASSUME NEW a \in Agents, of(a) > 0 PROVE (of(a) - 1) * Cooldown < cycle
    <3>1. Times(a) > 0 /\ Times(a) \in Nat /\ a \in DOMAIN tuned
      BY <2>1, <2>3, <2>4, TimesTyped
    <3> DEFINE m == (Times(a) - 1) * Cooldown
    <3>2. m \in Int BY <3>1, TrialAssumption
    <3>3. modified[a] \in Nat /\ modified[a] <= cycle /\ m + 1 <= modified[a]
      BY <2>1, <3>1 DEF Seldom
    <3> HIDE DEF m
    <3>4. m < cycle BY <2>1, <3>2, <3>3
    <3> QED BY <2>3, <3>4 DEF m
  <2>5. ASSUME Len(all) > 0 PROVE (Len(all) - 1) * Turn < cycle
    <3> DEFINE m == n * Turn
    <3>1. Turn \in Nat /\ Turn >= 2 BY TurnFacts
    <3>2. m \in Nat /\ (n - 1) * Turn = m - Turn BY <2>1, <3>1
    <3>3. m + (IF trial = << >> THEN 0 ELSE 1 + Tried.elapsed) <= cycle BY <2>1 DEF Seldom
    <3>4. CASE trial = << >>
      <4>1. Len(all) - 1 = n - 1 BY <2>1, <2>2, <3>4
      <4>2. (Len(all) - 1) * Turn = m - Turn BY <3>2, <4>1
      <4> HIDE DEF m
      <4> QED BY <2>1, <3>1, <3>2, <3>3, <3>4, <4>2
    <3>5. CASE trial # << >>
      <4>0. Len(all) = n + Len(trial) /\ Len(trial) = 1 BY <2>2, <3>5
      <4>1. Len(all) - 1 = n BY <2>1, <4>0
      <4>2. Tried.elapsed \in Nat BY <2>1, <3>5 DEF Told
      <4>3. (Len(all) - 1) * Turn = m BY <4>1
      <4> HIDE DEF m
      <4> QED BY <2>1, <3>2, <3>3, <3>5, <4>2, <4>3
    <3> QED BY <3>4, <3>5
  <2> QED BY <2>4, <2>5 DEF ChangedSeldom, Turn, all
<1> QED BY <1>1, EvolutionInvariance, PTL

-----------------------------------------------------------------------------
(* Evolution: types *)

Managed ==
  /\ members \in Seq(Agents) /\ DOMAIN weights = Range(members) /\ DOMAIN outcomes = Agents
  /\ settings \in {Configured, Defaults}

LEMMA ManagedNext == ASSUME Managed, [EvolutionNext]_evolution PROVE Managed'
<1>1. CASE UNCHANGED <<members, weights, outcomes, settings>> BY <1>1 DEF Managed
<1>2. ASSUME NEW a \in Agents, UNCHANGED <<outcomes, settings>>, members' = Entered(a),
             \E w : weights' = Put(weights, a, w)
      PROVE  Managed'
  <2>1. DOMAIN weights' = DOMAIN weights \union {a} BY <1>2 DEF Put
  <2>2. members' \in Seq(Agents) /\ Range(members') = Range(members) \union {a}
    <3>1. CASE a \in Range(members) BY <1>2, <3>1 DEF Entered, Managed
    <3>2. CASE a \notin Range(members)
      <4>1. members' = Append(members, a) BY <1>2, <3>2 DEF Entered
      <4>2. /\ members' \in Seq(Agents) /\ Len(members') = Len(members) + 1
            /\ members'[Len(members) + 1] = a
            /\ \A i \in 1..Len(members) : members'[i] = members[i]
        BY <4>1, AppendProperties DEF Managed
      <4>3. /\ Len(members) \in Nat /\ DOMAIN members = 1..Len(members)
            /\ DOMAIN members' = 1..Len(members) + 1
        BY <4>2, EmptySeq DEF Managed
      <4>4. \A i \in 1..Len(members) + 1 : i \in 1..Len(members) \/ i = Len(members) + 1 BY <4>3
      <4>5. \A i \in 1..Len(members) : i \in 1..Len(members) + 1 BY <4>3
      <4>6. Len(members) + 1 \in 1..Len(members) + 1 BY <4>3
      <4> QED BY <4>2, <4>3, <4>4, <4>5, <4>6 DEF Range
    <3> QED BY <3>1, <3>2
  <2> QED BY <1>2, <2>1, <2>2 DEF Managed
<1>3. CASE UpdateWeights \/ DayPasses \/ Step
  BY <1>3 DEF UpdateWeights, DayPasses, Step, Propose, ProposeNothing, TrialGoesOn, ResolveTrial,
              manager, Pruned, Managed
<1>4. ASSUME NEW a \in Agents, NEW w, SetWeight(a, w) \/ AddAgent(a, w)
      PROVE  Managed'
  BY <1>2, <1>4 DEF SetWeight, AddAgent
<1>5. ASSUME NEW a \in Range(members), NEW t, RecordOutcome(a, t)
      PROVE  Managed'
  BY <1>5 DEF RecordOutcome, Managed
<1>6. ASSUME NEW saved \in BOOLEAN, StartAnew(saved) PROVE Managed'
  BY <1>6, FleetAssumption DEF StartAnew, NoOutcomes, Managed
<1> QED
  BY <1>1, <1>3, <1>4, <1>5, <1>6 DEF EvolutionNext, RegisterAgent, manager, evolution

\* Every variable keeps its type: in particular every parameter stays within its bounds,
\* whatever was tried and taken back.
THEOREM EvolutionTypeCorrect == EvolutionSpec => []EvolutionTypeOK
<1>1. EvolutionInit => Managed
  BY FleetAssumption DEF EvolutionInit, NoOutcomes, Managed
<1>2. Managed /\ [EvolutionNext]_evolution => Managed' BY ManagedNext
<1>3. ASSUME Managed, EvolutionInv PROVE EvolutionTypeOK
  <2>1. \A a \in DOMAIN tuned : \A p \in DOMAIN tuned[a] :
          tuned[a][p] \in Tuning[a][p].lo..Tuning[a][p].hi
    BY <1>3 DEF EvolutionInv, WithinBounds
  <2> QED BY <1>3, <2>1 DEF EvolutionTypeOK, Managed, EvolutionInv, WithinBounds, Seldom
<1> QED BY <1>1, <1>2, <1>3, EvolutionInvariance, PTL DEF EvolutionSpec

-----------------------------------------------------------------------------
(* Evolution: sums over a finite set *)

Picked(s) == CHOOSE x \in s : TRUE

\* A function that adds up the values of v, one element after another.
AddsUp(f, v) ==
  \A s \in SUBSET DOMAIN v : f[s] = IF s = {} THEN 0 ELSE v[Picked(s)] + f[s \ {Picked(s)}]

LEMMA SomeElement ==
  ASSUME NEW s, s # {} PROVE Picked(s) \in s /\ s \ {Picked(s)} # s
  BY DEF Picked

\* There is such a function, and its values are integers if those of v are.
LEMMA AdderExists ==
  ASSUME NEW D, IsFiniteSet(D), NEW v \in [D -> Int]
  PROVE  \E f \in [SUBSET D -> Int] : AddsUp(f, v)
<1> DEFINE Good(s, f) == \A r \in SUBSET s :
                           f[r] = IF r = {} THEN 0 ELSE v[Picked(r)] + f[r \ {Picked(r)}]
           Has(s) == \E f \in [SUBSET s -> Int] : Good(s, f)
           A(s) == CHOOSE f \in [SUBSET s -> Int] : Good(s, f)
           T == {s \in SUBSET D : Has(s)}
<1>1. ASSUME NEW s \in SUBSET D, NEW f, NEW h, Good(s, f), Good(s, h)
      PROVE  \A r \in SUBSET s : f[r] = h[r]
  <2> DEFINE U == {r \in SUBSET s : f[r] = h[r]}
  <2>1. ASSUME NEW r \in SUBSET s, \A q \in SUBSET r : q # r => q \in U
        PROVE  r \in U
    <3>1. CASE r = {} BY <1>1, <3>1
    <3>2. CASE r # {}
      <4>1. r \ {Picked(r)} \in SUBSET r /\ r \ {Picked(r)} # r BY <3>2, SomeElement
      <4>2. f[r \ {Picked(r)}] = h[r \ {Picked(r)}] BY <2>1, <4>1
      <4> QED BY <1>1, <3>2, <4>2
    <3> QED BY <3>1, <3>2
  <2>2. IsFiniteSet(s) BY FS_Subset
  <2>3. SUBSET s \subseteq U
    <3>1. \A r \in SUBSET s : (\A q \in SUBSET r : q # r => q \in U) => r \in U BY <2>1
    <3> HIDE DEF U
    <3> QED BY <2>2, <3>1, SubsetInduction
  <2> QED BY <2>3
<1>2. ASSUME NEW s \in SUBSET D, \A r \in SUBSET s : r # s => r \in T
      PROVE  s \in T
  <2> DEFINE h == [r \in SUBSET s |->
                     IF r = {} THEN 0
                     ELSE IF r = s THEN v[Picked(s)] + A(s \ {Picked(s)})[s \ {Picked(s)}] ELSE A(r)[r]]
  <2>1. ASSUME NEW r \in SUBSET s, r # s
        PROVE  A(r) \in [SUBSET r -> Int] /\ Good(r, A(r)) /\ A(r)[r] \in Int
    <3>1. Has(r) BY <1>2, <2>1
    <3>2. A(r) \in [SUBSET r -> Int] /\ Good(r, A(r)) BY <3>1
    <3> QED BY <3>2
  <2>2. ASSUME NEW r \in SUBSET s, r # s, NEW q \in SUBSET r
        PROVE  A(r)[q] = A(q)[q]
    <3>1. q # s /\ q \in SUBSET s /\ q \in SUBSET D BY <2>2
    <3>2. Good(r, A(r)) /\ Good(q, A(q)) BY <2>1, <2>2, <3>1
    <3> HIDE DEF A
    <3>3. Good(q, A(r)) BY <2>2, <3>2
    <3> HIDE DEF Good
    <3>4. \A p \in SUBSET q : A(r)[p] = A(q)[p] BY <1>1, <3>1, <3>2, <3>3
    <3> QED BY <3>4
  <2>3. \A r \in SUBSET s : r # {} => /\ Picked(r) \in r
                                      /\ r \ {Picked(r)} \in SUBSET s
                                      /\ r \ {Picked(r)} # s /\ r \ {Picked(r)} # r
    BY SomeElement
  <2>4. A({})[{}] = 0 \/ s = {}
    <3> SUFFICES ASSUME s # {} PROVE A({})[{}] = 0 OBVIOUS
    <3>1. {} \in SUBSET s /\ {} \in SUBSET {} OBVIOUS
    <3>2. Good({}, A({})) BY <2>1, <3>1
    <3> HIDE DEF A
    <3> QED BY <3>1, <3>2
  <2> HIDE DEF A
  <2>5. ASSUME NEW r \in SUBSET s, r # s PROVE h[r] = A(r)[r]
    <3>1. CASE r = {} BY <2>4, <2>5, <3>1
    <3>2. CASE r # {} BY <2>5, <3>2
    <3> QED BY <3>1, <3>2
  <2>6. h \in [SUBSET s -> Int]
    <3>1. ASSUME s # {} PROVE v[Picked(s)] + A(s \ {Picked(s)})[s \ {Picked(s)}] \in Int
      <4>1. v[Picked(s)] \in Int BY <2>3, <3>1
      <4>2. A(s \ {Picked(s)})[s \ {Picked(s)}] \in Int BY <2>1, <2>3, <3>1
      <4> QED BY <4>1, <4>2
    <3>2. \A r \in SUBSET s : r # s => A(r)[r] \in Int BY <2>1
    <3> QED BY <3>1, <3>2
  <2>7. ASSUME NEW r \in SUBSET s, r # {}
        PROVE  h[r] = v[Picked(r)] + h[r \ {Picked(r)}]
    <3>1. h[r \ {Picked(r)}] = A(r \ {Picked(r)})[r \ {Picked(r)}] BY <2>3, <2>5, <2>7
    <3>2. CASE r = s BY <2>7, <3>1, <3>2
    <3>3. CASE r # s
      <4>1. h[r] = A(r)[r] BY <2>5, <3>3
      <4>2. A(r)[r] = v[Picked(r)] + A(r)[r \ {Picked(r)}] BY <2>1, <2>7, <3>3
      <4>3. A(r)[r \ {Picked(r)}] = A(r \ {Picked(r)})[r \ {Picked(r)}] BY <2>2, <2>3, <2>7, <3>3
      <4> QED BY <3>1, <4>1, <4>2, <4>3
    <3> QED BY <3>2, <3>3
  <2>8. \A r \in SUBSET s : r = {} => h[r] = 0 OBVIOUS
  <2> HIDE DEF h
  <2>9. Good(s, h) BY <2>7, <2>8
  <2> QED BY <2>6, <2>9
<1>3. SUBSET D \subseteq T
  <2>1. \A s \in SUBSET D : (\A r \in SUBSET s : r # s => r \in T) => s \in T BY <1>2
  <2> HIDE DEF T
  <2> QED BY <2>1, SubsetInduction
<1>4. Has(D)
  <2>1. D \in SUBSET D OBVIOUS
  <2> QED BY <1>3, <2>1
<1>5. DOMAIN v = D OBVIOUS
<1> QED BY <1>4, <1>5 DEF AddsUp

\* The library's sum is the last value of such a function.
LEMMA SumUnrolls ==
  ASSUME NEW D, IsFiniteSet(D), NEW v \in [D -> Int]
  PROVE  \E f \in [SUBSET D -> Int] : AddsUp(f, v) /\ SumFunction(v) = f[D]
<1> DEFINE Sums(f) == f = [s \in SUBSET D |->
                             IF s = {} THEN 0 ELSE v[Picked(s)] + f[s \ {Picked(s)}]]
           g == CHOOSE f : Sums(f)
<1>0. DOMAIN v = D OBVIOUS
<1>1. PICK f \in [SUBSET D -> Int] : AddsUp(f, v) BY AdderExists
<1>2. Sums(f) BY <1>0, <1>1 DEF AddsUp
<1>3. Sums(g) BY <1>2
<1>4. SumFunction(v) = g[D]
  BY <1>0 DEF SumFunction, SumFunctionOnSet, FoldFunctionOnSet, MapThenFoldSet, Picked
<1> HIDE DEF g
<1>5. AddsUp(g, v) BY <1>0, <1>3 DEF AddsUp
<1>6. g \in [SUBSET D -> Int]
  <2> DEFINE U == {s \in SUBSET D : g[s] \in Int}
  <2>1. ASSUME NEW s \in SUBSET D, \A r \in SUBSET s : r # s => r \in U
        PROVE  s \in U
    <3>1. g[s] = IF s = {} THEN 0 ELSE v[Picked(s)] + g[s \ {Picked(s)}] BY <1>0, <1>5 DEF AddsUp
    <3>2. CASE s = {}
      <4>1. g[s] = 0 BY <3>1, <3>2
      <4> QED BY <4>1
    <3>3. CASE s # {}
      <4>1. Picked(s) \in s /\ s \ {Picked(s)} \in U BY <2>1, <3>3, SomeElement
      <4>2. v[Picked(s)] \in Int /\ g[s \ {Picked(s)}] \in Int BY <4>1
      <4>3. g[s] = v[Picked(s)] + g[s \ {Picked(s)}] BY <3>1, <3>3
      <4> QED BY <4>2, <4>3
    <3> QED BY <3>2, <3>3
  <2>2. SUBSET D \subseteq U
    <3>1. \A s \in SUBSET D : (\A r \in SUBSET s : r # s => r \in U) => s \in U BY <2>1
    <3> HIDE DEF U
    <3> QED BY <3>1, SubsetInduction
  <2> QED BY <1>3, <2>2
<1> QED BY <1>4, <1>5, <1>6

\* Cauchy and Schwarz, one term more.
LEMMA SpreadStep ==
  ASSUME NEW k \in Nat, NEW s \in Int, NEW q \in Nat, NEW m \in Nat, NEW w \in Int,
         k * q >= s * s, k = 0 => s = 0 /\ q = 0
  PROVE  (m + k) * (m * (w * w) + q) >= (m * w + s) * (m * w + s)
<1> DEFINE x == k * (w * w) - 2 * (s * w) + q
<1>1. x >= 0
  <2>1. CASE k = 0 BY <2>1
  <2>2. CASE k > 0
    <3>1. k * x = (k * w - s) * (k * w - s) + (k * q - s * s) OBVIOUS
    <3>2. \A y \in Int : y * y >= 0 OBVIOUS
    <3>3. k * w - s \in Int OBVIOUS
    <3>4. k * x >= 0 BY <3>1, <3>2, <3>3
    <3>5. x \in Int OBVIOUS
    <3> HIDE DEF x
    <3>6. \A y \in Int : k * y >= 0 => y >= 0 BY <2>2
    <3> QED BY <3>4, <3>5, <3>6
  <2> QED BY <2>1, <2>2
<1>2. (m + k) * (m * (w * w) + q) - (m * w + s) * (m * w + s) = (k * q - s * s) + m * x
  OBVIOUS
<1>3. x \in Int OBVIOUS
<1> HIDE DEF x
<1>4. m * x >= 0 BY <1>1, <1>3
<1> DEFINE l == (m + k) * (m * (w * w) + q)  r == (m * w + s) * (m * w + s)
<1>5. l \in Int /\ r \in Int /\ k * q \in Int /\ s * s \in Int /\ m * x \in Int BY <1>3
<1>6. l - r = (k * q - s * s) + m * x BY <1>2
<1> HIDE DEF l, r
<1>7. l >= r BY <1>4, <1>5, <1>6
<1> QED BY <1>7 DEF l, r

\* Numbers w, each taken m times: their count times the sum of their squares is at least
\* the square of their sum.
LEMMA SpreadNotNegative ==
  ASSUME NEW D, IsFiniteSet(D), NEW m \in [D -> Nat], NEW w \in [D -> Int]
  PROVE  LET k == SumFunction(m)
             s == SumFunction([x \in D |-> m[x] * w[x]])
             q == SumFunction([x \in D |-> m[x] * (w[x] * w[x])])
         IN k \in Nat /\ s \in Int /\ q \in Nat /\ k * q - s * s >= 0
<1>0. \A U : (\A s \in SUBSET D : (\A r \in SUBSET s : r # s => r \in U) => s \in U)
               => SUBSET D \subseteq U
  BY SubsetInduction
<1> DEFINE mw == [x \in D |-> m[x] * w[x]]
           mww == [x \in D |-> m[x] * (w[x] * w[x])]
<1>1. m \in [D -> Int] /\ mw \in [D -> Int] /\ mww \in [D -> Int] OBVIOUS
<1>2. \A x \in D : mw[x] = m[x] * w[x] /\ mww[x] = m[x] * (w[x] * w[x]) OBVIOUS
<1> HIDE DEF mw, mww
<1>3. PICK f \in [SUBSET D -> Int] : AddsUp(f, m) /\ SumFunction(m) = f[D] BY <1>1, SumUnrolls
<1>4. PICK g \in [SUBSET D -> Int] : AddsUp(g, mw) /\ SumFunction(mw) = g[D]
  BY <1>1, SumUnrolls
<1>5. PICK h \in [SUBSET D -> Int] : AddsUp(h, mww) /\ SumFunction(mww) = h[D]
  BY <1>1, SumUnrolls
<1> DEFINE Fine(s) == /\ f[s] \in Nat /\ g[s] \in Int /\ h[s] \in Nat
                      /\ f[s] * h[s] >= g[s] * g[s]
                      /\ f[s] = 0 => g[s] = 0 /\ h[s] = 0
           T == {s \in SUBSET D : Fine(s)}
<1>6. ASSUME NEW s \in SUBSET D, \A r \in SUBSET s : r # s => r \in T
      PROVE  s \in T
  <2>1. CASE s = {}
    <3>1. f[s] = 0 /\ g[s] = 0 /\ h[s] = 0 BY <1>1, <1>3, <1>4, <1>5, <2>1 DEF AddsUp
    <3> QED BY <3>1
  <2>2. CASE s # {}
    <3> DEFINE e == Picked(s)  r == s \ {e}
    <3>1. e \in D /\ r \in SUBSET D /\ Fine(r) BY <1>6, <2>2, SomeElement
    <3>2. f[s] = m[e] + f[r] /\ g[s] = mw[e] + g[r] /\ h[s] = mww[e] + h[r]
      BY <1>1, <1>3, <1>4, <1>5, <2>2 DEF AddsUp
    <3> HIDE DEF e, r
    <3>3. m[e] \in Nat /\ w[e] \in Int BY <3>1
    <3>4. /\ f[s] = m[e] + f[r] /\ g[s] = m[e] * w[e] + g[r]
          /\ h[s] = m[e] * (w[e] * w[e]) + h[r]
      BY <1>2, <3>1, <3>2
    <3>5. /\ f[r] \in Nat /\ g[r] \in Int /\ h[r] \in Nat /\ f[r] * h[r] >= g[r] * g[r]
          /\ f[r] = 0 => g[r] = 0 /\ h[r] = 0
      BY <3>1
    <3>6. f[s] * h[s] >= g[s] * g[s] BY <3>3, <3>4, <3>5, SpreadStep
    <3>7. w[e] * w[e] \in Nat
      <4>1. \A y \in Int : y * y \in Nat OBVIOUS
      <4> QED BY <3>3, <4>1
    <3>8. f[s] \in Nat /\ g[s] \in Int /\ h[s] \in Nat
      <4>1. \A y, z \in Nat : y * z \in Nat OBVIOUS
      <4>2. m[e] * w[e] \in Int /\ m[e] * (w[e] * w[e]) \in Nat BY <3>3, <3>7, <4>1
      <4> DEFINE a == m[e] * w[e]  b == m[e] * (w[e] * w[e])
      <4>3. g[s] = a + g[r] /\ h[s] = b + h[r] /\ a \in Int /\ b \in Nat BY <3>4, <4>2
      <4> HIDE DEF a, b
      <4>4. h[s] \in Nat BY <3>5, <4>3
      <4>5. g[s] \in Int BY <3>5, <4>3
      <4>6. f[s] \in Nat
        <5>1. f[s] = m[e] + f[r] /\ f[r] \in Nat BY <3>4, <3>5
        <5> QED BY <3>3, <5>1
      <4> QED BY <4>4, <4>5, <4>6
    <3>9. ASSUME f[s] = 0 PROVE g[s] = 0 /\ h[s] = 0
      <4>1. m[e] = 0 /\ f[r] = 0 BY <3>3, <3>4, <3>5, <3>9
      <4>2. \A y \in Int : 0 * y = 0 OBVIOUS
      <4>3. m[e] * w[e] = 0 /\ m[e] * (w[e] * w[e]) = 0
        <5>1. w[e] \in Int /\ w[e] * w[e] \in Int BY <3>3, <3>7
        <5> QED BY <4>1, <4>2, <5>1
      <4>4. g[r] = 0 /\ h[r] = 0 BY <3>5, <4>1
      <4> QED BY <3>4, <4>3, <4>4
    <3> QED BY <3>6, <3>8, <3>9
  <2> QED BY <2>1, <2>2
<1>7. SUBSET D \subseteq T
  <2>1. \A s \in SUBSET D : (\A r \in SUBSET s : r # s => r \in T) => s \in T BY <1>6
  <2> HIDE DEF T
  <2> QED BY <1>0, <2>1
<1>8. Fine(D)
  <2>1. D \in SUBSET D OBVIOUS
  <2> QED BY <1>7, <2>1
<1>9. f[D] \in Nat /\ g[D] \in Int /\ h[D] \in Nat /\ f[D] * h[D] - g[D] * g[D] >= 0
  BY <1>8
<1> QED BY <1>3, <1>4, <1>5, <1>9 DEF mw, mww

-----------------------------------------------------------------------------
(* Evolution: ratios and ranks *)

\* A ratio, infinity among them.
Ratio == {r \in [n : Int, d : Nat] : r.d = 0 => r.n > 0}

\* If b is below a and c is not, b is below c.
LEMMA BelowBoth ==
  ASSUME NEW a \in Ratio, NEW b \in Ratio, NEW c \in Ratio, Below(b, a), ~ Below(c, a)
  PROVE  Below(b, c)
<1>1. \A x, y \in Int : x > 0 /\ y > 0 => x * y > 0 OBVIOUS
<1>2. \A x, y \in Int : x > 0 /\ x * y > 0 => y > 0 OBVIOUS
<1>3. \A x \in Int : x * 0 = 0 /\ 0 * x = 0 OBVIOUS
<1>4. /\ a.n \in Int /\ b.n \in Int /\ c.n \in Int /\ a.d \in Nat /\ b.d \in Nat /\ c.d \in Nat
      /\ a.d = 0 => a.n > 0
      /\ b.d = 0 => b.n > 0
      /\ c.d = 0 => c.n > 0
  BY DEF Ratio
<1>5. b.n * a.d < a.n * b.d /\ ~ (c.n * a.d < a.n * c.d) BY DEF Below
<1> SUFFICES b.n * c.d < c.n * b.d BY DEF Below
<1>6. b.d > 0
  <2> SUFFICES ASSUME b.d = 0 PROVE FALSE BY <1>4
  <2>1. b.n > 0 /\ b.n * a.d < 0 BY <1>3, <1>4, <1>5
  <2>2. b.n * a.d >= 0
    <3>1. CASE a.d = 0 BY <1>3, <1>4, <3>1
    <3>2. CASE a.d > 0
      <4>1. b.n * a.d > 0 BY <1>1, <1>4, <2>1, <3>2
      <4> QED BY <1>4, <4>1
    <3> QED BY <1>4, <3>1, <3>2
  <2>3. b.n * a.d \in Int BY <1>4
  <2> QED BY <2>1, <2>2, <2>3
<1>7. CASE c.d = 0
  <2>1. c.n * b.d > 0 /\ b.n * c.d = 0 BY <1>1, <1>3, <1>4, <1>6, <1>7
  <2> QED BY <2>1
<1>8. CASE c.d > 0
  <2>1. a.d > 0
    <3> SUFFICES ASSUME a.d = 0 PROVE FALSE BY <1>4
    <3>1. a.n > 0 /\ c.n * a.d = 0 BY <1>3, <1>4
    <3>2. a.n * c.d > 0 BY <1>1, <1>4, <1>8, <3>1
    <3> QED BY <1>5, <3>1, <3>2
  <2> DEFINE p == b.n * a.d  q == a.n * b.d  r == c.n * a.d  t == a.n * c.d
  <2>2. /\ p * c.d = a.d * (b.n * c.d) /\ q * c.d = t * b.d /\ r * b.d = a.d * (c.n * b.d)
        /\ p \in Int /\ q \in Int /\ r \in Int /\ t \in Int
    BY <1>4
  <2>3. p < q /\ t <= r BY <1>5, <2>2
  <2> HIDE DEF p, q, r, t
  <2>4. \A x, y, z \in Int : z > 0 /\ x < y => x * z < y * z OBVIOUS
  <2>5. \A x, y, z \in Int : z > 0 /\ x <= y => x * z <= y * z OBVIOUS
  <2>6. p * c.d < q * c.d BY <1>4, <1>8, <2>2, <2>3, <2>4
  <2>7. t * b.d <= r * b.d BY <1>4, <1>6, <2>2, <2>3, <2>5
  <2> DEFINE x == b.n * c.d  y == c.n * b.d  u == p * c.d  v == q * c.d
             m == r * b.d
  <2>8. x \in Int /\ y \in Int /\ u \in Int /\ v \in Int /\ m \in Int BY <1>4, <2>2
  <2>9. u < v /\ v <= m /\ u = a.d * x /\ m = a.d * y BY <2>2, <2>6, <2>7
  <2> HIDE DEF u, v, x, y, m
  <2>10. a.d * x < a.d * y BY <2>8, <2>9
  <2>11. \A g, h, k \in Int : k > 0 /\ k * g < k * h => g < h OBVIOUS
  <2>12. x < y BY <1>4, <2>1, <2>8, <2>10, <2>11
  <2> QED BY <2>12 DEF x, y
<1> QED BY <1>4, <1>7, <1>8

\* Nothing is below itself, nor what it is above.
LEMMA BelowOneWay ==
  ASSUME NEW a \in Ratio, NEW b \in Ratio
  PROVE  ~ Below(a, a) /\ ~ (Below(a, b) /\ Below(b, a))
<1>1. a.n * a.d \in Int /\ a.n * b.d \in Int /\ b.n * a.d \in Int BY DEF Ratio
<1> QED BY <1>1 DEF Below

\* What an agent has earned: outcomes with how often each occurs.
Earned == [ret : Int, confidence : Int, age : Int]
Ledger(os) == IsFiniteSet(DOMAIN os) /\ DOMAIN os \subseteq Earned /\ os \in [DOMAIN os -> Nat]
Recorded ==
  /\ Managed
  /\ updates \in Nat
  /\ \A a \in Agents : Ledger(outcomes[a])

LEMMA RecentLedger ==
  ASSUME Recorded, NEW a \in Agents
  PROVE  Ledger(Recent(a))
<1> DEFINE os == {o \in DOMAIN outcomes[a] : o.age <= settings.window}
<1>1. Ledger(outcomes[a]) BY DEF Recorded
<1>2. Recent(a) = [o \in os |-> outcomes[a][o]] BY DEF Recent
<1>3. os \in SUBSET DOMAIN outcomes[a] OBVIOUS
<1> HIDE DEF os
<1>4. IsFiniteSet(os) BY <1>1, <1>3, FS_Subset DEF Ledger
<1>5. Recent(a) \in [os -> Nat] BY <1>1, <1>2, <1>3 DEF Ledger
<1> QED BY <1>1, <1>3, <1>4, <1>5 DEF Ledger

\* What an agent ranks by is a ratio: no returns have a negative variance.
LEMMA PerformanceTyped ==
  ASSUME Recorded, NEW a \in Agents
  PROVE  Performance(a) \in Ratio
<1> DEFINE os == Recent(a)
           D == DOMAIN os
           w == [o \in D |-> Weighted(o)]
           k == SumFunction(os)
           s == SumFunction(Each(Weighted, os))
           q == SumFunction(Each(Squared, os))
           spread == k * q - s * s
<1>1. IsFiniteSet(D) /\ D \subseteq Earned /\ os \in [D -> Nat] BY RecentLedger DEF Ledger
<1> HIDE DEF os
<1>2. w \in [D -> Int] BY <1>1 DEF Weighted, Earned
<1>3. Each(Weighted, os) = [o \in D |-> os[o] * w[o]] BY DEF Each
<1>4. Each(Squared, os) = [o \in D |-> os[o] * (w[o] * w[o])] BY DEF Each, Squared
<1> HIDE DEF D, w
<1>5. k \in Nat /\ s \in Int /\ q \in Nat /\ spread >= 0
  BY <1>1, <1>2, <1>3, <1>4, SpreadNotNegative
<1>6. RollingSharpe(a) =
        CASE k < settings.least \/ k < 2 -> None
          [] k >= settings.least /\ k >= 2 /\ spread = 0 ->
               IF s > 0 THEN [n |-> 1, d |-> 0] ELSE [n |-> 0, d |-> 1]
          [] OTHER -> [n |-> Sign(s) * s * s * (k - 1), d |-> k * spread]
  BY DEF RollingSharpe, Sharpe, os
<1>7. settings.least \in Int BY ManagerAssumption DEF Recorded, Managed
<1>8. spread \in Int BY <1>5
<1> HIDE DEF k, s, q, spread
<1>9. [n |-> 1, d |-> 0] \in Ratio /\ [n |-> 0, d |-> 1] \in Ratio BY DEF Ratio
<1>10. ASSUME k >= 2, spread # 0
       PROVE  [n |-> Sign(s) * s * s * (k - 1), d |-> k * spread] \in Ratio
  <2>1. k > 0 /\ spread > 0 /\ k - 1 \in Int /\ Sign(s) \in Int BY <1>5, <1>8, <1>10 DEF Sign
  <2>2. \A x, y \in Int : x > 0 /\ y > 0 => x * y > 0 OBVIOUS
  <2>3. k * spread > 0 BY <1>5, <1>8, <2>1, <2>2
  <2>4. k * spread \in Int BY <1>5, <1>8
  <2>5. \A x, y \in Int : x * y \in Int OBVIOUS
  <2>6. Sign(s) * s * s * (k - 1) \in Int BY <1>5, <2>1, <2>5
  <2> DEFINE x == Sign(s) * s * s * (k - 1)  y == k * spread
  <2>7. x \in Int /\ y \in Nat /\ y # 0 BY <2>3, <2>4, <2>6
  <2> HIDE DEF x, y
  <2>8. [n |-> x, d |-> y] \in Ratio BY <2>7 DEF Ratio
  <2> QED BY <2>8 DEF x, y
<1>11. RollingSharpe(a) = None \/ RollingSharpe(a) \in Ratio
  <2>1. CASE k < settings.least \/ k < 2 BY <1>5, <1>6, <1>7, <2>1
  <2>2. CASE k >= settings.least /\ k >= 2 /\ spread = 0 BY <1>5, <1>6, <1>7, <1>9, <2>2
  <2>3. CASE k >= settings.least /\ k >= 2 /\ spread # 0 BY <1>5, <1>6, <1>7, <1>10, <2>3
  <2> QED BY <1>5, <1>7, <2>1, <2>2, <2>3
<1> QED BY <1>9, <1>11 DEF Performance

LEMMA MembersFinite ==
  ASSUME NEW S, NEW s \in Seq(S)
  PROVE  Range(s) \subseteq S /\ IsFiniteSet(Range(s))
<1>1. Len(s) \in Nat /\ DOMAIN s = 1..Len(s) /\ \A i \in 1..Len(s) : s[i] \in S
  BY LenProperties, ElementOfSeq
<1>2. IsFiniteSet(DOMAIN s) BY <1>1, FS_Interval
<1>3. s \in Surjection(DOMAIN s, Range(s)) BY <1>1 DEF Surjection, Range
<1> QED BY <1>1, <1>2, <1>3, FS_Surjection DEF Range

\* The agent that did better stands before the other, with or without ties.
LEMMA BetterRanksBefore ==
  ASSUME Recorded, NEW a \in Range(members), NEW b \in Range(members),
         Below(Performance(b), Performance(a))
  PROVE  Rank(a) \in Nat /\ Rank(b) \in Nat /\ Rank(a) < Rank(b)
<1> DEFINE R == Range(members)
           p == [x \in R |-> Performance(x)]
           InFront(x, y) == Below(p[y], p[x]) \/ (~ Below(p[x], p[y]) /\ Position(x) < Position(y))
           S(y) == {x \in R : InFront(x, y)}
<1>1. members \in Seq(Agents) BY DEF Recorded, Managed
<1>2. R \subseteq Agents /\ IsFiniteSet(R) BY <1>1, MembersFinite
<1>3. \A x \in R : p[x] \in Ratio BY <1>2, PerformanceTyped
<1>4. \A x \in R : Position(x) \in Nat
  <2> TAKE x \in R
  <2>1. \E i \in DOMAIN members : members[i] = x BY DEF Range
  <2>2. Position(x) \in DOMAIN members BY <2>1 DEF Position
  <2> QED BY <1>1, <2>2
<1>5. Rank(a) = Cardinality(S(a)) /\ Rank(b) = Cardinality(S(b)) BY DEF Rank
<1>6. Below(p[b], p[a]) OBVIOUS
<1> HIDE DEF p, R
<1>7. a \in R /\ b \in R BY DEF R
<1>8. S(a) \subseteq S(b)
  <2> SUFFICES ASSUME NEW x \in R, InFront(x, a) PROVE Below(p[b], p[x]) OBVIOUS
  <2>1. ~ Below(p[x], p[a]) BY <1>3, <1>7, BelowOneWay
  <2> QED BY <1>3, <1>6, <1>7, <2>1, BelowBoth
<1>9. a \in S(b) BY <1>6, <1>7
<1>10. a \notin S(a)
  <2>1. ~ Below(p[a], p[a]) BY <1>3, <1>7, BelowOneWay
  <2>2. ~ (Position(a) < Position(a)) BY <1>4, <1>7
  <2> QED BY <2>1, <2>2
<1>11. S(a) \in SUBSET R /\ S(b) \in SUBSET R OBVIOUS
<1> HIDE DEF S
<1>12. IsFiniteSet(S(a)) /\ IsFiniteSet(S(b)) BY <1>2, <1>11, FS_Subset
<1>13. Cardinality(S(a)) <= Cardinality(S(b)) BY <1>8, <1>12, FS_Subset
<1>14. Cardinality(S(a)) # Cardinality(S(b)) BY <1>8, <1>9, <1>10, <1>12, FS_Subset
<1>15. Cardinality(S(a)) \in Nat /\ Cardinality(S(b)) \in Nat BY <1>12, FS_CardinalityType
<1> QED BY <1>5, <1>13, <1>14, <1>15

\* The settings are sensible when a boost does not shrink a weight, a decay does not grow
\* it and no weight is negative: bootstrap reads them from the configuration unchecked.
Sensible ==
  /\ Weights \subseteq Nat
  /\ \A s \in {Configured, Defaults} : s.boost >= 100 /\ s.decay <= 100 /\ s.lo >= 0
Weighed == \A a \in DOMAIN weights : weights[a] \in Nat

SettingsTyped == [window : Int, least : Int, boost : Int, decay : Int, lo : Int, hi : Int]

LEMMA ClampedFacts ==
  ASSUME settings \in SettingsTyped, NEW x \in Int
  PROVE  /\ Clamped(x) \in Int /\ Clamped(x) >= settings.lo
         /\ \A y \in Int : x <= y => Clamped(x) <= Clamped(y)
<1> DEFINE c(y) == LET m == IF settings.hi <= y THEN settings.hi ELSE y
                   IN IF settings.lo >= m THEN settings.lo ELSE m
<1>1. settings.lo \in Int /\ settings.hi \in Int BY DEF SettingsTyped
<1>2. ASSUME NEW y \in Int PROVE Clamped(y) = c(y)
  <2>1. Min({settings.hi, y}) = IF settings.hi <= y THEN settings.hi ELSE y BY <1>1, MinOfTwo
  <2>2. Min({settings.hi, y}) \in Int BY <1>1, <2>1
  <2>3. Clamped(y) = IF settings.lo >= Min({settings.hi, y}) THEN settings.lo ELSE Min({settings.hi, y})
    BY <1>1, <2>2, MaxOfTwo DEF Clamped
  <2> QED BY <2>1, <2>3
<1>3. c(x) \in Int /\ c(x) >= settings.lo BY <1>1
<1>4. \A y \in Int : x <= y => c(x) <= c(y) BY <1>1
<1> HIDE DEF c
<1> QED BY <1>2, <1>3, <1>4

Factor(a) ==
  CASE Quartile(a) = 1 -> settings.boost
    [] Quartile(a) = 4 -> settings.decay
    [] OTHER -> 100

LEMMA EvolvedIs ==
  ASSUME NEW a, weights[a] \in Nat
  PROVE  Evolved(a) = Clamped((weights[a] * Factor(a)) \div 100)
<1>1. \A w \in Nat : (w * 100) \div 100 = w OBVIOUS
<1>2. CASE Quartile(a) = 1 BY <1>2 DEF Evolved, Factor
<1>3. CASE Quartile(a) = 4 BY <1>3 DEF Evolved, Factor
<1>4. CASE Quartile(a) # 1 /\ Quartile(a) # 4
  <2>1. Factor(a) = 100 /\ Evolved(a) = Clamped(weights[a]) BY <1>4 DEF Evolved, Factor
  <2> QED BY <1>1, <2>1
<1> QED BY <1>2, <1>3, <1>4

\* Who stands before another is not given the smaller factor.
LEMMA FactorFollowsRank ==
  ASSUME Recorded, Sensible, NEW a \in Range(members), NEW b \in Range(members),
         Rank(a) \in Nat, Rank(b) \in Nat, Rank(a) < Rank(b)
  PROVE  Factor(a) \in Int /\ Factor(b) \in Int /\ Factor(b) <= Factor(a)
<1> DEFINE n == Len(members)
           size == Max({1, n \div 4})
           place(r) == CASE r < size -> 1
                         [] r >= size /\ r >= n - size -> 4
                         [] OTHER -> IF r < n \div 2 THEN 2 ELSE 3
<1>1. n \in Nat BY LenProperties DEF Recorded, Managed
<1>2. size \in Int
  <2>1. n \div 4 \in Int BY <1>1
  <2> QED BY <2>1, MaxOfTwo
<1>3. Quartile(a) = place(Rank(a)) /\ Quartile(b) = place(Rank(b)) BY DEF Quartile
<1>4. settings.boost \in Int /\ settings.decay \in Int /\ settings.boost >= 100 /\ settings.decay <= 100
  BY ManagerAssumption DEF Recorded, Managed, Sensible
<1> HIDE DEF n, size
<1>5. \A r \in Nat : /\ place(r) = 1 <=> r < size
                     /\ place(r) = 4 <=> r >= size /\ r >= n - size
  BY <1>1, <1>2
<1>6. /\ Quartile(a) = 1 <=> Rank(a) < size
      /\ Quartile(b) = 1 <=> Rank(b) < size
      /\ Quartile(a) = 4 <=> Rank(a) >= size /\ Rank(a) >= n - size
      /\ Quartile(b) = 4 <=> Rank(b) >= size /\ Rank(b) >= n - size
  BY <1>3, <1>5
<1>7. (Quartile(b) = 1 => Quartile(a) = 1) /\ (Quartile(a) = 4 => Quartile(b) = 4)
  BY <1>1, <1>2, <1>6
<1> HIDE DEF place
<1> QED BY <1>4, <1>7 DEF Factor

LEMMA EvolvedFollowsRank ==
  ASSUME Recorded, Weighed, Sensible, NEW a \in Range(members), NEW b \in Range(members),
         weights[a] = weights[b], Below(Performance(b), Performance(a))
  PROVE  Evolved(a) >= Evolved(b)
<1>1. weights[a] \in Nat /\ weights[b] \in Nat BY DEF Weighed, Recorded, Managed
<1>2. Factor(a) \in Int /\ Factor(b) \in Int /\ Factor(b) <= Factor(a)
  BY BetterRanksBefore, FactorFollowsRank
<1> DEFINE w == weights[a]  x == (w * Factor(b)) \div 100  y == (w * Factor(a)) \div 100
<1>3. settings \in SettingsTyped BY ManagerAssumption DEF Recorded, Managed, SettingsTyped
<1>4. x \in Int /\ y \in Int /\ x <= y
  <2>1. \A u \in Nat : \A f, g \in Int : f <= g => u * f <= u * g OBVIOUS
  <2>2. \A f, g \in Int : f <= g => f \div 100 <= g \div 100 OBVIOUS
  <2>3. w * Factor(b) <= w * Factor(a) /\ w * Factor(b) \in Int /\ w * Factor(a) \in Int
    BY <1>1, <1>2, <2>1
  <2> QED BY <2>2, <2>3
<1>5. Evolved(a) = Clamped(y) /\ Evolved(b) = Clamped(x) BY <1>1, EvolvedIs
<1> HIDE DEF x, y
<1>6. Clamped(x) <= Clamped(y) /\ Clamped(x) \in Int /\ Clamped(y) \in Int
  BY <1>3, <1>4, ClampedFacts
<1> QED BY <1>5, <1>6

\* What the invariant says of the outcomes survives one more, the window and the clock.
LEMMA LedgersNext ==
  ASSUME Recorded, [EvolutionNext]_evolution, NEW a \in Agents
  PROVE  Ledger(outcomes'[a])
<1>1. Ledger(outcomes[a]) BY DEF Recorded
<1>2. CASE UNCHANGED outcomes BY <1>1, <1>2
<1>3. CASE outcomes' = Pruned BY <1>3, RecentLedger DEF Pruned
<1>4. Ledger(EmptyBag) BY FS_EmptySet DEF Ledger, EmptyBag, SetToBag
<1>5. ASSUME NEW b \in Range(members), NEW t \in Trades, RecordOutcome(b, t)
      PROVE  Ledger(outcomes'[a])
  <2> DEFINE o == [ret |-> t.ret, confidence |-> t.confidence, age |-> 0]
             os == outcomes[b]
  <2>1. outcomes' = [outcomes EXCEPT ![b] = os (+) SetToBag({o})] BY <1>5 DEF RecordOutcome
  <2>2. b \in Agents BY MembersFinite DEF Recorded, Managed
  <2>3. o \in Earned
    <3>1. t \in [ret : Int, confidence : Int] BY ManagerAssumption
    <3> QED BY <3>1 DEF Earned
  <2> HIDE DEF o
  <2>4. Ledger(os) BY <2>2 DEF Recorded
  <2>5. Ledger(os (+) SetToBag({o}))
    <3> DEFINE both == os (+) SetToBag({o})
    <3>1. DOMAIN both = DOMAIN os \union {o} BY DEF (+), SetToBag
    <3>2. \A x \in DOMAIN both : both[x] \in Nat
      BY <2>4, <3>1 DEF (+), SetToBag, Ledger
    <3>3. both = [x \in DOMAIN both |-> both[x]] BY DEF (+)
    <3>4. IsFiniteSet(DOMAIN os \union {o}) BY <2>4, FS_AddElement DEF Ledger
    <3> HIDE DEF both
    <3>5. both \in [DOMAIN both -> Nat] BY <3>2, <3>3
    <3>6. DOMAIN both \subseteq Earned BY <2>3, <2>4, <3>1 DEF Ledger
    <3>7. IsFiniteSet(DOMAIN both) BY <3>1, <3>4
    <3>8. Ledger(both) BY <3>5, <3>6, <3>7 DEF Ledger
    <3> QED BY <3>8 DEF both
  <2>6. DOMAIN outcomes = Agents BY DEF Recorded, Managed
  <2> QED BY <1>1, <2>1, <2>2, <2>5, <2>6
<1>6. CASE DayPasses
  <2> DEFINE os == {o \in DOMAIN outcomes[a] : o.age < Max({Configured.window, Defaults.window})}
             X == {Older(o) : o \in os}
             Younger(x) == [x EXCEPT !.age = @ - 1]
             new == [x \in X |-> outcomes[a][Younger(x)]]
  <2>1. outcomes'[a] = new BY <1>6 DEF DayPasses
  <2>2. os \in SUBSET DOMAIN outcomes[a] OBVIOUS
  <2> HIDE DEF os
  <2>3. os \subseteq Earned /\ IsFiniteSet(os) BY <1>1, <2>2, FS_Subset DEF Ledger
  <2>4. \A o \in os : Older(o) \in Earned /\ Younger(Older(o)) = o
    <3> TAKE o \in os
    <3>1. o = [ret |-> o.ret, confidence |-> o.confidence, age |-> o.age] /\ o.age \in Int
          /\ o.ret \in Int /\ o.confidence \in Int
      BY <2>3 DEF Earned
    <3>2. Older(o) = [ret |-> o.ret, confidence |-> o.confidence, age |-> o.age + 1]
      BY <3>1 DEF Older
    <3> DEFINE older == Older(o)
    <3>3. older \in Earned /\ older.age = o.age + 1 /\ older.ret = o.ret
          /\ older.confidence = o.confidence
      BY <3>1, <3>2 DEF Earned
    <3> HIDE DEF older
    <3>4. older = [ret |-> o.ret, confidence |-> o.confidence, age |-> o.age + 1]
      BY <3>2 DEF older
    <3>5. Younger(older) = [ret |-> o.ret, confidence |-> o.confidence, age |-> (o.age + 1) - 1]
      BY <3>4
    <3>6. (o.age + 1) - 1 = o.age BY <3>1
    <3>7. Younger(older) = o BY <3>1, <3>5, <3>6
    <3> QED BY <3>3, <3>7 DEF older
  <2>5. X \subseteq Earned BY <2>4
  <2>6. \A x \in X : outcomes[a][Younger(x)] \in Nat BY <1>1, <2>2, <2>4 DEF Ledger
  <2>7. IsFiniteSet(X)
    <3> DEFINE g == [o \in os |-> Older(o)]
    <3>1. g \in Surjection(os, X) BY DEF Surjection
    <3> HIDE DEF g, X
    <3> QED BY <2>3, <3>1, FS_Surjection
  <2> HIDE DEF X, Younger
  <2>8. new \in [DOMAIN new -> Nat] /\ DOMAIN new = X BY <2>6
  <2> QED BY <2>1, <2>5, <2>7, <2>8 DEF Ledger
<1>7. ASSUME NEW saved \in BOOLEAN, StartAnew(saved) PROVE Ledger(outcomes'[a])
  <2>1. outcomes' = outcomes \/ outcomes' = NoOutcomes BY <1>7 DEF StartAnew
  <2> QED BY <1>1, <1>4, <2>1 DEF NoOutcomes
<1> QED
  BY <1>2, <1>3, <1>5, <1>6, <1>7
     DEF EvolutionNext, Step, Propose, ProposeNothing, TrialGoesOn, ResolveTrial, UpdateWeights,
         SetWeight, AddAgent, RegisterAgent, manager, evolution

LEMMA RecordedNext == ASSUME Recorded, [EvolutionNext]_evolution PROVE Recorded'
<1>1. Managed' BY ManagedNext DEF Recorded
<1>2. \A a \in Agents : Ledger(outcomes[a])' BY LedgersNext DEF Ledger
<1>3. updates' \in Nat
  <2>1. updates' \in {updates, updates + 1, 0}
    BY DEF EvolutionNext, Step, Propose, ProposeNothing, TrialGoesOn, ResolveTrial, UpdateWeights,
           SetWeight, AddAgent, RegisterAgent, RecordOutcome, DayPasses, StartAnew, manager, evolution
  <2> QED BY <2>1 DEF Recorded
<1> QED BY <1>1, <1>2, <1>3 DEF Recorded

\* No weight becomes negative: an update and a caller's weight are clamped, and the weight
\* that comes with an agent is one that somebody asks for.
LEMMA WeighedNext ==
  ASSUME Recorded, Weighed, Sensible, [EvolutionNext]_evolution
  PROVE  Weighed'
<1>1. settings \in SettingsTyped /\ settings.lo >= 0
  BY ManagerAssumption DEF Recorded, Managed, Sensible, SettingsTyped
<1>2. \A x \in Int : Clamped(x) \in Nat
  <2> TAKE x \in Int
  <2>1. Clamped(x) \in Int /\ Clamped(x) >= settings.lo BY <1>1, ClampedFacts
  <2> QED BY <1>1, <2>1 DEF SettingsTyped
<1>3. CASE UpdateWeights
  <2>1. \A a \in DOMAIN weights : Evolved(a) \in Nat
    <3> TAKE a \in DOMAIN weights
    <3>1. weights[a] \in Nat BY DEF Weighed
    <3>2. Factor(a) \in Int
      BY ManagerAssumption DEF Factor, Recorded, Managed
    <3>3. (weights[a] * Factor(a)) \div 100 \in Int BY <3>1, <3>2
    <3> QED BY <1>2, <3>1, <3>3, EvolvedIs
  <2> QED BY <1>3, <2>1 DEF UpdateWeights, Weighed
<1>4. ASSUME NEW a \in Agents, NEW w \in Weights, SetWeight(a, w) \/ AddAgent(a, w)
      PROVE  Weighed'
  <2>1. w \in Nat /\ Clamped(w) \in Nat BY <1>2 DEF Sensible
  <2> QED BY <1>4, <2>1 DEF SetWeight, AddAgent, Put, Weighed
<1>5. ASSUME NEW saved \in BOOLEAN, StartAnew(saved) PROVE Weighed'
  BY <1>5 DEF StartAnew, TypicalWeight, Weighed
<1>6. CASE UNCHANGED weights BY <1>6 DEF Weighed
<1> QED
  BY <1>3, <1>4, <1>5, <1>6
     DEF EvolutionNext, Step, Propose, ProposeNothing, TrialGoesOn, ResolveTrial,
         RegisterAgent, RecordOutcome, DayPasses, manager, evolution

\* Of two agents with the same weight the one with the better ratio never comes out of an
\* update with the smaller weight, whatever the outcomes, ties and quartiles, provided that
\* the settings are sensible.
THEOREM BetterStaysAhead == ASSUME Sensible PROVE EvolutionSpec => BetterIsNotBehind
<1>1. EvolutionInit => Recorded /\ Weighed
  <2> SUFFICES ASSUME EvolutionInit PROVE Recorded /\ Weighed OBVIOUS
  <2>1. Managed BY FleetAssumption DEF EvolutionInit, NoOutcomes, Managed
  <2>2. Ledger(EmptyBag) BY FS_EmptySet DEF Ledger, EmptyBag, SetToBag
  <2> QED BY <2>1, <2>2 DEF EvolutionInit, NoOutcomes, TypicalWeight, Recorded, Weighed
<1>2. Recorded /\ Weighed /\ [EvolutionNext]_evolution => (Recorded /\ Weighed)'
  BY RecordedNext, WeighedNext
<1>3. ASSUME Recorded, Weighed, [EvolutionNext]_evolution
      PROVE  updates' = updates + 1 =>
               \A a, b \in DOMAIN weights :
                 weights[a] = weights[b] /\ Below(Performance(b), Performance(a))
                   => weights'[a] >= weights'[b]
  <2> SUFFICES ASSUME updates' = updates + 1, NEW a \in DOMAIN weights, NEW b \in DOMAIN weights,
                      weights[a] = weights[b], Below(Performance(b), Performance(a))
               PROVE  weights'[a] >= weights'[b]
    OBVIOUS
  <2>1. UpdateWeights
    <3>1. updates' # updates /\ updates' # 0 BY <1>3 DEF Recorded
    <3> QED
      BY <1>3, <3>1
         DEF EvolutionNext, Step, Propose, ProposeNothing, TrialGoesOn, ResolveTrial, SetWeight,
             AddAgent, RegisterAgent, RecordOutcome, DayPasses, StartAnew, manager, evolution
  <2>2. a \in Range(members) /\ b \in Range(members) BY <1>3 DEF Recorded, Managed
  <2>3. Evolved(a) >= Evolved(b) BY <1>3, <2>2, EvolvedFollowsRank
  <2> QED BY <2>1, <2>3 DEF UpdateWeights
<1> QED BY <1>1, <1>2, <1>3, PTL DEF EvolutionSpec, BetterIsNotBehind
=============================================================================
