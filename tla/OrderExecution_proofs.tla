----------------------- MODULE OrderExecution_proofs -----------------------
(***************************************************************************)
(* Theorems about OrderExecution, for any number of orders, symbols,       *)
(* partial fills, crashes and failed writes: the inductive invariant IInv, *)
(* the safety properties that follow from it, and the refinement of        *)
(* OrderLedger by the event log.                                           *)
(***************************************************************************)
EXTENDS OrderExecution, TLAPS

USE BoundsAssumption, OrderDataAssumption, ModeAssumption DEF Orders

\* NoFill and the two constant records are well typed.
LEMMA ConstantRecords ==
  /\ NoFill \in Fill
  /\ Absent \in OrderRecord /\ Tracked \in OrderRecord
<1>1. NoFill \in Fill
  BY DEF NoFill, Fill
<1> QED
  BY <1>1 DEF OrderRecord, Status, Absent, Tracked

\* The record operations stay within OrderRecord.
LEMMA RecordOps ==
  ASSUME NEW r \in OrderRecord, NEW t \in Fill
  PROVE  /\ WithSubmission(r) \in OrderRecord
         /\ WithFill(r, t) \in OrderRecord
         /\ WithCancel(r) \in OrderRecord
         /\ ReplaySubmitted(r) \in OrderRecord
         /\ ReplayFill(r, t) \in OrderRecord
         /\ ReplayCancelled(r) \in OrderRecord
         /\ RestoredRecord(r) \in OrderRecord
<1>1. WithSubmission(r) \in OrderRecord /\ WithCancel(r) \in OrderRecord
  BY DEF OrderRecord, Status, WithSubmission, WithCancel
<1>2. WithFill(r, t) \in OrderRecord
  BY DEF OrderRecord, Status, WithFill
<1>3. ReplaySubmitted(r) \in OrderRecord /\ ReplayCancelled(r) \in OrderRecord
  BY <1>1, ConstantRecords
  DEF Replayed, ReplaySubmitted, ReplayCancelled, WithSubmission, WithCancel
<1>4. ReplayFill(r, t) \in OrderRecord
  BY <1>2, ConstantRecords DEF Replayed, ReplayFill, WithFill
<1>5. RestoredRecord(r) \in OrderRecord
  BY ConstantRecords DEF RestoredRecord
<1> QED
  BY <1>1, <1>2, <1>3, <1>4, <1>5

\* What each operation does to the fields, and that replaying an event does
\* to a logged record what the call did to the one in memory.
LEMMA RecordFields ==
  ASSUME NEW r \in OrderRecord, NEW t \in Fill
  PROVE  /\ WithSubmission(r).status = "submitted" /\ WithSubmission(r).xid
         /\ WithSubmission(r).fill = r.fill
         /\ WithFill(r, t).status = "filled" /\ WithFill(r, t).fill = t
         /\ WithFill(r, t).xid = r.xid
         /\ WithCancel(r).status = "cancelled" /\ WithCancel(r).fill = r.fill
         /\ WithCancel(r).xid = r.xid
         /\ r # Absent => /\ ReplaySubmitted(r) = WithSubmission(r)
                          /\ ReplayFill(r, t) = WithFill(r, t)
                          /\ ReplayCancelled(r) = WithCancel(r)
         /\ ReplaySubmitted(Absent) = Absent /\ ReplayFill(Absent, t) = Absent
         /\ ReplayCancelled(Absent) = Absent
<1>1. /\ WithSubmission(r).status = "submitted" /\ WithSubmission(r).xid
      /\ WithSubmission(r).fill = r.fill
  BY DEF OrderRecord, WithSubmission
<1>2. /\ WithFill(r, t).status = "filled" /\ WithFill(r, t).fill = t
      /\ WithFill(r, t).xid = r.xid
  BY DEF OrderRecord, WithFill
<1>3. /\ WithCancel(r).status = "cancelled" /\ WithCancel(r).fill = r.fill
      /\ WithCancel(r).xid = r.xid
  BY DEF OrderRecord, WithCancel
<1>4. r # Absent => /\ ReplaySubmitted(r) = WithSubmission(r)
                   /\ ReplayFill(r, t) = WithFill(r, t)
                   /\ ReplayCancelled(r) = WithCancel(r)
  BY DEF Replayed, ReplaySubmitted, ReplayFill, ReplayCancelled,
         WithSubmission, WithFill, WithCancel
<1>5. /\ ReplaySubmitted(Absent) = Absent /\ ReplayFill(Absent, t) = Absent
      /\ ReplayCancelled(Absent) = Absent
  BY DEF Replayed, ReplaySubmitted, ReplayFill, ReplayCancelled
<1> QED
  BY <1>1, <1>2, <1>3, <1>4, <1>5

\* Field values of the two constant records.
LEMMA ConstantFields ==
  /\ Absent.status = "absent" /\ Absent.xid = FALSE /\ Absent.fill = NoFill
  /\ Tracked.status = "tracked" /\ Tracked.xid = FALSE /\ Tracked.fill = NoFill
  BY DEF Absent, Tracked

\* A record is its three fields, and what the operations make of them.
LEMMA RecordForms ==
  ASSUME NEW r \in OrderRecord, NEW t \in Fill
  PROVE  /\ r = [status |-> r.status, xid |-> r.xid, fill |-> r.fill]
         /\ WithFill(r, t) = [status |-> "filled", xid |-> r.xid, fill |-> t]
         /\ WithCancel(r) = [status |-> "cancelled", xid |-> r.xid, fill |-> r.fill]
         /\ WithSubmission(r) = [status |-> "submitted", xid |-> TRUE, fill |-> r.fill]
<1>1. r = [status |-> r.status, xid |-> r.xid, fill |-> r.fill]
  BY DEF OrderRecord
<1>2. WithCancel(r) = [status |-> "cancelled", xid |-> r.xid, fill |-> r.fill]
  BY DEF OrderRecord, WithCancel
<1> QED
  BY <1>1, <1>2 DEF WithFill, WithSubmission

\* A cancel before a cancel, a fill or a submission leaves no trace.
LEMMA CancelAbsorbed ==
  ASSUME NEW r \in OrderRecord, NEW t \in Fill
  PROVE  /\ WithCancel(WithCancel(r)) = WithCancel(r)
         /\ WithFill(WithCancel(r), t) = WithFill(r, t)
         /\ WithSubmission(WithCancel(r)) = WithSubmission(r)
<1>1. WithCancel(r) \in OrderRecord
  BY RecordOps
<1> QED
  BY <1>1, RecordForms DEF WithCancel, WithFill, WithSubmission, OrderRecord

\* The record of an order whose submission is in memory.
LEMMA SubmittedRecord ==
  /\ Submitted \in OrderRecord /\ WithCancel(Submitted) \in OrderRecord
  /\ Submitted.status = "submitted" /\ Submitted.xid /\ Submitted.fill = NoFill
  /\ WithCancel(Submitted).status = "cancelled" /\ WithCancel(Submitted).xid
  /\ WithCancel(Submitted).fill = NoFill
  /\ WithCancel(Tracked) \in OrderRecord
  /\ WithCancel(Tracked).status = "cancelled" /\ ~WithCancel(Tracked).xid
  /\ WithCancel(Tracked).fill = NoFill
  /\ ReplaySubmitted(Tracked) = Submitted
  /\ ReplaySubmitted(WithCancel(Tracked)) = Submitted
<1>1. Tracked \in OrderRecord /\ NoFill \in Fill /\ Tracked # Absent
  BY ConstantRecords, ConstantFields
<1>2. Submitted \in OrderRecord /\ WithCancel(Tracked) \in OrderRecord
  BY <1>1, RecordOps DEF Submitted
<1>3. WithCancel(Submitted) \in OrderRecord
  BY <1>1, <1>2, RecordOps
<1>4. /\ Submitted.status = "submitted" /\ Submitted.xid /\ Submitted.fill = NoFill
      /\ WithCancel(Tracked).status = "cancelled" /\ ~WithCancel(Tracked).xid
      /\ WithCancel(Tracked).fill = NoFill
      /\ ReplaySubmitted(Tracked) = Submitted
  BY <1>1, RecordFields, ConstantFields DEF Submitted
<1>5. /\ WithCancel(Submitted).status = "cancelled" /\ WithCancel(Submitted).xid
      /\ WithCancel(Submitted).fill = NoFill
  BY <1>1, <1>2, <1>4, RecordFields
<1>6. WithCancel(Tracked) # Absent
  BY <1>4, ConstantFields
<1>7. ReplaySubmitted(WithCancel(Tracked)) = WithSubmission(WithCancel(Tracked))
  BY <1>1, <1>2, <1>6, RecordFields
<1>8. WithSubmission(WithCancel(Tracked)) = Submitted
  BY <1>1, CancelAbsorbed DEF Submitted
<1> QED
  BY <1>2, <1>3, <1>4, <1>5, <1>7, <1>8

\* What replay makes of each event.
LEMMA Images ==
  ASSUME NEW r \in OrderRecord, NEW t \in Fill
  PROVE  /\ Image("none", r, t) = r
         /\ Image("tracked", r, t) = Tracked
         /\ Image("submitted", r, t) = ReplaySubmitted(r)
         /\ Image("fill", r, t) = ReplayFill(r, t)
         /\ Image("cancelled", r, t) = ReplayCancelled(r)
         /\ \A e \in Events : Image(e, r, t) \in OrderRecord
<1>1. /\ Image("none", r, t) = r
      /\ Image("tracked", r, t) = Tracked
      /\ Image("submitted", r, t) = ReplaySubmitted(r)
      /\ Image("fill", r, t) = ReplayFill(r, t)
      /\ Image("cancelled", r, t) = ReplayCancelled(r)
  BY DEF Image
<1> QED
  BY <1>1, RecordOps, ConstantRecords DEF Events

\* The field-wise effect of replay on a record that exists.
LEMMA ReplayFields ==
  ASSUME NEW r \in OrderRecord, NEW t \in Fill, r # Absent
  PROVE  /\ ReplayCancelled(r) = WithCancel(r) /\ ReplayCancelled(r).status = "cancelled"
         /\ ReplayCancelled(r).xid = r.xid /\ ReplayCancelled(r).fill = r.fill
         /\ ReplayFill(r, t) = WithFill(r, t) /\ ReplayFill(r, t).status = "filled"
         /\ ReplayFill(r, t).fill = t
  BY RecordFields

\* Initially nothing is recorded anywhere.
LEMMA InitIInv == Init => IInv
<1> SUFFICES ASSUME Init PROVE IInv
  OBVIOUS
<1>1. Absent \in OrderRecord
  BY ConstantRecords
<1>2. TypeOK
  BY <1>1 DEF Init, TypeOK, Calls, Events
<1>3. ExchangeMapExact
  BY DEF Init, ExchangeMapExact, Absent
<1>4. MemoryMatchesLog
  BY DEF Init, MemoryMatchesLog, LogAfter
<1>5. /\ InFlight /\ CallEvents /\ Uncreated /\ NoRecord /\ LogFollowsMemory
      /\ CancelQueues
  BY DEF Init, InFlight, CallEvents, Uncreated, NoRecord, LogFollowsMemory, CancelQueues,
         Absent
<1> QED
  BY <1>2, <1>3, <1>4, <1>5 DEF IInv

-----------------------------------------------------------------------------
(* What IInv says about records, index and log *)

Books == /\ ExchangeMapExact /\ MemoryMatchesLog /\ Uncreated
         /\ NoRecord /\ LogFollowsMemory

\* Without an append under way the log is what replay will yield, before a
\* step and after it.
LEMMA Settled ==
  ASSUME NEW o \in Orders
  PROVE  /\ event = "none" => LogAfter(o) = logged[o]
         /\ event' = "none" => LogAfter(o)' = logged'[o]
  BY DEF LogAfter, Image

\* Steps that touch no record, index or log, and hand over no event, keep
\* what IInv says about those.
LEMMA QuietStep ==
  ASSUME IInv, UNCHANGED <<store, xmap, up, log, created, event>>,
         event = "none" \/ cur' = cur
  PROVE  Books'
<1>1. /\ TypeOK
      /\ UNCHANGED <<logged, dirty, overtaken, faults>>
  BY DEF IInv, log
<1>2. \A o \in Orders : LogAfter(o)' = LogAfter(o)
  <2>1. CASE event = "none"
    BY <1>1, <2>1, Settled
  <2>2. CASE cur' = cur
    BY <1>1, <2>2 DEF LogAfter
  <2> QED
    BY <2>1, <2>2
<1>3. MemoryMatchesLog'
  BY <1>1, <1>2 DEF IInv, MemoryMatchesLog
<1> QED
  BY <1>1, <1>3 DEF Books, IInv, ExchangeMapExact, Uncreated, NoRecord, LogFollowsMemory

\* A record that exists changes in memory and its event is about to be
\* appended: record_submission, record_fill and record_cancel up to there.
LEMMA MemoryStep ==
  ASSUME IInv, NEW o \in Orders, NEW new \in OrderRecord, NEW e \in Events,
         event = "none", event' = e, cur' = o,
         store[o] # Absent, up, up' = up, created' = created, UNCHANGED log,
         store' = [store EXCEPT ![o] = new],
         xmap' = IF new.xid THEN xmap \union {o} ELSE xmap \ {o},
         new.status \in {"submitted", "filled", "cancelled"},
         store[o].status = "filled" => new.status = "filled",
         \/ store[o] = logged[o]
         \/ logged[o] # Absent /\ store[o] = WithCancel(logged[o])
         => new = Image(e, logged[o], new.fill)
  PROVE  Books' /\ store' \in [Orders -> OrderRecord] /\ xmap' \subseteq Orders
<1> USE ConstantFields
<1>1. TypeOK /\ UNCHANGED <<logged, dirty, overtaken, faults>>
  BY DEF IInv, log
<1>2. /\ store' \in [Orders -> OrderRecord]
      /\ store'[o] = new
      /\ \A p \in Orders \ {o} : store'[p] = store[p]
  BY <1>1 DEF TypeOK
<1>3. xmap' \subseteq Orders
  BY <1>1 DEF TypeOK
<1>4. ExchangeMapExact'
  BY <1>2, <1>1 DEF IInv, ExchangeMapExact, TypeOK, OrderRecord
<1>5. /\ \A p \in Orders \ {o} : LogAfter(p)' = LogAfter(p)
      /\ LogAfter(o)' = Image(e, logged[o], new.fill)
      /\ LogAfter(o) = logged[o]
  BY <1>1, <1>2, Settled DEF LogAfter
<1>6. MemoryMatchesLog'
  <2> SUFFICES ASSUME NEW p \in Orders \ dirty
               PROVE  \/ store'[p] = LogAfter(p)'
                      \/ store'[p] = Absent /\ logged[p].status \in Terminal
                      \/ p \in overtaken /\ store'[p] = WithCancel(LogAfter(p)')
    BY <1>1 DEF MemoryMatchesLog
  <2>1. \/ store[p] = LogAfter(p)
        \/ store[p] = Absent /\ logged[p].status \in Terminal
        \/ p \in overtaken /\ store[p] = WithCancel(LogAfter(p))
    BY DEF IInv, MemoryMatchesLog
  <2>2. CASE p # o
    BY <1>2, <1>5, <2>1, <2>2
  <2>3. CASE p = o
    <3>1. p \in overtaken => logged[p] # Absent
      BY DEF IInv, LogFollowsMemory
    <3> QED
      BY <1>2, <1>5, <2>1, <2>3, <3>1
  <2> QED
    BY <2>2, <2>3
<1>7. Uncreated'
  <2>1. o <= created
    BY <1>1 DEF IInv, Uncreated, TypeOK
  <2> QED
    BY <1>1, <1>2, <2>1 DEF IInv, Uncreated, TypeOK
<1>8. NoRecord'
  BY <1>1, <1>2 DEF IInv, NoRecord
<1>9. LogFollowsMemory'
  <2>1. store'[o].status = "filled" \/ logged[o].status # "filled"
    BY <1>2 DEF IInv, LogFollowsMemory, NoRecord
  <2> QED
    BY <1>1, <1>2, <2>1 DEF IInv, LogFollowsMemory
<1> QED
  BY <1>2, <1>3, <1>4, <1>6, <1>7, <1>8, <1>9 DEF Books

\* record_cancel of an existing record that is not filled.
LEMMA CancelMemory ==
  ASSUME IInv, NEW o \in Orders, store[o].status \in {"tracked", "submitted", "cancelled"},
         event = "none", event' = "cancelled", cur' = o,
         up, up' = up, created' = created, UNCHANGED log, xmap' = xmap,
         store' = [store EXCEPT ![o] = WithCancel(@)]
  PROVE  /\ Books' /\ store' \in [Orders -> OrderRecord] /\ xmap' \subseteq Orders
         /\ store'[o].status = "cancelled"
<1> DEFINE new == WithCancel(store[o])
<1>1. store[o] \in OrderRecord /\ logged[o] \in OrderRecord /\ NoFill \in Fill
  BY ConstantRecords DEF IInv, TypeOK
<1>2. /\ new \in OrderRecord /\ new.status = "cancelled" /\ new.xid = store[o].xid
      /\ store[o] # Absent
  BY <1>1, RecordOps, RecordFields, ConstantFields
<1>3. new.fill \in Fill
  BY <1>2 DEF OrderRecord
<1>4. Image("cancelled", logged[o], new.fill) = ReplayCancelled(logged[o])
  BY <1>1, <1>3, Images
<1>5. logged[o] # Absent => ReplayCancelled(logged[o]) = WithCancel(logged[o])
  BY <1>1, RecordFields
<1>6. WithCancel(WithCancel(logged[o])) = WithCancel(logged[o])
  BY <1>1, CancelAbsorbed
<1>7. \/ store[o] = logged[o]
      \/ logged[o] # Absent /\ store[o] = WithCancel(logged[o])
      => new = Image("cancelled", logged[o], new.fill)
  BY <1>2, <1>4, <1>5, <1>6
<1>8. xmap' = IF new.xid THEN xmap \union {o} ELSE xmap \ {o}
  BY <1>2 DEF IInv, ExchangeMapExact
<1>9. store' = [store EXCEPT ![o] = new] /\ "cancelled" \in Events
  BY DEF Events
<1>10. store'[o] = new
  BY <1>9 DEF IInv, TypeOK
<1> HIDE DEF new
<1>11. Books' /\ store' \in [Orders -> OrderRecord] /\ xmap' \subseteq Orders
  BY <1>2, <1>7, <1>8, <1>9, MemoryStep
<1> QED
  BY <1>2, <1>10, <1>11

\* record_fill of an existing record.
LEMMA FillMemory ==
  ASSUME IInv, NEW o \in Orders, NEW t \in Fill, store[o] # Absent,
         event = "none", event' = "fill", cur' = o,
         up, up' = up, created' = created, UNCHANGED log, xmap' = xmap,
         store' = [store EXCEPT ![o] = WithFill(@, t)]
  PROVE  /\ Books' /\ store' \in [Orders -> OrderRecord] /\ xmap' \subseteq Orders
         /\ store'[o].status = "filled" /\ store'[o].fill = t
<1> DEFINE new == WithFill(store[o], t)
<1>1. store[o] \in OrderRecord /\ logged[o] \in OrderRecord
  BY DEF IInv, TypeOK
<1>2. /\ new \in OrderRecord /\ new.status = "filled" /\ new.xid = store[o].xid
      /\ new.fill = t
  BY <1>1, RecordOps, RecordFields
<1>3. Image("fill", logged[o], new.fill) = ReplayFill(logged[o], t)
  BY <1>1, <1>2, Images
<1>4. logged[o] # Absent => ReplayFill(logged[o], t) = WithFill(logged[o], t)
  BY <1>1, RecordFields
<1>5. WithFill(WithCancel(logged[o]), t) = WithFill(logged[o], t)
  BY <1>1, CancelAbsorbed
<1>6. \/ store[o] = logged[o]
      \/ logged[o] # Absent /\ store[o] = WithCancel(logged[o])
      => new = Image("fill", logged[o], new.fill)
  BY <1>3, <1>4, <1>5
<1>7. xmap' = IF new.xid THEN xmap \union {o} ELSE xmap \ {o}
  BY <1>2 DEF IInv, ExchangeMapExact
<1>8. store' = [store EXCEPT ![o] = new] /\ "fill" \in Events
  BY DEF Events
<1>9. store'[o] = new
  BY <1>8 DEF IInv, TypeOK
<1> HIDE DEF new
<1>10. Books' /\ store' \in [Orders -> OrderRecord] /\ xmap' \subseteq Orders
  BY <1>2, <1>6, <1>7, <1>8, MemoryStep
<1> QED
  BY <1>2, <1>9, <1>10

-----------------------------------------------------------------------------
(* The event that is in memory and not yet in the log *)

\* What replay makes of the order in hand once its event is appended.
LogImage == Image(event, logged[cur], store[cur].fill)

\* The order in hand has a record.
LEMMA InHand ==
  ASSUME IInv, event # "none"
  PROVE  /\ up /\ cur \in Orders /\ cur <= created /\ store[cur] # Absent
         /\ logged[cur] \in OrderRecord /\ store[cur] \in OrderRecord
         /\ store[cur].fill \in Fill
<1>1. TypeOK /\ up /\ cur \in Orders
  BY DEF IInv, InFlight
<1>2. logged[cur] \in OrderRecord /\ store[cur] \in OrderRecord
  BY <1>1 DEF TypeOK
<1>3. store[cur].fill \in Fill
  BY <1>2 DEF OrderRecord
<1>4. store[cur].status # "absent"
  <2>1. event \in {"tracked", "submitted", "fill", "cancelled"}
    BY <1>1 DEF TypeOK, Events
  <2>2. CASE event = "tracked"
    BY <2>2, ConstantFields DEF IInv, InFlight, CallEvents
  <2>3. CASE event = "submitted"
    BY <2>3, SubmittedRecord DEF IInv, InFlight
  <2>4. CASE event \in {"fill", "cancelled"}
    BY <2>4 DEF IInv, InFlight
  <2> QED
    BY <2>1, <2>2, <2>3, <2>4
<1>5. store[cur] # Absent
  BY <1>4, ConstantFields
<1>6. cur <= created
  BY <1>1, <1>5 DEF IInv, Uncreated, TypeOK
<1> QED
  BY <1>1, <1>2, <1>3, <1>5, <1>6

\* The four events, with the log they find.
LEMMA PendingEvent ==
  ASSUME IInv, event # "none"
  PROVE  \/ /\ event = "tracked" /\ LogImage = Tracked /\ logged[cur] = Absent
         \/ /\ event = "submitted" /\ LogImage = Submitted
            /\ logged[cur] \in {Tracked, WithCancel(Tracked)}
         \/ /\ event = "fill" /\ store[cur].status = "filled"
            /\ LogImage = ReplayFill(logged[cur], store[cur].fill)
         \/ /\ event = "cancelled" /\ logged[cur].status # "filled"
            /\ LogImage = ReplayCancelled(logged[cur])
<1>1. event \in {"tracked", "submitted", "fill", "cancelled"}
  BY DEF IInv, TypeOK, Events
<1>2. CASE event = "tracked"
  <2>1. logged[cur] = Absent
    BY <1>2 DEF IInv, InFlight, CallEvents
  <2> QED
    BY <1>2, <2>1, InHand, Images DEF LogImage
<1>3. CASE event = "submitted"
  <2>1. logged[cur] \in {Tracked, WithCancel(Tracked)}
    BY <1>3 DEF IInv, InFlight
  <2>2. LogImage = ReplaySubmitted(logged[cur])
    BY <1>3, InHand, Images DEF LogImage
  <2> QED
    BY <1>3, <2>1, <2>2, SubmittedRecord
<1>4. CASE event = "fill"
  <2>1. store[cur].status = "filled"
    BY <1>4 DEF IInv, InFlight
  <2> QED
    BY <1>4, <2>1, InHand, Images DEF LogImage
<1>5. CASE event = "cancelled"
  <2>1. store[cur].status = "cancelled" /\ cur \in Orders
    BY <1>5, InHand DEF IInv, InFlight
  <2>2. logged[cur].status # "filled"
    BY <2>1 DEF IInv, LogFollowsMemory
  <2> QED
    BY <1>5, <2>2, InHand, Images DEF LogImage
<1> QED
  BY <1>1, <1>2, <1>3, <1>4, <1>5

\* What the append leaves is a record that IInv allows in the log.
LEMMA LogImageFacts ==
  ASSUME IInv, event # "none"
  PROVE  /\ LogImage \in OrderRecord
         /\ LogImage.status = "absent" => LogImage = Absent
         /\ LogImage.status = "filled" => store[cur].status = "filled"
         /\ LogImage.status # "filled" => LogImage.fill = NoFill
         /\ LogImage.status = "tracked" => ~LogImage.xid
         /\ LogImage.status = "submitted" => LogImage.xid
         /\ logged[cur] # Absent => LogImage # Absent
<1> USE ConstantFields
<1> DEFINE t == store[cur].fill
<1>1. logged[cur] \in OrderRecord /\ t \in Fill /\ cur \in Orders /\ event \in Events
  BY InHand DEF IInv, TypeOK
<1>2. LogImage \in OrderRecord
  BY <1>1, Images DEF LogImage
<1>3. CASE LogImage = Tracked
  BY <1>2, <1>3
<1>4. CASE LogImage = Submitted
  BY <1>2, <1>4, SubmittedRecord
<1>5. CASE /\ store[cur].status = "filled"
           /\ LogImage = ReplayFill(logged[cur], store[cur].fill)
  <2>1. CASE logged[cur] = Absent
    <3>1. LogImage = Absent
      BY <1>1, <1>5, <2>1, RecordFields
    <3> QED
      BY <1>2, <2>1, <3>1
  <2>2. CASE logged[cur] # Absent
    <3>1. LogImage.status = "filled"
      BY <1>1, <1>5, <2>2, ReplayFields
    <3> QED
      BY <1>2, <1>5, <3>1
  <2> QED
    BY <2>1, <2>2
<1>6. CASE logged[cur].status # "filled" /\ LogImage = ReplayCancelled(logged[cur])
  <2>1. CASE logged[cur] = Absent
    <3>1. LogImage = Absent
      BY <1>1, <1>6, <2>1, RecordFields
    <3> QED
      BY <1>2, <2>1, <3>1
  <2>2. CASE logged[cur] # Absent
    <3>1. LogImage.status = "cancelled" /\ LogImage.fill = logged[cur].fill
      BY <1>1, <1>6, <2>2, ReplayFields
    <3>2. logged[cur].fill = NoFill
      BY <1>1, <1>6 DEF IInv, LogFollowsMemory
    <3> QED
      BY <1>2, <3>1, <3>2
  <2> QED
    BY <2>1, <2>2
<1> QED
  BY <1>3, <1>4, <1>5, <1>6, PendingEvent

\* EventStore.append returns, or raises and loses the event.
LEMMA AppendEffect ==
  ASSUME IInv, event # "none", Appended \/ AppendRaised(cur)
  PROVE  /\ faults' \in 0..MaxLogFaults /\ dirty' \subseteq Orders /\ overtaken' = overtaken
         /\ logged' \in [Orders -> OrderRecord]
         /\ \A p \in Orders \ {cur} : logged'[p] = logged[p] /\ (p \in dirty' <=> p \in dirty)
         /\ cur \in dirty => cur \in dirty'
         /\ \/ logged'[cur] = LogImage
            \/ logged'[cur] = logged[cur] /\ cur \in dirty'
<1>1. TypeOK /\ cur \in Orders /\ LogImage \in OrderRecord
  BY InHand, LogImageFacts DEF IInv
<1>2. CASE Appended
  <2>1. logged' = [logged EXCEPT ![cur] = LogImage] /\ UNCHANGED <<faults, dirty, overtaken>>
    BY <1>2 DEF Appended, LogImage
  <2> QED
    BY <1>1, <2>1 DEF TypeOK
<1>3. CASE AppendRaised(cur)
  <2>1. faults' \in 0..MaxLogFaults
    BY <1>1, <1>3 DEF AppendRaised, TypeOK
  <2>2. dirty' = dirty \union {cur} /\ UNCHANGED <<logged, overtaken>>
    BY <1>3 DEF AppendRaised
  <2> QED
    BY <1>1, <2>1, <2>2 DEF TypeOK
<1> QED
  BY <1>2, <1>3

\* The append under way goes through, or is lost: what IInv says about
\* records, index and log holds either way.
LEMMA AppendStep ==
  ASSUME IInv, event # "none", event' = "none", Appended \/ AppendRaised(cur),
         UNCHANGED <<store, xmap, up, created>>
  PROVE  Books'
<1> USE ConstantFields
<1>1. TypeOK /\ up /\ cur \in Orders /\ cur <= created
  BY InHand DEF IInv
<1>2. ExchangeMapExact'
  BY DEF IInv, ExchangeMapExact
<1>3. MemoryMatchesLog'
  <2> SUFFICES ASSUME NEW p \in Orders \ dirty'
               PROVE  \/ store[p] = LogAfter(p)'
                      \/ store[p] = Absent /\ logged'[p].status \in Terminal
                      \/ p \in overtaken /\ store[p] = WithCancel(LogAfter(p)')
    BY AppendEffect DEF MemoryMatchesLog
  <2>1. LogAfter(p)' = logged'[p]
    BY Settled
  <2>2. logged'[p] = LogAfter(p)
    BY <1>1, AppendEffect DEF LogAfter, LogImage
  <2>3. p \in Orders \ dirty
    BY <1>1, AppendEffect
  <2>4. \/ store[p] = LogAfter(p)
        \/ store[p] = Absent /\ logged[p].status \in Terminal
        \/ p \in overtaken /\ store[p] = WithCancel(LogAfter(p))
    BY <1>1, <2>3 DEF IInv, MemoryMatchesLog
  <2>5. p = cur => store[p] # Absent
    BY InHand
  <2>6. p # cur => logged'[p] = logged[p]
    BY AppendEffect
  <2> QED
    BY <2>1, <2>2, <2>4, <2>5, <2>6
<1>4. Uncreated'
  BY <1>1, AppendEffect DEF IInv, Uncreated, TypeOK
<1>5. NoRecord'
  BY <1>1, AppendEffect, LogImageFacts DEF IInv, NoRecord
<1>6. LogFollowsMemory'
  BY <1>1, AppendEffect, LogImageFacts DEF IInv, LogFollowsMemory
<1> QED
  BY <1>2, <1>3, <1>4, <1>5, <1>6 DEF Books

-----------------------------------------------------------------------------
(* The steps *)

\* A step of the loop's thread finds the handler at rest.
LEMMA HandlerAtRest ==
  ASSUME IInv, Running
  PROVE  up /\ marks = {}
  BY DEF IInv, CancelQueues, Running

\* The cycle moves on; nothing else changes.
LEMMA MoveStep ==
  ASSUME IInv,
         \/ BeginCycle \/ Blocked \/ PassGate \/ NoOrder \/ EndFills \/ Leave
         \/ \E s \in Symbols : PollFails(s)
  PROVE  IInv'
<1>1. /\ event = "none" /\ todo' \subseteq Symbols
      /\ stage' \in {"top", "guard", "desk", "fills", "recon", "out"}
      /\ UNCHANGED <<memory, thread, handler, up, mode, log, created, exchange, crashes>>
  BY DEF IInv, TypeOK, BeginCycle, Blocked, PassGate, NoOrder, EndFills, Leave, PollFails,
         AtStage, Calling, MoveTo
<1>2. /\ TypeOK' /\ InFlight' /\ CallEvents' /\ CancelQueues'
  BY <1>1 DEF IInv, TypeOK, InFlight, CallEvents, CancelQueues, memory, thread, handler, log,
              exchange
<1>3. Books'
  BY <1>1, QuietStep DEF memory, thread
<1> QED
  BY <1>2, <1>3 DEF IInv, Books

\* The exchange answers, moves on its own, or time passes.
LEMMA ExchangeStep ==
  ASSUME IInv,
         \/ PlaceAccepted \/ PlaceNoOrderId
         \/ \E o \in Orders : Age(o) \/ ExchangeFills(o) \/ ExchangeDrops(o)
  PROVE  IInv'
<1>1. CASE PlaceAccepted
  <2>1. TypeOK' /\ InFlight' /\ CallEvents' /\ CancelQueues'
    BY <1>1 DEF PlaceAccepted, Calling, IInv, TypeOK, Calls, InFlight, CallEvents, CancelQueues,
                memory, cycle, handler, log
  <2>2. Books'
    BY <1>1, QuietStep DEF PlaceAccepted, memory
  <2> QED
    BY <2>1, <2>2 DEF IInv, Books
<1>2. CASE PlaceNoOrderId
  <2>1. TypeOK' /\ InFlight' /\ CallEvents' /\ CancelQueues'
    BY <1>2 DEF PlaceNoOrderId, Calling, IInv, TypeOK, Calls, InFlight, CallEvents, CancelQueues,
                memory, cycle, handler, log, exchange
  <2>2. Books'
    BY <1>2, QuietStep DEF PlaceNoOrderId, Calling, memory
  <2> QED
    BY <2>1, <2>2 DEF IInv, Books
<1>3. CASE \E o \in Orders : Age(o)
  <2>1. TypeOK' /\ InFlight' /\ CallEvents' /\ CancelQueues'
    BY <1>3 DEF Age, IInv, TypeOK, InFlight, CallEvents, CancelQueues,
                thread, cycle, handler, log, exchange
  <2>2. Books'
    BY <1>3, QuietStep DEF Age, thread
  <2> QED
    BY <2>1, <2>2 DEF IInv, Books
<1>4. CASE \E o \in Orders : ExchangeFills(o) \/ ExchangeDrops(o)
  <2>1. /\ UNCHANGED <<memory, thread, cycle, handler, up, mode, log, created, crashes>>
        /\ xorder' \in [Orders -> {"none", "open", "filled", "cancelled"}]
        /\ trades' \subseteq Trade
    BY <1>4 DEF ExchangeFills, ExchangeDrops, IInv, TypeOK, Trade
  <2>2. TypeOK' /\ InFlight' /\ CallEvents' /\ CancelQueues'
    BY <2>1 DEF IInv, TypeOK, InFlight, CallEvents, CancelQueues,
                memory, thread, cycle, handler, log
  <2>3. Books'
    BY <2>1, QuietStep DEF memory, thread
  <2> QED
    BY <2>2, <2>3 DEF IInv, Books
<1> QED
  BY <1>1, <1>2, <1>3, <1>4

\* A poll lists trades, and a listed trade is skipped.
LEMMA PollStep ==
  ASSUME IInv, SkipTrade \/ \E s \in Symbols : BeginSync(s)
  PROVE  IInv'
<1>1. /\ event = "none" /\ toCancel = {} /\ pc' \in {"idle", "syncing"}
      /\ unsynced' \subseteq Trade /\ todo' \subseteq Symbols
      /\ UNCHANGED <<memory, cur, event, toCancel, stage, handler, up, mode, log, created,
                     exchange, crashes>>
  BY DEF SkipTrade, BeginSync, AtStage, Calling, IInv, TypeOK, CancelQueues, cycle
<1>2. TypeOK' /\ InFlight' /\ CallEvents' /\ CancelQueues'
  BY <1>1 DEF IInv, TypeOK, Calls, InFlight, CallEvents, CancelQueues, memory, handler, log,
              exchange
<1>3. Books'
  BY <1>1, QuietStep DEF memory
<1> QED
  BY <1>2, <1>3 DEF IInv, Books

\* A cancellation gets its list of orders, or passes one over.
LEMMA CancelListStep ==
  ASSUME IInv,
         \/ BeginCancelStale \/ LoopCancelAll
         \/ \E s \in Symbols : CancelForSymbol(s)
         \/ \E o \in Orders : CancelRaised(o)
  PROVE  IInv'
<1>1. /\ event = "none" /\ up /\ marks = {}
      /\ todo' \subseteq Symbols
      /\ stage' \in {"top", "guard", "desk", "fills", "recon", "out"}
      /\ UNCHANGED <<memory, cur, event, unsynced, handler, up, mode, log, created, trades,
                     crashes>>
  BY HandlerAtRest
  DEF BeginCancelStale, LoopCancelAll, CancelForSymbol, CancelRaised, NextStale, BeginMarking,
      AtStage, Calling, IInv, TypeOK, cycle, exchange
<1>2. /\ toCancel' \subseteq Orders /\ (toCancel' # {} => pc' \in {"cancelling", "marking"})
      /\ \A o \in toCancel' : store[o].status \in {"submitted", "cancelled"}
      /\ pc' \in {"idle", "cancelling", "marking"}
  <2>1. CASE BeginCancelStale
    BY <2>1 DEF BeginCancelStale, StaleOrders, OpenOrders
  <2>2. CASE LoopCancelAll
    BY <2>2 DEF LoopCancelAll, BeginMarking, OpenOrders
  <2>3. CASE \E s \in Symbols : CancelForSymbol(s)
    BY <2>3 DEF CancelForSymbol, BeginMarking, OpenOrders
  <2>4. CASE \E o \in Orders : CancelRaised(o)
    BY <2>4 DEF CancelRaised, NextStale, IInv, TypeOK, CancelQueues
  <2> QED
    BY <2>1, <2>2, <2>3, <2>4
<1>3. xorder' \in [Orders -> {"none", "open", "filled", "cancelled"}]
  <2>1. CASE BeginCancelStale
    BY <2>1 DEF BeginCancelStale, exchange, IInv, TypeOK
  <2>2. CASE \/ LoopCancelAll
             \/ \E s \in Symbols : CancelForSymbol(s)
    BY <2>2 DEF LoopCancelAll, CancelForSymbol, ExchangeCancels, IInv, TypeOK
  <2>3. CASE \E o \in Orders : CancelRaised(o)
    BY <2>3 DEF CancelRaised, IInv, TypeOK
  <2> QED
    BY <2>1, <2>2, <2>3
<1>4. TypeOK' /\ InFlight' /\ CallEvents' /\ CancelQueues'
  BY <1>1, <1>2, <1>3 DEF IInv, TypeOK, Calls, InFlight, CallEvents, CancelQueues, memory,
                          handler, log
<1>5. Books'
  BY <1>1, QuietStep DEF memory
<1> QED
  BY <1>4, <1>5 DEF IInv, Books

\* A signal: the handler lists the open orders.
LEMMA SignalStep == ASSUME IInv, Signal PROVE IInv'
<1>1. /\ up /\ marks' \subseteq Orders /\ sig' \in {"none", "cancelling", "done"}
      /\ marks' # {} => sig' = "cancelling"
      /\ \A o \in marks' : store[o].status = "submitted"
      /\ UNCHANGED <<memory, thread, cycle, up, mode, log, created, trades, crashes>>
  BY DEF Signal, OpenOrders
<1>2. xorder' \in [Orders -> {"none", "open", "filled", "cancelled"}]
  BY DEF Signal, ExchangeCancels, IInv, TypeOK
<1>3. TypeOK' /\ InFlight' /\ CallEvents' /\ CancelQueues'
  BY <1>1, <1>2 DEF IInv, TypeOK, InFlight, CallEvents, CancelQueues, memory, thread, cycle,
                    log
<1>4. Books'
  BY <1>1, QuietStep DEF memory, thread
<1> QED
  BY <1>3, <1>4 DEF IInv, Books

\* track puts a new record into memory.
LEMMA TrackStep == ASSUME IInv, Track PROVE IInv'
<1> USE ConstantFields
<1>0. PICK o \in Nat : o = created + 1
  BY DEF IInv, TypeOK
<1>1. /\ TypeOK /\ o \in Orders /\ o \notin xmap /\ o \notin dirty
      /\ store[o] = Absent /\ logged[o] = Absent
      /\ up /\ event = "none" /\ marks = {} /\ toCancel = {}
  BY <1>0, HandlerAtRest
  DEF IInv, TypeOK, Track, AtStage, Calling, Uncreated, ExchangeMapExact, CancelQueues
<1>2. /\ store' = [store EXCEPT ![o] = Tracked]
      /\ created' = o /\ cur' = o /\ event' = "tracked" /\ pc' \in {"simulating", "placing"}
      /\ stage' \in {stage, "fills"}
      /\ UNCHANGED <<xmap, aged, booked, unsynced, toCancel, todo, sig, marks, up, mode,
                     logged, faults, dirty, overtaken, xorder, trades, crashes>>
  BY <1>0 DEF Track, handler, log, exchange
<1>3. /\ store' \in [Orders -> OrderRecord] /\ store'[o] = Tracked
      /\ \A p \in Orders \ {o} : store'[p] = store[p]
  BY <1>1, <1>2, ConstantRecords DEF TypeOK
<1>4. TypeOK'
  BY <1>1, <1>2, <1>3 DEF TypeOK, Calls, Events
<1>5. ExchangeMapExact'
  BY <1>1, <1>2, <1>3 DEF IInv, ExchangeMapExact
<1>6. MemoryMatchesLog'
  <2>1. \A p \in Orders \ {o} : LogAfter(p)' = LogAfter(p)
    BY <1>1, <1>2, Settled DEF LogAfter
  <2>2. LogAfter(o)' = Tracked
    BY <1>2 DEF LogAfter, Image
  <2> QED
    BY <1>1, <1>2, <1>3, <2>1, <2>2 DEF IInv, MemoryMatchesLog
<1>7. Uncreated'
  BY <1>0, <1>1, <1>2, <1>3 DEF IInv, Uncreated, TypeOK
<1>8. NoRecord' /\ LogFollowsMemory'
  BY <1>1, <1>2, <1>3 DEF IInv, NoRecord, LogFollowsMemory
<1>9. InFlight' /\ CallEvents' /\ CancelQueues'
  BY <1>1, <1>2, <1>3 DEF InFlight, CallEvents, CancelQueues
<1> QED
  BY <1>4, <1>5, <1>6, <1>7, <1>8, <1>9 DEF IInv

\* record_submission changes the memory.
LEMMA RecordSubmissionStep == ASSUME IInv, RecordSubmission PROVE IInv'
<1>1. /\ TypeOK /\ cur \in Orders /\ cur \notin dirty /\ up
      /\ store[cur] = Tracked /\ logged[cur] = Tracked
      /\ event = "none" /\ marks = {} /\ toCancel = {}
      /\ pc \in {"recording", "simulating"}
  BY HandlerAtRest DEF IInv, RecordSubmission, Calling, InFlight, CancelQueues
<1>2. /\ store' = [store EXCEPT ![cur] = Submitted]
      /\ xmap' = xmap \union {cur} /\ event' = "submitted" /\ cur' = cur
      /\ UNCHANGED <<aged, booked, pc, unsynced, toCancel, cycle, handler, up, mode, log,
                     created, exchange, crashes>>
  BY <1>1 DEF RecordSubmission, Submitted
<1>3. /\ Submitted \in OrderRecord /\ Submitted.xid /\ Submitted.status = "submitted"
      /\ Tracked # Absent /\ Tracked.status # "filled"
      /\ Submitted = ReplaySubmitted(Tracked)
      /\ NoFill \in Fill /\ Submitted.fill = NoFill /\ Tracked \in OrderRecord
  BY SubmittedRecord, ConstantFields, ConstantRecords
<1>4. Submitted = Image("submitted", logged[cur], Submitted.fill)
  BY <1>1, <1>3, Images
<1>5. Books' /\ store' \in [Orders -> OrderRecord] /\ xmap' \subseteq Orders
  <2> DEFINE new == Submitted
  <2>1. store' = [store EXCEPT ![cur] = new] /\ new \in OrderRecord
    BY <1>2, <1>3
  <2>2. xmap' = IF new.xid THEN xmap \union {cur} ELSE xmap \ {cur}
    BY <1>2, <1>3
  <2>3. /\ "submitted" \in Events /\ new.status \in {"submitted", "filled", "cancelled"}
        /\ store[cur].status = "filled" => new.status = "filled"
    BY <1>1, <1>3 DEF Events
  <2>4. new = Image("submitted", logged[cur], new.fill)
    BY <1>4
  <2> HIDE DEF new
  <2> QED
    BY <1>1, <1>2, <1>3, <2>1, <2>2, <2>3, <2>4, MemoryStep
<1>6. store'[cur] = Submitted
  BY <1>1, <1>2 DEF TypeOK
<1>7. TypeOK'
  BY <1>1, <1>2, <1>5 DEF TypeOK, Events, cycle, handler, log, exchange
<1>8. InFlight' /\ CallEvents' /\ CancelQueues'
  BY <1>1, <1>2, <1>6 DEF InFlight, CallEvents, CancelQueues, handler, log
<1> QED
  BY <1>5, <1>7, <1>8 DEF IInv, Books

\* record_fill changes the memory: the simulated fill, or a trade's.
LEMMA PaperFillStep == ASSUME IInv, PaperFill PROVE IInv'
<1>1. /\ TypeOK /\ cur \in Orders /\ up /\ store[cur] # Absent /\ event = "none"
      /\ marks = {} /\ toCancel = {} /\ <<cur, 0>> \in Fill
  BY HandlerAtRest DEF IInv, PaperFill, Calling, InFlight, CancelQueues, Fill
<1>2. /\ store' = [store EXCEPT ![cur] = WithFill(@, <<cur, 0>>)]
      /\ event' = "fill" /\ cur' = cur /\ pc' = "filling"
      /\ UNCHANGED <<xmap, aged, booked, unsynced, toCancel, cycle, handler, up, mode,
                     log, created, exchange, crashes>>
  BY DEF PaperFill, Calling
<1>3. /\ Books' /\ store' \in [Orders -> OrderRecord] /\ xmap' \subseteq Orders
      /\ store'[cur].status = "filled"
  BY <1>1, <1>2, FillMemory
<1>4. TypeOK'
  BY <1>1, <1>2, <1>3 DEF TypeOK, Events, Calls, cycle, handler, log, exchange
<1>5. store'[cur] # Absent
  BY <1>3, ConstantFields
<1>6. InFlight' /\ CallEvents' /\ CancelQueues'
  BY <1>1, <1>2, <1>3, <1>5 DEF InFlight, CallEvents, CancelQueues, handler
<1> QED
  BY <1>3, <1>4, <1>6 DEF IInv, Books

\* A trade is matched to an existing record.
LEMMA MatchedRecord ==
  ASSUME TypeOK, NEW t \in Trade, NEW o \in Match(t)
  PROVE  o \in Orders /\ store[o] # Absent /\ t \in Fill
<1>1. t \in Fill
  BY DEF Trade, Fill
<1>2. CASE o \in MatchById(t)
  BY <1>1, <1>2 DEF MatchById, TypeOK
<1>3. CASE o \in MatchBySlot(t)
  BY <1>1, <1>3, ConstantFields DEF MatchBySlot, OpenOrders, First
<1> QED
  BY <1>2, <1>3 DEF Match

LEMMA MatchTradeStep == ASSUME IInv, MatchTrade PROVE IInv'
<1>1. PICK t \in unsynced : \E o \in Match(t) :
        store' = [store EXCEPT ![o] = WithFill(@, t)] /\ cur' = o
  BY DEF MatchTrade
<1>2. PICK o \in Match(t) : store' = [store EXCEPT ![o] = WithFill(@, t)] /\ cur' = o
  BY <1>1
<1>3. TypeOK /\ t \in Trade
  BY DEF IInv, TypeOK
<1>4. o \in Orders /\ store[o] # Absent /\ t \in Fill
  BY <1>3, MatchedRecord
<1>5. /\ up /\ event = "none" /\ event' = "fill" /\ pc = "syncing" /\ marks = {}
      /\ toCancel = {}
      /\ UNCHANGED <<xmap, aged, booked, pc, unsynced, toCancel, cycle, handler, up, mode,
                     log, created, exchange, crashes>>
  BY HandlerAtRest DEF MatchTrade, Calling, IInv, CancelQueues
<1>6. /\ Books' /\ store' \in [Orders -> OrderRecord] /\ xmap' \subseteq Orders
      /\ store'[o].status = "filled"
  BY <1>2, <1>4, <1>5, FillMemory
<1>7. TypeOK'
  BY <1>2, <1>3, <1>4, <1>5, <1>6 DEF TypeOK, Events, cycle, handler, log, exchange
<1>8. InFlight' /\ CallEvents' /\ CancelQueues'
  BY <1>2, <1>4, <1>5, <1>6 DEF InFlight, CallEvents, CancelQueues, handler
<1> QED
  BY <1>6, <1>7, <1>8 DEF IInv, Books

\* record_cancel changes the memory, after place_order has raised.
LEMMA PlaceRaisedStep == ASSUME IInv, PlaceRaised PROVE IInv'
<1>1. /\ TypeOK /\ cur \in Orders /\ up /\ store[cur] = Tracked /\ event = "none"
      /\ marks = {} /\ toCancel = {}
  BY HandlerAtRest DEF IInv, PlaceRaised, Calling, InFlight, CancelQueues
<1>2. /\ store' = [store EXCEPT ![cur] = WithCancel(@)]
      /\ event' = "cancelled" /\ cur' = cur /\ pc' = "failing"
      /\ UNCHANGED <<xmap, aged, booked, unsynced, toCancel, cycle, handler, up, mode,
                     log, created, trades, crashes>>
      /\ xorder' \in {xorder, [xorder EXCEPT ![cur] = "open"]}
  BY DEF PlaceRaised
<1>3. /\ Books' /\ store' \in [Orders -> OrderRecord] /\ xmap' \subseteq Orders
      /\ store'[cur].status = "cancelled"
  BY <1>1, <1>2, CancelMemory, ConstantFields
<1>4. TypeOK'
  BY <1>1, <1>2, <1>3 DEF TypeOK, Events, Calls, cycle, handler, log
<1>5. InFlight' /\ CallEvents' /\ CancelQueues'
  BY <1>1, <1>2, <1>3 DEF InFlight, CallEvents, CancelQueues, handler
<1> QED
  BY <1>3, <1>4, <1>5 DEF IInv, Books

\* record_cancel changes the memory, for an order on a list to be cancelled.
LEMMA CancelListedStep ==
  ASSUME IInv, NEW o \in Orders, CancelAccepted(o) \/ MarkNext(o)
  PROVE  IInv'
<1>1. /\ TypeOK /\ o \in toCancel /\ up /\ event = "none" /\ marks = {}
      /\ pc \in {"cancelling", "marking"} /\ toCancel' = toCancel \ {o}
      /\ store' = [store EXCEPT ![o] = WithCancel(@)]
      /\ event' = "cancelled" /\ cur' = o
      /\ UNCHANGED <<xmap, aged, booked, pc, unsynced, cycle, handler, up, mode, log, created,
                     trades, crashes>>
      /\ xorder' \in {xorder, [xorder EXCEPT ![o] = "cancelled"]}
  BY HandlerAtRest
  DEF IInv, CancelAccepted, MarkNext, NextStale, First, Calling, exchange
<1>2. store[o].status \in {"submitted", "cancelled"}
  BY <1>1 DEF IInv, CancelQueues
<1>3. /\ Books' /\ store' \in [Orders -> OrderRecord] /\ xmap' \subseteq Orders
      /\ store'[o].status = "cancelled"
  BY <1>1, <1>2, CancelMemory
<1>4. TypeOK'
  BY <1>1, <1>3 DEF TypeOK, Events, Calls, cycle, handler, log
<1>5. InFlight' /\ CallEvents'
  BY <1>1, <1>3 DEF InFlight, CallEvents
<1>6. CancelQueues'
  BY <1>1, <1>3 DEF IInv, CancelQueues, TypeOK, handler
<1> QED
  BY <1>3, <1>4, <1>5, <1>6 DEF IInv, Books

\* The append of a track, submission, fill or cancel under way.
LEMMA LoggingStep ==
  ASSUME IInv,
         \/ TrackLogged \/ SubmissionLogged \/ FailureLogged
         \/ PaperSubmissionLogged \/ PaperFillLogged \/ FillLogged \/ CancelLogged
  PROVE  IInv'
<1>1. /\ TypeOK /\ up /\ event # "none" /\ marks = {} /\ cur \in Orders
      /\ Appended \/ AppendRaised(cur)
      /\ event' = "none" /\ cur' \in {0, cur}
      /\ UNCHANGED <<store, xmap, aged, cycle, handler, up, mode, created, exchange, crashes>>
  BY HandlerAtRest, InHand
  DEF IInv, TrackLogged, SubmissionLogged, FailureLogged, PaperSubmissionLogged,
      PaperFillLogged, FillLogged, CancelLogged, Appending, memory
<1>2. Books'
  BY <1>1, AppendStep
<1>3. /\ faults' \in 0..MaxLogFaults /\ dirty' \subseteq Orders /\ overtaken' = overtaken
      /\ logged' \in [Orders -> OrderRecord]
  BY <1>1, AppendEffect
<1>4. booked' \in [Trade -> 0..MaxBooked]
  <2>1. CASE UNCHANGED booked
    BY <1>1, <2>1 DEF TypeOK
  <2>2. CASE FillLogged
    <3> DEFINE t == store[cur].fill
    <3>1. CASE booked' = [booked EXCEPT ![t] = @ + 1] /\ booked[t] < MaxBooked
      <4>1. CASE t \in Trade
        BY <1>1, <3>1, <4>1 DEF TypeOK
      <4>2. CASE t \notin Trade
        BY <1>1, <3>1, <4>2 DEF TypeOK
      <4> QED
        BY <4>1, <4>2
    <3> QED
      BY <2>1, <2>2, <3>1 DEF FillLogged
  <2> QED
    BY <2>1, <2>2
    DEF TrackLogged, SubmissionLogged, FailureLogged, PaperSubmissionLogged, PaperFillLogged,
        CancelLogged, memory
<1>5. /\ pc' \in Calls /\ unsynced' \subseteq Trade /\ toCancel' \subseteq toCancel
      /\ toCancel' # {} => pc' \in {"cancelling", "marking"}
  BY <1>1
  DEF IInv, TypeOK, CancelQueues, Calls, Appending, TrackLogged, SubmissionLogged,
      FailureLogged, PaperSubmissionLogged, PaperFillLogged, FillLogged, CancelLogged
<1>6. TypeOK'
  BY <1>1, <1>3, <1>4, <1>5 DEF TypeOK, Events, cycle, handler, exchange
<1>7. CallEvents' /\ CancelQueues'
  BY <1>1, <1>5 DEF IInv, CallEvents, CancelQueues, handler
<1>8. InFlight'
  <2>1. CASE pc' \in {"idle", "syncing", "cancelling", "marking"}
    BY <1>1, <2>1 DEF InFlight
  <2>2. CASE TrackLogged /\ Appended
    <3>0. UNCHANGED dirty /\ faults' = faults
      BY <2>2 DEF Appended
    <3>1. /\ pc \in {"placing", "simulating"} /\ event = "tracked" /\ pc' = pc /\ cur' = cur
          /\ UNCHANGED dirty
      <4>1. pc' = pc /\ cur' = cur
        BY <1>1, <2>2, <3>0 DEF TrackLogged, AppendRaised, TypeOK
      <4>2. pc \in {"placing", "simulating"} /\ event = "tracked"
        BY <1>1, <2>2 DEF TrackLogged, Appending, IInv, CallEvents, TypeOK, Events
      <4> QED
        BY <3>0, <4>1, <4>2
    <3>2. cur \notin dirty /\ store[cur] = Tracked
      BY <3>1 DEF IInv, InFlight
    <3>3. logged'[cur] = Tracked
      BY <1>1, <2>2, <3>1 DEF Appended, Image, TypeOK
    <3> QED
      BY <1>1, <3>1, <3>2, <3>3 DEF InFlight
  <2>3. CASE pc' = "filling" /\ cur' = cur
    <3>1. store[cur] # Absent
      BY <1>1, InHand
    <3> QED
      BY <1>1, <2>3, <3>1 DEF InFlight
  <2> QED
    BY <1>1, <2>1, <2>2, <2>3
    DEF Appending, TrackLogged, SubmissionLogged, FailureLogged, PaperSubmissionLogged,
        PaperFillLogged, FillLogged, CancelLogged
<1> QED
  BY <1>2, <1>6, <1>7, <1>8 DEF IInv, Books

\* The append of a submission raises, and the record is cancelled.
LEMMA SubmissionRaisedStep == ASSUME IInv, SubmissionRaised PROVE IInv'
<1> USE ConstantFields
<1>1. /\ TypeOK /\ up /\ event = "submitted" /\ marks = {} /\ toCancel = {} /\ cur \in Orders
      /\ pc = "recording" /\ cur <= created
  BY HandlerAtRest, InHand
  DEF IInv, SubmissionRaised, Appending, CallEvents, TypeOK, Events, CancelQueues
<1>2. /\ store' = [store EXCEPT ![cur] = WithCancel(@)]
      /\ event' = "cancelled" /\ cur' = cur /\ pc' = "failing"
      /\ dirty' = dirty \union {cur} /\ faults' = faults + 1 /\ faults < MaxLogFaults
      /\ UNCHANGED <<xmap, aged, booked, unsynced, toCancel, cycle, handler, up, mode,
                     logged, overtaken, created, exchange, crashes>>
  BY DEF SubmissionRaised, AppendRaised
<1>3. store[cur] \in {Submitted, WithCancel(Submitted)}
      /\ logged[cur] \in {Tracked, WithCancel(Tracked)}
  BY <1>1 DEF IInv, InFlight
<1>4. WithCancel(store[cur]) = WithCancel(Submitted)
  BY <1>3, SubmittedRecord, CancelAbsorbed, ConstantRecords
<1>5. /\ store' \in [Orders -> OrderRecord] /\ store'[cur] = WithCancel(Submitted)
      /\ \A p \in Orders \ {cur} : store'[p] = store[p]
  BY <1>1, <1>2, <1>4, SubmittedRecord DEF TypeOK
<1>6. /\ WithCancel(Submitted).xid /\ store[cur].xid
      /\ WithCancel(Submitted).status = "cancelled" /\ logged[cur].status # "filled"
      /\ store[cur] # Absent
  BY <1>3, SubmittedRecord
<1>7. ExchangeMapExact'
  BY <1>1, <1>2, <1>5, <1>6 DEF IInv, ExchangeMapExact
<1>8. MemoryMatchesLog'
  <2> SUFFICES ASSUME NEW p \in Orders \ dirty'
               PROVE  \/ store'[p] = LogAfter(p)'
                      \/ store'[p] = Absent /\ logged[p].status \in Terminal
                      \/ p \in overtaken /\ store'[p] = WithCancel(LogAfter(p)')
    BY <1>2 DEF MemoryMatchesLog
  <2>1. p # cur /\ p \in Orders \ dirty /\ store'[p] = store[p]
    BY <1>2, <1>5
  <2>2. LogAfter(p)' = LogAfter(p)
    BY <1>2, <2>1 DEF LogAfter
  <2> QED
    BY <1>1, <2>1, <2>2 DEF IInv, MemoryMatchesLog
<1>9. Uncreated'
  BY <1>1, <1>2, <1>5 DEF IInv, Uncreated, TypeOK
<1>10. NoRecord' /\ LogFollowsMemory'
  BY <1>1, <1>2, <1>5, <1>6 DEF IInv, NoRecord, LogFollowsMemory
<1>11. TypeOK'
  <2>1. faults' \in 0..MaxLogFaults /\ dirty' \subseteq Orders
    BY <1>1, <1>2 DEF TypeOK
  <2> QED
    BY <1>1, <1>2, <1>5, <2>1 DEF TypeOK, Calls, Events, cycle, handler, exchange
<1>12. InFlight' /\ CallEvents' /\ CancelQueues'
  BY <1>1, <1>2, <1>5, <1>6 DEF InFlight, CallEvents, CancelQueues, handler
<1> QED
  BY <1>7, <1>8, <1>9, <1>10, <1>11, <1>12 DEF IInv

\* What the handler may find: an order of its list has the record that
\* replay yields, or its submission is in memory and not yet in the log.
LEMMA HandlerFinds ==
  ASSUME IInv, NEW o \in Orders, o \in marks
  PROVE  /\ store[o].status = "submitted" /\ up
         /\ o = cur /\ event # "none" => event = "submitted"
         /\ o = cur /\ event = "submitted"
            => store[o] = Submitted /\ logged[o] = Tracked /\ o \notin dirty
         /\ (o # cur \/ event = "none") /\ o \notin dirty => store[o] = logged[o]
<1>1. store[o].status = "submitted" /\ up /\ TypeOK
  BY DEF IInv, CancelQueues
<1>2. o = cur /\ event # "none" => event = "submitted"
  BY <1>1, ConstantFields DEF IInv, InFlight, CallEvents, TypeOK, Events
<1>3. o = cur /\ event = "submitted"
      => store[o] = Submitted /\ logged[o] = Tracked /\ o \notin dirty
  BY <1>1, SubmittedRecord DEF IInv, InFlight
<1>4. ASSUME o # cur \/ event = "none", o \notin dirty PROVE store[o] = logged[o]
  <2>1. LogAfter(o) = logged[o]
    BY <1>4, Settled DEF LogAfter
  <2>2. WithCancel(logged[o]).status = "cancelled"
    BY <1>1, RecordFields, ConstantRecords DEF TypeOK
  <2> QED
    BY <1>1, <1>4, <2>1, <2>2, ConstantFields DEF IInv, MemoryMatchesLog
<1> QED
  BY <1>1, <1>2, <1>3, <1>4

\* record_cancel run by the signal handler.
LEMMA HandlerStep == ASSUME IInv, NEW o \in Orders, HandlerMarks(o) PROVE IInv'
<1> USE ConstantFields
<1>1. /\ TypeOK /\ up /\ sig = "cancelling" /\ o \in marks
      /\ store' = [store EXCEPT ![o] = WithCancel(@)]
      /\ marks' \subseteq marks \ {o} /\ sig' \in {"done", "cancelling"}
      /\ marks' # {} => sig' = "cancelling"
      /\ UNCHANGED <<xmap, aged, booked, thread, cycle, up, mode, created, exchange, crashes>>
      /\ \/ /\ logged' = [logged EXCEPT ![o] = ReplayCancelled(@)]
            /\ overtaken' = IF o = cur /\ event = "submitted" THEN overtaken \union {o}
                                                              ELSE overtaken
            /\ UNCHANGED <<faults, dirty>>
         \/ AppendRaised(o)
  BY DEF HandlerMarks, First, IInv
<1>2. /\ store[o] \in OrderRecord /\ logged[o] \in OrderRecord /\ NoFill \in Fill
      /\ store[o].status = "submitted" /\ o <= created
  <2>1. store[o] \in OrderRecord /\ logged[o] \in OrderRecord /\ store[o].status = "submitted"
    BY <1>1, HandlerFinds DEF TypeOK
  <2>2. o <= created
    BY <1>1, <2>1 DEF IInv, Uncreated, TypeOK
  <2> QED
    BY <2>1, <2>2, ConstantRecords
<1>3. /\ WithCancel(store[o]) \in OrderRecord /\ WithCancel(store[o]).status = "cancelled"
      /\ WithCancel(store[o]).xid = store[o].xid
      /\ ReplayCancelled(logged[o]) \in OrderRecord
  BY <1>2, RecordFields, RecordOps
<1>4. /\ store' \in [Orders -> OrderRecord] /\ store'[o] = WithCancel(store[o])
      /\ \A p \in Orders \ {o} : store'[p] = store[p]
  BY <1>1, <1>3 DEF TypeOK
<1>5. /\ logged' \in [Orders -> OrderRecord] /\ faults' \in 0..MaxLogFaults
      /\ dirty' \subseteq Orders /\ dirty \subseteq dirty'
      /\ \A p \in Orders \ {o} : logged'[p] = logged[p] /\ (p \in dirty' <=> p \in dirty)
      /\ \/ logged'[o] = ReplayCancelled(logged[o]) /\ UNCHANGED dirty
            /\ (o = cur /\ event = "submitted" => o \in overtaken')
         \/ logged'[o] = logged[o] /\ o \in dirty' /\ overtaken' = overtaken
      /\ overtaken \subseteq overtaken' /\ overtaken' \subseteq overtaken \union {o}
      /\ o \in overtaken' \ overtaken
         => o = cur /\ event = "submitted" /\ logged'[o] = ReplayCancelled(logged[o])
  <2>1. CASE AppendRaised(o)
    <3>1. /\ dirty' = dirty \union {o} /\ faults' \in 0..MaxLogFaults
          /\ UNCHANGED <<logged, overtaken>>
      BY <1>1, <2>1 DEF AppendRaised, TypeOK
    <3> QED
      BY <1>1, <3>1 DEF TypeOK
  <2>2. CASE /\ logged' = [logged EXCEPT ![o] = ReplayCancelled(@)]
             /\ overtaken' = IF o = cur /\ event = "submitted" THEN overtaken \union {o}
                                                               ELSE overtaken
             /\ UNCHANGED <<faults, dirty>>
    BY <1>1, <1>3, <2>2 DEF TypeOK
  <2> QED
    BY <1>1, <2>1, <2>2
<1>6. TypeOK'
  <2>1. overtaken' \subseteq Orders
    BY <1>1, <1>5 DEF TypeOK
  <2> QED
    BY <1>1, <1>4, <1>5, <2>1 DEF TypeOK, thread, cycle, exchange
<1>7. ExchangeMapExact'
  BY <1>1, <1>3, <1>4 DEF IInv, ExchangeMapExact
<1>8. MemoryMatchesLog'
  <2> SUFFICES ASSUME NEW p \in Orders \ dirty'
               PROVE  \/ store'[p] = LogAfter(p)'
                      \/ store'[p] = Absent /\ logged'[p].status \in Terminal
                      \/ p \in overtaken' /\ store'[p] = WithCancel(LogAfter(p)')
    BY DEF MemoryMatchesLog
  <2>1. CASE p # o
    <3>1. p \notin dirty /\ store'[p] = store[p] /\ logged'[p] = logged[p]
      BY <1>4, <1>5, <2>1
    <3>2. LogAfter(p)' = LogAfter(p)
      BY <1>1, <3>1 DEF LogAfter, thread
    <3> QED
      BY <1>1, <1>5, <3>1, <3>2 DEF IInv, MemoryMatchesLog
  <2>2. CASE p = o /\ (o # cur \/ event = "none")
    <3>1. store[o] = logged[o]
      BY <1>1, <1>5, <2>2, HandlerFinds
    <3>2. LogAfter(o)' = logged'[o]
      BY <1>1, <2>2, Settled DEF LogAfter, thread
    <3>3. logged'[o] = WithCancel(logged[o])
      BY <1>2, <1>5, <2>2, <3>1, RecordFields
    <3> QED
      BY <1>4, <2>2, <3>1, <3>2, <3>3
  <2>3. CASE p = o /\ o = cur /\ event # "none"
    <3>1. event = "submitted" /\ store[o] = Submitted /\ logged[o] = Tracked
      BY <1>1, <2>3, HandlerFinds
    <3>2. logged'[o] = WithCancel(Tracked) /\ o \in overtaken'
      BY <1>2, <1>5, <2>3, <3>1, RecordFields
    <3>3. store'[o].fill \in Fill /\ logged'[o] \in OrderRecord
      BY <1>3, <1>4, <1>5 DEF OrderRecord
    <3>4. LogAfter(o)' = Image("submitted", logged'[o], store'[o].fill)
      BY <1>1, <2>3, <3>1 DEF LogAfter, thread
    <3>5. LogAfter(o)' = Submitted
      BY <3>2, <3>3, <3>4, Images, SubmittedRecord
    <3> QED
      BY <1>4, <2>3, <3>1, <3>2, <3>5
  <2> QED
    BY <2>1, <2>2, <2>3
<1>9. Uncreated'
  BY <1>1, <1>2, <1>4, <1>5 DEF IInv, Uncreated, TypeOK
<1>10. /\ logged'[o].status = "absent" => logged'[o] = Absent
       /\ logged'[o].status # "filled" /\ logged'[o].fill = NoFill
       /\ logged'[o].status = "tracked" => ~logged'[o].xid
       /\ logged'[o].status = "submitted" => logged'[o].xid
       /\ logged[o] # Absent => logged'[o] # Absent
  <2>1. logged[o].status # "filled"
    BY <1>2 DEF IInv, LogFollowsMemory
  <2>2. CASE logged'[o] = logged[o]
    BY <2>1, <2>2 DEF IInv, NoRecord, LogFollowsMemory
  <2>3. CASE logged[o] = Absent
    <3>1. logged'[o] = Absent
      BY <1>2, <1>5, <2>3, RecordFields
    <3> QED
      BY <2>3, <3>1
  <2>4. CASE logged[o] # Absent /\ logged'[o] = ReplayCancelled(logged[o])
    <3>1. logged'[o].status = "cancelled" /\ logged'[o].fill = logged[o].fill
      BY <1>2, <2>4, ReplayFields
    <3>2. logged[o].fill = NoFill
      BY <2>1 DEF IInv, LogFollowsMemory
    <3> QED
      BY <2>4, <3>1, <3>2
  <2> QED
    BY <1>5, <2>2, <2>3, <2>4
<1>11. NoRecord'
  BY <1>1, <1>3, <1>4, <1>5, <1>10 DEF IInv, NoRecord
<1>12. LogFollowsMemory'
  <2>1. o \in overtaken' => logged'[o] # Absent
    <3>1. CASE o \in overtaken
      BY <1>10, <3>1 DEF IInv, LogFollowsMemory
    <3>2. CASE o \in overtaken' \ overtaken
      BY <1>1, <1>5, <1>10, <3>2, HandlerFinds
    <3> QED
      BY <3>1, <3>2
  <2>2. \A p \in Orders \ {o} :
          store'[p] = store[p] /\ logged'[p] = logged[p] /\ (p \in overtaken' => p \in overtaken)
    BY <1>4, <1>5
  <2> QED
    BY <1>10, <2>1, <2>2 DEF IInv, LogFollowsMemory
<1>13. InFlight'
  <2>1. CASE o # cur
    <3>1. cur \in Orders => store'[cur] = store[cur] /\ logged'[cur] = logged[cur]
                            /\ (cur \in dirty' <=> cur \in dirty)
      BY <1>4, <1>5, <2>1
    <3> QED
      BY <1>1, <3>1 DEF IInv, InFlight, thread
  <2>2. CASE o = cur /\ event = "none"
    <3>1. pc \notin {"placing", "recording", "simulating"}
      BY <1>2, <2>2 DEF IInv, InFlight
    <3>2. store'[cur] # Absent
      BY <1>3, <1>4, <2>2
    <3> QED
      BY <1>1, <2>2, <3>1, <3>2 DEF InFlight, thread
  <2>3. CASE o = cur /\ event # "none"
    <3>1. event = "submitted" /\ store[cur] = Submitted /\ logged[cur] = Tracked
      BY <1>1, <2>3, HandlerFinds
    <3>2. logged'[cur] \in {Tracked, WithCancel(Tracked)}
      BY <1>2, <1>5, <2>3, <3>1, RecordFields
    <3>3. store'[cur] = WithCancel(Submitted) /\ store'[cur] # Submitted /\ store'[cur] # Absent
      BY <1>4, <2>3, <3>1, SubmittedRecord
    <3> QED
      BY <1>1, <2>3, <3>1, <3>2, <3>3 DEF InFlight, thread
  <2> QED
    BY <2>1, <2>2, <2>3
<1>14. CallEvents'
  BY <1>1 DEF IInv, CallEvents, thread
<1>15. CancelQueues'
  <2>1. \A p \in toCancel : store'[p].status \in {"submitted", "cancelled"}
    BY <1>1, <1>3, <1>4 DEF IInv, CancelQueues, TypeOK
  <2>2. \A p \in marks' : store'[p].status = "submitted"
    BY <1>1, <1>4 DEF IInv, CancelQueues, TypeOK
  <2> QED
    BY <1>1, <2>1, <2>2 DEF IInv, CancelQueues, thread
<1> QED
  BY <1>6, <1>7, <1>8, <1>9, <1>11, <1>12, <1>13, <1>14, <1>15 DEF IInv

\* The process ends and takes its memory along.
LEMMA MemoryLostStep == ASSUME IInv, Crash \/ Exit PROVE IInv'
<1>1. MemoryLost /\ crashes' \in 0..MaxCrashes
  BY DEF Crash, Exit, IInv, TypeOK
<1>2. TypeOK'
  <2>1. store' \in [Orders -> OrderRecord] /\ booked' \in [Trade -> 0..MaxBooked]
    BY <1>1, ConstantRecords DEF MemoryLost
  <2>2. /\ UNCHANGED <<logged, faults, created, exchange, mode>> /\ cur' \in 0..MaxOrders
    BY <1>1 DEF MemoryLost
  <2> QED
    BY <1>1, <2>1, <2>2 DEF MemoryLost, IInv, TypeOK, Calls, Events, exchange
<1>3. ExchangeMapExact' /\ MemoryMatchesLog' /\ InFlight' /\ CallEvents' /\ CancelQueues'
  BY <1>1, ConstantFields
  DEF MemoryLost, ExchangeMapExact, MemoryMatchesLog, InFlight, CallEvents, CancelQueues
<1>4. Uncreated' /\ NoRecord' /\ LogFollowsMemory'
  BY <1>1, ConstantFields DEF IInv, MemoryLost, Uncreated, NoRecord, LogFollowsMemory
<1> QED
  BY <1>2, <1>3, <1>4 DEF IInv

\* restore_from_events on a fresh store.
LEMMA RestartStep == ASSUME IInv, Restart PROVE IInv'
<1>1. /\ store' = [o \in Orders |-> RestoredRecord(logged[o])] /\ xmap' = RestoredMap
      /\ up' = TRUE /\ event = "none" /\ toCancel = {} /\ marks = {}
      /\ pc \notin {"placing", "recording", "simulating", "filling", "failing"}
      /\ UNCHANGED <<aged, booked, thread, cycle, handler, log, created, exchange, crashes,
                     mode>>
  BY DEF Restart, IInv, InFlight, CancelQueues
<1>2. \A o \in Orders : RestoredRecord(logged[o]) \in OrderRecord
  BY RecordOps, ConstantRecords DEF IInv, TypeOK
<1>3. TypeOK'
  BY <1>1, <1>2 DEF IInv, TypeOK, RestoredMap, thread, cycle, handler, log, exchange
<1>4. ExchangeMapExact'
  BY <1>1, ConstantFields DEF ExchangeMapExact, RestoredMap, RestoredRecord
<1>5. \A o \in Orders : LogAfter(o)' = logged[o]
  BY <1>1, Settled DEF thread, log
<1>6. MemoryMatchesLog'
  BY <1>1, <1>5 DEF MemoryMatchesLog, RestoredRecord, log
<1>7. Uncreated'
  BY <1>1, ConstantFields DEF IInv, Uncreated, RestoredRecord, Terminal, log
<1>8. NoRecord' /\ LogFollowsMemory'
  BY <1>1, ConstantFields DEF IInv, NoRecord, LogFollowsMemory, RestoredRecord, Terminal, log
<1>9. InFlight' /\ CallEvents' /\ CancelQueues'
  BY <1>1 DEF IInv, InFlight, CallEvents, CancelQueues, thread, handler
<1> QED
  BY <1>3, <1>4, <1>6, <1>7, <1>8, <1>9 DEF IInv

LEMMA StepIInv == IInv /\ [Next]_vars => IInv'
<1> SUFFICES ASSUME IInv, [Next]_vars PROVE IInv'
  OBVIOUS
<1>1. CASE \/ BeginCycle \/ Blocked \/ PassGate \/ NoOrder \/ EndFills \/ Leave
           \/ \E s \in Symbols : PollFails(s)
  BY <1>1, MoveStep
<1>2. CASE \/ PlaceAccepted \/ PlaceNoOrderId
           \/ \E o \in Orders : Age(o) \/ ExchangeFills(o) \/ ExchangeDrops(o)
  BY <1>2, ExchangeStep
<1>3. CASE SkipTrade \/ \E s \in Symbols : BeginSync(s)
  BY <1>3, PollStep
<1>4. CASE \/ BeginCancelStale \/ LoopCancelAll
           \/ \E s \in Symbols : CancelForSymbol(s)
           \/ \E o \in Orders : CancelRaised(o)
  BY <1>4, CancelListStep
<1>5. CASE Signal \/ \E o \in Orders : HandlerMarks(o)
  BY <1>5, SignalStep, HandlerStep
<1>6. CASE Track \/ RecordSubmission \/ PaperFill \/ MatchTrade \/ PlaceRaised
  BY <1>6, TrackStep, RecordSubmissionStep, PaperFillStep, MatchTradeStep, PlaceRaisedStep
<1>7. CASE \E o \in Orders : CancelAccepted(o) \/ MarkNext(o)
  BY <1>7, CancelListedStep
<1>8. CASE Logging
  BY <1>8, LoggingStep, SubmissionRaisedStep DEF Logging
<1>9. CASE Crash \/ Exit \/ Restart
  BY <1>9, MemoryLostStep, RestartStep
<1>10. CASE UNCHANGED vars
  <2>1. /\ UNCHANGED <<memory, thread, cycle, handler, up, mode, log, created, exchange,
                       crashes>>
    BY <1>10 DEF vars
  <2>2. TypeOK' /\ InFlight' /\ CallEvents' /\ CancelQueues'
    BY <2>1 DEF IInv, TypeOK, InFlight, CallEvents, CancelQueues,
                memory, thread, cycle, handler, log, exchange
  <2>3. Books'
    BY <2>1, QuietStep DEF memory, thread
  <2> QED
    BY <2>2, <2>3 DEF IInv, Books
<1> QED
  BY <1>1, <1>2, <1>3, <1>4, <1>5, <1>6, <1>7, <1>8, <1>9, <1>10
  DEF Next, Gates, Working, Placing, Recording, Syncing, Cancelling, Reconciling, Handling

\* IInv holds in every reachable state, for any number of orders, symbols,
\* partial fills, crashes and failed writes.
THEOREM Invariance == Spec => []IInv
  BY InitIInv, StepIInv, PTL DEF Spec

\* The executor, the store and the fill tracker never leave their types.
THEOREM TypeCorrect == Spec => []TypeOK
<1>1. IInv => TypeOK
  BY DEF IInv
<1> QED
  BY <1>1, Invariance, PTL

\* The exchange-id index of the order store and its records always agree:
\* through failed appends, crashes, and the pruning of restore_from_events.
THEOREM IndexExact == Spec => []ExchangeMapExact
<1>1. IInv => ExchangeMapExact
  BY DEF IInv
<1> QED
  BY <1>1, Invariance, PTL

\* A restart at any moment would restore, for every order none of whose
\* events was lost, the record that is in memory once the append under way is
\* done, or nothing if the order is finished; and where the signal handler
\* overtook the order's submission, that record without the handler's cancel.
THEOREM RestoreExact == Spec => []MemoryMatchesLog
<1>1. IInv => MemoryMatchesLog
  BY DEF IInv
<1> QED
  BY <1>1, Invariance, PTL

-----------------------------------------------------------------------------
(* What a step may do to a record in memory *)

\* A fill that a trade gives to an order, as _match_trade_to_order found it.
MatchedFill(o) ==
  /\ xmap' = xmap /\ store'[o].status = "filled"
  /\ \E t \in Trade : o \in Match(t) /\ store'[o].fill = t

\* A record changes in one of three ways: it is lost with the process, it
\* takes a step of submission, cancellation, restoration or simulation that
\* gives it no trade and takes no fill back, or a trade fills it.
RecordChange(o) ==
  \/ store'[o] = store[o]
  \/ ~up' /\ store'[o] = Absent
  \/ /\ store[o].status = "filled" => store'[o].status = "filled"
     /\ store'[o].fill \in {store[o].fill, NoFill, <<o, 0>>}
  \/ MatchedFill(o)

\* record_cancel of a record that is not filled leaves its fill alone.
LEMMA CancelChange ==
  ASSUME TypeOK, NEW o \in Orders, NEW p \in Orders, store[p].status # "filled",
         store' = [store EXCEPT ![p] = WithCancel(@)]
  PROVE  RecordChange(o)
<1>1. CASE o # p
  BY <1>1 DEF TypeOK, RecordChange
<1>2. CASE o = p
  <2>1. store'[o].fill = store[o].fill
    BY <1>2, RecordFields, ConstantRecords DEF TypeOK
  <2> QED
    BY <1>2, <2>1 DEF RecordChange
<1> QED
  BY <1>1, <1>2

\* Every step changes every record in one of the ways of RecordChange.
LEMMA StepChangesRecords ==
  ASSUME IInv, [Next]_vars, NEW o \in Orders
  PROVE  RecordChange(o)
<1>0. TypeOK
  BY DEF IInv
<1>1. CASE UNCHANGED store
  BY <1>1 DEF RecordChange
<1>2. CASE Track
  <2>1. o # created + 1 => store'[o] = store[o]
    BY <1>0, <1>2 DEF Track, TypeOK
  <2>2. o = created + 1 => store[o] = Absent /\ store'[o] = Tracked
    BY <1>0, <1>2 DEF Track, TypeOK, IInv, Uncreated
  <2> QED
    BY <2>1, <2>2, ConstantFields DEF RecordChange
<1>3. CASE RecordSubmission
  <2>1. cur \in Orders /\ store[cur] = Tracked
    BY <1>3 DEF IInv, InFlight, RecordSubmission, Calling
  <2>2. /\ o # cur => store'[o] = store[o]
        /\ store'[cur] = Submitted
    BY <1>0, <1>3, <2>1 DEF TypeOK, RecordSubmission, Submitted
  <2> QED
    BY <2>1, <2>2, SubmittedRecord, ConstantFields DEF RecordChange
<1>4. CASE PaperFill
  <2>1. cur \in Orders
    BY <1>4 DEF IInv, InFlight, PaperFill, Calling
  <2>2. /\ o # cur => store'[o] = store[o]
        /\ store'[cur] = WithFill(store[cur], <<cur, 0>>)
    BY <1>0, <1>4, <2>1 DEF TypeOK, PaperFill
  <2>3. store'[cur].status = "filled" /\ store'[cur].fill = <<cur, 0>>
    BY <2>2 DEF WithFill
  <2> QED
    BY <2>2, <2>3 DEF RecordChange
<1>5. CASE MatchTrade
  <2>1. PICK t \in unsynced : \E p \in Match(t) : store' = [store EXCEPT ![p] = WithFill(@, t)]
    BY <1>5 DEF MatchTrade
  <2>2. PICK p \in Match(t) : store' = [store EXCEPT ![p] = WithFill(@, t)]
    BY <2>1
  <2>3. t \in Trade /\ p \in Orders /\ t \in Fill
    BY <1>0, MatchedRecord DEF TypeOK
  <2>4. o # p => store'[o] = store[o]
    BY <1>0, <2>2, <2>3 DEF TypeOK
  <2>5. o = p => store'[o].status = "filled" /\ store'[o].fill = t
    BY <1>0, <2>2, <2>3, RecordFields DEF TypeOK
  <2>6. xmap' = xmap
    BY <1>5 DEF MatchTrade
  <2> QED
    BY <2>3, <2>4, <2>5, <2>6 DEF RecordChange, MatchedFill
<1>6. CASE PlaceRaised \/ SubmissionRaised
  <2>1. cur \in Orders /\ store[cur] \in {Tracked, Submitted, WithCancel(Submitted)}
    BY <1>6 DEF IInv, InFlight, CallEvents, TypeOK, Events, PlaceRaised, SubmissionRaised,
                Calling, Appending
  <2>2. store[cur].status # "filled"
    BY <2>1, SubmittedRecord, ConstantFields
  <2> QED
    BY <1>0, <1>6, <2>1, <2>2, CancelChange DEF PlaceRaised, SubmissionRaised
<1>7. CASE \E p \in Orders : CancelAccepted(p) \/ MarkNext(p)
  <2>1. PICK p \in Orders : CancelAccepted(p) \/ MarkNext(p)
    BY <1>7
  <2>2. p \in toCancel /\ store' = [store EXCEPT ![p] = WithCancel(@)]
    BY <2>1 DEF CancelAccepted, MarkNext, NextStale, First
  <2>3. store[p].status # "filled"
    BY <2>2 DEF IInv, CancelQueues
  <2> QED
    BY <1>0, <2>2, <2>3, CancelChange
<1>8. CASE \E p \in Orders : HandlerMarks(p)
  <2>1. PICK p \in Orders : HandlerMarks(p)
    BY <1>8
  <2>2. p \in marks /\ store' = [store EXCEPT ![p] = WithCancel(@)]
    BY <2>1 DEF HandlerMarks, First
  <2>3. store[p].status # "filled"
    BY <2>2 DEF IInv, CancelQueues
  <2> QED
    BY <1>0, <2>2, <2>3, CancelChange
<1>9. CASE Crash \/ Exit
  BY <1>9 DEF Crash, Exit, MemoryLost, RecordChange
<1>10. CASE Restart
  <2>1. store[o] = Absent /\ store'[o] = RestoredRecord(logged[o])
    BY <1>10 DEF Restart, IInv, NoRecord
  <2>2. store'[o].fill = NoFill
    BY <2>1, ConstantFields DEF RestoredRecord, Terminal, IInv, LogFollowsMemory
  <2> QED
    BY <2>1, <2>2, ConstantFields DEF RecordChange
<1>11. CASE \/ TrackLogged \/ SubmissionLogged \/ FailureLogged \/ PaperSubmissionLogged
            \/ PaperFillLogged \/ FillLogged \/ CancelLogged
  BY <1>1, <1>11 DEF TrackLogged, SubmissionLogged, FailureLogged, PaperSubmissionLogged,
     PaperFillLogged, FillLogged, CancelLogged, memory
<1>12. CASE \/ BeginCycle \/ Blocked \/ PassGate \/ NoOrder \/ EndFills \/ Leave \/ SkipTrade
            \/ \E s \in Symbols : PollFails(s) \/ BeginSync(s)
  BY <1>1, <1>12 DEF BeginCycle, Blocked, PassGate, NoOrder, EndFills, Leave, SkipTrade,
     PollFails, BeginSync, MoveTo, memory
<1>13. CASE \/ PlaceAccepted \/ PlaceNoOrderId \/ BeginCancelStale \/ LoopCancelAll \/ Signal
            \/ \E s \in Symbols : CancelForSymbol(s)
            \/ \E p \in Orders : Age(p) \/ CancelRaised(p) \/ ExchangeFills(p)
                                \/ ExchangeDrops(p)
  BY <1>1, <1>13 DEF PlaceAccepted, PlaceNoOrderId, BeginCancelStale, LoopCancelAll, Signal,
     CancelForSymbol, BeginMarking, Age, CancelRaised, ExchangeFills, ExchangeDrops, memory
<1>14. CASE UNCHANGED vars
  BY <1>1, <1>14 DEF vars, memory
<1> QED
  BY <1>2, <1>3, <1>4, <1>5, <1>6, <1>7, <1>8, <1>9, <1>10, <1>11, <1>12, <1>13, <1>14
  DEF Next, Gates, Working, Placing, Recording, Logging, Syncing, Cancelling, Reconciling,
      Handling

\* A recorded fill is never taken back: not by the stale-order scan, not by
\* cancel_all run from a signal handler, not by a late record_submission.
THEOREM FilledStays == Spec => FilledIsFinal
<1>1. ASSUME IInv, [Next]_vars
      PROVE  [\A o \in Orders : store[o].status = "filled"
                                => store'[o].status = "filled" \/ ~up']_vars
  <2>1. \A o \in Orders : RecordChange(o)
    BY <1>1, StepChangesRecords
  <2> QED
    BY <2>1 DEF RecordChange, MatchedFill
<1> QED
  BY <1>1, Invariance, PTL DEF Spec, FilledIsFinal

\* A trade whose order id is in the index fills that order and no other.
THEOREM LinkedFillsMatch == Spec => LinkedFillsStayHome
<1>1. ASSUME IInv, [Next]_vars
      PROVE  [\A o \in Orders :
                store'[o].fill \notin {store[o].fill, NoFill}
                => ~Linked \/ store'[o].fill[1] \notin xmap \/ store'[o].fill[1] = o]_vars
  <2> SUFFICES ASSUME NEW o \in Orders, store'[o].fill \notin {store[o].fill, NoFill},
                      Linked, store'[o].fill[1] \in xmap
               PROVE  store'[o].fill[1] = o
    OBVIOUS
  <2>1. RecordChange(o)
    BY <1>1, StepChangesRecords
  <2>2. store'[o].fill = <<o, 0>> \/ MatchedFill(o)
    BY <2>1, ConstantFields DEF RecordChange
  <2>3. CASE store'[o].fill = <<o, 0>>
    BY <2>3
  <2>4. CASE MatchedFill(o)
    <3>1. PICK t \in Trade : o \in Match(t) /\ store'[o].fill = t
      BY <2>4 DEF MatchedFill
    <3>2. t[1] \in xmap /\ t[1] \in Orders
      BY <3>1 DEF Trade
    <3>3. store[t[1]] # Absent
      BY <1>1, <3>2, ConstantFields DEF IInv, ExchangeMapExact
    <3>4. t[1] \in MatchById(t)
      BY <3>2, <3>3 DEF MatchById
    <3>5. o \in MatchById(t)
      BY <3>1, <3>4 DEF Match
    <3> QED
      BY <3>1, <3>5 DEF MatchById
  <2> QED
    BY <2>2, <2>3, <2>4
<1> QED
  BY <1>1, Invariance, PTL DEF Spec, LinkedFillsStayHome

-----------------------------------------------------------------------------
(* The event log implements OrderLedger *)

\* One edge of OrderLedger leads from status a to status b.
Edge(a, b) ==
  \/ a = "absent" /\ b = "tracked"
  \/ a = "tracked" /\ b \in {"withdrawn", "submitted", "filled"}
  \/ a = "withdrawn" /\ b \in {"submitted", "filled"}
  \/ a = "submitted" /\ b \in {"filled", "cancelled"}
  \/ a = "cancelled" /\ b = "filled"

\* The log gains an event about order o, and its status is taken along an
\* edge or stays.
LedgerStep(o) ==
  /\ \A p \in Orders \ {o} : logged'[p] = logged[p]
  /\ \/ LedgerStatus(logged'[o]) = LedgerStatus(logged[o])
     \/ Edge(LedgerStatus(logged[o]), LedgerStatus(logged'[o]))

\* Such a step is a step of OrderLedger, or stutters.
LEMMA LedgerStepAdvances ==
  ASSUME NEW o \in Orders, LedgerStep(o)
  PROVE  [Ledger!Advance]_([p \in Orders |-> LedgerStatus(logged[p])])
<1> DEFINE ledger == [p \in Orders |-> LedgerStatus(logged[p])]
<1> DEFINE new == LedgerStatus(logged'[o])
<1>1. ledger' = [ledger EXCEPT ![o] = new]
  BY DEF LedgerStep
<1>2. CASE new = ledger[o]
  BY <1>1, <1>2
<1>3. CASE Edge(ledger[o], new)
  <2>1. new \in Ledger!MayBecome[ledger[o]]
    BY <1>3 DEF Edge, Ledger!MayBecome
  <2>2. o \in Ledger!Orders
    BY DEF Ledger!Orders
  <2> HIDE DEF new, ledger
  <2>3. \E p \in Ledger!Orders :
          \E b \in Ledger!MayBecome[ledger[p]] : ledger' = [ledger EXCEPT ![p] = b]
    BY <1>1, <2>1, <2>2
  <2> QED
    BY <2>3 DEF Ledger!Advance, ledger
<1> QED
  BY <1>2, <1>3 DEF LedgerStep

\* A cancel event, for an order whose fill is not in the log.
LEMMA CancelEdge ==
  ASSUME IInv, NEW o \in Orders, logged[o].status # "filled"
  PROVE  \/ LedgerStatus(ReplayCancelled(logged[o])) = LedgerStatus(logged[o])
         \/ Edge(LedgerStatus(logged[o]), LedgerStatus(ReplayCancelled(logged[o])))
<1>1. logged[o] \in OrderRecord /\ NoFill \in Fill
  BY ConstantRecords DEF IInv, TypeOK
<1>2. CASE logged[o] = Absent
  BY <1>1, <1>2, RecordFields
<1>3. CASE logged[o] # Absent
  <2>1. /\ ReplayCancelled(logged[o]).status = "cancelled"
        /\ ReplayCancelled(logged[o]).xid = logged[o].xid
    BY <1>1, <1>3, ReplayFields
  <2>2. logged[o].status \in {"tracked", "submitted", "cancelled"}
    BY <1>1, <1>3 DEF IInv, NoRecord, OrderRecord, Status
  <2>3. /\ logged[o].status = "tracked" => ~logged[o].xid
        /\ logged[o].status = "submitted" => logged[o].xid
    BY DEF IInv, LogFollowsMemory
  <2> QED
    BY <2>1, <2>2, <2>3 DEF Edge, LedgerStatus
<1> QED
  BY <1>2, <1>3

\* The event in memory takes the logged status along an edge, or leaves it.
LEMMA PendingEdge ==
  ASSUME IInv, event # "none"
  PROVE  \/ LedgerStatus(LogImage) = LedgerStatus(logged[cur])
         \/ Edge(LedgerStatus(logged[cur]), LedgerStatus(LogImage))
<1> USE ConstantFields
<1>1. cur \in Orders /\ logged[cur] \in OrderRecord /\ store[cur].fill \in Fill
  BY InHand
<1>2. CASE LogImage = Tracked /\ logged[cur] = Absent
  BY <1>2 DEF Edge, LedgerStatus
<1>3. CASE LogImage = Submitted /\ logged[cur] \in {Tracked, WithCancel(Tracked)}
  BY <1>3, SubmittedRecord DEF Edge, LedgerStatus
<1>4. CASE LogImage = ReplayFill(logged[cur], store[cur].fill)
  <2>1. CASE logged[cur] = Absent
    BY <1>1, <1>4, <2>1, RecordFields
  <2>2. CASE logged[cur] # Absent
    <3>1. LogImage.status = "filled"
      BY <1>1, <1>4, <2>2, ReplayFields
    <3>2. logged[cur].status \in {"tracked", "submitted", "cancelled", "filled"}
      BY <1>1, <2>2 DEF IInv, NoRecord, OrderRecord, Status
    <3> QED
      BY <3>1, <3>2 DEF Edge, LedgerStatus
  <2> QED
    BY <2>1, <2>2
<1>5. CASE logged[cur].status # "filled" /\ LogImage = ReplayCancelled(logged[cur])
  BY <1>1, <1>5, CancelEdge
<1> QED
  BY <1>2, <1>3, <1>4, <1>5, PendingEvent

\* Every step leaves the log alone or gives it one event.
LEMMA StepTakesEdge ==
  ASSUME IInv, [Next]_vars
  PROVE  logged' = logged \/ \E o \in Orders : LedgerStep(o)
<1>1. CASE \/ TrackLogged \/ SubmissionLogged \/ FailureLogged \/ PaperSubmissionLogged
           \/ PaperFillLogged \/ FillLogged \/ CancelLogged
  <2>1. event # "none" /\ (Appended \/ AppendRaised(cur))
    BY <1>1 DEF TrackLogged, SubmissionLogged, FailureLogged, PaperSubmissionLogged,
                PaperFillLogged, FillLogged, CancelLogged, Appending
  <2>2. cur \in Orders
    BY <2>1, InHand
  <2>3. LedgerStep(cur)
    BY <2>1, <2>2, AppendEffect, PendingEdge DEF LedgerStep
  <2> QED
    BY <2>2, <2>3
<1>2. CASE \E o \in Orders : HandlerMarks(o)
  <2>1. PICK o \in Orders : HandlerMarks(o)
    BY <1>2
  <2>2. o \in marks /\ logged' \in {logged, [logged EXCEPT ![o] = ReplayCancelled(@)]}
    BY <2>1 DEF HandlerMarks, First, AppendRaised
  <2>3. logged[o].status # "filled"
    BY <2>2 DEF IInv, CancelQueues, LogFollowsMemory
  <2>4. CASE logged' = [logged EXCEPT ![o] = ReplayCancelled(@)]
    <3>1. /\ \A p \in Orders \ {o} : logged'[p] = logged[p]
          /\ logged'[o] = ReplayCancelled(logged[o])
      BY <2>4 DEF IInv, TypeOK
    <3> QED
      BY <2>3, <3>1, CancelEdge DEF LedgerStep
  <2> QED
    BY <2>2, <2>4
<1>3. CASE \/ Track \/ RecordSubmission \/ PaperFill \/ MatchTrade \/ PlaceRaised
           \/ SubmissionRaised \/ Crash \/ Exit \/ Restart
           \/ \E p \in Orders : CancelAccepted(p) \/ MarkNext(p)
  BY <1>3 DEF Track, RecordSubmission, PaperFill, MatchTrade, PlaceRaised, SubmissionRaised,
     AppendRaised, Crash, Exit, MemoryLost, Restart, CancelAccepted, MarkNext, log
<1>4. CASE \/ BeginCycle \/ Blocked \/ PassGate \/ NoOrder \/ EndFills \/ Leave \/ SkipTrade
           \/ \E s \in Symbols : PollFails(s) \/ BeginSync(s)
  BY <1>4 DEF BeginCycle, Blocked, PassGate, NoOrder, EndFills, Leave, SkipTrade,
     PollFails, BeginSync, MoveTo, log
<1>5. CASE \/ PlaceAccepted \/ PlaceNoOrderId \/ BeginCancelStale \/ LoopCancelAll \/ Signal
           \/ \E s \in Symbols : CancelForSymbol(s)
           \/ \E p \in Orders : Age(p) \/ CancelRaised(p) \/ ExchangeFills(p)
                               \/ ExchangeDrops(p)
  BY <1>5 DEF PlaceAccepted, PlaceNoOrderId, BeginCancelStale, LoopCancelAll, Signal,
     CancelForSymbol, BeginMarking, Age, CancelRaised, ExchangeFills, ExchangeDrops, log
<1>6. CASE UNCHANGED vars
  BY <1>6 DEF vars, log
<1> QED
  BY <1>1, <1>2, <1>3, <1>4, <1>5, <1>6
  DEF Next, Gates, Working, Placing, Recording, Logging, Syncing, Cancelling, Reconciling,
      Handling

\* The event log of the order store implements OrderLedger: one order at a
\* time takes one edge of its lifecycle and a durable fill is final, whatever
\* crashes, lost writes and signal handlers come in between.
THEOREM LogImplementsLedger == Spec => LedgerRefinement
<1>1. Init => Ledger!LedgerInit
  BY ConstantFields DEF Init, Ledger!LedgerInit, Ledger!Orders, LedgerStatus
<1>2. IInv /\ [Next]_vars
      => [Ledger!Advance]_([o \in Orders |-> LedgerStatus(logged[o])])
  BY StepTakesEdge, LedgerStepAdvances
<1> QED
  BY <1>1, <1>2, Invariance, PTL DEF Spec, LedgerRefinement, Ledger!LedgerSpec
=============================================================================
