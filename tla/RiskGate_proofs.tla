--------------------------- MODULE RiskGate_proofs ---------------------------
(***************************************************************************)
(* Theorems about RiskGate: its types; that the drawdown is measured from  *)
(* the highest NAV the process knows; that this NAV survives every restart *)
(* that follows a signal; and that no order is approved on a snapshot that *)
(* lies the drawdown limit or more below it.                               *)
(***************************************************************************)
EXTENDS RiskGate, TLAPS

\* The peaks and the NAV of the snapshot are numbers.
LEMMA Numbers ==
  ASSUME TypeOK
  PROVE  /\ peak \in Nat /\ saved.peak \in Nat /\ highest \in Nat
         /\ seen.nav \in Nat /\ seen.gross \in Nat
<1>1. Navs \subseteq Nat
  BY RiskBounds
<1>2. peak \in Nat /\ highest \in Nat
  BY <1>1 DEF TypeOK
<1>3. saved.peak \in Nat
  <2>1. saved.peak \in Navs \union {0}
    BY DEF TypeOK
  <2>2. CASE saved.peak \in Navs
    BY <1>1, <2>2, Zenon
  <2>3. CASE saved.peak = 0
    BY <2>3
  <2> QED
    BY <2>1, <2>2, <2>3, Zenon
<1>4. CASE seen = NoSnapshot
  BY <1>2, <1>3, <1>4 DEF NoSnapshot
<1>5. CASE seen \in [nav : Navs, gross : 0..MaxGross]
  <2>1. seen.nav \in Nat
    BY <1>1, <1>5
  <2>2. seen.gross \in Nat
    BY <1>5, RiskBounds
  <2> QED
    BY <1>2, <1>3, <2>1, <2>2
<1> QED
  BY <1>4, <1>5 DEF TypeOK

-----------------------------------------------------------------------------
(* Types *)

\* What a sync has read when it goes on.
Reads ==
  /\ stage = "positions" => balance \in Navs
  /\ stage = "peak" => seen.nav \in Navs
  /\ stage = "drawdown" => peak \in Navs /\ peak >= seen.nav

Types == TypeOK /\ Reads

\* The types, and what a sync has read, hold initially and after every step.
LEMMA TypesInit == Init => Types
<1> SUFFICES ASSUME Init PROVE Types
  OBVIOUS
<1> USE DEF Init
<1>1. account \in [nav : Navs, gross : 0..MaxGross, lost : Losses]
  BY RiskBounds
<1>2. drawdown \in Fraction /\ loss \in Fraction
  BY DEF None, Fraction
<1>3. saved \in [peak : Navs \union {0}, drawdown : Fraction]
  BY DEF None, Fraction
<1>4. open \in 0..MaxGross
  BY RiskBounds
<1> QED
  BY <1>1, <1>2, <1>3, <1>4 DEF Types, TypeOK, Reads

\* An order placed leaves an account and what rests there.
LEMMA PlaceKeeps ==
  ASSUME TypeOK, NEW n \in Notionals, Place(n)
  PROVE  account' \in [nav : Navs, gross : 0..MaxGross, lost : Losses] /\ open' \in 0..MaxGross
<1> USE RiskBounds DEF TypeOK
<1>1. CASE \E gross \in {account.gross + n, account.gross - n} :
             /\ gross \in 0..MaxGross
             /\ account' = [account EXCEPT !.gross = gross]
             /\ UNCHANGED open
  BY <1>1
<1>2. CASE open + n <= MaxGross /\ open' = open + n /\ UNCHANGED account
  <2>1. n \in Nat /\ open \in Nat /\ MaxGross \in Nat
    OBVIOUS
  <2> QED
    BY <1>2, <2>1
<1>3. CASE UNCHANGED exchange
  BY <1>3 DEF exchange
<1> QED
  BY <1>1, <1>2, <1>3 DEF Place

LEMMA TypesNext == Types /\ [Next]_vars => Types'
<1> SUFFICES ASSUME TypeOK, Reads, [Next]_vars PROVE TypeOK' /\ Reads'
  BY DEF Types
<1> USE RiskBounds DEF TypeOK, Reads
<1>1. CASE MarketMoves
  <2>1. PICK nav \in Navs, lost \in Losses,
             gross \in IF account.gross = 0 THEN {0} ELSE 1..MaxGross :
               account' = [nav |-> nav, gross |-> gross, lost |-> lost]
    BY <1>1 DEF MarketMoves
  <2>2. gross \in 0..MaxGross
    BY <2>1
  <2>3. account' \in [nav : Navs, gross : 0..MaxGross, lost : Losses]
    BY <2>1, <2>2
  <2> QED
    BY <1>1, <2>3 DEF MarketMoves, memory, control
<1>2. CASE RestingFills
  BY <1>2 DEF RestingFills, memory, control
<1>3. CASE Boot
  <2>1. loss' \in Fraction
    BY <1>3 DEF Boot, None, Fraction
  <2>2. seen' \in {NoSnapshot}
    BY <1>3 DEF Boot, NoSnapshot
  <2> QED
    BY <1>3, <2>1, <2>2 DEF Boot, RestoredPeak, exchange
<1>4. CASE InitialSync \/ BeginWithSync
  <2>1. \/ stage' = "positions" /\ balance' = account.nav
        \/ stage' \in {"pnl", "top"} /\ balance' = 0
    BY <1>4 DEF InitialSync, BeginWithSync, ReadBalance
  <2>2. balance' \in Navs \union {0} /\ (stage' = "positions" => balance' \in Navs)
    BY <2>1
  <2> QED
    BY <1>4, <2>1, <2>2 DEF InitialSync, BeginWithSync, exchange, memory, control
<1>5. CASE BeginWithoutSync \/ BeginCycle \/ StopsChecked \/ NoOrder
  BY <1>5 DEF BeginWithoutSync, BeginCycle, StopsChecked, NoOrder, exchange, memory, control
<1>6. CASE ReadPositions
  <2>1. PICK gross \in {account.gross, 0} : seen' = [nav |-> balance, gross |-> gross]
    BY <1>6 DEF ReadPositions
  <2>2. gross \in 0..MaxGross /\ balance \in Navs
    BY <1>6, <2>1 DEF ReadPositions
  <2>3. seen' \in [nav : Navs, gross : 0..MaxGross] /\ seen'.nav \in Navs
    BY <2>1, <2>2
  <2> QED
    BY <1>6, <2>3 DEF ReadPositions, exchange, control
<1>7. CASE RaisePeak
  <2>1. seen.nav \in Navs /\ seen.nav \in Nat /\ peak \in Nat
    BY <1>7 DEF RaisePeak
  <2>2. peak' = IF seen.nav > peak THEN seen.nav ELSE peak
    BY <1>7 DEF RaisePeak, HigherPeak
  <2>3. peak' \in Navs
    BY <2>1, <2>2
  <2>4. peak' >= seen.nav
    BY <2>1, <2>2
  <2>5. highest' \in Navs \union {0}
    BY <1>7, <2>1 DEF RaisePeak
  <2> QED
    BY <1>7, <2>3, <2>4, <2>5 DEF RaisePeak, exchange, control
<1>8. CASE UpdateDrawdown
  <2>1. peak \in Navs /\ peak >= seen.nav /\ drawdown' = [lost |-> peak - seen.nav, of |-> peak]
    BY <1>8 DEF UpdateDrawdown
  <2>2. peak \in Nat \ {0} /\ seen.nav \in Nat
    BY <2>1, Numbers
  <2>3. drawdown' \in Fraction
    <3>1. peak - seen.nav \in Nat
      BY <2>1, <2>2
    <3> QED
      BY <2>1, <2>2, <3>1 DEF Fraction
  <2>4. stage' \in {"pnl", "top"}
    BY <1>8 DEF UpdateDrawdown
  <2> QED
    BY <1>8, <2>3, <2>4 DEF UpdateDrawdown, exchange, control
<1>9. CASE FinishSync
  <2>1. loss' \in Fraction
    <3>1. PICK lost \in Losses :
             loss' = IF seen = NoSnapshot THEN loss ELSE [lost |-> lost, of |-> seen.nav]
      BY <1>9 DEF FinishSync, SyncPnl
    <3>2. CASE seen = NoSnapshot
      BY <3>1, <3>2
    <3>3. CASE seen # NoSnapshot
      <4>1. lost \in Nat /\ seen.nav \in Nat \ {0}
        BY <3>1, <3>3
      <4> QED
        BY <3>1, <3>3, <4>1 DEF Fraction
    <3> QED
      BY <3>2, <3>3
  <2> QED
    BY <1>9, <2>1 DEF FinishSync, exchange, control
<1>10. CASE CloseBreached
  <2>1. PICK n \in Notionals : Place(n)
    BY <1>10 DEF CloseBreached
  <2>2. account' \in [nav : Navs, gross : 0..MaxGross, lost : Losses] /\ open' \in 0..MaxGross
    BY <2>1, PlaceKeeps
  <2> QED
    BY <1>10, <2>2 DEF CloseBreached, memory, control
<1>11. CASE Reject
  <2>1. tripped' \in BOOLEAN /\ open' \in 0..MaxGross
    <3>1. KillSwitch
      BY <1>11 DEF Reject
    <3>2. CASE LossBreach(loss) /\ ~tripped
      <4>1. tripped' = TRUE /\ CancelAll
        BY <3>1, <3>2, Zenon DEF KillSwitch
      <4> QED
        BY <4>1 DEF CancelAll
    <3>3. CASE ~(LossBreach(loss) /\ ~tripped)
      <4>1. UNCHANGED <<tripped, open>>
        BY <3>1, <3>3, Zenon DEF KillSwitch
      <4> QED
        BY <4>1
    <3> QED
      BY <3>2, <3>3
  <2> QED
    BY <1>11, <2>1 DEF Reject, memory, control
<1>12. CASE Approve
  BY <1>12 DEF Approve, exchange, memory, control
<1>13. CASE Submit
  <2>1. CASE order \in Notionals
    <3>1. account' \in [nav : Navs, gross : 0..MaxGross, lost : Losses] /\ open' \in 0..MaxGross
      BY <1>13, <2>1, PlaceKeeps DEF Submit
    <3> QED
      BY <1>13, <3>1 DEF Submit, memory, control
  <2>2. CASE order = 0
    <3>1. account' \in [nav : Navs, gross : 0..MaxGross, lost : Losses] /\ open' \in 0..MaxGross
      BY <1>13, <2>2 DEF Submit, Place, exchange
    <3> QED
      BY <1>13, <3>1 DEF Submit, memory, control
  <2> QED
    BY <2>1, <2>2
<1>14. CASE Signal
  <2>1. saved' \in [peak : Navs \union {0}, drawdown : Fraction]
    BY <1>14 DEF Signal, Checkpoint
  <2>2. highest' \in Navs \union {0}
    BY <1>14 DEF Signal
  <2>3. open' \in 0..MaxGross
    BY <1>14 DEF Signal, CancelAll
  <2> QED
    BY <1>14, <2>1, <2>2, <2>3 DEF Signal, memory
<1>15. CASE Exit
  BY <1>15 DEF Exit, exchange, memory, control
<1>16. CASE Halt
  BY <1>16 DEF Halt, CancelAll, memory, control
<1>17. CASE Crash
  BY <1>17 DEF Crash, exchange, memory, control
<1>18. CASE UNCHANGED vars
  BY <1>18 DEF vars, exchange, memory, control
<1> QED
  BY <1>1, <1>2, <1>3, <1>4, <1>5, <1>6, <1>7, <1>8, <1>9, <1>10, <1>11,
     <1>12, <1>13, <1>14, <1>15, <1>16, <1>17, <1>18 DEF Next

\* TypeOK holds in every reachable state.
THEOREM TypeCorrect == Spec => []TypeOK
<1>1. Types => TypeOK
  BY DEF Types
<1> QED
  BY <1>1, TypesInit, TypesNext, PTL DEF Spec

-----------------------------------------------------------------------------
(* The peak *)

\* Whatever fails, wherever a signal is handled and however the process ends,
\* the drawdown is measured from the highest NAV synced, which is at least
\* the checkpoint's.
THEOREM PeakMeasured == Spec => []DrawdownFromPeak
<1>1. Init => DrawdownFromPeak
  BY DEF Init, DrawdownFromPeak, Up
<1>2. Types /\ DrawdownFromPeak /\ [Next]_vars => DrawdownFromPeak'
  <2> SUFFICES ASSUME TypeOK, Reads, DrawdownFromPeak, [Next]_vars PROVE DrawdownFromPeak'
    BY DEF Types
  <2> USE DEF DrawdownFromPeak, Up
  <2>1. /\ peak \in Nat /\ saved.peak \in Nat /\ seen.nav \in Nat
    BY Numbers
  <2>2. ASSUME UNCHANGED <<seen, peak, drawdown, saved>>, running' => running,
               stage \notin {"down", "peak", "drawdown"}
        PROVE  DrawdownFromPeak'
    BY <2>2
  <2>3. CASE MarketMoves \/ RestingFills \/ UNCHANGED vars
    BY <2>3 DEF MarketMoves, RestingFills, memory, control, vars
  <2>4. CASE Boot
    <3>1. seen'.nav = 0 /\ peak' = saved.peak /\ saved' = saved
      BY <2>4 DEF Boot, RestoredPeak, NoSnapshot
    <3> QED
      BY <2>1, <2>4, <3>1 DEF Boot
  <2>5. CASE InitialSync \/ BeginCycle \/ BeginWithSync \/ BeginWithoutSync
    BY <2>5, <2>2 DEF InitialSync, BeginCycle, BeginWithSync, BeginWithoutSync, memory, control
  <2>6. CASE ReadPositions
    BY <2>6 DEF ReadPositions, control
  <2>7. CASE RaisePeak
    <3>1. peak' = IF seen.nav > peak THEN seen.nav ELSE peak
      BY <2>7 DEF RaisePeak, HigherPeak
    <3>2. peak' \in Nat /\ peak' >= peak /\ peak' >= seen.nav
      BY <2>1, <3>1
    <3> QED
      BY <2>1, <2>7, <3>2 DEF RaisePeak, control
  <2>8. CASE UpdateDrawdown
    BY <2>8 DEF UpdateDrawdown, control
  <2>9. CASE FinishSync \/ CloseBreached \/ StopsChecked \/ NoOrder
    BY <2>9, <2>2 DEF FinishSync, CloseBreached, StopsChecked, NoOrder, memory, control
  <2>10. CASE Reject \/ Approve \/ Submit
    BY <2>10, <2>2 DEF Reject, Approve, Submit, memory, control
  <2>11. CASE Signal
    BY <2>11 DEF Signal, memory
  <2>12. CASE Exit \/ Halt \/ Crash
    BY <2>12 DEF Exit, Halt, Crash
  <2> QED
    BY <2>3, <2>4, <2>5, <2>6, <2>7, <2>8, <2>9, <2>10, <2>11, <2>12 DEF Next
<1> QED
  BY <1>1, <1>2, TypesInit, TypesNext, PTL DEF Spec

\* While the process runs its peak is the record; once it was told to stop,
\* and when it is down, the checkpoint is.
Record ==
  /\ (Up => peak >= highest)
  /\ (~Up \/ ~running => saved.peak >= highest)

\* The highest NAV synced counts after every restart that follows a signal,
\* and a crash or a halt goes back to the checkpoint's peak.  The invariant
\* needs the checkpoint: what a signal saved is at least the record, which no
\* later sync of that process raises.
THEOREM PeakKept == Spec => []PeakSurvivesRestart
<1>1. Init => Record
  <2> SUFFICES ASSUME Init PROVE Record
    OBVIOUS
  <2>1. highest = 0 /\ saved.peak = 0 /\ stage = "down"
    BY DEF Init
  <2> QED
    BY <2>1 DEF Record, Up
<1>2. TypeOK /\ DrawdownFromPeak /\ Record /\ [Next]_vars => Record'
  <2> SUFFICES ASSUME TypeOK, DrawdownFromPeak, Record, [Next]_vars PROVE Record'
    OBVIOUS
  <2> USE DEF Record, Up
  <2>1. /\ peak \in Nat /\ saved.peak \in Nat /\ seen.nav \in Nat /\ highest \in Nat
    BY Numbers
  <2>2. ASSUME UNCHANGED <<peak, highest, saved, running>>, stage # "down", stage' # "down"
        PROVE  Record'
    BY <2>2
  <2>3. CASE MarketMoves \/ RestingFills \/ UNCHANGED vars
    BY <2>3 DEF MarketMoves, RestingFills, memory, control, vars
  <2>4. CASE Boot
    BY <2>4 DEF Boot, RestoredPeak
  <2>5. CASE InitialSync \/ BeginCycle \/ BeginWithSync \/ BeginWithoutSync
    <3>1. stage # "down" /\ stage' # "down"
      BY <2>5 DEF InitialSync, BeginCycle, BeginWithSync, BeginWithoutSync, ReadBalance
    <3> QED
      BY <2>5, <2>2, <3>1
         DEF InitialSync, BeginCycle, BeginWithSync, BeginWithoutSync, memory, control
  <2>6. CASE ReadPositions \/ FinishSync
    BY <2>6, <2>2 DEF ReadPositions, FinishSync, control
  <2>7. CASE RaisePeak
    <3>1. peak' = IF seen.nav > peak THEN seen.nav ELSE peak
      BY <2>7 DEF RaisePeak, HigherPeak
    <3>2. highest' = IF running /\ seen.nav > highest THEN seen.nav ELSE highest
      BY <2>7 DEF RaisePeak
    <3>3. stage = "peak" /\ stage' = "drawdown" /\ UNCHANGED <<saved, running>>
      BY <2>7 DEF RaisePeak, control
    <3> QED
      BY <2>1, <3>1, <3>2, <3>3
  <2>8. CASE UpdateDrawdown
    BY <2>8, <2>2 DEF UpdateDrawdown, control
  <2>9. CASE CloseBreached \/ StopsChecked \/ NoOrder
    BY <2>9, <2>2 DEF CloseBreached, StopsChecked, NoOrder, memory, control
  <2>10. CASE Reject \/ Approve \/ Submit
    BY <2>10, <2>2 DEF Reject, Approve, Submit, memory, control
  <2>11. CASE Signal
    <3>1. CASE saved' = Checkpoint /\ highest' = highest
      <4>1. saved'.peak = peak
        BY <3>1 DEF Checkpoint
      <4> QED
        BY <2>11, <3>1, <4>1 DEF Signal, memory
    <3>2. CASE saved' = saved /\ highest' = saved.peak
      <4>1. running = TRUE
        BY <2>11 DEF Signal
      <4>2. peak >= saved.peak
        BY <2>11, <4>1 DEF DrawdownFromPeak, Signal
      <4> QED
        BY <2>1, <2>11, <3>2, <4>1, <4>2 DEF Signal, memory
    <3> QED
      BY <2>11, <3>1, <3>2 DEF Signal
  <2>12. CASE Exit
    BY <2>12 DEF Exit, memory, control
  <2>13. CASE Halt
    BY <2>1, <2>13 DEF Halt, memory
  <2>14. CASE Crash
    BY <2>1, <2>14 DEF Crash, memory
  <2> QED
    BY <2>3, <2>4, <2>5, <2>6, <2>7, <2>8, <2>9, <2>10, <2>11, <2>12, <2>13, <2>14 DEF Next
<1>3. Record => PeakSurvivesRestart
  BY DEF Record, PeakSurvivesRestart
<1> QED
  BY <1>1, <1>2, <1>3, TypeCorrect, PeakMeasured, PTL DEF Spec

-----------------------------------------------------------------------------
(* The drawdown limit *)

\* A share of a larger amount is larger.
LEMMA ShareGrows ==
  ASSUME NEW share \in Nat, NEW small \in Nat, NEW large \in Nat, large >= small
  PROVE  share * large >= share * small
<1>1. PICK more \in Nat : large = small + more
  <2>1. large - small \in Nat /\ large = small + (large - small)
    OBVIOUS
  <2> QED
    BY <2>1
<1>2. share * large = share * small + share * more
  BY <1>1
<1>3. share * more \in Nat /\ share * small \in Nat
  OBVIOUS
<1> QED
  BY <1>2, <1>3

\* No order is approved on a snapshot that lies the limit or more below the
\* highest NAV known: the guard measures from a peak that is at least it,
\* across the restarts that follow a signal.
THEOREM DrawdownStops == Spec => DrawdownHolds
<1>1. TypeOK /\ DrawdownFromPeak /\ PeakSurvivesRestart /\ [Next]_vars
        => [Approve /\ seen # NoSnapshot
              => seen.nav * 100 > (100 - MaxDrawdownPct) * highest]_vars
  <2> SUFFICES ASSUME TypeOK, DrawdownFromPeak, PeakSurvivesRestart, Approve, seen # NoSnapshot
               PROVE  seen.nav * 100 > (100 - MaxDrawdownPct) * highest
    OBVIOUS
  <2>1. stage = "decide" /\ ~DrawdownBreach
    BY DEF Approve, Passes
  <2>2. seen.nav > 0
    <3>1. seen \in [nav : Navs, gross : 0..MaxGross]
      BY DEF TypeOK
    <3> QED
      <4>1. seen.nav \in Navs
        BY <3>1
      <4>2. seen.nav \in Nat \ {0}
        BY <4>1, RiskBounds
      <4> QED
        BY <4>2
  <2>3. drawdown = [lost |-> peak - seen.nav, of |-> peak] /\ peak >= highest
    BY <2>1, <2>2 DEF DrawdownFromPeak, PeakSurvivesRestart, Up
  <2>4. ~((peak - seen.nav) * 100 >= MaxDrawdownPct * peak)
    BY <2>1, <2>3 DEF DrawdownBreach, Reaches
  <2> DEFINE kept == 100 - MaxDrawdownPct
  <2>5. /\ peak \in Nat /\ highest \in Nat /\ seen.nav \in Nat
        /\ MaxDrawdownPct \in Nat /\ kept \in Nat
    BY Numbers, RiskBounds
  <2>6. kept * peak = 100 * peak - MaxDrawdownPct * peak
    BY <2>5
  <2>7. MaxDrawdownPct * peak \in Int
    BY <2>5
  <2>8. seen.nav * 100 > kept * peak
    BY <2>4, <2>5, <2>6, <2>7
  <2>9. kept * peak >= kept * highest
    BY <2>3, <2>5, ShareGrows
  <2>10. kept * peak \in Int /\ kept * highest \in Int
    BY <2>5
  <2> QED
    BY <2>5, <2>8, <2>9, <2>10
<1> QED
  BY <1>1, TypeCorrect, PeakMeasured, PeakKept, PTL DEF Spec, DrawdownHolds
=============================================================================
