-------------------------- MODULE LoopProcess_proofs --------------------------
(***************************************************************************)
(* Theorems of LoopProcess, for any flags, files, channels, error limit    *)
(* and number of signals: what a process that ends has done before, and    *)
(* how many cycles it begins after it was told to stop.                    *)
(***************************************************************************)
EXTENDS LoopProcess, SequenceTheorems, TLAPS

-----------------------------------------------------------------------------
(* The inductive invariant *)

\* What TypeOK does not say of the counters and switches.
Frames == {"enter", "locked", "callbacks", "checkpoint"}
Counts ==
  /\ flag \in Flags /\ file \in Files
  /\ initiated \in BOOLEAN /\ halted \in BOOLEAN
  /\ {calls, saves, late, cancels} \subseteq Nat
  /\ signals \in 0..MaxSignals /\ Len(stack) <= signals

\* A frame that has initiated the shutdown and is not through with it.
Stopping(i) == stack[i] \in {"callbacks", "checkpoint"}

\* Among the frames of the handler, one below the other, at most one has initiated the
\* shutdown, and the counts of what it has done say where it is.
Cleanup ==
  /\ \A i, j \in 1..Len(stack) : Stopping(i) /\ Stopping(j) => i = j
  /\ ~initiated => /\ calls = 0 /\ saves = 0
                   /\ \A i \in 1..Len(stack) : ~Stopping(i)
  /\ initiated => \/ calls = 0 /\ saves = 0 /\ \E i \in 1..Len(stack) : stack[i] = "callbacks"
                  \/ calls = 1 /\ saves = 0 /\ \E i \in 1..Len(stack) : stack[i] = "checkpoint"
                  \/ calls = 1 /\ saves = 1 /\ \A i \in 1..Len(stack) : ~Stopping(i)

\* How far the main program can be: it leaves its loop for a halt or a shutdown only.
Places ==
  /\ exit = "running" <=> pc # "over"
  /\ pc \in BootSteps => ~initiated /\ stack = <<>>
  /\ halted => pc \in {"alert", "emergency", "return", "over"}
  /\ pc \in {"alert", "emergency"} => halted
  /\ pc = "return" => initiated \/ halted
  /\ ~halted => errors < MaxErrors

\* The halt goes from the alert, channel by channel, to one cancellation.
Halt ==
  /\ ~halted => todo = {} /\ cancels = 0 /\ tried = {}
  /\ pc = "alert" => tried \cup todo = wired /\ cancels = 0
  /\ pc = "emergency" => tried = wired /\ cancels = 0
  /\ halted /\ (pc = "return" \/ exit = "1") => tried = wired /\ cancels = 1

\* No cycle is late unless the shutdown came between the loop's check and the cycle.
Cycles ==
  /\ late <= 1
  /\ late > 0 => initiated
  /\ pc \in {"lifecycle", "control"} => late = 0

IInv == TypeOK /\ Counts /\ Cleanup /\ Places /\ Halt /\ Cycles /\ GracefulExit

-----------------------------------------------------------------------------
(* The handler's stack *)

\* A stack with a frame more, with its last frame changed, and with its last frame gone.
LEMMA Pushed ==
  ASSUME NEW s \in Seq(Frames), NEW f \in Frames
  PROVE  /\ Append(s, f) \in Seq(Frames) /\ Len(Append(s, f)) = Len(s) + 1
         /\ Append(s, f)[Len(s) + 1] = f
         /\ \A i \in 1..Len(s) : Append(s, f)[i] = s[i]
  BY AppendProperties

LEMMA Changed ==
  ASSUME NEW s \in Seq(Frames), s # <<>>, NEW f \in Frames
  PROVE  LET r == [s EXCEPT ![Len(s)] = f]
         IN /\ r \in Seq(Frames) /\ Len(r) = Len(s) /\ Len(s) \in 1..Len(s)
            /\ r[Len(s)] = f
            /\ \A i \in 1..Len(s) : i # Len(s) => r[i] = s[i]
  BY EmptySeq, ExceptSeq

LEMMA Popped ==
  ASSUME NEW s \in Seq(Frames), s # <<>>
  PROVE  LET r == SubSeq(s, 1, Len(s) - 1)
         IN /\ r \in Seq(Frames) /\ Len(r) = Len(s) - 1 /\ Len(s) \in 1..Len(s)
            /\ Len(r) \in Nat
            /\ \A i \in 1..Len(r) : r[i] = s[i] /\ i \in 1..Len(s) /\ i # Len(s)
<1> DEFINE n == Len(s) - 1
           r == SubSeq(s, 1, n)
<1>1. Len(s) \in Nat /\ Len(s) >= 1 BY EmptySeq
<1>2. n \in Nat /\ n \in 0..Len(s) /\ n - 1 + 1 = n /\ 1 \in 1..n+1 BY <1>1
<1> HIDE DEF n
<1>3. /\ r \in Seq(Frames) /\ Len(r) = n
      /\ \A i \in 1..n : r[i] = s[i]
  <2>1. /\ r \in Seq(Frames) /\ Len(r) = IF 1 <= n THEN n - 1 + 1 ELSE 0
        /\ \A i \in 1..n - 1 + 1 : r[i] = s[1 + i - 1]
    BY <1>1, <1>2, SubSeqProperties
  <2>2. \A i \in 1..n : 1 + i - 1 = i BY <1>2
  <2> QED BY <1>2, <2>1, <2>2
<1>4. Len(s) \in 1..Len(s) /\ n = Len(s) - 1 BY <1>1 DEF n
<1>5. \A i \in 1..n : i \in 1..Len(s) /\ i # Len(s) BY <1>1 DEF n
<1>6. r = SubSeq(s, 1, Len(s) - 1) BY DEF n
<1> HIDE DEF r
<1> QED BY <1>2, <1>3, <1>4, <1>5, <1>6

-----------------------------------------------------------------------------
(* The main program *)

\* A step of the main program that goes on, in bootstrap or in a loop that is not halted.
LEMMA Onward ==
  ASSUME IInv, pc # "over", ~halted,
         UNCHANGED <<flag, file, handler, halting, exit, late>>,
         errors' \in {0, errors}, beat' \in 0..3,
         mode' \in {"unresolved", "paper", "shadow", "live"},
         pc' \in (BootSteps \cup LoopSteps) \ {"alert", "emergency"},
         pc' \in BootSteps => pc \in BootSteps,
         pc' = "return" => initiated,
         pc' \in {"lifecycle", "control"} => late = 0
  PROVE  IInv'
<1>1. UNCHANGED <<stack, initiated, calls, saves, signals, halted, todo, tried, cancels>>
  BY DEF handler, halting
<1>2. pc' # "over" /\ errors' \in 0..MaxErrors /\ errors' < MaxErrors
  BY ProcessAssumption DEF IInv, Places, TypeOK, BootSteps, LoopSteps
<1>3. TypeOK' BY <1>1, <1>2 DEF IInv, TypeOK, Halt
<1>4. Counts' BY <1>1 DEF IInv, Counts
<1>5. Cleanup' BY <1>1 DEF IInv, Cleanup, Stopping
<1>6. Places' BY <1>1, <1>2 DEF IInv, Places
<1>7. Halt' BY <1>1 DEF IInv, Halt
<1>8. Cycles' BY <1>1 DEF IInv, Cycles
<1>9. GracefulExit' BY <1>1 DEF IInv, GracefulExit
<1> QED BY <1>3, <1>4, <1>5, <1>6, <1>7, <1>8, <1>9 DEF IInv

\* The process ends: with 1 if it fails before a halt or returns from one, with 0 if it
\* returns from a loop that was not halted and no frame is left of the handler.
LEMMA Ends ==
  ASSUME IInv, pc # "over", pc' = "over", exit' \in {"0", "1", "killed"},
         exit' = "1" => ~halted \/ pc = "return",
         exit' = "0" => ~halted /\ pc = "return" /\ stack = <<>>,
         UNCHANGED <<setting, handler, errors, halting, wired, resting, beat, late>>
  PROVE  IInv'
<1>1. UNCHANGED <<flag, file, mode, stack, initiated, calls, saves, signals, halted, todo, tried, cancels>>
  BY DEF setting, handler, halting
<1>2. TypeOK' BY <1>1 DEF IInv, TypeOK
<1>3. Counts' BY <1>1 DEF IInv, Counts
<1>4. Cleanup' BY <1>1 DEF IInv, Cleanup, Stopping
<1>5. Places' BY <1>1 DEF IInv, Places, BootSteps
<1>6. Halt' BY <1>1 DEF IInv, Halt
<1>7. Cycles' BY <1>1 DEF IInv, Cycles
<1>8. GracefulExit'
  <2>1. CASE exit' = "0"
    <3>1. initiated /\ 1..Len(stack) = {} BY <2>1, EmptySeq DEF IInv, Places
    <3> QED BY <1>1, <2>1, <3>1 DEF IInv, Cleanup, GracefulExit
  <2>2. CASE exit' # "0" BY <2>2 DEF GracefulExit
  <2> QED BY <2>1, <2>2
<1> QED BY <1>2, <1>3, <1>4, <1>5, <1>6, <1>7, <1>8 DEF IInv

LEMMA BootstrapKeeps == ASSUME IInv, Bootstrap PROVE IInv'
<1> USE DEF At, Goto, BootSteps, LoopSteps, setting
<1>1. pc \in BootSteps /\ pc # "over"
  BY DEF Bootstrap, LoadConfig, ResolveExecutionMode, BuildGateway, BuildExecutor, RestoreOrders,
         BuildAgents, ValidateMandates, BuildAlertChannels, StartSession, Install
<1>2. /\ ~halted /\ beat \in 0..3 /\ mode \in {"unresolved", "paper", "shadow", "live"}
      /\ flag \in Flags /\ file \in Files
  BY <1>1 DEF IInv, Places, TypeOK, Counts
<1>3. CASE LoadConfig BY <1>1, <1>2, <1>3, Onward, Ends DEF LoadConfig, Passed, Fatal
<1>4. CASE ResolveExecutionMode
  <2>1. mode' \in {"paper", "shadow", "live"}
    BY <1>2, <1>4, ProcessAssumption DEF ResolveExecutionMode, Resolved, ExecutionMode
  <2> QED BY <1>1, <1>2, <1>4, <2>1, Onward DEF ResolveExecutionMode
<1>5. CASE BuildGateway BY <1>1, <1>2, <1>5, Onward, Ends DEF BuildGateway, Passed, Fatal
<1>6. CASE BuildExecutor BY <1>1, <1>2, <1>6, Onward, Ends DEF BuildExecutor, Passed, Fatal
<1>7. CASE RestoreOrders BY <1>1, <1>2, <1>7, Onward, Ends DEF RestoreOrders, Passed, Fatal
<1>8. CASE BuildAgents BY <1>1, <1>2, <1>8, Onward, Ends DEF BuildAgents, Passed, Fatal
<1>9. CASE ValidateMandates BY <1>1, <1>2, <1>9, Onward, Ends DEF ValidateMandates, Passed, Fatal
<1>10. CASE BuildAlertChannels BY <1>1, <1>2, <1>10, Onward DEF BuildAlertChannels
<1>11. CASE StartSession BY <1>1, <1>2, <1>11, Onward, Ends DEF StartSession, Passed, Fatal
<1>12. CASE Install BY <1>1, <1>2, <1>12, Onward DEF Install, Passed
<1> QED BY <1>3, <1>4, <1>5, <1>6, <1>7, <1>8, <1>9, <1>10, <1>11, <1>12 DEF Bootstrap

\* A cycle that begins late is the first: the loop was entered before the signal.
LEMMA BeginCycleKeeps == ASSUME IInv, BeginCycle PROVE IInv'
<1>1. /\ pc = "control" /\ pc' = "cycle"
      /\ UNCHANGED <<setting, handler, errors, halting, wired, resting, beat, exit>>
  BY DEF BeginCycle, At, Goto
<1>2. UNCHANGED <<flag, file, mode, stack, initiated, calls, saves, signals, halted, todo, tried, cancels>>
  BY <1>1 DEF setting, handler, halting
<1>3. late = 0 /\ late' \in {0, 1} /\ (late' = 1 => initiated)
  BY <1>1 DEF IInv, Cycles, BeginCycle
<1>4. TypeOK' BY <1>1, <1>2 DEF IInv, TypeOK, BootSteps, LoopSteps
<1>5. Counts' BY <1>2, <1>3 DEF IInv, Counts
<1>6. Cleanup' BY <1>2 DEF IInv, Cleanup, Stopping
<1>7. Places' BY <1>1, <1>2 DEF IInv, Places, BootSteps
<1>8. Halt' BY <1>1, <1>2 DEF IInv, Halt, Places
<1>9. Cycles' BY <1>1, <1>2, <1>3 DEF Cycles
<1>10. GracefulExit' BY <1>1, <1>2 DEF IInv, GracefulExit
<1> QED BY <1>4, <1>5, <1>6, <1>7, <1>8, <1>9, <1>10 DEF IInv

\* A failed cycle is counted; the last that is allowed halts the loop.
LEMMA CycleFailsKeeps == ASSUME IInv, CycleFails PROVE IInv'
<1>1. /\ pc = "failed" /\ ~halted /\ errors' = errors + 1
      /\ UNCHANGED <<setting, handler, tried, cancels, wired, beat, exit, late>>
  BY DEF CycleFails, At, IInv, Places
<1>2. UNCHANGED <<flag, file, mode, stack, initiated, calls, saves, signals>>
  BY <1>1 DEF setting, handler
<1>3. /\ errors' \in 0..MaxErrors
      /\ \/ errors' >= MaxErrors /\ pc' = "alert" /\ halted' = TRUE /\ todo' = wired
         \/ errors' < MaxErrors /\ pc' = "sleep" /\ UNCHANGED <<halted, todo>>
  BY <1>1, ProcessAssumption DEF IInv, TypeOK, Places, CycleFails, Goto
<1>4. TypeOK' BY <1>1, <1>2, <1>3 DEF IInv, TypeOK, BootSteps, LoopSteps
<1>5. Counts' BY <1>1, <1>2, <1>3 DEF IInv, Counts
<1>6. Cleanup' BY <1>2 DEF IInv, Cleanup, Stopping
<1>7. Places' BY <1>1, <1>2, <1>3 DEF IInv, Places, BootSteps
<1>8. Halt' BY <1>1, <1>2, <1>3 DEF IInv, Halt, Places
<1>9. Cycles' BY <1>1, <1>2, <1>3 DEF IInv, Cycles
<1>10. GracefulExit' BY <1>1, <1>2, <1>3 DEF IInv, GracefulExit, Places
<1> QED BY <1>4, <1>5, <1>6, <1>7, <1>8, <1>9, <1>10 DEF IInv

\* The steps of a halted loop: a channel, the last channel, the cancellation.
LEMMA HaltingKeeps ==
  ASSUME IInv, AlertSent \/ EmergencyCancel \/ \E c \in Channels : DispatchToChannel(c)
  PROVE  IInv'
<1> USE DEF At, Goto, Passed, setting, handler, halting
<1>1. /\ pc \in {"alert", "emergency"} /\ halted /\ pc' \in {"alert", "emergency", "return"}
      /\ UNCHANGED <<setting, handler, errors, halted, wired, beat, exit, late>>
      /\ cancels' \in {cancels, cancels + 1}
  BY DEF AlertSent, EmergencyCancel, DispatchToChannel, IInv, Places
<1>2. /\ pc' = "alert" => tried' \cup todo' = wired /\ cancels' = 0
      /\ pc' = "emergency" => tried' = wired /\ cancels' = 0
      /\ pc' = "return" => tried' = wired /\ cancels' = 1
      /\ todo' \subseteq wired
  <2>1. CASE AlertSent BY <2>1 DEF AlertSent, IInv, Halt, TypeOK
  <2>2. CASE EmergencyCancel BY <2>2 DEF EmergencyCancel, IInv, Halt, TypeOK
  <2>3. ASSUME NEW c \in Channels, DispatchToChannel(c)
        PROVE  pc' = "alert" /\ tried' \cup todo' = wired /\ cancels' = 0 /\ todo' \subseteq wired
    <3>1. c \in todo /\ todo' = todo \ {c} /\ tried' = tried \cup {c}
      BY <2>3 DEF DispatchToChannel, AfterDispatch
    <3> QED BY <2>3, <3>1 DEF DispatchToChannel, IInv, Halt, TypeOK
  <2> QED BY <2>1, <2>2, <2>3
<1>3. TypeOK' BY <1>1, <1>2 DEF IInv, TypeOK, BootSteps, LoopSteps
<1>4. Counts' BY <1>1 DEF IInv, Counts
<1>5. Cleanup' BY <1>1 DEF IInv, Cleanup, Stopping
<1>6. Places' BY <1>1 DEF IInv, Places, BootSteps
<1>7. Halt' BY <1>1, <1>2 DEF IInv, Halt, Places
<1>8. Cycles' BY <1>1 DEF IInv, Cycles
<1>9. GracefulExit' BY <1>1 DEF IInv, GracefulExit, Places
<1> QED BY <1>3, <1>4, <1>5, <1>6, <1>7, <1>8, <1>9 DEF IInv

LEMMA LoopKeeps == ASSUME IInv, Loop PROVE IInv'
<1> USE DEF At, Goto, setting
<1>1. CASE AlertSent \/ EmergencyCancel \/ \E c \in Channels : DispatchToChannel(c)
  BY <1>1, HaltingKeeps
<1>2. CASE BeginCycle BY <1>2, BeginCycleKeeps
<1>3. CASE CycleFails BY <1>3, CycleFailsKeeps
<1>4. CASE Return BY <1>4, Ends DEF Return
<1>5. beat \in 0..3 /\ mode \in {"unresolved", "paper", "shadow", "live"} BY DEF IInv, TypeOK
<1>6. CASE SetupAccount \/ InitialSync \/ EnterLoop \/ LeaveLoop
  <2>1. pc \in {"setup", "sync", "while"} /\ ~halted
    BY <1>6 DEF SetupAccount, InitialSync, EnterLoop, LeaveLoop, IInv, Places
  <2>2. /\ pc' \in {"sync", "while", "lifecycle", "return"}
        /\ pc' = "lifecycle" => ~initiated /\ late = 0
        /\ pc' = "return" => initiated
        /\ UNCHANGED <<setting, handler, errors, halting, exit, late, beat>>
    BY <1>6, <2>1 DEF SetupAccount, InitialSync, EnterLoop, LeaveLoop, Passed, Stays, Running,
                      IInv, Cycles, Counts
  <2> QED BY <1>5, <2>1, <2>2, Onward DEF BootSteps, LoopSteps
<1>7. CASE CheckSessionEnd
  <2>1. pc = "lifecycle" /\ ~halted /\ late = 0
    BY <1>7 DEF CheckSessionEnd, IInv, Places, Cycles
  <2>2. CASE Fatal BY <2>1, <2>2, Ends DEF Fatal
  <2>3. CASE Passed("control") \/ Passed("sleep")
    BY <1>5, <2>1, <2>3, Onward DEF Passed, BootSteps, LoopSteps
  <2> QED BY <1>7, <2>2, <2>3 DEF CheckSessionEnd
<1>8. CASE GateBlocks \/ GatePasses \/ SubmitOrder \/ Housekeep \/ EmitHeartbeat \/ Sleep
  <2>1. pc \in {"cycle", "submit", "housekeep", "heartbeat", "sleep"} /\ ~halted
    BY <1>8 DEF GateBlocks, GatePasses, SubmitOrder, Housekeep, EmitHeartbeat, Sleep, IInv, Places
  <2>2. /\ pc' \in {"submit", "failed", "housekeep", "heartbeat", "sleep", "while"}
        /\ errors' \in {0, errors}
        /\ UNCHANGED <<setting, handler, halting, exit, late>>
    BY <1>8 DEF GateBlocks, GatePasses, SubmitOrder, Housekeep, EmitHeartbeat, Sleep, Passed
  <2>3. beat' \in 0..3
    <3>1. CASE GateBlocks \/ GatePasses \/ SubmitOrder \/ Housekeep
      BY <1>5, <3>1 DEF GateBlocks, GatePasses, SubmitOrder, Housekeep, Passed
    <3>2. CASE EmitHeartbeat BY <1>5, <3>2 DEF EmitHeartbeat
    <3>3. CASE Sleep
      <4>1. beat' = beat \/ (beat' = beat + 1 /\ ~(beat >= 2)) BY <3>3 DEF Sleep
      <4> QED BY <1>5, <4>1
    <3> QED BY <1>8, <3>1, <3>2, <3>3
  <2> QED BY <1>5, <2>1, <2>2, <2>3, Onward DEF BootSteps, LoopSteps
<1> QED BY <1>1, <1>2, <1>3, <1>4, <1>6, <1>7, <1>8 DEF Loop

-----------------------------------------------------------------------------
(* The signal handler *)

\* What a step on the stack has to establish: the main program stands where it stood.
LEMMA HandlerStep ==
  ASSUME IInv, MainKept, pc \in LoopSteps, exit = "running",
         stack' \in Seq(Frames), Len(stack') <= signals', signals' \in 0..MaxSignals,
         initiated' \in BOOLEAN, initiated => initiated',
         calls' \in Nat, saves' \in Nat, Cleanup'
  PROVE  IInv'
<1>1. UNCHANGED <<flag, file, mode, pc, errors, halted, todo, tried, cancels, wired, beat, exit, late>>
  BY DEF MainKept, setting, halting
<1>2. Len(stack') \in Nat /\ Len(stack') <= MaxSignals BY ProcessAssumption, EmptySeq
<1>3. TypeOK' BY <1>1, <1>2 DEF IInv, TypeOK, Frames
<1>4. Counts' BY <1>1 DEF IInv, Counts
<1>5. Places' BY <1>1 DEF IInv, Places, BootSteps, LoopSteps
<1>6. Halt' BY <1>1 DEF IInv, Halt
<1>7. Cycles' BY <1>1 DEF IInv, Cycles
<1>8. GracefulExit' BY <1>1 DEF GracefulExit
<1> QED BY <1>3, <1>4, <1>5, <1>6, <1>7, <1>8 DEF IInv

LEMMA SignalKeeps == ASSUME IInv, Signal PROVE IInv'
<1>1. stack \in Seq(Frames) /\ "enter" \in Frames BY DEF IInv, TypeOK, Frames
<1>2. /\ stack' = Append(stack, "enter") /\ signals' = signals + 1 /\ signals < MaxSignals
      /\ UNCHANGED <<initiated, calls, saves>> /\ MainKept /\ pc \in LoopSteps /\ exit = "running"
  BY DEF Signal
<1>3. /\ stack' \in Seq(Frames) /\ Len(stack') = Len(stack) + 1
      /\ stack'[Len(stack) + 1] = "enter" /\ Len(stack) \in Nat
      /\ \A i \in 1..Len(stack) : stack'[i] = stack[i]
  BY <1>1, <1>2, Pushed, EmptySeq
<1>4. /\ \A i \in 1..Len(stack') : Stopping(i)' <=> i \in 1..Len(stack) /\ Stopping(i)
      /\ \A i \in 1..Len(stack) : i \in 1..Len(stack')
  BY <1>3 DEF Stopping
<1>5. Cleanup' BY <1>2, <1>3, <1>4 DEF IInv, Cleanup
<1>6. /\ Len(stack') <= signals' /\ signals' \in 0..MaxSignals
      /\ initiated \in BOOLEAN /\ calls \in Nat /\ saves \in Nat
  BY <1>2, <1>3, ProcessAssumption DEF IInv, Counts
<1> QED BY <1>2, <1>3, <1>5, <1>6, HandlerStep

\* The frame on top runs, and with one there the main program is in its loop.
LEMMA OnTop ==
  ASSUME IInv, NEW f, InHandler(f)
  PROVE  /\ stack \in Seq(Frames) /\ stack # <<>> /\ stack[Len(stack)] = f /\ Len(stack) \in 1..Len(stack)
         /\ pc \in LoopSteps /\ exit = "running"
  BY EmptySeq DEF InHandler, Top, IInv, TypeOK, Places, Frames, BootSteps, LoopSteps

LEMMA BecomeKeeps ==
  ASSUME IInv, TakeLock \/ InitiateShutdown \/ RunCallbacks
  PROVE  IInv'
<1>1. CASE TakeLock
  <2>1. /\ InHandler("enter") /\ Become("locked") /\ MainKept
        /\ UNCHANGED <<initiated, calls, saves, signals>>
    BY <1>1 DEF TakeLock
  <2>2. /\ stack' \in Seq(Frames) /\ Len(stack') = Len(stack)
        /\ stack[Len(stack)] = "enter" /\ stack'[Len(stack)] = "locked"
        /\ \A i \in 1..Len(stack) : i # Len(stack) => stack'[i] = stack[i]
    BY <2>1, OnTop, Changed DEF Become, Frames
  <2>3. \A i \in 1..Len(stack) : /\ Stopping(i)' <=> Stopping(i)
                                 /\ Stopping(i) => stack'[i] = stack[i]
    BY <2>2 DEF Stopping
  <2>4. Cleanup' BY <2>1, <2>2, <2>3 DEF IInv, Cleanup, Stopping
  <2> QED BY <2>1, <2>2, <2>4, OnTop, HandlerStep DEF IInv, Counts
<1>2. CASE InitiateShutdown
  <2>1. /\ InHandler("locked") /\ Become("callbacks") /\ MainKept /\ ~initiated /\ initiated'
        /\ initiated' \in BOOLEAN /\ UNCHANGED <<calls, saves, signals>>
    BY <1>2 DEF InitiateShutdown, Repeated
  <2>2. /\ stack' \in Seq(Frames) /\ Len(stack') = Len(stack) /\ Len(stack) \in 1..Len(stack)
        /\ stack'[Len(stack)] = "callbacks"
        /\ \A i \in 1..Len(stack) : i # Len(stack) => stack'[i] = stack[i]
    BY <2>1, OnTop, Changed DEF Become, Frames
  <2>3. \A i \in 1..Len(stack) : Stopping(i)' <=> i = Len(stack)
    BY <2>1, <2>2 DEF Stopping, IInv, Cleanup
  <2>4. Cleanup' BY <2>1, <2>2, <2>3 DEF IInv, Cleanup
  <2> QED BY <2>1, <2>2, <2>4, OnTop, HandlerStep DEF IInv, Counts
<1>3. CASE RunCallbacks
  <2>1. /\ InHandler("callbacks") /\ Become("checkpoint") /\ MainKept /\ calls' = calls + 1
        /\ UNCHANGED <<initiated, saves, signals>>
    BY <1>3 DEF RunCallbacks
  <2>2. /\ stack' \in Seq(Frames) /\ Len(stack') = Len(stack) /\ Len(stack) \in 1..Len(stack)
        /\ stack[Len(stack)] = "callbacks" /\ stack'[Len(stack)] = "checkpoint"
        /\ \A i \in 1..Len(stack) : i # Len(stack) => stack'[i] = stack[i]
    BY <2>1, OnTop, Changed DEF Become, Frames
  <2>3. \A i \in 1..Len(stack) : Stopping(i) <=> i = Len(stack)
    BY <2>2 DEF Stopping, IInv, Cleanup
  <2>4. initiated /\ calls = 0 /\ saves = 0
    <3>1. Stopping(Len(stack)) BY <2>2, <2>3
    <3>2. ~ \E i \in 1..Len(stack) : stack[i] = "checkpoint"
      BY <2>2, <2>3 DEF Stopping
    <3>3. initiated BY <2>2, <3>1 DEF IInv, Cleanup, Counts
    <3> QED BY <2>2, <3>1, <3>2, <3>3 DEF IInv, Cleanup
  <2>5. \A i \in 1..Len(stack) : Stopping(i)' <=> i = Len(stack)
    BY <2>2, <2>3 DEF Stopping
  <2>6. Cleanup' BY <2>1, <2>2, <2>4, <2>5 DEF Cleanup
  <2> QED BY <2>1, <2>2, <2>4, <2>6, OnTop, HandlerStep DEF IInv, Counts
<1> QED BY <1>1, <1>2, <1>3

LEMMA PopKeeps ==
  ASSUME IInv, ReturnEarly \/ SaveCheckpoint
  PROVE  IInv'
<1>0. /\ Pop /\ MainKept /\ UNCHANGED <<initiated, calls, signals>>
      /\ InHandler("locked") \/ InHandler("checkpoint")
  BY DEF ReturnEarly, SaveCheckpoint
<1>1. /\ stack' \in Seq(Frames) /\ Len(stack') = Len(stack) - 1 /\ Len(stack') \in Nat
      /\ Len(stack) \in 1..Len(stack)
      /\ \A i \in 1..Len(stack') : stack'[i] = stack[i] /\ i \in 1..Len(stack) /\ i # Len(stack)
  BY <1>0, OnTop, Popped DEF Pop
<1>2. \A i \in 1..Len(stack') : Stopping(i)' <=> Stopping(i)
  BY <1>1 DEF Stopping
<1>3. \A i \in 1..Len(stack) : i # Len(stack) => i \in 1..Len(stack')
  BY <1>1
<1>4. Len(stack') <= signals' /\ signals' \in 0..MaxSignals /\ initiated \in BOOLEAN
      /\ calls \in Nat /\ saves \in Nat
  BY <1>0, <1>1, ProcessAssumption DEF IInv, Counts
<1>5. CASE ReturnEarly
  <2>1. stack[Len(stack)] = "locked" /\ saves' = saves BY <1>5, OnTop DEF ReturnEarly
  <2>2. Cleanup' BY <1>0, <1>1, <1>2, <1>3, <2>1 DEF IInv, Cleanup, Stopping
  <2> QED BY <1>0, <1>1, <1>4, <2>1, <2>2, OnTop, HandlerStep
<1>6. CASE SaveCheckpoint
  <2>1. stack[Len(stack)] = "checkpoint" /\ saves' = saves + 1 BY <1>6, OnTop DEF SaveCheckpoint
  <2>2. \A i \in 1..Len(stack) : Stopping(i) <=> i = Len(stack)
    BY <1>1, <2>1 DEF Stopping, IInv, Cleanup
  <2>3. initiated /\ calls = 1 /\ saves = 0
    <3>1. Stopping(Len(stack)) BY <1>1, <2>2
    <3>2. ~ \E i \in 1..Len(stack) : stack[i] = "callbacks"
      BY <2>1, <2>2 DEF Stopping
    <3>3. initiated BY <1>1, <3>1 DEF IInv, Cleanup, Counts
    <3> QED BY <1>1, <3>1, <3>2, <3>3 DEF IInv, Cleanup
  <2>4. \A i \in 1..Len(stack') : ~ Stopping(i)' BY <1>1, <1>2, <2>2
  <2>5. Cleanup' BY <1>0, <2>1, <2>3, <2>4 DEF Cleanup
  <2> QED BY <1>0, <1>1, <1>4, <2>1, <2>3, <2>5, OnTop, HandlerStep
<1> QED BY <1>5, <1>6

-----------------------------------------------------------------------------
(* The theorems *)

LEMMA Fresh ==
  ASSUME flag \in Flags, file \in Files, beat \in 0..3,
         mode = "unresolved", pc = "load", stack = <<>>,
         initiated = FALSE, errors = 0, halted = FALSE,
         wired = {}, todo = {}, tried = {}, exit = "running",
         calls = 0, saves = 0, late = 0, cancels = 0, signals = 0
  PROVE  IInv
<1>1. stack \in Seq(Frames) /\ Len(stack) = 0 BY EmptySeq
<1>2. TypeOK
  <2>1. errors \in 0..MaxErrors /\ Len(stack) <= MaxSignals BY <1>1, ProcessAssumption
  <2>2. pc \in BootSteps BY DEF BootSteps
  <2>3. stack \in Seq({"enter", "locked", "callbacks", "checkpoint"}) BY <1>1 DEF Frames
  <2>4. mode \in {"unresolved", "paper", "shadow", "live"} /\ beat \in 0..3 OBVIOUS
  <2>5. todo \subseteq wired /\ exit \in {"running", "0", "1", "killed"} OBVIOUS
  <2>6. pc \in BootSteps \cup LoopSteps \cup {"over"} BY <2>2
  <2> QED BY <2>1, <2>3, <2>4, <2>5, <2>6 DEF TypeOK
<1>3. Counts
  <2>1. signals \in 0..MaxSignals /\ Len(stack) <= signals BY <1>1, ProcessAssumption
  <2>2. initiated \in BOOLEAN /\ halted \in BOOLEAN OBVIOUS
  <2>3. {calls, saves, late, cancels} \subseteq Nat OBVIOUS
  <2> QED BY <2>1, <2>2, <2>3 DEF Counts
<1>4. Cleanup BY <1>1 DEF Cleanup
<1>5. Places BY ProcessAssumption DEF Places
<1>6. Halt /\ Cycles /\ GracefulExit BY DEF Halt, Cycles, GracefulExit
<1> QED BY <1>2, <1>3, <1>4, <1>5, <1>6 DEF IInv

LEMMA RestartKeeps == ASSUME IInv, Restart PROVE IInv'
<1>1. /\ flag' \in Flags /\ file' \in Files /\ beat' \in 0..3
      /\ mode' = "unresolved" /\ pc' = "load" /\ stack' = <<>>
      /\ initiated' = FALSE /\ errors' = 0 /\ halted' = FALSE
      /\ wired' = {} /\ todo' = {} /\ tried' = {} /\ exit' = "running"
      /\ calls' = 0 /\ saves' = 0 /\ late' = 0 /\ cancels' = 0 /\ signals' = 0
  BY DEF Restart, IInv, Counts, TypeOK
<1>2. Len(stack') = 0 /\ stack' \in Seq(Frames) BY <1>1, EmptySeq
<1>3. TypeOK'
  <2>1. errors' \in 0..MaxErrors /\ Len(stack') <= MaxSignals BY <1>1, <1>2, ProcessAssumption
  <2>2. pc' \in BootSteps BY <1>1 DEF BootSteps
  <2>3. stack' \in Seq({"enter", "locked", "callbacks", "checkpoint"}) BY <1>2 DEF Frames
  <2>4. mode' \in {"unresolved", "paper", "shadow", "live"} /\ beat' \in 0..3 BY <1>1
  <2>5. todo' \subseteq wired' /\ exit' \in {"running", "0", "1", "killed"} BY <1>1
  <2>6. pc' \in BootSteps \cup LoopSteps \cup {"over"} BY <2>2
  <2> QED BY <2>1, <2>3, <2>4, <2>5, <2>6 DEF TypeOK
<1>4. Counts'
  <2>1. signals' \in 0..MaxSignals /\ Len(stack') <= signals' BY <1>1, <1>2, ProcessAssumption
  <2>2. initiated' \in BOOLEAN /\ halted' \in BOOLEAN BY <1>1
  <2>3. {calls', saves', late', cancels'} \subseteq Nat BY <1>1
  <2> QED BY <1>1, <2>1, <2>2, <2>3 DEF Counts
<1>5. Cleanup' BY <1>1, <1>2 DEF Cleanup
<1>6. Places' BY <1>1, ProcessAssumption DEF Places
<1>7. Halt' /\ Cycles' /\ GracefulExit' BY <1>1 DEF Halt, Cycles, GracefulExit
<1> QED BY <1>3, <1>4, <1>5, <1>6, <1>7 DEF IInv

LEMMA InitInv == Init => IInv
<1> SUFFICES ASSUME Init PROVE IInv OBVIOUS
<1>1. beat \in 0..3 BY DEF Init
<1> QED BY <1>1, Fresh DEF Init

LEMMA NextInv == IInv /\ [Next]_vars => IInv'
<1> SUFFICES ASSUME IInv, [Next]_vars PROVE IInv' OBVIOUS
<1>1. CASE Bootstrap BY <1>1, BootstrapKeeps
<1>2. CASE Loop BY <1>2, LoopKeeps
<1>3. CASE Handle BY <1>3, BecomeKeeps, PopKeeps DEF Handle
<1>4. CASE Signal BY <1>4, SignalKeeps
<1>5. CASE SignalUnhandled \/ Kill
  <2>1. /\ pc # "over" /\ pc' = "over" /\ exit' = "killed"
        /\ UNCHANGED <<setting, handler, errors, halting, wired, resting, beat, late>>
    BY <1>5 DEF SignalUnhandled, Kill, Goto, IInv, Places
  <2> QED BY <2>1, Ends
<1>6. CASE Restart BY <1>6, RestartKeeps
<1>7. CASE OrderFills \/ UNCHANGED vars
  <2>1. UNCHANGED <<flag, file, mode, pc, stack, initiated, calls, saves, signals, errors,
                    halted, todo, tried, cancels, wired, beat, exit, late>>
    BY <1>7 DEF OrderFills, MainKept, vars, setting, handler, halting
  <2> QED BY <2>1 DEF IInv, TypeOK, Counts, Cleanup, Stopping, Places, Halt, Cycles, GracefulExit
<1> QED BY <1>1, <1>2, <1>3, <1>4, <1>5, <1>6, <1>7 DEF Next

\* The inductive invariant holds in every reachable state, wherever the signals meet the
\* process and however often it is killed and started again.
THEOREM Invariance == Spec => []IInv
<1>1. Init => IInv BY InitInv
<1>2. IInv /\ [Next]_vars => IInv' BY NextInv
<1> QED BY <1>1, <1>2, PTL DEF Spec

\* Every variable keeps its type; the handler has no more frames than signals came.
THEOREM TypeCorrect == Spec => []TypeOK
<1>1. IInv => TypeOK BY DEF IInv
<1> QED BY <1>1, Invariance, PTL

\* A process that exits with 0 was told to stop and not halted, and ran the shutdown's
\* callback and its checkpoint once each, for any number of nested signals.
THEOREM ExitsGracefully == Spec => []GracefulExit
<1>1. IInv => GracefulExit BY DEF IInv
<1> QED BY <1>1, Invariance, PTL

\* A process that halts and exits with 1 has sent its alert to every channel it could, and
\* cancelled once.
THEOREM HaltAlerts == Spec => []HaltReachesChannels
<1>1. IInv => HaltReachesChannels BY DEF IInv, Halt, HaltReachesChannels
<1> QED BY <1>1, Invariance, PTL

\* At most one cycle begins after the shutdown was initiated.
THEOREM OneLateCycle == Spec => []LastCycle
<1>1. IInv => LastCycle BY DEF IInv, Cycles, LastCycle
<1> QED BY <1>1, Invariance, PTL
=============================================================================
