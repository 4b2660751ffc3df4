----------------------------- MODULE LoopProcess -----------------------------
(***************************************************************************)
(* The life of the loop's process: bootstrap, the trading loop, its signal *)
(* handler, the halt after too many failed cycles, alerts, the heartbeat   *)
(* file the health check reads, and the restart by the container.          *)
(*                                                                         *)
(* The process has one thread.  A signal pushes a frame of the handler on  *)
(* its stack, also on one that is running, and the main program goes on    *)
(* when the stack is empty.  The lock of the handler is not reentrant.     *)
(***************************************************************************)
EXTENDS Integers, Sequences

CONSTANTS
  Flags, Files, \* what --mode may say, "none" for nothing, and the mode of the YAML files
  Channels,     \* alert channels of the configuration
  MaxErrors,    \* config: max_consecutive_errors
  MaxSignals    \* bound: signals a process is sent

ExecutionMode == {"paper", "shadow", "live"}

ASSUME ProcessAssumption ==
  /\ Flags \subseteq ExecutionMode \cup {"none"} /\ Files \subseteq ExecutionMode
  /\ MaxErrors \in Nat \ {0} /\ MaxSignals \in Nat

VARIABLES
  flag, file,   \* --mode, and mode of the YAML files
  authorized,   \* AIS_ENABLE_LIVE_TRADING is true and there is an account
  mode,         \* the resolved mode
  pc,           \* the step the main program is about to take
  stack,        \* the handler's frames, the running one last
  initiated, locked,
  errors,       \* LoopState.consecutive_errors
  halted,
  wired,        \* channels whose URL resolves
  todo,         \* channels the alert of a halt has still to be sent to
  tried,        \* channels it was sent to, whatever came of it
  resting,      \* at the exchange: an order rests
  beat,         \* cycle intervals since the heartbeat file was written, 2 for longer, 3: no file
  exit,         \* "running", "0", "1" or "killed"
  calls, saves, \* history: runs of the shutdown callback and of the checkpoint
  late,         \* history: cycles begun after the shutdown was initiated
  cancels,      \* history: emergency cancels of the halt
  signals

setting == <<flag, file, authorized, mode>>
handler == <<stack, initiated, locked, calls, saves, signals>>
halting == <<halted, todo, tried, cancels>>
vars == <<setting, pc, handler, errors, halting, wired, resting, beat, exit, late>>

BootSteps == {"load", "mode", "gateway", "executor", "orders", "agents", "mandates", "alerts",
              "session", "install"}
LoopSteps == {"setup", "sync", "while", "lifecycle", "control", "cycle", "submit", "housekeep",
              "heartbeat", "failed", "sleep", "alert", "emergency", "return"}

-----------------------------------------------------------------------------
(* Bootstrap *)

Init ==
  /\ flag \in Flags /\ file \in Files /\ authorized \in BOOLEAN
  /\ resting = FALSE /\ beat = 3
  /\ mode = "unresolved" /\ pc = "load" /\ stack = <<>>
  /\ initiated = FALSE /\ locked = FALSE /\ errors = 0 /\ halted = FALSE
  /\ wired = {} /\ todo = {} /\ tried = {} /\ exit = "running"
  /\ calls = 0 /\ saves = 0 /\ late = 0 /\ cancels = 0 /\ signals = 0

At(s) == pc = s /\ stack = <<>> /\ exit = "running"
Goto(s) == pc' = s

\* A step that raises ends _run_loop, which catches it: the exit code is 1.
Fatal == /\ exit' = "1" /\ Goto("over")
         /\ UNCHANGED <<setting, handler, errors, halting, wired, resting, beat, late>>

Passed(s) == /\ Goto(s)
             /\ UNCHANGED <<setting, handler, errors, halting, wired, resting, beat, exit, late>>

\* The YAML files, merged and validated.
LoadConfig == At("load") /\ (Fatal \/ Passed("mode"))

Resolved(env, cfg) == IF env \in {"live", "shadow"} THEN env ELSE cfg

ResolveExecutionMode ==
  /\ At("mode")
  /\ mode' = Resolved(flag, file)
  /\ Goto("gateway")
  /\ UNCHANGED <<flag, file, authorized, handler, errors, halting, wired, resting, beat, exit, late>>

\* Outside paper mode a server URL is needed.
BuildGateway == At("gateway") /\ (Passed("executor") \/ (mode # "paper" /\ Fatal))

\* Live trading needs its own switch and an account.
BuildExecutor ==
  At("executor") /\ IF mode = "live" /\ ~authorized THEN Fatal ELSE Passed("orders")

\* The order store is rebuilt from the event log before anything can refuse to start.
RestoreOrders == At("orders") /\ (Passed("agents") \/ Fatal)

\* A strategy without an agent class raises, and so does an agent's constructor.
BuildAgents == At("agents") /\ (Passed("mandates") \/ Fatal)

\* A mandate whose strategy no agent produces raises.
ValidateMandates == At("mandates") /\ (Passed("alerts") \/ Fatal)

\* Channels without a URL, or with a reference that does not resolve, are dropped.
BuildAlertChannels ==
  /\ At("alerts")
  /\ wired' \in SUBSET Channels
  /\ Goto("session")
  /\ UNCHANGED <<setting, handler, errors, halting, resting, beat, exit, late>>

\* Paper and shadow sessions start by themselves.
StartSession == At("session") /\ (Passed("install") \/ (mode # "live" /\ Fatal))

Install == At("install") /\ Passed("setup")

-----------------------------------------------------------------------------
(* The loop *)

\* Failures of single symbols are results; the service itself does not raise.
SetupAccount == At("setup") /\ Passed("sync")
InitialSync == At("sync") /\ Passed("while")

Running == ~initiated /\ ~halted
\* Mutant: the loop only looks at the halt.
StaysUnlessHalted == ~halted
Stays == Running
EnterLoop == At("while") /\ Stays /\ Passed("lifecycle")
LeaveLoop == At("while") /\ ~Stays /\ Passed("return")

\* check_session_end is outside the loop's try block: the process ends if it raises.
CheckSessionEnd == At("lifecycle") /\ (Passed("control") \/ Passed("sleep") \/ Fatal)

BeginCycle ==
  /\ At("control")
  /\ late' = IF initiated /\ late < 2 THEN late + 1 ELSE late
  /\ Goto("cycle")
  /\ UNCHANGED <<setting, handler, errors, halting, wired, resting, beat, exit>>

\* A cycle that the control state blocks returns before its housekeeping; a step
\* that raises is noted in the result, and either way the cycle counts as good.
GateBlocks ==
  /\ At("cycle")
  /\ errors' = 0 /\ Goto("sleep")
  /\ UNCHANGED <<setting, handler, halting, wired, resting, beat, exit, late>>
GatePasses == At("cycle") /\ (Passed("submit") \/ Passed("failed"))

SubmitOrder ==
  /\ At("submit")
  /\ resting' \in {TRUE, resting}
  /\ Goto("housekeep")
  /\ UNCHANGED <<setting, handler, errors, halting, wired, beat, exit, late>>

\* Fills, reconciliation and stale orders: what rests may fill or be cancelled.
Housekeep ==
  /\ At("housekeep")
  /\ resting' \in {FALSE, resting}
  /\ pc' \in {"heartbeat", "failed"}
  /\ UNCHANGED <<setting, handler, errors, halting, wired, beat, exit, late>>

\* A file that cannot be written is no error.
EmitHeartbeat ==
  /\ At("heartbeat")
  /\ beat' \in {0, beat}
  /\ errors' = 0 /\ Goto("sleep")
  /\ UNCHANGED <<setting, handler, halting, wired, resting, exit, late>>

\* A step outside the cycle's own try blocks raised.
CycleFails ==
  /\ At("failed")
  /\ errors' = errors + 1
  /\ IF errors + 1 >= MaxErrors
     THEN Goto("alert") /\ halted' = TRUE /\ todo' = wired
     ELSE Goto("sleep") /\ UNCHANGED <<halted, todo>>
  /\ UNCHANGED <<setting, handler, tried, cancels, wired, resting, beat, exit, late>>

\* Mutant: the test of is_running in the sleep is inverted, so that a process told to
\* stop sleeps on.
SleepOnShutdown ==
  /\ At("sleep") /\ ~initiated
  /\ beat' = IF beat >= 2 THEN beat ELSE beat + 1
  /\ Goto("while")
  /\ UNCHANGED <<setting, handler, errors, halting, wired, resting, exit, late>>

\* The sleep ends early when the process is told to stop.
Sleep ==
  /\ At("sleep")
  /\ beat' = IF initiated \/ beat >= 2 THEN beat ELSE beat + 1
  /\ Goto("while")
  /\ UNCHANGED <<setting, handler, errors, halting, wired, resting, exit, late>>

\* The alert is critical: every channel is sent it in turn, whatever comes of the others.
\* Mutant: the first channel that fails ends it.
AfterDispatchStops(c, delivered) == IF delivered THEN todo \ {c} ELSE {}
AfterDispatch(c, delivered) == todo \ {c}

DispatchToChannel(c) ==
  /\ At("alert") /\ c \in todo
  /\ \E delivered \in BOOLEAN : todo' = AfterDispatch(c, delivered)
  /\ tried' = tried \cup {c}
  /\ UNCHANGED <<setting, pc, handler, errors, halted, cancels, wired, resting, beat, exit, late>>

AlertSent == At("alert") /\ todo = {} /\ Passed("emergency")

\* A cancel that fails is logged; the halted loop saves no checkpoint.
EmergencyCancel ==
  /\ At("emergency")
  /\ resting' \in {FALSE, resting}
  /\ cancels' = cancels + 1
  /\ Goto("return")
  /\ UNCHANGED <<setting, handler, errors, halted, todo, tried, wired, beat, exit, late>>

Return ==
  /\ At("return")
  /\ exit' = (IF halted THEN "1" ELSE "0") /\ Goto("over")
  /\ UNCHANGED <<setting, handler, errors, halting, wired, resting, beat, late>>

-----------------------------------------------------------------------------
(* The signal handler *)

Top == stack[Len(stack)]
InHandler(f) == stack # <<>> /\ Top = f /\ exit = "running"
Become(f) == stack' = [stack EXCEPT ![Len(stack)] = f]
Pop == stack' = SubSeq(stack, 1, Len(stack) - 1)
MainKept == UNCHANGED <<setting, pc, errors, halting, wired, beat, exit, late>>

Signal ==
  /\ pc \in LoopSteps /\ exit = "running" /\ signals < MaxSignals
  /\ signals' = signals + 1
  /\ stack' = Append(stack, "enter")
  /\ MainKept /\ UNCHANGED <<initiated, locked, calls, saves, resting>>

\* Before install() a signal has its default effect.
SignalUnhandled ==
  /\ pc \in BootSteps /\ exit = "running"
  /\ exit' = "killed" /\ Goto("over")
  /\ UNCHANGED <<setting, handler, errors, halting, wired, resting, beat, late>>

\* A frame that finds the lock taken, by a frame below it, waits for ever.
TakeLock ==
  /\ InHandler("enter") /\ ~locked
  /\ locked' = TRUE /\ Become("locked")
  /\ MainKept /\ UNCHANGED <<initiated, calls, saves, signals, resting>>

\* Mutant: a shutdown under way is initiated again.
RepeatedAlways == FALSE
Repeated == initiated

ReturnEarly ==
  /\ InHandler("locked") /\ Repeated
  /\ locked' = FALSE /\ Pop
  /\ MainKept /\ UNCHANGED <<initiated, calls, saves, signals, resting>>

InitiateShutdown ==
  /\ InHandler("locked") /\ ~Repeated
  /\ initiated' = TRUE /\ locked' = FALSE /\ Become("callbacks")
  /\ MainKept /\ UNCHANGED <<calls, saves, signals, resting>>

\* The one callback cancels every order; its exceptions are caught.
RunCallbacks ==
  /\ InHandler("callbacks")
  /\ resting' \in {FALSE, resting}
  /\ calls' = calls + 1 /\ Become("checkpoint")
  /\ MainKept /\ UNCHANGED <<initiated, locked, saves, signals>>

SaveCheckpoint ==
  /\ InHandler("checkpoint")
  /\ saves' = saves + 1 /\ Pop
  /\ MainKept /\ UNCHANGED <<initiated, locked, calls, signals, resting>>

-----------------------------------------------------------------------------
(* The container *)

Kill ==
  /\ exit = "running" /\ signals > 0
  /\ exit' = "killed" /\ Goto("over")
  /\ UNCHANGED <<setting, handler, errors, halting, wired, resting, beat, late>>

\* The container's policy restarts the process with the same flag and files; the
\* exchange and the heartbeat file are as it left them.
Restart ==
  /\ pc = "over"
  /\ mode' = "unresolved" /\ pc' = "load" /\ stack' = <<>>
  /\ initiated' = FALSE /\ locked' = FALSE /\ errors' = 0 /\ halted' = FALSE
  /\ wired' = {} /\ todo' = {} /\ tried' = {} /\ exit' = "running"
  /\ calls' = 0 /\ saves' = 0 /\ late' = 0 /\ cancels' = 0 /\ signals' = 0
  /\ UNCHANGED <<flag, file, authorized, resting, beat>>

OrderFills ==
  /\ resting /\ resting' = FALSE
  /\ MainKept /\ UNCHANGED handler

\* health_status reports the loop's age and calls itself degraded for an error only.
LoopHealth == CASE beat = 3 -> "no_heartbeat" [] beat = 2 -> "stale" [] OTHER -> "healthy"
HealthStatus == IF "error" \in {LoopHealth} THEN "degraded" ELSE "ok"

Bootstrap == \/ LoadConfig \/ ResolveExecutionMode \/ BuildGateway \/ BuildExecutor \/ RestoreOrders
             \/ BuildAgents \/ ValidateMandates \/ BuildAlertChannels \/ StartSession \/ Install
Loop == \/ SetupAccount \/ InitialSync \/ EnterLoop \/ LeaveLoop \/ CheckSessionEnd \/ BeginCycle
        \/ GateBlocks \/ GatePasses \/ SubmitOrder \/ Housekeep \/ EmitHeartbeat \/ CycleFails
        \/ Sleep \/ AlertSent \/ EmergencyCancel \/ Return
        \/ \E c \in Channels : DispatchToChannel(c)
Handle == TakeLock \/ ReturnEarly \/ InitiateShutdown \/ RunCallbacks \/ SaveCheckpoint

Next == \/ Bootstrap \/ Loop \/ Handle
        \/ Signal \/ SignalUnhandled \/ Kill \/ Restart \/ OrderFills

Spec == Init /\ [][Next]_vars

\* The thread runs while nothing blocks it: in the handler if there is a frame.
FairSpec == Spec /\ WF_vars(Bootstrap \/ Loop \/ Handle)

-----------------------------------------------------------------------------
(* Properties *)

TypeOK ==
  /\ mode \in {"unresolved", "paper", "shadow", "live"} /\ pc \in BootSteps \cup LoopSteps \cup {"over"}
  /\ stack \in Seq({"enter", "locked", "callbacks", "checkpoint"}) /\ Len(stack) <= MaxSignals
  /\ errors \in 0..MaxErrors /\ beat \in 0..3 /\ todo \subseteq wired
  /\ exit \in {"running", "0", "1", "killed"}

\* A process that reports success was told to stop, has cancelled and saved exactly
\* once, however many signals arrived and wherever they met it, and was not halted.
GracefulExit == exit = "0" => initiated /\ ~halted /\ calls = 1 /\ saves = 1

\* A loop that halted and returns has tried every channel that could be resolved
\* and asked for one cancellation, also when signals arrive meanwhile.
HaltReachesChannels == exit = "1" /\ halted => tried = wired /\ cancels = 1

\* After the signal at most one cycle begins: that of the check just passed.
LastCycle == late <= 1

\* A shutdown that was initiated ends the process, unless a further signal finds
\* the lock taken by the frame it interrupted.
Blocked == stack # <<>> /\ Top = "enter" /\ locked
ShutdownCompletes == initiated ~> (exit # "running" \/ Blocked)

\* --mode overrides the configuration (__main__.py:36).
ModeFlagOverrides == mode # "unresolved" /\ flag # "none" => mode = flag

\* A second signal does not hang the process.
ShutdownNeverBlocks == ~Blocked

\* Nothing is sent to the exchange after the shutdown's cancellation.
NothingAfterCancel == [][~resting /\ resting' => calls = 0]_vars

\* A loop that is alive and not blocked keeps the heartbeat file fresh.
PausedLoopBeats == pc = "control" => LoopHealth # "stale"

\* The status page notices that the loop has stopped beating.
HealthNoticesLoop == LoopHealth = "stale" => HealthStatus = "degraded"
=============================================================================
