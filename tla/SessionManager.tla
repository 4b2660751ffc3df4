--------------------------- MODULE SessionManager ---------------------------
(***************************************************************************)
(* The trading session: SessionManager's lifecycle, its copy in Redis, the *)
(* bootstrap that restores or starts a session, and the loop that ends it  *)
(* on schedule and trades only while it is ACTIVE.                         *)
(*                                                                         *)
(* The manager has no lock.  Each operation copies the immutable session   *)
(* object and stores the copy, appends an event, and saves to Redis; the   *)
(* steps of the loop's thread and of API handlers (Clients) interleave.    *)
(* Clients is {} for the program as it is deployed, whose API process has  *)
(* no session manager, and not empty for a program that hands the manager  *)
(* to the API module in its own process, by set_session_manager.           *)
(***************************************************************************)
EXTENDS Naturals

CONSTANTS
  Clients,      \* API handlers that hold the manager
  Modes,        \* execution modes the process is started in
  MaxSessions,  \* bound: sessions created
  MaxCrashes,   \* bound: crashes
  MaxRaised,    \* bound: event-log appends that raise
  MaxLost,      \* bound: Redis reads and writes that fail
  MaxCalls      \* bound: calls of the clients

CONSTANT Loop   \* the main thread
Threads == Clients \union {Loop}

ASSUME SessionBounds ==
  /\ {MaxSessions, MaxCrashes, MaxRaised, MaxLost, MaxCalls} \subseteq Nat
  /\ Modes \subseteq {"paper", "shadow", "live"}
  /\ Loop \notin Clients

VARIABLES
  current,   \* SessionManager._current
  saved,     \* Redis: ais:session:state
  task,      \* what each thread is doing to the session
  stage,     \* where the main thread is
  mode,      \* execution mode of this process
  connected, \* this process got a Redis client at its start
  overdue,   \* sessions whose scheduled_end has passed
  overtime,  \* history: per session, cycles begun when it was overdue
  sessions, crashes, raised, lost, calls   \* counters for the bounds

counters == <<crashes, raised, lost, calls>>
process  == <<mode, connected>>
clock    == <<overdue, overtime>>
vars == <<current, saved, task, stage, process, clock, sessions, counters>>

State == {"none", "pending_review", "approved", "active", "ended"}
Session == [n : 0..MaxSessions, state : State, by : {"nobody", "auto", "operator"}]
NoSession == [n |-> 0, state |-> "none", by |-> "nobody"]

NewSession(k) == [n |-> k, state |-> "pending_review", by |-> "nobody"]

\* Where each state may lead.
ValidTransitions == {<<"pending_review", "approved">>, <<"approved", "active">>,
                     <<"active", "ended">>, <<"ended", "pending_review">>}

\* A thread's task: the state it is to reach, its next step, the session
\* object it has read, and the approver's name it is to enter.
Idle == [to |-> "none", at |-> "idle", seen |-> NoSession, by |-> "nobody"]
Task == [to : State, seen : Session, by : {"nobody", "auto", "operator"},
         at : {"idle", "sign", "signed", "check", "copy", "store",
               "append", "save", "write"}]
Free(t) == task[t].at = "idle"
Give(t, to, at, by) ==
  task' = [task EXCEPT ![t] = [to |-> to, at |-> at, seen |-> NoSession, by |-> by]]

Init ==
  /\ current = NoSession /\ saved = NoSession
  /\ task = [t \in Threads |-> Idle]
  /\ stage = "down" /\ mode \in Modes /\ connected = FALSE
  /\ overdue = {} /\ overtime = [k \in 1..MaxSessions |-> 0]
  /\ sessions = 0 /\ crashes = 0 /\ raised = 0 /\ lost = 0 /\ calls = 0

-----------------------------------------------------------------------------
(* The main thread before the loop *)

\* bootstrap starts a session of its own in the paper and shadow modes.
FirstStage(m) == IF m = "live" THEN "ready" ELSE "start"

\* The process starts, in the mode its environment says, and restores the
\* session from Redis.  If Redis does not answer it starts without one, and
\* if it did not answer the first ping, without Redis for as long as it runs.
Boot ==
  /\ stage = "down"
  /\ mode' \in Modes
  /\ FirstStage(mode') = "start" => sessions < MaxSessions
  /\ stage' = FirstStage(mode')
  /\ \/ current' = saved /\ connected' = TRUE /\ UNCHANGED lost
     \/ lost < MaxLost /\ lost' = lost + 1 /\ current' = NoSession
        /\ connected' \in BOOLEAN
  /\ UNCHANGED <<saved, task, overdue, overtime, sessions, crashes, raised, calls>>

\* start_session: a new session replaces whatever there was.
StartSession ==
  /\ stage = "start" /\ Free(Loop) /\ sessions < MaxSessions
  /\ sessions' = sessions + 1
  /\ current' = NewSession(sessions + 1)
  /\ Give(Loop, "pending_review", "append", "nobody")
  /\ stage' = "approve"
  /\ UNCHANGED <<saved, process, clock, counters>>

AutoApprove ==
  /\ stage = "approve" /\ Free(Loop)
  /\ Give(Loop, "approved", "sign", "auto")
  /\ stage' = "activate"
  /\ UNCHANGED <<current, saved, process, clock, sessions, counters>>

AutoActivate ==
  /\ stage = "activate" /\ Free(Loop)
  /\ Give(Loop, "active", "check", "nobody")
  /\ stage' = "ready"
  /\ UNCHANGED <<current, saved, process, clock, sessions, counters>>

\* bootstrap returns and the loop is run; the manager may be handed out.
EnterLoop ==
  /\ stage = "ready" /\ Free(Loop)
  /\ stage' = "top"
  /\ UNCHANGED <<current, saved, task, process, clock, sessions, counters>>

-----------------------------------------------------------------------------
(* The loop *)

\* Mutant: sessions end on schedule only if an operator approved them.
OnScheduleIfOperator == current.state = "active" /\ current.n \in overdue
                        /\ current.by = "operator"

\* check_session_end's condition.
OnSchedule == current.state = "active" /\ current.n \in overdue

\* check_session_end at the top of an iteration.
CheckSessionEnd ==
  /\ stage = "top" /\ Free(Loop)
  /\ stage' = "gate"
  /\ IF OnSchedule THEN Give(Loop, "ended", "check", "nobody") ELSE UNCHANGED task
  /\ UNCHANGED <<current, saved, process, clock, sessions, counters>>

\* A cycle runs if the session is ACTIVE; if not the loop waits.  Both lead
\* back to the top.
TradeOrWait ==
  /\ stage = "gate" /\ Free(Loop)
  /\ stage' = IF current.state = "active" THEN "cycle" ELSE "top"
  /\ overtime' = IF stage' = "cycle" /\ current.n \in overdue /\ overtime[current.n] < 2
                 THEN [overtime EXCEPT ![current.n] = @ + 1] ELSE overtime
  /\ UNCHANGED <<current, saved, task, process, overdue, sessions, counters>>
EndCycle ==
  /\ stage = "cycle" /\ stage' = "top"
  /\ UNCHANGED <<current, saved, task, process, clock, sessions, counters>>

ScheduledEndPasses ==
  /\ current.state = "active" /\ current.n \notin overdue
  /\ overdue' = overdue \union {current.n}
  /\ UNCHANGED <<current, saved, task, stage, process, overtime, sessions, counters>>

-----------------------------------------------------------------------------
(* The API's calls *)

Serving == stage \in {"top", "gate", "cycle"}

ApproveSession(c) ==
  /\ Serving /\ Free(c) /\ calls < MaxCalls /\ current # NoSession
  /\ calls' = calls + 1
  /\ Give(c, "approved", "sign", "operator")
  /\ UNCHANGED <<current, saved, stage, process, clock, sessions,
                 crashes, raised, lost>>

EndSession(c) ==
  /\ Serving /\ Free(c) /\ calls < MaxCalls /\ current # NoSession
  /\ calls' = calls + 1
  /\ Give(c, "ended", "check", "nobody")
  /\ UNCHANGED <<current, saved, stage, process, clock, sessions,
                 crashes, raised, lost>>

-----------------------------------------------------------------------------
(* The steps of a task *)

Goes(t, at) == task[t].at = at

\* approve_session reads the session and stores a copy with the name.
ReadToSign(t) ==
  /\ Goes(t, "sign")
  /\ task' = [task EXCEPT ![t].at = "signed", ![t].seen = current]
  /\ UNCHANGED <<current, saved, stage, process, clock, sessions, counters>>
StoreSigned(t) ==
  /\ Goes(t, "signed")
  /\ current' = [task[t].seen EXCEPT !.by = task[t].by]
  /\ task' = [task EXCEPT ![t].at = "check"]
  /\ UNCHANGED <<saved, stage, process, clock, sessions, counters>>

\* Mutant: any state but ENDED may be left for any other.
TransitionAllowedLoosely(t) == current.state # "ended"

\* Whether _transition allows the step.
TransitionAllowed(t) == <<current.state, task[t].to>> \in ValidTransitions

\* What an exception does: a handler's is answered with an error, the main
\* thread's ends the process, outside the cycle's try block.
Raise(t) ==
  IF t = Loop
  THEN /\ stage' = "down" /\ current' = NoSession
       /\ task' = [u \in Threads |-> Idle]
  ELSE /\ task' = [task EXCEPT ![t] = Idle]
       /\ UNCHANGED <<stage, current>>

CheckTransition(t) ==
  /\ Goes(t, "check") /\ TransitionAllowed(t)
  /\ task' = [task EXCEPT ![t].at = "copy"]
  /\ UNCHANGED <<current, saved, stage, process, clock, sessions, counters>>
RefuseTransition(t) ==
  /\ Goes(t, "check") /\ ~TransitionAllowed(t)
  /\ Raise(t)
  /\ UNCHANGED <<saved, process, clock, sessions, counters>>

\* The session is read again for the copy, and the copy stored.
Copy(t) ==
  /\ Goes(t, "copy")
  /\ task' = [task EXCEPT ![t].at = "store", ![t].seen = current]
  /\ UNCHANGED <<current, saved, stage, process, clock, sessions, counters>>
Store(t) ==
  /\ Goes(t, "store")
  /\ current' = [task[t].seen EXCEPT !.state = task[t].to]
  /\ task' = [task EXCEPT ![t].at = "append"]
  /\ UNCHANGED <<saved, stage, process, clock, sessions, counters>>

\* Mutant: the active session is not saved.
AppendWithoutSave(t) ==
  /\ Goes(t, "append")
  /\ task' = [task EXCEPT ![t] = IF task[t].to = "active" THEN Idle
                                 ELSE [@ EXCEPT !.at = "save"]]
  /\ UNCHANGED <<current, saved, stage, process, clock, sessions, counters>>

Append(t) ==
  /\ Goes(t, "append")
  /\ task' = [task EXCEPT ![t].at = "save"]
  /\ UNCHANGED <<current, saved, stage, process, clock, sessions, counters>>
AppendRaises(t) ==
  /\ Goes(t, "append") /\ raised < MaxRaised
  /\ raised' = raised + 1
  /\ Raise(t)
  /\ UNCHANGED <<saved, process, clock, sessions, crashes, lost, calls>>

\* _persist_to_redis serializes the session as it is by now and writes it;
\* a failed write is only logged.
Serialize(t) ==
  /\ Goes(t, "save")
  /\ task' = [task EXCEPT ![t].at = "write", ![t].seen = current]
  /\ UNCHANGED <<current, saved, stage, process, clock, sessions, counters>>
Write(t) ==
  /\ Goes(t, "write")
  /\ \/ connected /\ saved' = task[t].seen /\ UNCHANGED lost
     \/ ~connected /\ UNCHANGED <<saved, lost>>
     \/ lost < MaxLost /\ lost' = lost + 1 /\ UNCHANGED saved
  /\ task' = [task EXCEPT ![t] = Idle]
  /\ UNCHANGED <<current, stage, process, clock, sessions, crashes, raised, calls>>

Crash ==
  /\ stage # "down" /\ crashes < MaxCrashes
  /\ crashes' = crashes + 1
  /\ stage' = "down" /\ current' = NoSession
  /\ task' = [t \in Threads |-> Idle]
  /\ UNCHANGED <<saved, process, clock, sessions, raised, lost, calls>>

Work(t) == \/ ReadToSign(t) \/ StoreSigned(t)
           \/ CheckTransition(t) \/ RefuseTransition(t)
           \/ Copy(t) \/ Store(t) \/ Append(t) \/ AppendRaises(t)
           \/ Serialize(t) \/ Write(t)

MainLine == \/ Boot \/ StartSession \/ AutoApprove \/ AutoActivate \/ EnterLoop
            \/ CheckSessionEnd \/ TradeOrWait \/ EndCycle

Next ==
  \/ MainLine
  \/ \E t \in Threads : Work(t)
  \/ \E c \in Clients : ApproveSession(c) \/ EndSession(c)
  \/ ScheduledEndPasses \/ Crash

Spec == Init /\ [][Next]_vars

\* Threads are scheduled, the supervisor restarts the process, time passes.
FairSpec == /\ Spec
            /\ WF_vars(MainLine) /\ \A t \in Threads : WF_vars(Work(t))
            /\ WF_vars(ScheduledEndPasses)

-----------------------------------------------------------------------------
(* Properties *)

TypeOK ==
  /\ current \in Session /\ saved \in Session
  /\ task \in [Threads -> Task]
  /\ stage \in {"down", "start", "approve", "activate", "ready", "top", "gate", "cycle"}
  /\ mode \in Modes /\ connected \in BOOLEAN
  /\ overdue \subseteq 1..MaxSessions
  /\ overtime \in [1..MaxSessions -> 0..2]
  /\ sessions \in 0..MaxSessions
  /\ crashes \in 0..MaxCrashes /\ raised \in 0..MaxRaised
  /\ lost \in 0..MaxLost /\ calls \in 0..MaxCalls

\* Until the API is called, a session trades at most one cycle past its
\* scheduled end: crashes, restores of a stale copy and lost writes do not add
\* another.
AtMostOneOvertimeCycle == calls = 0 => \A k \in 1..MaxSessions : overtime[k] <= 1

\* Between the main thread's operations a crash loses nothing: if no write
\* failed and the API has not been called, Redis holds the session in memory.
RestartLosesNothing ==
  Serving /\ Free(Loop) /\ calls = 0 /\ lost = 0 /\ raised = 0 => saved = current

\* No copy of a session is approved, active or ended without somebody's name
\* on it, in memory, in Redis or in the hands of a thread.
Signed(s) == s.state \in {"approved", "active", "ended"} => s.by # "nobody"
SignedBeforeTrading ==
  /\ Signed(current) /\ Signed(saved)
  /\ \A t \in Threads : Signed(task[t].seen)

\* An overdue session does not stay active.
EndsOnSchedule ==
  (current.state = "active" /\ current.n \in overdue) ~> (current.state # "active")

-----------------------------------------------------------------------------
(* What the documentation says and the code does not do *)

\* "Sessions follow a strict lifecycle: PENDING_REVIEW -> APPROVED -> ACTIVE
\* -> ENDED -> PENDING_REVIEW" (session/models.py:4): a session ends before
\* the next one is created.
EndsBeforeNext ==
  [][StartSession => current.state \in {"none", "ended"}]_vars

\* The same lifecycle, with API calls: an ended session is not active again.
EndedIsFinal ==
  [][current.state = "ended" /\ current'.state = "active" => current'.n # current.n]_vars

\* "Auto-start session in paper/shadow mode (no operator approval needed)"
\* (bootstrap.py:501): in live mode an operator approved what trades.
LiveNeedsOperator ==
  mode = "live" /\ stage = "cycle" => current.by # "auto"

\* "Run the trading loop until shutdown or session end." (trading_loop.py:122)
ReturnsAtSessionEnd == (Serving /\ current.state = "ended") ~> ~Serving

\* "PendingApproval --> Active: Manual or auto approval"
\* (docs/operations/sessions.md:11): an approved session becomes active.
ApprovedGetsActive ==
  (Serving /\ current.state = "approved") ~> (current.state = "active")
=============================================================================
