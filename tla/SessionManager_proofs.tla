------------------------ MODULE SessionManager_proofs ------------------------
(***************************************************************************)
(* Theorems of SessionManager, for any set of API handlers, any modes and  *)
(* any bounds: who has signed a session, what a restart reads back, and    *)
(* how often a session trades past its end.                                *)
(***************************************************************************)
EXTENDS SessionManager, TLAPS

-----------------------------------------------------------------------------
(* The inductive invariant *)

\* A session has a number.
Real(s) == s # NoSession => s.n >= 1
Numbered == Real(current) /\ Real(saved) /\ \A t \in Threads : Real(task[t].seen)

\* What a thread on its way through approve_session and _transition may rely on: there is
\* a session, it was signed before it is approved, and what is stored was read signed.
Underway(t) ==
  /\ task[t].at \in {"sign", "signed"} => task[t].to = "approved" /\ task[t].by # "nobody"
  /\ task[t].at \in {"check", "copy", "store"} => task[t].to \in {"approved", "active", "ended"}
  /\ task[t].at # "idle" => current.n >= 1
  /\ task[t].at \in {"signed", "store"} => task[t].seen.n >= 1
  /\ task[t].at = "check" /\ task[t].to = "approved" => current.by # "nobody"
  /\ task[t].at = "copy" => current.by # "nobody"
  /\ task[t].at = "store" => task[t].seen.by # "nobody"

\* Which threads are at work in which stage of the main thread.
Stages ==
  /\ stage = "down" => Free(Loop)
  /\ ~Serving \/ calls = 0 => \A c \in Clients : Free(c)
  /\ stage \in {"start", "top", "cycle"} => Free(Loop)
  /\ stage \in {"approve", "activate"} => current.n >= 1
  /\ stage = "gate" /\ ~Free(Loop) => task[Loop].to = "ended"

\* Until the API is called the loop passes its gate with an overdue session only if the
\* end passed after the loop looked, and it looks before every cycle.
Overtime ==
  /\ \A k \in 1..MaxSessions : overtime[k] > 0 => k \in overdue
  /\ calls = 0 =>
       /\ \A k \in 1..MaxSessions : overtime[k] <= 1
       /\ stage = "gate" /\ Free(Loop) /\ current.state = "active" /\ current.n \in overdue
            => overtime[current.n] = 0
       /\ stage = "gate" /\ task[Loop].at \in {"append", "save", "write"}
            => current.state = "ended"

\* As long as nothing failed and the API is not called, Redis has the session whenever
\* the main thread is between two operations, and what it is about to write is current.
Copied ==
  calls = 0 /\ lost = 0 /\ raised = 0 =>
    /\ stage # "down" => connected
    /\ stage # "down" /\ Free(Loop) => saved = current
    /\ task[Loop].at = "write" => task[Loop].seen = current

IInv == /\ TypeOK /\ Numbered /\ SignedBeforeTrading /\ (\A t \in Threads : Underway(t))
        /\ Stages /\ Overtime /\ Copied

-----------------------------------------------------------------------------
(* Words *)

LEMMA Records ==
  /\ NoSession \in Session /\ Idle \in Task
  /\ NoSession.state = "none" /\ NoSession.n = 0 /\ NoSession.by = "nobody"
  /\ Idle.at = "idle" /\ Idle.seen = NoSession
  /\ \A k \in 0..MaxSessions : NewSession(k) \in Session
  BY SessionBounds DEF NoSession, Session, Idle, Task, State, NewSession

\* A task that is handed to a free thread.
LEMMA Given ==
  ASSUME TypeOK, NEW t \in Threads, NEW to \in State, NEW at \in {"sign", "check", "append"},
         NEW by \in {"nobody", "auto", "operator"}, Give(t, to, at, by)
  PROVE  /\ task' \in [Threads -> Task]
         /\ task'[t].to = to /\ task'[t].at = at /\ task'[t].by = by /\ task'[t].seen = NoSession
         /\ \A u \in Threads : u # t => task'[u] = task[u]
<1>1. [to |-> to, at |-> at, seen |-> NoSession, by |-> by] \in Task
  BY Records DEF Task
<1> QED BY <1>1 DEF Give, TypeOK

-----------------------------------------------------------------------------
(* The steps of a task *)

\* A step of thread t that only moves it on, perhaps reading the session.
LEMMA Moves ==
  ASSUME TypeOK, NEW t \in Threads, NEW at \in {"signed", "check", "copy", "store", "append", "save", "write"},
         \/ task' = [task EXCEPT ![t].at = at]
         \/ task' = [task EXCEPT ![t].at = at, ![t].seen = current]
  PROVE  /\ task' \in [Threads -> Task]
         /\ task'[t].at = at /\ task'[t].to = task[t].to /\ task'[t].by = task[t].by
         /\ task'[t].seen \in {task[t].seen, current}
         /\ \A u \in Threads : u # t => task'[u] = task[u]
<1>1. task[t] \in Task /\ current \in Session BY DEF TypeOK
<1>2. [task[t] EXCEPT !.at = at] \in Task /\ [task[t] EXCEPT !.at = at, !.seen = current] \in Task
  BY <1>1 DEF Task
<1> QED BY <1>1, <1>2 DEF TypeOK, Task

\* A step of a task that reads or checks, and stores nothing.
LEMMA ReadingKeeps ==
  ASSUME IInv, NEW t \in Threads, task[t].at # "idle",
         ReadToSign(t) \/ CheckTransition(t) \/ Copy(t) \/ Append(t) \/ Serialize(t)
  PROVE  IInv'
<1> DEFINE at == task'[t].at
<1> USE DEF Goes
<1>1. UNCHANGED <<current, saved, stage, process, clock, sessions, counters>>
  BY DEF ReadToSign, CheckTransition, Copy, Append, Serialize
<1>2. /\ task' \in [Threads -> Task]
      /\ task'[t].to = task[t].to /\ task'[t].by = task[t].by
      /\ task'[t].seen \in {task[t].seen, current}
      /\ \A u \in Threads : u # t => task'[u] = task[u]
  BY Moves DEF IInv, ReadToSign, CheckTransition, Copy, Append, Serialize
<1>3. /\ at \in {"signed", "copy", "store", "save", "write"}
      /\ at = "signed" => task[t].at = "sign" /\ task'[t].seen = current
      /\ at = "copy" => task[t].at = "check" /\ TransitionAllowed(t)
      /\ at = "store" => task[t].at = "copy" /\ task'[t].seen = current
      /\ at = "save" => task[t].at = "append"
      /\ at = "write" => task[t].at = "save" /\ task'[t].seen = current
  BY DEF ReadToSign, CheckTransition, Copy, Append, Serialize, IInv, TypeOK, Task
<1> HIDE DEF Goes
<1>4. TypeOK' BY <1>1, <1>2 DEF IInv, TypeOK, process, clock, counters
<1>5. Numbered' BY <1>1, <1>2 DEF IInv, Numbered, Real
<1>6. SignedBeforeTrading' BY <1>1, <1>2 DEF IInv, SignedBeforeTrading, Signed
<1>7. ASSUME NEW u \in Threads PROVE Underway(u)'
  <2>1. CASE u # t BY <1>1, <1>2, <2>1 DEF IInv, Underway
  <2>2. CASE u = t
    <3>1. at = "copy" => current.by # "nobody"
      BY <1>3 DEF IInv, Underway, TransitionAllowed, ValidTransitions, SignedBeforeTrading, Signed
    <3> QED BY <1>1, <1>2, <1>3, <2>2, <3>1 DEF IInv, Underway
  <2> QED BY <2>1, <2>2
<1>8. \A u \in Threads : Free(u)' = Free(u)
  BY <1>2, <1>3 DEF Free
<1>9. Stages' BY <1>1, <1>2, <1>8 DEF IInv, Stages, Serving, counters, Threads
<1>10. Overtime'
  BY <1>1, <1>2, <1>3, <1>8 DEF IInv, Overtime, clock, counters, Threads
<1>11. Copied'
  BY <1>1, <1>2, <1>3, <1>8 DEF IInv, Copied, process, counters, Threads
<1> QED BY <1>4, <1>5, <1>6, <1>7, <1>9, <1>10, <1>11 DEF IInv

\* A step that stores a copy of the session: it has a number and a name, and nobody else
\* stores while the API has not been called.
LEMMA StoringKeeps ==
  ASSUME IInv, NEW t \in Threads, StoreSigned(t) \/ Store(t)
  PROVE  IInv'
<1> DEFINE at == task'[t].at
<1> USE DEF Goes
<1>0. task[t] \in Task /\ current \in Session BY DEF IInv, TypeOK
<1>1. UNCHANGED <<saved, stage, process, clock, sessions, counters>>
  BY DEF StoreSigned, Store
<1>2. /\ task' \in [Threads -> Task]
      /\ task'[t].to = task[t].to /\ task'[t].by = task[t].by
      /\ task'[t].seen \in {task[t].seen, current}
      /\ \A u \in Threads : u # t => task'[u] = task[u]
  BY Moves DEF IInv, StoreSigned, Store
<1>3. \/ task[t].at = "signed" /\ at = "check" /\ StoreSigned(t)
      \/ task[t].at = "store" /\ at = "append" /\ Store(t)
  BY DEF StoreSigned, Store, IInv, TypeOK, Task
<1> HIDE DEF Goes
<1>4. current' \in Session /\ current'.by # "nobody" /\ current'.n >= 1
  BY <1>0, <1>3 DEF StoreSigned, Store, Task, Session, IInv, Underway
<1>5. task[t].at = "store" => current'.state = task[t].to
  BY <1>0, <1>3 DEF Store, Task, Session
<1>6. TypeOK' BY <1>1, <1>2, <1>4 DEF IInv, TypeOK, process, clock, counters
<1>7. Numbered' BY <1>1, <1>2, <1>4 DEF IInv, Numbered, Real
<1>8. SignedBeforeTrading' BY <1>1, <1>2, <1>4 DEF IInv, SignedBeforeTrading, Signed
<1>9. ASSUME NEW u \in Threads PROVE Underway(u)'
  BY <1>1, <1>2, <1>3, <1>4 DEF IInv, Underway
<1>10. \A u \in Threads : Free(u)' = Free(u)
  BY <1>2, <1>3 DEF Free
<1>11. Stages' BY <1>1, <1>2, <1>4, <1>10 DEF IInv, Stages, Serving, counters, Threads
<1>12. calls = 0 => t = Loop
  BY <1>3 DEF IInv, Stages, Free, Threads
<1>13. ~ Free(t) /\ ~ Free(t)' BY <1>3, <1>10 DEF Free
<1>14. Overtime'
  BY <1>1, <1>2, <1>3, <1>5, <1>12, <1>13 DEF IInv, Overtime, Stages, clock, counters, Threads
<1>15. Copied'
  BY <1>1, <1>2, <1>3, <1>12, <1>13 DEF IInv, Copied, process, counters, Threads
<1> QED BY <1>6, <1>7, <1>8, <1>9, <1>11, <1>14, <1>15 DEF IInv

\* The write that ends a task: what is written is a session the thread has read.
LEMMA WriteKeeps ==
  ASSUME IInv, NEW t \in Threads, Write(t)
  PROVE  IInv'
<1>0. task[t] \in Task /\ current \in Session /\ task[t].at = "write" BY DEF IInv, TypeOK, Write, Goes
<1>1. UNCHANGED <<current, stage, process, clock, sessions, crashes, raised, calls>>
  BY DEF Write
<1>2. /\ task' \in [Threads -> Task] /\ task'[t] = Idle
      /\ \A u \in Threads : u # t => task'[u] = task[u]
  BY Records DEF IInv, TypeOK, Write
<1>3. /\ saved' \in {saved, task[t].seen} /\ lost' \in 0..MaxLost
      /\ lost' = 0 => lost = 0 /\ (connected => saved' = task[t].seen)
  BY SessionBounds DEF IInv, TypeOK, Write
<1>4. TypeOK' BY <1>0, <1>1, <1>2, <1>3 DEF IInv, TypeOK, process, clock, Task
<1>5. Numbered' BY <1>1, <1>2, <1>3, Records DEF IInv, Numbered, Real
<1>6. SignedBeforeTrading' BY <1>1, <1>2, <1>3, Records DEF IInv, SignedBeforeTrading, Signed
<1>7. ASSUME NEW u \in Threads PROVE Underway(u)'
  BY <1>1, <1>2, Records DEF IInv, Underway
<1>8. /\ Free(t)' /\ ~ Free(t)
      /\ \A u \in Threads : u # t => Free(u)' = Free(u)
  BY <1>0, <1>2, Records DEF Free
<1>9. Stages' BY <1>1, <1>2, <1>8 DEF IInv, Stages, Serving, Threads
<1>10. calls = 0 => t = Loop BY <1>8 DEF IInv, Stages, Threads
<1>11. Overtime'
  BY <1>0, <1>1, <1>2, <1>8, <1>10, Records DEF IInv, Overtime, clock, Threads
<1>12. Copied'
  BY <1>0, <1>1, <1>2, <1>3, <1>8, <1>10, Records DEF IInv, Copied, Stages, process, Threads
<1> QED BY <1>4, <1>5, <1>6, <1>7, <1>9, <1>11, <1>12 DEF IInv

\* The process is gone, with what it had in memory.
LEMMA Down ==
  ASSUME IInv, stage' = "down", current' = NoSession, task' = [u \in Threads |-> Idle],
         UNCHANGED <<saved, process, clock, sessions, lost, calls>>,
         raised' \in 0..MaxRaised, crashes' \in 0..MaxCrashes
  PROVE  IInv'
<1>1. \A u \in Threads : task'[u] = Idle /\ Free(u)' BY Records DEF Free
<1>2. TypeOK' BY Records DEF IInv, TypeOK, process, clock
<1>3. Numbered' /\ SignedBeforeTrading'
  BY <1>1, Records DEF IInv, Numbered, Real, SignedBeforeTrading, Signed
<1>4. \A u \in Threads : Underway(u)' BY <1>1, Records DEF Underway
<1>5. Stages' BY <1>1 DEF Stages, Serving, Threads
<1>6. Overtime' BY <1>1, Records DEF IInv, Overtime, clock
<1>7. Copied' BY <1>1, Records DEF Copied, Threads
<1> QED BY <1>2, <1>3, <1>4, <1>5, <1>6, <1>7 DEF IInv

\* A handler's task is over, with an error.
LEMMA Answered ==
  ASSUME IInv, NEW t \in Clients, ~ Free(t), task' = [task EXCEPT ![t] = Idle],
         UNCHANGED <<current, saved, stage, process, clock, sessions, crashes, lost, calls>>,
         raised' \in 0..MaxRaised, raised' = 0 => raised = 0
  PROVE  IInv'
<1>0. t \in Threads /\ t # Loop BY SessionBounds DEF Threads
<1>1. /\ task' \in [Threads -> Task] /\ task'[t] = Idle
      /\ \A u \in Threads : u # t => task'[u] = task[u]
  BY <1>0, Records DEF IInv, TypeOK
<1>2. TypeOK' BY <1>1 DEF IInv, TypeOK, process, clock
<1>3. Numbered' /\ SignedBeforeTrading'
  BY <1>1, Records DEF IInv, Numbered, Real, SignedBeforeTrading, Signed
<1>4. ASSUME NEW u \in Threads PROVE Underway(u)' BY <1>1, Records DEF IInv, Underway
<1>5. Free(t)' /\ \A u \in Threads : u # t => Free(u)' = Free(u)
  BY <1>0, <1>1, Records DEF Free
<1>6. Stages' BY <1>0, <1>1, <1>5 DEF IInv, Stages, Serving, Threads
<1>7. Overtime' BY <1>0, <1>1, <1>5 DEF IInv, Overtime, clock, Threads
<1>8. Copied' BY <1>0, <1>1, <1>5 DEF IInv, Copied, process, Threads
<1> QED BY <1>2, <1>3, <1>4, <1>6, <1>7, <1>8 DEF IInv

LEMMA RaisingKeeps ==
  ASSUME IInv, NEW t \in Threads, RefuseTransition(t) \/ AppendRaises(t)
  PROVE  IInv'
<1>1. UNCHANGED <<saved, process, clock, sessions, crashes, lost, calls>> /\ Raise(t) /\ ~ Free(t)
  BY DEF RefuseTransition, AppendRaises, counters, Free, Goes
<1>2. raised' \in 0..MaxRaised /\ (raised' = 0 => raised = 0)
  BY SessionBounds DEF RefuseTransition, AppendRaises, counters, IInv, TypeOK
<1>3. crashes \in 0..MaxCrashes BY DEF IInv, TypeOK
<1>4. CASE t = Loop BY <1>1, <1>2, <1>3, <1>4, Down DEF Raise
<1>5. CASE t # Loop
  <2>1. t \in Clients BY <1>5 DEF Threads
  <2> QED BY <1>1, <1>2, <1>5, <2>1, Answered DEF Raise
<1> QED BY <1>4, <1>5

LEMMA CrashKeeps ==
  ASSUME IInv, Crash
  PROVE  IInv'
<1>1. crashes' \in 0..MaxCrashes /\ raised \in 0..MaxRaised
  BY SessionBounds DEF Crash, IInv, TypeOK
<1> QED BY <1>1, Down DEF Crash

-----------------------------------------------------------------------------
(* The main thread *)

\* The process starts with what Redis holds, or with nothing.
LEMMA BootKeeps ==
  ASSUME IInv, Boot
  PROVE  IInv'
<1>1. UNCHANGED <<saved, task, overdue, overtime, sessions, crashes, raised, calls>>
  BY DEF Boot
<1>2. stage = "down" /\ stage' \in {"start", "ready"} /\ mode' \in Modes BY DEF Boot, FirstStage
<1>3. /\ current' \in {saved, NoSession} /\ connected' \in BOOLEAN /\ lost' \in 0..MaxLost
      /\ lost' = 0 => current' = saved /\ connected'
  <2>1. CASE current' = saved /\ connected' = TRUE /\ UNCHANGED lost
    BY <2>1 DEF IInv, TypeOK
  <2>2. CASE lost < MaxLost /\ lost' = lost + 1 /\ current' = NoSession /\ connected' \in BOOLEAN
    <3>1. lost' \in 0..MaxLost /\ lost' # 0 BY <2>2, SessionBounds DEF IInv, TypeOK
    <3> QED BY <2>2, <3>1
  <2> QED BY <2>1, <2>2 DEF Boot
<1>4. \A u \in Threads : Free(u) /\ Free(u)'
  BY <1>1, <1>2 DEF IInv, Stages, Serving, Threads, Free
<1>5. TypeOK' BY <1>1, <1>2, <1>3, Records DEF IInv, TypeOK
<1>6. Numbered' /\ SignedBeforeTrading'
  BY <1>1, <1>3, Records DEF IInv, Numbered, Real, SignedBeforeTrading, Signed
<1>7. \A u \in Threads : Underway(u)' BY <1>4 DEF Underway, Free
<1>8. Stages' BY <1>2, <1>4 DEF Stages, Serving, Threads
<1>9. Overtime' BY <1>1, <1>2 DEF IInv, Overtime
<1>10. Copied' BY <1>1, <1>3, <1>4 DEF Copied, Free, Threads
<1> QED BY <1>5, <1>6, <1>7, <1>8, <1>9, <1>10 DEF IInv

LEMMA StartKeeps ==
  ASSUME IInv, StartSession
  PROVE  IInv'
<1>0. Loop \in Threads BY DEF Threads
<1>1. UNCHANGED <<saved, process, clock, counters>> /\ stage = "start" /\ stage' = "approve"
  BY DEF StartSession
<1>2. /\ sessions' \in 0..MaxSessions /\ current' \in Session
      /\ current'.n >= 1 /\ current'.state = "pending_review"
  BY SessionBounds, Records DEF StartSession, IInv, TypeOK, NewSession
<1>3. /\ task' \in [Threads -> Task]
      /\ task'[Loop].at = "append" /\ task'[Loop].seen = NoSession
      /\ \A u \in Threads : u # Loop => task'[u] = task[u]
  BY <1>0, Given DEF StartSession, IInv, State
<1>4. ~ Free(Loop)' /\ \A u \in Clients : u # Loop /\ Free(u) /\ Free(u)'
  BY <1>1, <1>3, SessionBounds DEF IInv, Stages, Serving, Free, Threads
<1>5. TypeOK' BY <1>1, <1>2, <1>3 DEF IInv, TypeOK, process, clock, counters
<1>6. Numbered' /\ SignedBeforeTrading'
  BY <1>1, <1>2, <1>3, Records DEF IInv, Numbered, Real, SignedBeforeTrading, Signed
<1>7. \A u \in Threads : Underway(u)'
  BY <1>2, <1>3, <1>4 DEF Underway, Free, Threads
<1>8. Stages' BY <1>1, <1>2, <1>4 DEF Stages, Serving
<1>9. Overtime' BY <1>1, <1>3 DEF IInv, Overtime, clock, counters
<1>10. Copied' BY <1>1, <1>3, <1>4 DEF IInv, Copied, process, counters
<1> QED BY <1>5, <1>6, <1>7, <1>8, <1>9, <1>10 DEF IInv

\* bootstrap's approval and activation of the session it has started.
LEMMA AutoKeeps ==
  ASSUME IInv, AutoApprove \/ AutoActivate
  PROVE  IInv'
<1>0. Loop \in Threads BY DEF Threads
<1>1. /\ UNCHANGED <<current, saved, process, clock, sessions, counters>>
      /\ stage \in {"approve", "activate"} /\ stage' \in {"activate", "ready"} /\ current.n >= 1
  BY DEF AutoApprove, AutoActivate, IInv, Stages
<1>2. /\ task' \in [Threads -> Task] /\ task'[Loop].seen = NoSession
      /\ \/ task'[Loop].at = "sign" /\ task'[Loop].to = "approved" /\ task'[Loop].by = "auto"
         \/ task'[Loop].at = "check" /\ task'[Loop].to = "active"
      /\ \A u \in Threads : u # Loop => task'[u] = task[u]
  BY <1>0, Given DEF AutoApprove, AutoActivate, IInv, State
<1>3. ~ Free(Loop)' /\ \A u \in Clients : u # Loop /\ Free(u) /\ Free(u)'
  BY <1>1, <1>2, SessionBounds DEF IInv, Stages, Serving, Free, Threads
<1>4. TypeOK' BY <1>1, <1>2 DEF IInv, TypeOK, process, clock, counters
<1>5. Numbered' /\ SignedBeforeTrading'
  BY <1>1, <1>2, Records DEF IInv, Numbered, Real, SignedBeforeTrading, Signed
<1>6. \A u \in Threads : Underway(u)'
  BY <1>1, <1>2, <1>3 DEF Underway, Free, Threads
<1>7. Stages' BY <1>1, <1>3 DEF Stages, Serving
<1>8. Overtime' BY <1>1, <1>2 DEF IInv, Overtime, clock, counters
<1>9. Copied' BY <1>1, <1>2, <1>3 DEF IInv, Copied, process, counters
<1> QED BY <1>4, <1>5, <1>6, <1>7, <1>8, <1>9 DEF IInv

\* The steps of the main thread that only move it on.
LEMMA PassingKeeps ==
  ASSUME IInv, EnterLoop \/ EndCycle
  PROVE  IInv'
<1>1. /\ UNCHANGED <<current, saved, task, process, clock, sessions, counters>>
      /\ stage \in {"ready", "cycle"} /\ stage' = "top" /\ Free(Loop)
  BY DEF EnterLoop, EndCycle, IInv, Stages
<1>2. TypeOK' BY <1>1 DEF IInv, TypeOK, process, clock, counters
<1>3. Numbered' /\ SignedBeforeTrading'
  BY <1>1 DEF IInv, Numbered, Real, SignedBeforeTrading, Signed
<1>4. \A u \in Threads : Underway(u)' BY <1>1 DEF IInv, Underway
<1>5. Stages' BY <1>1 DEF IInv, Stages, Serving, Free, counters
<1>6. Overtime' BY <1>1 DEF IInv, Overtime, clock, counters
<1>7. Copied' BY <1>1 DEF IInv, Copied, Free, process, counters
<1> QED BY <1>2, <1>3, <1>4, <1>5, <1>6, <1>7 DEF IInv

\* The loop looks whether the session is over: if it is, its thread is busy ending it
\* before it comes to the gate.
LEMMA EndCheckKeeps ==
  ASSUME IInv, CheckSessionEnd
  PROVE  IInv'
<1>0. Loop \in Threads BY DEF Threads
<1>1. /\ UNCHANGED <<current, saved, process, clock, sessions, counters>>
      /\ stage = "top" /\ stage' = "gate" /\ Free(Loop)
  BY DEF CheckSessionEnd
<1>2. OnSchedule => current.n >= 1
  BY Records DEF OnSchedule, IInv, Numbered, Real
<1>3. CASE OnSchedule
  <2>1. /\ task' \in [Threads -> Task] /\ task'[Loop].seen = NoSession
        /\ task'[Loop].at = "check" /\ task'[Loop].to = "ended"
        /\ \A u \in Threads : u # Loop => task'[u] = task[u]
    BY <1>0, <1>3, Given DEF CheckSessionEnd, IInv, State
  <2>2. ~ Free(Loop)' /\ \A u \in Clients : u # Loop /\ Free(u)' = Free(u)
    BY <2>1, SessionBounds DEF Free, Threads
  <2>3. TypeOK' BY <1>1, <2>1 DEF IInv, TypeOK, process, clock, counters
  <2>4. Numbered' /\ SignedBeforeTrading'
    BY <1>1, <2>1, Records DEF IInv, Numbered, Real, SignedBeforeTrading, Signed
  <2>5. ASSUME NEW u \in Threads PROVE Underway(u)'
    <3>1. CASE u = Loop BY <1>1, <1>2, <1>3, <2>1, <3>1 DEF Underway
    <3>2. CASE u # Loop BY <1>1, <2>1, <3>2 DEF IInv, Underway
    <3> QED BY <3>1, <3>2
  <2>6. Stages' BY <1>1, <2>1, <2>2 DEF IInv, Stages, Serving, counters
  <2>7. Overtime' BY <1>1, <2>1, <2>2 DEF IInv, Overtime, clock, counters
  <2>8. Copied' BY <1>1, <2>1, <2>2 DEF IInv, Copied, process, counters
  <2> QED BY <2>3, <2>4, <2>5, <2>6, <2>7, <2>8 DEF IInv
<1>4. CASE ~ OnSchedule
  <2>1. task' = task BY <1>4 DEF CheckSessionEnd
  <2>2. TypeOK' BY <1>1, <2>1 DEF IInv, TypeOK, process, clock, counters
  <2>3. Numbered' /\ SignedBeforeTrading'
    BY <1>1, <2>1 DEF IInv, Numbered, Real, SignedBeforeTrading, Signed
  <2>4. \A u \in Threads : Underway(u)' BY <1>1, <2>1 DEF IInv, Underway
  <2>5. Stages' BY <1>1, <2>1 DEF IInv, Stages, Serving, Free, counters
  <2>6. Overtime' BY <1>1, <1>4, <2>1 DEF IInv, Overtime, OnSchedule, Free, clock, counters
  <2>7. Copied' BY <1>1, <2>1 DEF IInv, Copied, Free, process, counters
  <2> QED BY <2>2, <2>3, <2>4, <2>5, <2>6, <2>7 DEF IInv
<1> QED BY <1>3, <1>4

\* The gate: a cycle that is begun past the session's end is its first.
LEMMA GateKeeps ==
  ASSUME IInv, TradeOrWait
  PROVE  IInv'
<1>1. /\ UNCHANGED <<current, saved, task, process, overdue, sessions, counters>>
      /\ stage = "gate" /\ stage' \in {"cycle", "top"} /\ Free(Loop)
      /\ stage' = "cycle" => current.state = "active"
  BY DEF TradeOrWait
<1>2. \/ overtime' = overtime
      \/ /\ current.state = "active" /\ current.n \in overdue /\ overtime[current.n] < 2
         /\ overtime' = [overtime EXCEPT ![current.n] = @ + 1]
  BY <1>1 DEF TradeOrWait
<1>3. /\ overtime' \in [1..MaxSessions -> 0..2]
      /\ \A k \in 1..MaxSessions : overtime'[k] > 0 => k \in overdue
      /\ calls = 0 => \A k \in 1..MaxSessions : overtime'[k] <= 1
  <2>1. CASE overtime' = overtime BY <2>1 DEF IInv, TypeOK, Overtime
  <2>2. CASE overtime' # overtime
    <3>1. current.n \in 1..MaxSessions BY <1>2, <2>2 DEF IInv, TypeOK
    <3>2. calls = 0 => overtime[current.n] = 0
      BY <1>1, <1>2, <2>2 DEF IInv, Overtime
    <3>3. overtime' = [overtime EXCEPT ![current.n] = overtime[current.n] + 1] BY <1>2, <2>2
    <3>4. /\ overtime'[current.n] = overtime[current.n] + 1
          /\ \A k \in 1..MaxSessions : k # current.n => overtime'[k] = overtime[k]
          /\ overtime' \in [1..MaxSessions -> 0..2]
      BY <1>2, <2>2, <3>1, <3>3 DEF IInv, TypeOK
    <3> QED BY <1>2, <2>2, <3>1, <3>2, <3>4 DEF IInv, TypeOK, Overtime
  <2> QED BY <2>1, <2>2
<1>4. TypeOK' BY <1>1, <1>3 DEF IInv, TypeOK, process, counters
<1>5. Numbered' /\ SignedBeforeTrading'
  BY <1>1 DEF IInv, Numbered, Real, SignedBeforeTrading, Signed
<1>6. \A u \in Threads : Underway(u)' BY <1>1 DEF IInv, Underway
<1>7. Stages' BY <1>1 DEF IInv, Stages, Serving, Free, counters
<1>8. Overtime' BY <1>1, <1>3 DEF Overtime, counters
<1>9. Copied' BY <1>1 DEF IInv, Copied, Free, process, counters
<1> QED BY <1>4, <1>5, <1>6, <1>7, <1>8, <1>9 DEF IInv

-----------------------------------------------------------------------------
(* The API, and time *)

LEMMA CallKeeps ==
  ASSUME IInv, NEW c \in Clients, ApproveSession(c) \/ EndSession(c)
  PROVE  IInv'
<1>0. c \in Threads /\ Loop \in Threads /\ c # Loop BY SessionBounds DEF Threads
<1>1. /\ UNCHANGED <<current, saved, stage, process, clock, sessions, crashes, raised, lost>>
      /\ Serving /\ Free(c) /\ current # NoSession
      /\ calls' \in 0..MaxCalls /\ calls' # 0
  BY SessionBounds DEF ApproveSession, EndSession, IInv, TypeOK
<1>2. /\ task' \in [Threads -> Task] /\ task'[c].seen = NoSession
      /\ \/ task'[c].at = "sign" /\ task'[c].to = "approved" /\ task'[c].by = "operator"
         \/ task'[c].at = "check" /\ task'[c].to = "ended"
      /\ \A u \in Threads : u # c => task'[u] = task[u]
  BY <1>0, Given DEF ApproveSession, EndSession, IInv, State
<1>3. current.n >= 1 BY <1>1 DEF IInv, Numbered, Real
<1>4. TypeOK' BY <1>1, <1>2 DEF IInv, TypeOK, process, clock
<1>5. Numbered' /\ SignedBeforeTrading'
  BY <1>1, <1>2, Records DEF IInv, Numbered, Real, SignedBeforeTrading, Signed
<1>6. ASSUME NEW u \in Threads PROVE Underway(u)'
  <2>1. CASE u = c BY <1>1, <1>2, <1>3, <2>1 DEF Underway
  <2>2. CASE u # c BY <1>1, <1>2, <2>2 DEF IInv, Underway
  <2> QED BY <2>1, <2>2
<1>7. task'[Loop] = task[Loop] /\ Free(Loop)' = Free(Loop) BY <1>0, <1>2 DEF Free
<1>8. Stages' BY <1>1, <1>7 DEF IInv, Stages, Serving
<1>9. Overtime' BY <1>1 DEF IInv, Overtime, clock
<1>10. Copied' BY <1>1 DEF Copied
<1> QED BY <1>4, <1>5, <1>6, <1>8, <1>9, <1>10 DEF IInv

LEMMA PassingTimeKeeps ==
  ASSUME IInv, ScheduledEndPasses
  PROVE  IInv'
<1>1. /\ UNCHANGED <<current, saved, task, stage, process, overtime, sessions, counters>>
      /\ current.state = "active" /\ current.n \notin overdue
      /\ overdue' = overdue \union {current.n}
  BY DEF ScheduledEndPasses
<1>2. current.n \in 1..MaxSessions
  <2>1. current \in Session BY DEF IInv, TypeOK
  <2>2. current.n >= 1 BY <1>1, Records DEF IInv, Numbered, Real
  <2> QED BY <2>1, <2>2, SessionBounds DEF Session
<1>3. overtime[current.n] = 0 BY <1>1, <1>2 DEF IInv, TypeOK, Overtime
<1>4. TypeOK' BY <1>1, <1>2 DEF IInv, TypeOK, process, counters
<1>5. Numbered' /\ SignedBeforeTrading'
  BY <1>1 DEF IInv, Numbered, Real, SignedBeforeTrading, Signed
<1>6. \A u \in Threads : Underway(u)' BY <1>1 DEF IInv, Underway
<1>7. Stages' BY <1>1 DEF IInv, Stages, Serving, Free, counters
<1>8. Overtime' BY <1>1, <1>3 DEF IInv, Overtime, Free, counters
<1>9. Copied' BY <1>1 DEF IInv, Copied, Free, process, counters
<1> QED BY <1>4, <1>5, <1>6, <1>7, <1>8, <1>9 DEF IInv

LEMMA StutterKeeps ==
  ASSUME IInv, UNCHANGED vars
  PROVE  IInv'
BY DEF vars, process, clock, counters, IInv, TypeOK, Numbered, Real, SignedBeforeTrading, Signed,
       Underway, Stages, Serving, Free, Overtime, Copied

-----------------------------------------------------------------------------
(* The theorems *)

LEMMA InitInv == Init => IInv
<1> SUFFICES ASSUME Init PROVE IInv OBVIOUS
<1>1. \A t \in Threads : task[t] = Idle /\ Free(t) BY Records DEF Init, Free
<1>2. TypeOK
  <2>1. /\ current \in Session /\ saved \in Session /\ task \in [Threads -> Task]
        /\ stage = "down" /\ mode \in Modes /\ connected \in BOOLEAN
    BY Records DEF Init
  <2>2. /\ overdue = {} /\ overtime \in [1..MaxSessions -> 0..2]
        /\ sessions \in 0..MaxSessions /\ crashes \in 0..MaxCrashes /\ raised \in 0..MaxRaised
        /\ lost \in 0..MaxLost /\ calls \in 0..MaxCalls
    BY SessionBounds DEF Init
  <2> QED BY <2>1, <2>2 DEF TypeOK
<1>3. Numbered /\ SignedBeforeTrading
  BY <1>1, Records DEF Init, Numbered, Real, SignedBeforeTrading, Signed
<1>4. \A t \in Threads : Underway(t) BY <1>1, Records DEF Underway
<1>5. Stages BY <1>1 DEF Init, Stages, Serving, Threads
<1>6. Overtime BY DEF Init, Overtime
<1>7. Copied BY <1>1, Records DEF Init, Copied, Threads
<1> QED BY <1>2, <1>3, <1>4, <1>5, <1>6, <1>7 DEF IInv

LEMMA NextInv == IInv /\ [Next]_vars => IInv'
<1> SUFFICES ASSUME IInv, [Next]_vars PROVE IInv' OBVIOUS
<1>1. CASE MainLine
  BY <1>1, BootKeeps, StartKeeps, AutoKeeps, PassingKeeps, EndCheckKeeps, GateKeeps DEF MainLine
<1>2. ASSUME NEW t \in Threads, Work(t) PROVE IInv'
  <2>1. CASE ReadToSign(t) \/ CheckTransition(t) \/ Copy(t) \/ Append(t) \/ Serialize(t)
    <3>1. task[t].at # "idle"
      BY <2>1 DEF ReadToSign, CheckTransition, Copy, Append, Serialize, Goes
    <3> QED BY <2>1, <3>1, ReadingKeeps
  <2>2. CASE StoreSigned(t) \/ Store(t) BY <2>2, StoringKeeps
  <2>3. CASE Write(t) BY <2>3, WriteKeeps
  <2>4. CASE RefuseTransition(t) \/ AppendRaises(t) BY <2>4, RaisingKeeps
  <2> QED BY <1>2, <2>1, <2>2, <2>3, <2>4 DEF Work
<1>3. ASSUME NEW c \in Clients, ApproveSession(c) \/ EndSession(c) PROVE IInv'
  BY <1>3, CallKeeps
<1>4. CASE ScheduledEndPasses BY <1>4, PassingTimeKeeps
<1>5. CASE Crash BY <1>5, CrashKeeps
<1>6. CASE UNCHANGED vars BY <1>6, StutterKeeps
<1> QED BY <1>1, <1>2, <1>3, <1>4, <1>5, <1>6 DEF Next

\* The inductive invariant holds in every reachable state, whoever calls the API and
\* wherever the process crashes.
THEOREM Invariance == Spec => []IInv
<1>1. Init => IInv BY InitInv
<1>2. IInv /\ [Next]_vars => IInv' BY NextInv
<1> QED BY <1>1, <1>2, PTL DEF Spec

\* Every variable keeps its type: the session in memory, the copy in Redis and what the
\* threads hold are sessions, and the loop is at one of its stages.
THEOREM TypeCorrect == Spec => []TypeOK
<1>1. IInv => TypeOK BY DEF IInv
<1> QED BY <1>1, Invariance, PTL

\* Nothing is approved, active or ended without somebody's name: approve_session and
\* _transition, interleaved by any number of handlers, never store or save an unsigned copy.
THEOREM SignedFirst == Spec => []SignedBeforeTrading
<1>1. IInv => SignedBeforeTrading BY DEF IInv
<1> QED BY <1>1, Invariance, PTL

\* Until the API is called, a session is traded at most one cycle after its scheduled end,
\* however often the process crashes and restores an old copy.
THEOREM OneOvertimeCycle == Spec => []AtMostOneOvertimeCycle
<1>1. IInv => AtMostOneOvertimeCycle BY DEF IInv, Overtime, AtMostOneOvertimeCycle
<1> QED BY <1>1, Invariance, PTL

\* Whenever the loop is between two of its operations, Redis holds the session of memory,
\* if no write failed and the API was not called: a restart there loses nothing.
THEOREM RestartReads == Spec => []RestartLosesNothing
<1>1. IInv => RestartLosesNothing BY DEF IInv, Copied, RestartLosesNothing, Serving
<1> QED BY <1>1, Invariance, PTL
=============================================================================
