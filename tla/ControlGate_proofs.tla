------------------------- MODULE ControlGate_proofs -------------------------
(* Theorems of ControlGate, for any set of handlers and any bounds. *)
EXTENDS ControlGate, TLAPS

-----------------------------------------------------------------------------
(* The late order *)

\* What the argument needs of the state's types.
Typed ==
  /\ key \in SystemState \union {"unset"}
  /\ reachable \in BOOLEAN /\ blind \in BOOLEAN
  /\ request \in [Handlers -> Request]
  /\ late \in 0..2

LateInv == Typed /\ LateOrderWasPastGate

LEMMA LateInit == Init => LateInv
<1> SUFFICES ASSUME Init PROVE LateInv OBVIOUS
<1>1. Free \in Request BY DEF Free, Request, SystemState, Steps
<1>2. request \in [Handlers -> Request] BY <1>1 DEF Init
<1>3. LateOrderWasPastGate BY DEF Init, LateOrderWasPastGate
<1>4. reachable \in BOOLEAN /\ blind \in BOOLEAN BY Zenon DEF Init
<1>5. key \in SystemState \union {"unset"} /\ late \in 0..2 BY DEF Init
<1> QED BY <1>2, <1>3, <1>4, <1>5 DEF LateInv, Typed

\* A request keeps its type when a handler takes it up or takes a step.
LEMMA RequestTyped ==
  ASSUME Typed, NEW h \in Handlers, NEW r \in Request
  PROVE  [request EXCEPT ![h] = r] \in [Handlers -> Request]
  BY DEF Typed

\* Every step of a handler, Redis or the API's restart keeps the invariant:
\* only a write of "running" leaves the stopped states, and it clears late.
LEMMA ServeKeeps ==
  ASSUME LateInv, NEW h \in Handlers,
         PauseTrading(h) \/ TriggerKillSwitch(h) \/ ResumeTrading(h)
  PROVE  LateInv'
<1> DEFINE r(t, a) == [target |-> t, at |-> a]
<1>1. PICK x \in Request : Serve(h, x)
  <2>1. r("paused", "remember") \in Request /\ r("killed", "remember") \in Request
        /\ r("running", "check") \in Request
    BY DEF Request, SystemState, Steps
  <2> QED BY <2>1 DEF PauseTrading, TriggerKillSwitch, ResumeTrading
<1>2. request' \in [Handlers -> Request]
  BY <1>1, RequestTyped DEF Serve, LateInv
<1> QED BY <1>1, <1>2 DEF Serve, LateInv, Typed, LateOrderWasPastGate, loop, counters

LEMMA HandlingKeeps ==
  ASSUME LateInv, NEW h \in Handlers, Handling(h)
  PROVE  LateInv'
<1>0. request[h] \in Request BY DEF LateInv, Typed
<1>1. \A a \in Steps : [request[h] EXCEPT !.at = a] \in Request
  BY <1>0 DEF Request
<1>2. \A a \in Steps :
        [request EXCEPT ![h].at = a] \in [Handlers -> Request]
  BY <1>1 DEF LateInv, Typed
<1>3. CASE CheckKilled(h)
  <2>1. request' \in [Handlers -> Request]
    BY <1>2, <1>3 DEF CheckKilled, Steps
  <2> QED BY <1>3, <2>1
          DEF CheckKilled, LateInv, Typed, LateOrderWasPastGate, loop, counters
<1>4. CASE Remember(h)
  <2>1. request' \in [Handlers -> Request]
    BY <1>2, <1>4 DEF Remember, Steps
  <2> QED BY <1>4, <2>1
          DEF Remember, LateInv, Typed, LateOrderWasPastGate, loop, counters
<1>5. CASE Publish(h)
  <2>1. request' \in [Handlers -> Request]
    BY <1>2, <1>5 DEF Publish, Steps
  <2>2. key' \in SystemState \union {"unset"}
    BY <1>0, <1>5 DEF Publish, LateInv, Typed, Request
  <2>3. request[h].target \in SystemState BY <1>0 DEF Request
  <2> QED BY <1>5, <2>1, <2>2, <2>3
          DEF Publish, LateInv, Typed, LateOrderWasPastGate, SystemState, counters
<1> QED BY <1>3, <1>4, <1>5 DEF Handling

LEMMA EnvironmentKeeps ==
  ASSUME LateInv, RestartApi \/ RedisFails \/ RedisReturns
  PROVE  LateInv'
<1>1. Free \in Request BY DEF Free, Request, SystemState, Steps
<1> QED BY <1>1 DEF RestartApi, RedisFails, RedisReturns, LateInv, Typed,
                    LateOrderWasPastGate, loop, counters, api

\* The cycle: past the gate with a stopped key only blindly, and a late
\* order only from past the gate.
LEMMA CycleKeeps ==
  ASSUME LateInv, Cycle
  PROVE  LateInv'
<1> USE DEF LateInv, Typed, LateOrderWasPastGate, api, counters
<1>1. CASE StopLossCheck BY <1>1 DEF StopLossCheck
<1>2. CASE ControlCheck
  <2>1. UNCHANGED <<key, reachable, request, late>> BY <1>2 DEF ControlCheck
  <2>2. blind' \in BOOLEAN /\ (blind' <=> ~reachable) BY <1>2 DEF ControlCheck
  <2>3. Typed' BY <2>1, <2>2
  <2>4. reachable /\ key \in {"paused", "killed"} => loopAt' # "trading"
    BY <1>2 DEF ControlCheck, LoopSees, Sees
  <2>5. late = 1 => loopAt' # "trading" \/ blind' BY <2>2, <2>4
  <2> QED BY <2>1, <2>3, <2>5
<1>3. CASE CoordinateAndSubmit BY <1>3 DEF CoordinateAndSubmit
<1>4. CASE Housekeeping BY <1>4 DEF Housekeeping
<1>5. CASE Wake BY <1>5 DEF Wake
<1> QED BY <1>1, <1>2, <1>3, <1>4, <1>5 DEF Cycle

LEMMA LateStep == LateInv /\ [Next]_vars => LateInv'
<1> SUFFICES ASSUME LateInv, [Next]_vars PROVE LateInv' OBVIOUS
<1>1. CASE UNCHANGED vars
  BY <1>1 DEF vars, loop, api, LateInv, Typed, LateOrderWasPastGate
<1>2. CASE Next
  BY <1>2, ServeKeeps, HandlingKeeps, EnvironmentKeeps, CycleKeeps DEF Next
<1> QED BY <1>1, <1>2

\* Whatever the handlers, outages and restarts: late orders are the one
\* order whose cycle had passed the gate.
THEOREM LateOrders == Spec => []LateOrderWasPastGate
<1>1. LateInv => LateOrderWasPastGate BY DEF LateInv
<1> QED BY LateInit, LateStep, <1>1, PTL DEF Spec

\* A stop is followed by at most one order let through on Redis' word.
THEOREM OneLateOrder == Spec => []AtMostOneLateOrder
<1>1. LateOrderWasPastGate => AtMostOneLateOrder
  BY DEF LateOrderWasPastGate, AtMostOneLateOrder
<1> QED BY LateOrders, <1>1, PTL

-----------------------------------------------------------------------------
(* A kill outlasts the resumes that could see it *)

\* A resume past its check has no kill before it that it could have seen.
ResumeInv ==
  /\ request \in [Handlers -> Request]
  /\ \A h \in Resuming : h \in unseeing \/ key # "killed"

\* A step that changes no request and no key.
LEMMA Quiet ==
  ASSUME ResumeInv, UNCHANGED <<request, key, unseeing>>
  PROVE  ResumeInv'
  BY DEF ResumeInv, Resuming

\* A new request is not a resume past its check.
LEMMA ResumeServe ==
  ASSUME ResumeInv, NEW h \in Handlers,
         PauseTrading(h) \/ TriggerKillSwitch(h) \/ ResumeTrading(h)
  PROVE  ResumeInv' /\ key' = key
<1>1. PICK x \in Request : Serve(h, x) /\ (x.target = "running" => x.at = "check")
  <2> DEFINE r(t, a) == [target |-> t, at |-> a]
  <2>1. r("paused", "remember") \in Request /\ r("killed", "remember") \in Request
        /\ r("running", "check") \in Request
    BY DEF Request, SystemState, Steps
  <2> QED BY <2>1 DEF PauseTrading, TriggerKillSwitch, ResumeTrading
<1>2. request' = [request EXCEPT ![h] = x] /\ UNCHANGED <<key, unseeing>>
  BY <1>1 DEF Serve
<1>3. request' \in [Handlers -> Request] /\ request'[h] = x
  BY <1>2 DEF ResumeInv
<1>4. \A g \in Handlers : g # h => request'[g] = request[g]
  BY <1>2 DEF ResumeInv
<1>5. Resuming' \subseteq Resuming
  BY <1>1, <1>3, <1>4 DEF Resuming
<1> QED BY <1>2, <1>3, <1>5 DEF ResumeInv

\* A check that is passed by Redis' word finds no kill; a kill that is
\* published marks every resume past its check; only a resume writes "running".
LEMMA ResumeHandling ==
  ASSUME ResumeInv, NEW h \in Handlers, Handling(h)
  PROVE  ResumeInv' /\ (key = "killed" /\ key' = "running" => h \in unseeing /\ Publish(h))
<1>0. request[h] \in Request BY DEF ResumeInv
<1>1. PICK a \in Steps : request' = [request EXCEPT ![h].at = a]
  BY DEF Handling, CheckKilled, Remember, Publish, Steps
<1>2. request' \in [Handlers -> Request]
  BY <1>0, <1>1 DEF ResumeInv, Request
<1>3. /\ request'[h].at = a /\ request'[h].target = request[h].target
      /\ \A g \in Handlers : g # h => request'[g] = request[g]
  BY <1>0, <1>1 DEF ResumeInv, Request
<1>4. CASE CheckKilled(h)
  <2>1. Resuming' \subseteq Resuming \union {h} /\ key' = key /\ unseeing \subseteq unseeing'
    BY <1>3, <1>4 DEF CheckKilled, Resuming
  <2>2. h \in Resuming' => h \in unseeing' \/ key # "killed"
    <3>1. a \in {"free", "remember"} BY <1>3, <1>4, <1>0 DEF CheckKilled, ResumeInv
    <3>2. reachable /\ key = "killed" => a = "free"
      BY <1>3, <1>4, <1>0 DEF CheckKilled, ResumeRefused, ApiSees, Sees, ResumeInv
    <3>3. ~reachable => h \in unseeing' BY <1>4 DEF CheckKilled
    <3> QED BY <1>3, <3>2, <3>3 DEF Resuming
  <2> QED BY <1>2, <2>1, <2>2 DEF ResumeInv
<1>5. CASE Remember(h)
  <2>1. Resuming' \subseteq Resuming /\ key' = key /\ unseeing' = unseeing
    BY <1>3, <1>5 DEF Remember, Resuming
  <2> QED BY <1>2, <2>1 DEF ResumeInv
<1>6. CASE Publish(h)
  <2>1. a = "free" /\ request[h].at = "publish" BY <1>3, <1>6, <1>0 DEF Publish, ResumeInv
  <2>2. Resuming' \subseteq Resuming \ {h}
    BY <1>3, <2>1 DEF Resuming
  <2>3. key' = key \/ key' = request[h].target
    BY <1>6 DEF Publish
  <2>4. key = "killed" /\ key' = "running" => h \in unseeing
    BY <2>1, <2>3 DEF ResumeInv, Resuming
  <2>5. unseeing' = (IF key' = "killed" THEN unseeing \union Resuming ELSE unseeing) \ {h}
    BY <1>6 DEF Publish
  <2> QED BY <1>2, <1>6, <2>2, <2>4, <2>5 DEF ResumeInv
<1> QED BY <1>4, <1>5, <1>6 DEF Handling

LEMMA ResumeStep ==
  ASSUME ResumeInv, [Next]_vars
  PROVE  ResumeInv' /\ (key = "killed" /\ key' = "running" => \E h \in unseeing : Publish(h))
<1>1. CASE UNCHANGED vars BY <1>1, Quiet DEF vars, api
<1>2. CASE RestartApi
  <2>1. Free \in Request BY DEF Free, Request, SystemState, Steps
  <2>2. \A h \in Handlers : request'[h].at = "free" BY <1>2 DEF RestartApi, Free
  <2>3. request' \in [Handlers -> Request] BY <1>2, <2>1 DEF RestartApi
  <2>4. Resuming' = {} BY <2>2 DEF Resuming
  <2> QED BY <1>2, <2>3, <2>4 DEF RestartApi, ResumeInv
<1>3. CASE RedisFails \/ RedisReturns
  BY <1>3, Quiet DEF RedisFails, RedisReturns, api
<1>4. CASE Cycle
  BY <1>4, Quiet DEF Cycle, StopLossCheck, ControlCheck, CoordinateAndSubmit,
                     Housekeeping, Wake, api
<1> QED BY <1>1, <1>2, <1>3, <1>4, ResumeServe, ResumeHandling DEF Next

LEMMA ResumeInit == Init => ResumeInv
<1> SUFFICES ASSUME Init PROVE ResumeInv OBVIOUS
<1>1. Free \in Request BY DEF Free, Request, SystemState, Steps
<1>2. request \in [Handlers -> Request] /\ key # "killed"
  BY <1>1 DEF Init
<1> QED BY <1>2 DEF ResumeInv

\* A resume lifts a kill only if it could not see it, for any number of
\* threads, requests, outages and restarts, which clear the API's own memory.
THEOREM KillOutlasts == Spec => KillOutlastsResume
<1>1. ResumeInv /\ [Next]_vars => ResumeInv'
  BY ResumeStep
<1>2. ResumeInv /\ [Next]_vars
        => [key = "killed" /\ key' = "running" => \E h \in unseeing : Publish(h)]_vars
  BY ResumeStep
<1> QED BY ResumeInit, <1>1, <1>2, PTL DEF Spec, KillOutlastsResume
=============================================================================
