----------------------------- MODULE ControlGate -----------------------------
(***************************************************************************)
(* The operator's control over the trading loop: the API process's         *)
(* handlers for pause, resume and kill-switch, the Redis key they share    *)
(* with the loop, and the gate the loop passes once in every cycle.        *)
(*                                                                         *)
(* The API and the loop are separate processes.  Handlers run in a pool of *)
(* threads, so their steps interleave with one another and with the loop.  *)
(* Redis may stop answering for a while, and the API process may restart;  *)
(* its in-memory fallback state starts again at RUNNING.  The loop process *)
(* never writes its own fallback, which is RUNNING for ever.               *)
(***************************************************************************)
EXTENDS Naturals

CONSTANTS
  Handlers,      \* threads that serve control requests
  MaxRequests,   \* bound: requests served in one behaviour
  MaxOutages,    \* bound: times Redis stops answering
  MaxRestarts    \* bound: restarts of the API process

ASSUME ControlBounds ==
  MaxRequests \in Nat /\ MaxOutages \in Nat /\ MaxRestarts \in Nat

VARIABLES
  key,        \* Redis: ais:control:state, or "unset"
  reachable,  \* Redis answers
  fallback,   \* the API process's _fallback_state
  request,    \* per thread: the state it is to set, and its next step
  loopAt,     \* where the loop is in its cycle
  resting,    \* an order of ours rests at the exchange
  blind,      \* history: the loop's gate was last passed without Redis' word
  late,       \* history: orders coordinated since trading was last stopped
  unseeing,   \* history: threads whose resume passed its check without Redis'
              \* word, or before the last kill was published
  requests, outages, restarts   \* counters for the bounds

api      == <<fallback, request, requests>>
loop     == <<loopAt, resting, blind, late>>
counters == <<outages, restarts>>
vars == <<key, reachable, api, loop, unseeing, counters>>

SystemState == {"running", "paused", "killed"}

\* A thread that serves nothing, and the request it may be given.
Free == [target |-> "running", at |-> "free"]
Steps == {"free", "check", "remember", "publish"}
Request == [target : SystemState, at : Steps]

-----------------------------------------------------------------------------
(* _ControlState.state, as each process sees it *)

\* Mutant: the loop trusts what its own process remembers.
LoopSeesMemory == "running"

\* Redis' value if it answers with one, and the process's fallback if not.
Sees(memory)  == IF reachable /\ key # "unset" THEN key ELSE memory
ApiSees       == Sees(fallback)
LoopSees      == Sees("running")

\* Mutant: the refusal looks at the API process's memory only.
ResumeRefusedByMemory == fallback = "killed"

\* resume_trading refuses in the KILLED state.
ResumeRefused == ApiSees = "killed"

Init ==
  /\ key = "unset" /\ reachable = TRUE
  /\ fallback = "running"
  /\ request = [h \in Handlers |-> Free]
  /\ loopAt = "top" /\ resting = FALSE /\ blind = FALSE /\ late = 0
  /\ requests = 0 /\ outages = 0 /\ restarts = 0
  /\ unseeing = {}

-----------------------------------------------------------------------------
(* The API's handlers *)

Serve(h, r) ==
  /\ request[h].at = "free"
  /\ requests < MaxRequests
  /\ requests' = requests + 1
  /\ request' = [request EXCEPT ![h] = r]
  /\ UNCHANGED <<key, reachable, fallback, loop, unseeing, counters>>

\* pause_trading and trigger_kill_switch set the state unconditionally.
PauseTrading(h)      == Serve(h, [target |-> "paused", at |-> "remember"])
TriggerKillSwitch(h) == Serve(h, [target |-> "killed", at |-> "remember"])

\* resume_trading looks at the state first.
ResumeTrading(h) == Serve(h, [target |-> "running", at |-> "check"])
CheckKilled(h) ==
  /\ request[h].at = "check"
  /\ request' = [request EXCEPT ![h].at = IF ResumeRefused THEN "free" ELSE "remember"]
  /\ unseeing' = IF reachable THEN unseeing ELSE unseeing \union {h}
  /\ UNCHANGED <<key, reachable, fallback, requests, loop, counters>>

\* pause, resume and kill: the fallback first, then the key.
Remember(h) ==
  /\ request[h].at = "remember"
  /\ fallback' = request[h].target
  /\ request' = [request EXCEPT ![h].at = "publish"]
  /\ UNCHANGED <<key, reachable, requests, loop, unseeing, counters>>

\* Threads that have passed a resume's check.
Resuming == {h \in Handlers : request[h].target = "running"
                               /\ request[h].at \in {"remember", "publish"}}

\* The key is written if Redis answers; the request succeeds either way.
Publish(h) ==
  /\ request[h].at = "publish"
  /\ key' = IF reachable THEN request[h].target ELSE key
  /\ late' = IF key' = "running" THEN 0 ELSE late
  /\ request' = [request EXCEPT ![h].at = "free"]
  /\ unseeing' = (IF key' = "killed" THEN unseeing \union Resuming ELSE unseeing) \ {h}
  /\ UNCHANGED <<reachable, fallback, requests, loopAt, resting, blind, counters>>

\* The API process restarts: its memory and the requests under way are gone.
RestartApi ==
  /\ restarts < MaxRestarts
  /\ restarts' = restarts + 1
  /\ fallback' = "running"
  /\ request' = [h \in Handlers |-> Free]
  /\ unseeing' = {}
  /\ UNCHANGED <<key, reachable, requests, loop, outages>>

RedisFails ==
  /\ reachable /\ outages < MaxOutages
  /\ outages' = outages + 1
  /\ reachable' = FALSE
  /\ UNCHANGED <<key, api, loop, unseeing, restarts>>

RedisReturns ==
  /\ ~reachable /\ reachable' = TRUE
  /\ UNCHANGED <<key, api, loop, unseeing, counters>>

-----------------------------------------------------------------------------
(* The loop's cycle: stop-loss check, control gate, trading, housekeeping *)

\* Positions beyond their stop are closed by orders submitted at once.
StopLossCheck ==
  /\ loopAt = "top" /\ loopAt' = "gate"
  /\ resting' \in {resting, TRUE}
  /\ UNCHANGED <<key, reachable, api, blind, late, unseeing, counters>>

\* _check_control_state; a blocked cycle ends here.
ControlCheck ==
  /\ loopAt = "gate"
  /\ loopAt' = IF LoopSees = "running" THEN "trading" ELSE "asleep"
  /\ blind' = ~reachable
  /\ UNCHANGED <<key, reachable, api, resting, late, unseeing, counters>>

\* The signals are coordinated into at most one order, which is submitted.
CoordinateAndSubmit ==
  /\ loopAt = "trading" /\ loopAt' = "housekeeping"
  /\ \/ UNCHANGED <<resting, late>>
     \/ /\ resting' = TRUE
        /\ late' = IF key \in {"paused", "killed"} /\ ~blind /\ late < 2
                    THEN late + 1 ELSE late
  /\ UNCHANGED <<key, reachable, api, blind, unseeing, counters>>

\* Fill sync, reconciliation, and the cancellation of stale orders.
Housekeeping ==
  /\ loopAt = "housekeeping" /\ loopAt' = "asleep"
  /\ resting' \in {resting, FALSE}
  /\ UNCHANGED <<key, reachable, api, blind, late, unseeing, counters>>

Wake ==
  /\ loopAt = "asleep" /\ loopAt' = "top"
  /\ UNCHANGED <<key, reachable, api, resting, blind, late, unseeing, counters>>

Cycle == StopLossCheck \/ ControlCheck \/ CoordinateAndSubmit \/ Housekeeping \/ Wake

Handling(h) == CheckKilled(h) \/ Remember(h) \/ Publish(h)

Next ==
  \/ \E h \in Handlers : \/ PauseTrading(h) \/ TriggerKillSwitch(h) \/ ResumeTrading(h)
                         \/ Handling(h)
  \/ RestartApi \/ RedisFails \/ RedisReturns
  \/ Cycle

Spec == Init /\ [][Next]_vars

\* The loop's thread and the API's threads are scheduled; Redis comes back.
FairSpec == /\ Spec
            /\ WF_vars(Cycle) /\ WF_vars(RedisReturns)
            /\ \A h \in Handlers : WF_vars(Handling(h))

-----------------------------------------------------------------------------
(* Properties *)

TypeOK ==
  /\ key \in SystemState \union {"unset"}
  /\ reachable \in BOOLEAN
  /\ fallback \in SystemState
  /\ request \in [Handlers -> Request]
  /\ loopAt \in {"top", "gate", "trading", "housekeeping", "asleep"}
  /\ resting \in BOOLEAN /\ blind \in BOOLEAN
  /\ late \in 0..2 /\ unseeing \subseteq Handlers
  /\ requests \in 0..MaxRequests /\ outages \in 0..MaxOutages
  /\ restarts \in 0..MaxRestarts

\* Of the orders that were let through on Redis' word, a stop is followed by
\* at most one: the order of the cycle that was past the gate already.  This
\* holds however many handlers run, and through outages and API restarts.
AtMostOneLateOrder == late <= 1

\* The inductive strengthening: the one late order is the cycle's that was
\* past the gate, and after it the gate is shut.
LateOrderWasPastGate ==
  /\ late <= 1
  /\ key \notin {"paused", "killed"} => late = 0
  /\ late = 1 => loopAt # "trading" \/ blind

\* However requests overlap, Redis fails and the API restarts, whose memory
\* forgets the kill: a resume lifts a kill only if it could not see it, its
\* check having been answered without Redis, or before the kill was published.
KillOutlastsResume ==
  [][key = "killed" /\ key' = "running" => \E h \in unseeing : Publish(h)]_vars

-----------------------------------------------------------------------------
(* What the documentation says and the code does not do *)

\* "Fails closed: if Redis is unreachable, returns False" (trading_loop.py:203).
FailsClosed == [][ControlCheck /\ loopAt' = "trading" => reachable]_vars

\* "The kill switch is a one-way operation.  The system must be manually
\* restarted after activation." (docs/reference/api.md:136)
KillIsOneWay == [][key = "killed" => key' = "killed"]_vars

\* "System is in KILLED state. Manual intervention required."
\* (routes_control.py:202): the refusal holds with several handlers.
ResumeNeverLiftsKill == [][key = "killed" => key' # "running"]_vars

\* "No new orders are accepted" (docs/architecture/risk-engine.md:73).
NoOrdersWhileKilled == [][StopLossCheck /\ key = "killed" => resting' = resting]_vars

\* "All pending orders are cancelled" (docs/architecture/risk-engine.md:72):
\* what rests at the exchange when trading is killed does not stay there.
KillClearsOrders == (key = "killed" /\ resting) ~> (~resting \/ key # "killed")

\* "Fails closed if Redis is unavailable" (routes_control.py:8): a kill that
\* is acknowledged has reached the key the loop reads.
AcknowledgedKillIsPublished ==
  [][\A h \in Handlers :
       Publish(h) /\ request[h].target = "killed" => key' = "killed"]_vars
=============================================================================
