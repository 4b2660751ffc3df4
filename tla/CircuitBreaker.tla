--------------------------- MODULE CircuitBreaker ---------------------------
(***************************************************************************)
(* HTTPMCPGateway.call_tool behind its CircuitBreaker: every call asks the *)
(* breaker, waits for the rate limiter, calls the exchange's server and    *)
(* records the outcome.  The breaker is locked within each of its methods  *)
(* and not between them, so the calls of several threads interleave.       *)
(*                                                                         *)
(* `since` is the time since the last recorded failure, counted up to      *)
(* RecoveryTimeout; the server is up or down, and a call that reaches it   *)
(* while it is up succeeds.                                                *)
(***************************************************************************)
EXTENDS Naturals

CONSTANTS
  Callers,            \* threads that use the gateway
  FailureThreshold,   \* failure_threshold
  RecoveryTimeout,    \* recovery_timeout, in ticks
  MaxFailures,        \* bound: failures counted
  MaxOutages,         \* bound: times the server goes down
  MaxResets           \* bound: manual resets

ASSUME BreakerBounds ==
  /\ FailureThreshold \in Nat \ {0} /\ RecoveryTimeout \in Nat
  /\ MaxFailures \in Nat /\ MaxFailures >= FailureThreshold
  /\ MaxOutages \in Nat /\ MaxResets \in Nat

VARIABLES
  state,      \* _state
  failures,   \* _failure_count
  since,      \* monotonic() - _last_failure_time, up to RecoveryTimeout
  call,       \* per caller: where its call is
  serverUp,   \* the server answers
  streak,     \* history: failures recorded since the last success
  probes,     \* history: callers let through by HALF_OPEN, outcome pending
  outages, resets

breaker == <<state, failures, since>>
history == <<streak, probes>>
vars == <<breaker, call, serverUp, history, outages, resets>>

CircuitState == {"closed", "open", "half_open"}

Init ==
  /\ state = "closed" /\ failures = 0 /\ since = 0
  /\ call = [c \in Callers |-> "none"]
  /\ serverUp = TRUE
  /\ streak = 0 /\ probes = {}
  /\ outages = 0 /\ resets = 0

-----------------------------------------------------------------------------
(* The breaker's methods *)

\* _maybe_transition_to_half_open, called first by allow_request, state and
\* stats: what the state is when it returns.
Recovering == state = "open" /\ since >= RecoveryTimeout

StateNow == IF Recovering THEN "half_open" ELSE state

\* Mutant: only CLOSED lets calls through.
LetsThroughClosedOnly == StateNow = "closed"

\* allow_request's answer.
LetsThrough == StateNow \in {"closed", "half_open"}

\* Mutant: recovery does not clear the count.
CountAfterSuccessKept == failures

\* record_success.
StateAfterSuccess == IF state = "half_open" THEN "closed" ELSE state
CountAfterSuccess == IF state = "half_open" THEN 0 ELSE failures

\* record_failure.
CountAfterFailure == IF failures < MaxFailures THEN failures + 1 ELSE failures
StateAfterFailure ==
  IF state = "half_open" \/ (state = "closed" /\ failures + 1 >= FailureThreshold)
  THEN "open" ELSE state

-----------------------------------------------------------------------------
(* call_tool *)

\* The breaker lets the call through.
Allow(c) ==
  /\ call[c] = "none" /\ LetsThrough
  /\ state' = StateNow
  /\ call' = [call EXCEPT ![c] = "waiting"]
  /\ probes' = IF StateNow = "half_open" THEN probes \union {c} ELSE probes
  /\ UNCHANGED <<failures, since, serverUp, streak, outages, resets>>

\* The breaker rejects it: ConnectionError.
Reject(c) ==
  /\ call[c] = "none" /\ ~LetsThrough
  /\ state' = StateNow
  /\ UNCHANGED <<failures, since, call, serverUp, history, outages, resets>>

\* The rate limiter grants a token, or its wait times out: TimeoutError,
\* and the breaker hears nothing of it.
Acquire(c) ==
  /\ call[c] = "waiting"
  /\ call' = [call EXCEPT ![c] = "posting"]
  /\ UNCHANGED <<breaker, serverUp, history, outages, resets>>
Throttle(c) ==
  /\ call[c] = "waiting"
  /\ call' = [call EXCEPT ![c] = "none"]
  /\ probes' = probes \ {c}
  /\ UNCHANGED <<breaker, serverUp, streak, outages, resets>>

\* The server answers, or it fails or times out.
Answer(c) ==
  /\ call[c] = "posting"
  /\ call' = [call EXCEPT ![c] = IF serverUp THEN "answered" ELSE "failed"]
  /\ UNCHANGED <<breaker, serverUp, history, outages, resets>>

RecordSuccess(c) ==
  /\ call[c] = "answered"
  /\ state' = StateAfterSuccess
  /\ failures' = CountAfterSuccess
  /\ streak' = 0
  /\ call' = [call EXCEPT ![c] = "none"]
  /\ probes' = probes \ {c}
  /\ UNCHANGED <<since, serverUp, outages, resets>>

RecordFailure(c) ==
  /\ call[c] = "failed"
  /\ state' = StateAfterFailure
  /\ failures' = CountAfterFailure
  /\ since' = 0
  /\ streak' = IF streak < MaxFailures THEN streak + 1 ELSE streak
  /\ call' = [call EXCEPT ![c] = "none"]
  /\ probes' = probes \ {c}
  /\ UNCHANGED <<serverUp, outages, resets>>

-----------------------------------------------------------------------------
(* Time, the server, and the operator *)

Tick ==
  /\ since < RecoveryTimeout
  /\ since' = since + 1
  /\ UNCHANGED <<state, failures, call, serverUp, history, outages, resets>>

ServerFails ==
  /\ serverUp /\ outages < MaxOutages
  /\ serverUp' = FALSE /\ outages' = outages + 1
  /\ UNCHANGED <<breaker, call, history, resets>>
ServerReturns ==
  /\ ~serverUp /\ serverUp' = TRUE
  /\ UNCHANGED <<breaker, call, history, outages, resets>>

\* reset.
Reset ==
  /\ resets < MaxResets /\ resets' = resets + 1
  /\ state' = "closed" /\ failures' = 0
  /\ UNCHANGED <<since, call, serverUp, history, outages>>

Step(c) == \/ Allow(c) \/ Reject(c) \/ Acquire(c) \/ Throttle(c) \/ Answer(c)
           \/ RecordSuccess(c) \/ RecordFailure(c)

Next ==
  \/ \E c \in Callers : Step(c)
  \/ Tick \/ ServerFails \/ ServerReturns \/ Reset

Spec == Init /\ [][Next]_vars

\* The callers go on calling, calls end, the limiter's bucket refills, and
\* time passes.  Nothing is assumed of the server.
FairSpec ==
  /\ Spec /\ WF_vars(Tick)
  /\ \A c \in Callers : /\ WF_vars(Allow(c)) /\ SF_vars(Acquire(c))
                        /\ WF_vars(Answer(c))
                        /\ WF_vars(RecordSuccess(c) \/ RecordFailure(c))

-----------------------------------------------------------------------------
(* Properties *)

TypeOK ==
  /\ state \in CircuitState
  /\ failures \in 0..MaxFailures /\ since \in 0..RecoveryTimeout
  /\ call \in [Callers -> {"none", "waiting", "posting", "answered", "failed"}]
  /\ serverUp \in BOOLEAN
  /\ streak \in 0..MaxFailures /\ probes \subseteq Callers
  /\ outages \in 0..MaxOutages /\ resets \in 0..MaxResets

\* The count never drifts from the state it drives, however the outcomes of
\* calls from before and after a trip, a probe and a reset arrive: CLOSED
\* has fewer failures than the threshold, OPEN and HALF_OPEN at least as many.
CountMatchesState == (state = "closed") <=> (failures < FailureThreshold)

\* Once the server is back for good, the breaker closes for good: no late
\* failure, throttled probe or reset keeps the gateway shut.
RecoversWithServer == <>[]serverUp => <>[](state = "closed")

-----------------------------------------------------------------------------
(* What the documentation says and the code does not do *)

\* "After failure_threshold consecutive failures the breaker opens"
\* (circuit_breaker.py:10).
OpensOnConsecutive ==
  [][state = "closed" /\ state' = "open" => streak' >= FailureThreshold]_vars

\* "HALF_OPEN -> one probe call allowed to test recovery"
\* (circuit_breaker.py:8).
OneProbeAtATime == \A c, d \in probes : c = d
=============================================================================
