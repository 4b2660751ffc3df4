----------------------------- MODULE MCEvolution -----------------------------
(* Two agents that bootstrap builds, the first with two parameters, and one that comes later. *)
EXTENDS Evolution

Trade(r, c) == [ret |-> r, confidence |-> c]
MCFleet == <<"momentum", "reversion">>
MCLone == <<"momentum">>
Parameter(lo, hi, step, start) == [lo |-> lo, hi |-> hi, step |-> step, start |-> start]
\* A range two steps wide, one that a step does not fit in and one of a single value.
MCTuning ==
  [momentum  |-> [fast |-> Parameter(1, 3, 1, 2)],
   reversion |-> [lookback |-> Parameter(2, 3, 2, 3), threshold |-> Parameter(1, 1, 1, 1)],
   grid      |-> << >>]
\* DEFAULT_TUNING of the momentum agent.
MCLoneTuning ==
  [momentum |-> [fast |-> Parameter(5, 50, 5, 20), slow |-> Parameter(20, 200, 10, 50)]]
MCTrades == {Trade(2, 1), Trade(-1, 2)}
MCLosses == {Trade(-1, 1), Trade(-2, 1)}
MCConfigured == [window |-> 0, least |-> 2, boost |-> 105, decay |-> 95, lo |-> 3000, hi |-> 10400]
MCDefaults == [MCConfigured EXCEPT !.window = 1]
==============================================================================
