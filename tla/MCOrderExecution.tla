-------------------------- MODULE MCOrderExecution --------------------------
(* Constants of the TLC runs of OrderExecution. *)
EXTENDS OrderExecution

\* All orders in one slot: same symbol, same side.
SameSymbol == [o \in Orders |-> CHOOSE s \in Symbols : TRUE]
SameSide   == [o \in Orders |-> "buy"]

\* Two symbols, taken in turn.
CONSTANTS sa, sb
TwoSymbols == [o \in Orders |-> IF o % 2 = 1 THEN sa ELSE sb]

FirstOnly == {1}
=============================================================================
