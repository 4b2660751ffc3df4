---------------------------- MODULE OrderLedger ----------------------------
(***************************************************************************)
(* What the order event log promises about one order, whatever threads,    *)
(* crashes and failed writes do to the process that writes it: an order is *)
(* submitted at most once, a fill, once durable, is never taken back, and  *)
(* neither is a cancel, but for the fill it raced with.  It is the         *)
(* lifecycle diagram of docs/architecture/execution.md, with the extra     *)
(* edges the code has: an order may be cancelled before it was submitted,  *)
(* and such a withdrawal may be overtaken by the submission it raced with. *)
(***************************************************************************)
EXTENDS Naturals

CONSTANT MaxOrders    \* orders are numbered in the order they are created
VARIABLE ledger       \* the status the log attributes to each order

Orders == 1..MaxOrders

\* "tracked" stands for the OrderStatus values PENDING and APPROVED, with
\* which OrderStore.track records an order; an order cancelled before its
\* submission is logged is "withdrawn".
Status == {"absent", "tracked", "withdrawn", "submitted", "filled", "cancelled"}

\* The edges of an order's life, from types/orders.py and order_store.py.
MayBecome ==
  [absent    |-> {"tracked"},
   tracked   |-> {"withdrawn", "submitted", "filled"},
   withdrawn |-> {"submitted", "filled"},
   submitted |-> {"filled", "cancelled"},
   cancelled |-> {"filled"},
   filled    |-> {}]

LedgerInit == ledger = [o \in Orders |-> "absent"]

\* Events are appended one at a time: one order takes one edge.
Advance ==
  \E o \in Orders :
    \E new \in MayBecome[ledger[o]] : ledger' = [ledger EXCEPT ![o] = new]

LedgerSpec == LedgerInit /\ [][Advance]_ledger
=============================================================================
