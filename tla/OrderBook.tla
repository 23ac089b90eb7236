----------------------------- MODULE OrderBook -----------------------------
(***************************************************************************)
(* examples/finance-orders: handleTrader and the order book it shares.     *)
(***************************************************************************)
EXTENDS Serving

VARIABLES
  orders,  \* orderBook.orders
  seq      \* orderBook.seq

book == <<orders, seq>>

BookInit == orders = <<>> /\ seq = 0

\* The client's orders have the same numbers in each run.
Order(p) == [trader |-> p, id |-> round[p]]

\* verifyOrder succeeds; accept and the response.
Accept(p) ==
  /\ orders' = Append(orders, Order(p))
  /\ seq' = seq + 1
  /\ Work(p, "sent", "work", [order |-> Order(p), status |-> "filled", exec |-> seq + 1])

\* verifyOrder fails: a response without the order's number.
Reject(p) ==
  /\ Work(p, "sent", "work", [order |-> None, status |-> "rejected", exec |-> 0])
  /\ UNCHANGED book

\* Encrypt and WriteMessage of the response.
Respond(p) == Work(p, "work", "done", reply[p]) /\ UNCHANGED book

BookNext ==
  \E p \in Peers :
    \/ (Join(p) \/ ClientStep(p)) /\ UNCHANGED book
    \/ Accept(p) \/ Reject(p) \/ Respond(p)
=============================================================================
