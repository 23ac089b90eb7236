------------------------------ MODULE Delivery ------------------------------
(***************************************************************************)
(* What the outbox promises for a message: once it is accepted it stays    *)
(* due until it has been delivered or abandoned.  It may be delivered more *)
(* than once, and be both delivered and abandoned.                         *)
(***************************************************************************)
CONSTANT Messages

VARIABLES accepted, due, delivered, abandoned

vars == <<accepted, due, delivered, abandoned>>

Init == accepted = {} /\ due = {} /\ delivered = {} /\ abandoned = {}

Accept(m) ==
  /\ m \notin accepted
  /\ accepted' = accepted \cup {m}
  /\ due' = due \cup {m}
  /\ UNCHANGED <<delivered, abandoned>>

Deliver(m) ==
  /\ m \in accepted
  /\ delivered' = delivered \cup {m}
  /\ UNCHANGED <<accepted, due, abandoned>>

Abandon(m) ==
  /\ m \in accepted
  /\ abandoned' = abandoned \cup {m}
  /\ UNCHANGED <<accepted, due, delivered>>

Settle(m) ==
  /\ m \in due \cap (delivered \cup abandoned)
  /\ due' = due \ {m}
  /\ UNCHANGED <<accepted, delivered, abandoned>>

Next == \E m \in Messages : Accept(m) \/ Deliver(m) \/ Abandon(m) \/ Settle(m)

Spec == Init /\ [][Next]_vars
=============================================================================
