------------------------------ MODULE MCOutbox ------------------------------
(***************************************************************************)
(* Instances of Outbox for TLC.  The messages m1 and m2 go to the same     *)
(* user's topic, m3 to a group's topic, and m4 has no route.               *)
(*                                                                         *)
(* The passing run has five scenes.  In the first a single relay meets m1, *)
(* m2 and m3, one more than a batch holds, dispatched one after the other, *)
(* and one fault; in the second it meets m1, m2 and up to MaxFaults faults;*)
(* in the third two relays meet m1, m3 and one fault; in the fourth two    *)
(* relays meet m1 and m2, dispatched at the same time, and one fault; in   *)
(* the fifth one relay meets m3, m4 and one fault.  Of the messages that   *)
(* have been answered only m1 is sent again, while no relay is at work.    *)
(***************************************************************************)
EXTENDS Outbox, TLC

CONSTANTS m1, m2, m3, m4, user, group, r1, r2

MCRouteOf ==
  [m \in Messages |-> CASE m \in {m1, m2} -> user [] m = m3 -> group [] OTHER -> NoRoute]

VARIABLE scene

MCVars == <<vars, scene>>

MCInit == Init /\ scene \in {"one relay", "two faults", "two relays", "overlap", "no route"}

\* The messages that are sent in a scene.
Sent == CASE scene = "one relay" -> {m1, m2, m3}
          [] scene = "two faults" -> {m1, m2}
          [] scene = "two relays" -> {m1, m3}
          [] scene = "overlap" -> {m1, m2}
          [] scene = "no route" -> {m3, m4}

\* No relay is at work; with two relays, none has a row to try again.
Quiet ==
  /\ \A r \in Relays : pc[r] = "idle"
  /\ scene \in {"two relays", "overlap"} =>
       \A i \in Ids : rows[i].status = "pending" => rows[i].retry >= MaxRetries

InScene ==
  /\ UNCHANGED scene
  /\ scene \notin {"two relays", "overlap"} => pc'[r2] = "idle"
  /\ scene # "overlap" => Cardinality(open') <= 1
  /\ scene # "two faults" => faults' <= 1
  /\ \A m \in Messages \ Sent : reply'[m] = "none" /\ \A s \in open' : s.msg # m
  /\ \A s \in open' \ open : reply[s.msg] = "none" \/ (s.msg = m1 /\ Quiet)

\* FairSpec of Outbox, inside the scene.
MCSpec ==
  /\ MCInit
  /\ [][Next /\ InScene]_MCVars
  /\ \A r \in Relays : WF_MCVars(RelayStep(r) /\ InScene)
=============================================================================
