----------------------------- MODULE MCStandalone ----------------------------
(***************************************************************************)
(* Three calls on one handshake; a group of two; two clients of the        *)
(* examples, started twice at most (a trader only one of the two); two     *)
(* subscribers and two broadcasts; a client of each SDK with two           *)
(* receivers, two sockets and two messages.                                *)
(*                                                                         *)
(* What happens at one user of the group, or at one subscriber of the hub, *)
(* depends on the other one only through the sender or the broadcasts.  So *)
(* the second user receives nothing (its messages and keys pile up) and    *)
(* the second subscriber neither reads nor changes its channels.  Calls of *)
(* receive are alike: the second one begins when the first is under way.   *)
(***************************************************************************)
EXTENDS Standalone

CONSTANTS p1, p2, u2, s2, r1, r2

\* The clients keep the default of the flag.
MCDeviceOf == [p \in {p1, p2} |-> "sensor-001"]

SecondUser == chain'[u2] = chain[u2] /\ Len(queue'[u2]) = Cardinality(sent')

FewFaults == faults' = 0 \/ (stores /\ Len(notices') <= 1)

SecondSubscriber == filling'[s2] = {} /\ (s2 \in hub' => "*" \in channels'[s2]) /\ expected'[s2] = 0
                    /\ (s2 \notin up' => wire'[s2] = <<>>)

SecondReceiver == receiver[r2] = "idle" /\ receiver[r1] = "idle" => receiver'[r2] = "idle"

SecondSocket ==
  link'[2].phase # "none" => link'[1].sent <= 1 /\ link'[2].sent <= 1 /\ receiver'[r2] = "idle"

MCNext ==
  /\ Next
  /\ app = "group"  => SecondUser /\ FewFaults
  /\ app = "orders" => runs'[p2] <= 1
  /\ app = "notify" => SecondSubscriber
  /\ app = "client" => SecondReceiver /\ SecondSocket

MCSpec == Init /\ [][MCNext]_vars
=============================================================================
