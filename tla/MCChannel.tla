----------------------------- MODULE MCChannel -----------------------------
(***************************************************************************)
(* The channel in three scenes.  In "retry" the dials fail, time after     *)
(* time, and the client has any of the configurations; once connected it   *)
(* does nothing more.  In "talk" it connects once, sends, receives and     *)
(* closes, and one thing goes wrong: a dial, a connection or the client's  *)
(* process.  In "again" it also connects anew when it has a connection,    *)
(* and sends once when something goes wrong and twice when nothing does.   *)
(* A scene restricts what nothing makes happen, never a step of Fairness.  *)
(***************************************************************************)
EXTENDS Channel

Capped   == [initial |-> 2, max |-> 3, multiplier |-> 2, attempts |-> 3]
Uncapped == [initial |-> 5, max |-> 3, multiplier |-> 2, attempts |-> 0]
Steady   == [initial |-> 2, max |-> 9, multiplier |-> 1, attempts |-> 4]
Unset    == [initial |-> 0, max |-> 1, multiplier |-> 3, attempts |-> 2]

MCConfigs == {Capped, Uncapped, Steady, Unset}

VARIABLE scene

MCVars == <<vars, scene>>

MCInit == Init /\ scene \in {"talk", "again", "retry"}

\* A call of Connect begins.
Begins == cpc = "idle" /\ cpc' = "dial"

MCNext ==
  /\ Next
  /\ scene = "talk"  => faults' <= 1 /\ cfg' = NoReconnect /\ (Begins => conn = NoConn)
  /\ scene = "again" => Sends' + faults' <= 2 /\ faults' <= 1 /\ cfg' \in {NoReconnect, Capped}
  /\ scene = "retry" => /\ faults' = faults \/ (cpc = "dial" /\ attempt' # attempt)
                        /\ csend' = csend /\ closed' = closed
  /\ UNCHANGED scene

MCSpec == MCInit /\ [][MCNext]_MCVars /\ Fairness
=============================================================================
