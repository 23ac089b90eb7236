------------------------------- MODULE MCSync -------------------------------
(***************************************************************************)
(* Instances of SyncService for TLC, with the topics and recipients that   *)
(* the functions of Router give: c1 and c2 are chat messages to alice, sg  *)
(* is a signaling message to alice, gc a chat message to a group.          *)
(*                                                                         *)
(* The passing run has two scenes.  In one c1 and sg are published up to   *)
(* MaxCopies times, keys expire and there is one fault; in the other c1,   *)
(* c2 and gc are published once, keys stay and there are MaxFaults faults. *)
(***************************************************************************)
EXTENDS SyncService, TLC

CONSTANTS c1, c2, sg, gc, alice, bob, team, add

R == INSTANCE Router WITH Users <- {alice, bob}, Groups <- {team},
                          CommandTypes <- {add}, NoId <- NoUser

Chat(recipient, group) ==
  [body |-> "chat", set |-> TRUE, type |-> add, sender |-> bob,
   recipient |-> recipient, group |-> group]

Body ==
  (c1 :> Chat(alice, NoUser)) @@ (c2 :> Chat(alice, NoUser)) @@ (gc :> Chat(NoUser, team))
    @@ (sg :> [Chat(alice, NoUser) EXCEPT !.body = "signaling"])

MCTopicOf == [m \in Messages |-> R!RouteMessage(Body[m]).topic]
MCTopics == {MCTopicOf[m] : m \in Messages}
MCWatched == {t \in MCTopics : R!WatchedTopic(t)}
MCRecipientOf == [m \in Messages |-> R!extractRecipientID(Body[m], MCTopicOf[m])]
MCAnonymous == {m \in Messages : R!extractSenderID(Body[m]) = NoUser}

VARIABLE scene

MCVars == <<vars, scene>>

MCInit == Init /\ scene \in {"handling", "progress"}

\* Only the surroundings differ.
InScene ==
  /\ UNCHANGED scene
  /\ IF scene = "handling"
     THEN (\A m \in {c2, gc} : (~ InLog(m))') /\ faults' <= 1
     ELSE /\ (~ InLog(sg))' /\ expired' = expired
          /\ \A m \in Messages : Count(log'[TopicOf[m]], m) <= 1

MCSpec == MCInit /\ [][Next /\ InScene]_MCVars /\ Fairness
=============================================================================
