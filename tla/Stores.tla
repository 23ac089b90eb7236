------------------------------- MODULE Stores -------------------------------
(***************************************************************************)
(* Two services around a table of their own: the command service with the  *)
(* groups, and the inbox with the offline sync.  They share nothing, so    *)
(* that a behaviour is one of one of them.                                 *)
(***************************************************************************)
EXTENDS Groups, OfflineSync

VARIABLE service

vars == <<commands, inbox, service>>

Init ==
  /\ service \in {"commands", "inbox"}
  /\ GroupsInit /\ OfflineInit
  /\ service # "commands" => log = <<>>

Next ==
  \/ service = "commands" /\ GroupsNext /\ UNCHANGED <<inbox, service>>
  \/ service = "inbox" /\ OfflineNext /\ UNCHANGED <<commands, service>>

Spec == Init /\ [][Next]_vars
=============================================================================
