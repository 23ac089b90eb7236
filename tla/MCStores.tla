------------------------------ MODULE MCStores ------------------------------
(***************************************************************************)
(* The instance of Stores that TLC checks: commands of every kind about    *)
(* one user, with and without a payload.                                   *)
(***************************************************************************)
EXTENDS Stores

MCIssued ==
  [kind : {"create"}, payload : {"s0", NoPayload}]
    \cup [kind : {"add", "ban"}, payload : Users]
    \cup [kind : {"remove"}, payload : Users \cup {NoPayload}]
    \cup [kind : {"settings"}, payload : {"s1", NoPayload}]
    \cup [kind : {"delete"}, payload : {NoPayload}]
=============================================================================
