------------------------------- MODULE Groups -------------------------------
(***************************************************************************)
(* The command service and the group store.  The dispatcher writes the     *)
(* commands to the topic "commands" with their type as the key, so each    *)
(* type is in order and the types are not.  The consumer never commits an  *)
(* offset: a claim reads the topic from its beginning.  A command that     *)
(* fails is logged and passed over.  The topic is given from the start: a  *)
(* command that comes later is one that is not read for some time.         *)
(***************************************************************************)
EXTENDS Naturals, Sequences

CONSTANTS
  Users,
  Issued,       \* the commands that clients issue
  MaxCommands,  \* how many of them there are
  MaxFaults     \* faults that start over, and statements that fail

\* creator_id: cmd.Payload[:0], the empty user.
Creator == "empty"
NoPayload == "nil"
NoGroup == "no group"

Kinds == {"create", "add", "remove", "ban", "settings", "delete"}
Command == [kind : Kinds, payload : Users \cup {NoPayload, "s0", "s1"}]

\* No user has the empty name.
ASSUME GroupsAssumption ==
  /\ Issued \subseteq Command /\ MaxCommands \in Nat /\ MaxFaults \in Nat
  /\ {Creator, NoPayload, NoGroup} \cap Users = {}

VARIABLES
  log,        \* the commands of one group in the order they were issued
  pos,        \* how far the consumer has read each type in its claim
  faults,
  settings,   \* the row of the group
  members,    \* its rows of group_members
  executed,   \* history: the last command executed about each user
  disordered  \* history: users whose commands were executed out of order or failed

commands == <<log, pos, faults, settings, members, executed, disordered>>

GroupsInit ==
  /\ log \in UNION {[1 .. n -> Issued] : n \in 0 .. MaxCommands}
  /\ pos = [k \in Kinds |-> 0]
  /\ faults = 0
  /\ settings = NoGroup
  /\ members = {}
  /\ executed = [u \in Users |-> 0]
  /\ disordered = {}

\* The next command of a kind.
Following(k) == {i \in 1 .. Len(log) : log[i].kind = k /\ i > pos[k]}
NextOf(k) == CHOOSE i \in Following(k) : \A j \in Following(k) : i <= j

\* CreateGroup: the two inserts of the transaction.  A nil payload is a NULL
\* creator_id, and the group may exist.
CreateGroup(cmd) ==
  IF cmd.payload # NoPayload /\ settings = NoGroup
  THEN settings' = cmd.payload /\ members' = {Creator}
  ELSE UNCHANGED <<settings, members>>

\* AddMember refers to the group.
AddMember(cmd) ==
  /\ members' = IF cmd.payload # NoPayload /\ settings # NoGroup
                THEN members \cup {cmd.payload} ELSE members
  /\ UNCHANGED settings

\* RemoveMember, and BanMember, which is RemoveMember.
RemoveMember(cmd) ==
  /\ members' = IF cmd.payload # NoPayload THEN members \ {cmd.payload} ELSE members
  /\ UNCHANGED settings

\* UpdateSettings: a nil payload is NULL.
UpdateSettings(cmd) ==
  /\ settings' = IF settings # NoGroup THEN cmd.payload ELSE settings
  /\ UNCHANGED members

\* handleDeleteMessage and unknown types.
Nothing(cmd) == UNCHANGED <<settings, members>>

\* Mutant: BAN_MEMBER falls to the default.
ProcessNoBan(cmd) ==
  CASE cmd.kind = "create" -> CreateGroup(cmd)
    [] cmd.kind = "add" -> AddMember(cmd)
    [] cmd.kind = "remove" -> RemoveMember(cmd)
    [] cmd.kind = "settings" -> UpdateSettings(cmd)
    [] cmd.kind \in {"ban", "delete"} -> Nothing(cmd)

\* processCommand.
ProcessCommand(cmd) ==
  CASE cmd.kind = "create" -> CreateGroup(cmd)
    [] cmd.kind = "add" -> AddMember(cmd)
    [] cmd.kind \in {"remove", "ban"} -> RemoveMember(cmd)
    [] cmd.kind = "settings" -> UpdateSettings(cmd)
    [] cmd.kind = "delete" -> Nothing(cmd)

About(cmd) == {u \in Users : cmd.kind \in {"add", "remove", "ban"} /\ cmd.payload = u}

Record(i, failed) ==
  LET about == About(log[i])
  IN /\ executed' = [u \in Users |-> IF u \in about THEN i ELSE executed[u]]
     /\ disordered' = disordered \cup {u \in about : failed \/ i < executed[u]}

\* ConsumeClaim and Handle: the next message of a partition.
Consume(k) ==
  /\ Following(k) # {}
  /\ LET i == NextOf(k)
     IN /\ ProcessCommand(log[i])
        /\ pos' = [pos EXCEPT ![k] = i]
        /\ Record(i, log[i].kind = "add" /\ settings = NoGroup)
  /\ UNCHANGED <<log, faults>>

\* ConsumeClaim: the store returns an error, and the loop continues.
ConsumeFails(k) ==
  /\ Following(k) # {} /\ faults < MaxFaults
  /\ faults' = faults + 1
  /\ pos' = [pos EXCEPT ![k] = NextOf(k)]
  /\ Record(NextOf(k), TRUE)
  /\ UNCHANGED <<log, settings, members>>

\* Run: the consumer joins again, or another process does.
Claim ==
  /\ faults < MaxFaults
  /\ faults' = faults + 1
  /\ pos' = [k \in Kinds |-> 0]
  /\ UNCHANGED <<log, settings, members, executed, disordered>>

GroupsNext ==
  \/ \E k \in Kinds : Consume(k) \/ ConsumeFails(k)
  \/ Claim

GroupsSpec == GroupsInit /\ [][GroupsNext]_commands

Consumed == \A k \in Kinds : Following(k) = {}

Last(P(_)) == {i \in 1 .. Len(log) : P(log[i]) /\ \A j \in i + 1 .. Len(log) : ~ P(log[j])}

\* When the topic has been read to its end, the members are those that the
\* commands in the order of their issue make, except for users some of whose
\* commands failed, or were executed after a later one (the keys of the topic
\* and the claims that start over allow both).
MembershipAsIssued ==
  Consumed => \A u \in Users \ disordered :
    \A i \in Last(LAMBDA cmd : u \in About(cmd)) : u \in members <=> log[i].kind = "add"
=============================================================================
