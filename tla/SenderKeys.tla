----------------------------- MODULE SenderKeys -----------------------------
(***************************************************************************)
(* Sender keys: one sender, and users who are or are not members of the    *)
(* group.  A chain key is the ID of its sender key and the number of       *)
(* ratchet steps; a message is known by the chain key it was encrypted     *)
(* with.  Messages come to each user in a queue and may be lost or         *)
(* doubled; distributions come on a way of their own.  A user who was      *)
(* removed still gets the messages, and keeps the key it had.              *)
(*                                                                         *)
(* The server changes the group first; the sender learns of it later, from *)
(* a rotation event, and then does what NeedsFullRotation and              *)
(* NeedsDistribution say.  Encrypt returns the next chain key and leaves   *)
(* the SenderKey alone.  The code that calls it is not in the repository:  *)
(* it may store that key in the SenderKey, from which ToDistribution takes *)
(* it, or carry it along on its own.                                       *)
(***************************************************************************)
EXTENDS Naturals, Sequences, FiniteSets

CONSTANTS
  Users,
  MaxMessages,   \* calls of Encrypt
  MaxKeys,       \* sender keys
  MaxEvents,     \* rotation events on their way
  MaxFaults      \* messages lost or doubled

ASSUME SenderKeysAssumption ==
  MaxMessages \in Nat /\ MaxKeys \in Nat \ {0} /\ MaxEvents \in Nat /\ MaxFaults \in Nat

VARIABLES
  stores,   \* the caller of Encrypt stores the next chain key in the SenderKey
  roster,   \* the members of the group, as the server has them
  notices,  \* rotation events on their way to the sender
  members,  \* the members the sender knows of
  sender,   \* the sender's chain key
  chain,    \* each user's chain key of the sender
  queue,    \* messages on their way to each user
  keys,     \* distributions on their way to each user
  sent,     \* history: the messages, and the members the sender knew of then
  got,      \* history: what each user has decrypted
  unread,   \* history: what it should have decrypted and could not
  excused,  \* history: the key IDs with a lost message, or a distribution
            \* that came before or after messages of its time, for each user
  faults

group == <<stores, roster, notices, members, sender, chain, queue, keys, sent, got, unread, excused, faults>>
history2 == <<sent, got, unread, excused>>

GenerateSenderKey(id) == [id |-> id, step |-> 0]
NoKey == GenerateSenderKey(0)

SenderInit ==
  /\ stores \in BOOLEAN
  /\ roster \in SUBSET Users /\ members = roster
  /\ notices = <<>>
  /\ sender = GenerateSenderKey(1)
  /\ chain = [u \in Users |-> IF u \in members THEN sender ELSE NoKey]
  /\ queue = [u \in Users |-> <<>>]
  /\ keys = [u \in Users |-> <<>>]
  /\ sent = {}
  /\ got = [u \in Users |-> <<>>]
  /\ unread = [u \in Users |-> {}]
  /\ excused = [u \in Users |-> {}]
  /\ faults = 0

Ratchet(key) == [key EXCEPT !.step = @ + 1]

\* Encrypt, and the sender keeps the next chain key.
Encrypt ==
  /\ Cardinality(sent) < MaxMessages
  /\ sent' = sent \cup {[key |-> sender, to |-> members]}
  /\ queue' = [u \in Users |-> Append(queue[u], sender)]
  /\ sender' = Ratchet(sender)
  /\ UNCHANGED <<roster, notices, members, chain, keys, got, unread, excused, faults>>

WasMember(u, msg) == \E m \in sent : m.key = msg /\ u \in m.to

\* Decrypt: the signature is of the same sender key, and the message key is
\* that of the same step.
Opens(key, msg) == msg = key

Fails(u, msg) ==
  /\ unread' = [unread EXCEPT ![u] =
       IF WasMember(u, msg) /\ \A i \in 1 .. Len(got[u]) : got[u][i] # msg THEN @ \cup {msg} ELSE @]
  /\ excused' = [excused EXCEPT ![u] =
       @ \cup {msg.id : i \in {j \in 1 .. Len(keys[u]) : keys[u][j].id = msg.id}}]
  /\ UNCHANGED got

\* Mutant: the chain key goes on after an error too.
DecryptRatchets(u) ==
  /\ queue[u] # <<>>
  /\ queue' = [queue EXCEPT ![u] = Tail(@)]
  /\ chain' = [chain EXCEPT ![u] = Ratchet(@)]
  /\ IF Opens(chain[u], Head(queue[u]))
     THEN got' = [got EXCEPT ![u] = Append(@, Head(queue[u]))] /\ UNCHANGED <<unread, excused>>
     ELSE Fails(u, Head(queue[u]))
  /\ UNCHANGED <<roster, notices, members, sender, keys, sent, faults>>

\* Decrypt, and the user keeps the next chain key; after an error it keeps
\* the one it has.
Decrypt(u) ==
  /\ queue[u] # <<>>
  /\ queue' = [queue EXCEPT ![u] = Tail(@)]
  /\ LET msg == Head(queue[u])
     IN IF Opens(chain[u], msg)
        THEN /\ chain' = [chain EXCEPT ![u] = Ratchet(msg)]
             /\ got' = [got EXCEPT ![u] = Append(@, msg)]
             /\ UNCHANGED <<unread, excused>>
        ELSE Fails(u, msg) /\ UNCHANGED chain
  /\ UNCHANGED <<roster, notices, members, sender, keys, sent, faults>>

\* FromDistribution: the key replaces the one the user has.
ReceiveKey(u) ==
  /\ keys[u] # <<>>
  /\ keys' = [keys EXCEPT ![u] = Tail(@)]
  /\ chain' = [chain EXCEPT ![u] = Head(keys[u])]
  /\ excused' = [excused EXCEPT ![u] =
       @ \cup {queue[u][i].id : i \in {j \in 1 .. Len(queue[u]) : queue[u][j].id < Head(keys[u]).id}}]
  /\ UNCHANGED <<roster, notices, members, sender, queue, sent, got, unread, faults>>

Distribute(users, key) == keys' = [u \in Users |-> IF u \in users THEN Append(keys[u], key) ELSE keys[u]]

\* The server changes the group and tells the sender.
Event(type, u) ==
  /\ Len(notices) < MaxEvents
  /\ notices' = Append(notices, [type |-> type, user |-> u])
  /\ UNCHANGED <<members, sender, chain, queue, keys, history2, faults>>

RemoveMember(u) == u \in roster /\ roster' = roster \ {u} /\ Event("removed", u)

AddMember(u) == u \notin roster /\ roster' = roster \cup {u} /\ Event("added", u)

NeedsFullRotation(type) == type = "removed"
NeedsDistribution(type) == type = "added"

\* The chain key in the SenderKey.
ToDistribution == IF stores THEN sender ELSE GenerateSenderKey(sender.id)

\* Mutant: the removal of a member needs no rotation.
RotateKeepsKey(u) ==
  /\ notices # <<>> /\ Head(notices).user = u /\ NeedsFullRotation(Head(notices).type)
  /\ u \in members /\ sender.id < MaxKeys
  /\ notices' = Tail(notices)
  /\ members' = members \ {u}
  /\ UNCHANGED <<roster, sender, chain, queue, keys, history2, faults>>

\* The sender learns that u was removed.
Rotate(u) ==
  /\ notices # <<>> /\ Head(notices).user = u /\ NeedsFullRotation(Head(notices).type)
  /\ u \in members /\ sender.id < MaxKeys
  /\ notices' = Tail(notices)
  /\ members' = members \ {u}
  /\ sender' = GenerateSenderKey(sender.id + 1)
  /\ Distribute(members', sender')
  /\ UNCHANGED <<roster, chain, queue, history2, faults>>

\* The sender learns that u was added.
Welcome(u) ==
  /\ notices # <<>> /\ Head(notices).user = u /\ NeedsDistribution(Head(notices).type)
  /\ u \notin members
  /\ notices' = Tail(notices)
  /\ members' = members \cup {u}
  /\ Distribute({u}, ToDistribution)
  /\ UNCHANGED <<roster, sender, chain, queue, history2, faults>>

Lose(u) ==
  /\ faults < MaxFaults /\ queue[u] # <<>>
  /\ faults' = faults + 1
  /\ queue' = [queue EXCEPT ![u] = Tail(@)]
  /\ excused' = [excused EXCEPT ![u] = @ \cup {Head(queue[u]).id}]
  /\ UNCHANGED <<roster, notices, members, sender, chain, keys, sent, got, unread>>

Double(u) ==
  /\ faults < MaxFaults /\ queue[u] # <<>>
  /\ faults' = faults + 1
  /\ queue' = [queue EXCEPT ![u] = <<Head(@)>> \o @]
  /\ UNCHANGED <<roster, notices, members, sender, chain, keys, history2>>

SenderNext ==
  /\ UNCHANGED stores
  /\ \/ Encrypt
     \/ \E u \in Users :
          \/ Decrypt(u) \/ ReceiveKey(u)
          \/ RemoveMember(u) \/ AddMember(u) \/ Rotate(u) \/ Welcome(u)
          \/ Lose(u) \/ Double(u)

SenderSpec == SenderInit /\ [][SenderNext]_group

\* When the next chain key is stored, a message is read only by users whom the
\* sender knew for members when it encrypted it: not by one whose removal it
\* had acted on, nor by one of whose addition it learnt later, whenever their
\* keys and messages arrive.  (Between the removal at the server and the
\* rotation the one removed does read.)
ReadersWereMembers ==
  stores => \A u \in Users : \A i \in 1 .. Len(got[u]) : WasMember(u, got[u][i])

\* What is read of one sender key is read in order, once, without a gap.
ReadWithoutGap ==
  stores => \A u \in Users : \A i \in 1 .. Len(got[u]) - 1 :
    \/ got[u][i + 1].id > got[u][i].id
    \/ got[u][i + 1] = Ratchet(got[u][i])

\* When the next chain key is stored, a user whom the sender knew for a member
\* fails to read a message only when one of that sender key was lost, or the
\* key came late, or a newer key came early; a doubled message does no harm,
\* and the next rotation ends the trouble.
UnreadForCause ==
  stores => \A u \in Users : \A msg \in unread[u] : msg.id \in excused[u]
=============================================================================
