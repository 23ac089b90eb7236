---------------------------- MODULE CryptoProofs ----------------------------
(***************************************************************************)
(* Proofs about the cryptographic services.  Sender keys, for any group,   *)
(* any number of messages and rotations, and whatever is lost, doubled or  *)
(* late: a group message is read only by users whom the sender knew for    *)
(* members then, in order and without a gap, and such a user fails to read *)
(* one only for a cause.  The crypto handler, for any number of handshakes *)
(* and calls: a handshake whose calls do not overlap is one exchange.      *)
(***************************************************************************)
EXTENDS SenderKeys, CryptoHandler, TLAPS

Key == [id : Nat, step : Nat]

SentKeys == {m.key : m \in sent}

\* The chain keys that user u may have or be sent: no message that they lead to
\* was encrypted when u was not a member, and a user who is not a member has
\* none of the current sender key.
Good(u) ==
  {k \in Key :
     /\ k.id <= sender.id /\ (u \notin members => k.id < sender.id)
     /\ \A m \in sent : m.key.id = k.id /\ m.key.step >= k.step => u \in m.to}

Readable(u) == {k \in Key : WasMember(u, k)}

\* The sender is ahead of all it has sent, users have good keys, and nothing is
\* on its way that was not sent.
SKInv ==
  /\ members \subseteq Users
  /\ sender \in Key /\ sender.id >= 1
  /\ sent \subseteq [key : Key, to : SUBSET Users]
  /\ \A m \in sent :
       /\ m.key.id >= 1 /\ m.key.id <= sender.id
       /\ m.key.id = sender.id => m.key.step < sender.step
  /\ DOMAIN chain = Users /\ \A u \in Users : chain[u] \in Good(u)
  /\ DOMAIN keys = Users /\ \A u \in Users : keys[u] \in Seq(Good(u))
  /\ DOMAIN queue = Users /\ \A u \in Users : queue[u] \in Seq(SentKeys)
  /\ DOMAIN got = Users /\ \A u \in Users : got[u] \in Seq(Readable(u))

-----------------------------------------------------------------------------
\* A sequence over a set is one over a larger set.
LEMMA SeqGrows ==
  ASSUME NEW S, NEW T, S \subseteq T, NEW q \in Seq(S)
  PROVE  q \in Seq(T)
OBVIOUS

\* The next chain key of a good one is good.
LEMMA RatchetGood ==
  ASSUME NEW u \in Users, NEW k \in Good(u), sent \subseteq [key : Key, to : SUBSET Users]
  PROVE  Ratchet(k) \in Good(u)
<1>1. k \in Key /\ Ratchet(k) \in Key /\ Ratchet(k).id = k.id /\ Ratchet(k).step = k.step + 1
  BY DEF Good, Ratchet, Key
<1>2. ASSUME NEW m \in sent, m.key.id = k.id, m.key.step >= k.step + 1 PROVE u \in m.to
  <2>1. m.key.step \in Nat /\ k.step \in Nat
    BY Zenon, <1>1 DEF Key
  <2> QED
    BY <1>2, <2>1 DEF Good
<1> QED
  BY Zenon, <1>1, <1>2 DEF Good

\* A new group.
LEMMA SenderStarts == SenderInit => SKInv
<1> SUFFICES ASSUME SenderInit PROVE SKInv
  BY Zenon
<1>1. members \subseteq Users /\ sent = {} /\ sender \in Key /\ sender.id = 1
  BY Zenon DEF SenderInit, GenerateSenderKey, Key
<1>2. ASSUME NEW u \in Users PROVE chain[u] \in Good(u)
  <2>1. NoKey \in Key /\ NoKey.id = 0
    BY Zenon DEF NoKey, GenerateSenderKey, Key
  <2>2. chain[u] = IF u \in members THEN sender ELSE NoKey
    BY Zenon DEF SenderInit
  <2> QED
    BY <1>1, <2>1, <2>2 DEF Good
<1> QED
  BY <1>1, <1>2 DEF SenderInit, SKInv

-----------------------------------------------------------------------------
\* Encrypt: whoever has a key that leads to the new message is a member.
LEMMA EncryptKeeps == ASSUME SKInv, Encrypt PROVE SKInv'
<1> DEFINE new == [key |-> sender, to |-> members]
<1>1. /\ sent' = sent \cup {new} /\ sender' = Ratchet(sender)
      /\ queue' = [u \in Users |-> Append(queue[u], sender)]
      /\ UNCHANGED <<members, chain, keys, got>>
  BY Zenon DEF Encrypt
<1>2. new \in [key : Key, to : SUBSET Users] /\ new.key = sender /\ new.to = members
  BY Zenon DEF SKInv
<1>3. /\ sender \in Key /\ sender' \in Key
      /\ sender'.id = sender.id /\ sender'.step = sender.step + 1
  <2>1. sender \in Key
    BY Zenon DEF SKInv
  <2>2. Ratchet(sender) \in Key /\ Ratchet(sender).id = sender.id
        /\ Ratchet(sender).step = sender.step + 1
    BY <2>1 DEF Ratchet, Key
  <2> QED
    BY Zenon, <1>1, <2>1, <2>2
<1> HIDE DEF new
<1>4. \A m \in sent' : /\ m.key.id >= 1 /\ m.key.id <= sender'.id
                       /\ m.key.id = sender'.id => m.key.step < sender'.step
  <2>1. ASSUME NEW m \in sent
        PROVE  /\ m.key.id >= 1 /\ m.key.id <= sender'.id
               /\ m.key.id = sender'.id => m.key.step < sender'.step
    <3>1. m.key \in Key
      BY Zenon DEF SKInv
    <3> QED
      BY <1>3, <3>1 DEF SKInv, Key
  <2>2. /\ new.key.id >= 1 /\ new.key.id <= sender'.id
        /\ new.key.id = sender'.id => new.key.step < sender'.step
    BY <1>2, <1>3 DEF SKInv, Key
  <2> QED
    BY Zenon, <1>1, <2>1, <2>2
<1>5. ASSUME NEW u \in Users, NEW k \in Good(u) PROVE k \in Good(u)'
  <2>1. k.id = sender.id => u \in members
    BY <1>3 DEF Good, Key
  <2>2. \A m \in sent' : m.key.id = k.id /\ m.key.step >= k.step => u \in m.to
    BY Zenon, <1>1, <1>2, <2>1 DEF Good
  <2> QED
    BY Zenon, <1>1, <1>3, <2>2 DEF Good
<1>6. ASSUME NEW u \in Users PROVE Readable(u) \subseteq Readable(u)'
  BY Zenon, <1>1 DEF Readable, WasMember
<1>7. SentKeys \subseteq SentKeys' /\ sender \in SentKeys'
  BY Zenon, <1>1, <1>2 DEF SentKeys
<1>8. ASSUME NEW u \in Users PROVE queue'[u] \in Seq(SentKeys')
  <2>1. queue[u] \in Seq(SentKeys')
    BY Zenon, <1>7, SeqGrows DEF SKInv
  <2> QED
    BY <1>1, <1>7, <2>1
<1>9. ASSUME NEW u \in Users
      PROVE  chain'[u] \in Good(u)' /\ keys'[u] \in Seq(Good(u)') /\ got'[u] \in Seq(Readable(u)')
  <2>1. Good(u) \subseteq Good(u)'
    BY Zenon, <1>5
  <2>2. keys[u] \in Seq(Good(u)')
    BY Zenon, <2>1, SeqGrows DEF SKInv
  <2>3. got[u] \in Seq(Readable(u)')
    BY Zenon, <1>6, SeqGrows DEF SKInv
  <2> QED
    BY Zenon, <1>1, <2>1, <2>2, <2>3 DEF SKInv
<1>10. sent' \subseteq [key : Key, to : SUBSET Users]
  BY Zenon, <1>1, <1>2 DEF SKInv
<1> QED
  BY Zenon, <1>1, <1>3, <1>4, <1>8, <1>9, <1>10 DEF SKInv, Key

\* The sets that depend on the sender's side alone.
LEMMA SetsStay ==
  ASSUME UNCHANGED <<members, sender, sent>>
  PROVE  SentKeys' = SentKeys /\ \A u \in Users : Good(u)' = Good(u) /\ Readable(u)' = Readable(u)
BY Zenon DEF SentKeys, Good, Readable, WasMember

\* Decrypt: the message was sent, and the key that opens it is good.
LEMMA DecryptKeeps == ASSUME SKInv, NEW u \in Users, Decrypt(u) PROVE SKInv'
<1> DEFINE msg == Head(queue[u])
<1>1. /\ queue[u] # <<>> /\ queue' = [queue EXCEPT ![u] = Tail(@)]
      /\ UNCHANGED <<members, sender, keys, sent>>
  BY Zenon DEF Decrypt
<1>2. SentKeys' = SentKeys /\ \A v \in Users : Good(v)' = Good(v) /\ Readable(v)' = Readable(v)
  BY Zenon, <1>1, SetsStay
<1>3. DOMAIN queue' = Users /\ \A v \in Users : queue'[v] \in Seq(SentKeys)
  BY <1>1 DEF SKInv
<1>4. msg \in SentKeys
  BY <1>1 DEF SKInv
<1>5. CASE Opens(chain[u], msg)
  <2>1. chain' = [chain EXCEPT ![u] = Ratchet(msg)] /\ got' = [got EXCEPT ![u] = Append(@, msg)]
    BY Zenon, <1>5 DEF Decrypt
  <2>2. msg \in Good(u) /\ msg \in Key
    BY Zenon, <1>5 DEF Opens, SKInv, Good
  <2>3. Ratchet(msg) \in Good(u)
    BY Zenon, <2>2, RatchetGood DEF SKInv
  <2>4. msg \in Readable(u)
    <3>1. PICK m \in sent : m.key = msg
      BY Zenon, <1>4 DEF SentKeys
    <3>2. u \in m.to
      BY <2>2, <3>1 DEF Good, Key
    <3> QED
      BY Zenon, <2>2, <3>1, <3>2 DEF Readable, WasMember
  <2> HIDE DEF msg
  <2>5. DOMAIN chain' = Users /\ \A v \in Users : chain'[v] \in Good(v)
    BY Zenon, <2>1, <2>3 DEF SKInv
  <2>6. DOMAIN got' = Users /\ \A v \in Users : got'[v] \in Seq(Readable(v))
    BY <2>1, <2>4 DEF SKInv
  <2> QED
    BY Zenon, <1>1, <1>2, <1>3, <2>5, <2>6 DEF SKInv
<1>6. CASE ~ Opens(chain[u], msg)
  <2>1. UNCHANGED <<chain, got>>
    BY Zenon, <1>6 DEF Decrypt, Fails
  <2> QED
    BY Zenon, <1>1, <1>2, <1>3, <2>1 DEF SKInv
<1> QED
  BY Zenon, <1>5, <1>6

\* FromDistribution: a key on its way is good.
LEMMA ReceiveKeyKeeps == ASSUME SKInv, NEW u \in Users, ReceiveKey(u) PROVE SKInv'
<1>1. /\ keys[u] # <<>> /\ keys' = [keys EXCEPT ![u] = Tail(@)]
      /\ chain' = [chain EXCEPT ![u] = Head(keys[u])]
      /\ UNCHANGED <<members, sender, queue, sent, got>>
  BY Zenon DEF ReceiveKey
<1>2. SentKeys' = SentKeys /\ \A v \in Users : Good(v)' = Good(v) /\ Readable(v)' = Readable(v)
  BY Zenon, <1>1, SetsStay
<1>3. Head(keys[u]) \in Good(u)
  BY <1>1 DEF SKInv
<1>4. DOMAIN keys' = Users /\ \A v \in Users : keys'[v] \in Seq(Good(v))
  BY <1>1 DEF SKInv
<1>5. DOMAIN chain' = Users /\ \A v \in Users : chain'[v] \in Good(v)
  BY Zenon, <1>1, <1>3 DEF SKInv
<1> QED
  BY Zenon, <1>1, <1>2, <1>4, <1>5 DEF SKInv

\* A removal: no message of the new sender key has been sent, and what the
\* others and the one who leaves have is older.
LEMMA RotateKeeps == ASSUME SKInv, NEW u \in Users, Rotate(u) PROVE SKInv'
<1>1. /\ u \in members /\ members' = members \ {u}
      /\ sender' = GenerateSenderKey(sender.id + 1)
      /\ keys' = [v \in Users |-> IF v \in members' THEN Append(keys[v], sender') ELSE keys[v]]
      /\ UNCHANGED <<chain, queue, sent, got>>
  BY Zenon DEF Rotate, Distribute, history2
<1>2. sender \in Key /\ sender' \in Key /\ sender'.id = sender.id + 1
  BY <1>1 DEF SKInv, GenerateSenderKey, Key
<1>3. \A m \in sent : m.key \in Key /\ m.key.id >= 1 /\ m.key.id <= sender.id
  BY Zenon DEF SKInv
<1>4. ASSUME NEW v \in Users PROVE Good(v) \subseteq Good(v)'
  BY <1>1, <1>2 DEF Good, Key
<1>5. ASSUME NEW v \in members' PROVE sender' \in Good(v)'
  BY <1>1, <1>2, <1>3 DEF Good, Key
<1>6. ASSUME NEW v \in Users PROVE Readable(v)' = Readable(v) /\ SentKeys' = SentKeys
  BY Zenon, <1>1 DEF Readable, WasMember, SentKeys
<1>7. ASSUME NEW v \in Users PROVE keys'[v] \in Seq(Good(v)') /\ chain'[v] \in Good(v)'
  <2>1. keys[v] \in Seq(Good(v)')
    BY Zenon, <1>4, SeqGrows DEF SKInv
  <2>2. keys'[v] \in Seq(Good(v)')
    BY <1>1, <1>5, <2>1
  <2> QED
    BY Zenon, <1>1, <1>4, <2>2 DEF SKInv
<1>8. \A m \in sent' : /\ m.key.id >= 1 /\ m.key.id <= sender'.id
                       /\ m.key.id = sender'.id => m.key.step < sender'.step
  BY <1>1, <1>2, <1>3 DEF Key
<1> QED
  BY <1>1, <1>2, <1>6, <1>7, <1>8 DEF SKInv, Key

\* An addition: the new member gets the key of the messages to come.
LEMMA WelcomeKeeps == ASSUME stores, SKInv, NEW u \in Users, Welcome(u) PROVE SKInv'
<1>1. /\ members' = members \cup {u}
      /\ keys' = [v \in Users |-> IF v \in {u} THEN Append(keys[v], sender) ELSE keys[v]]
      /\ UNCHANGED <<sender, chain, queue, sent, got>>
  BY Zenon DEF Welcome, ToDistribution, Distribute, history2
<1>2. ASSUME NEW v \in Users PROVE Good(v) \subseteq Good(v)'
  BY Zenon, <1>1 DEF Good
<1>3. sender \in Good(u)'
  <2>1. ASSUME NEW m \in sent, m.key.id = sender.id PROVE ~ (m.key.step >= sender.step)
    <3>1. m.key.step < sender.step /\ m.key.step \in Nat /\ sender.step \in Nat
      BY Zenon, <2>1 DEF SKInv, Key
    <3> QED
      BY <3>1
  <2>2. sender \in Key /\ sender.id <= sender.id
    BY DEF SKInv, Key
  <2> QED
    BY Zenon, <1>1, <2>1, <2>2 DEF Good
<1>4. ASSUME NEW v \in Users PROVE Readable(v)' = Readable(v) /\ SentKeys' = SentKeys
  BY Zenon, <1>1 DEF Readable, WasMember, SentKeys
<1>5. ASSUME NEW v \in Users PROVE keys'[v] \in Seq(Good(v)') /\ chain'[v] \in Good(v)'
  <2>1. keys[v] \in Seq(Good(v)')
    BY Zenon, <1>2, SeqGrows DEF SKInv
  <2>2. keys'[v] \in Seq(Good(v)')
    BY <1>1, <1>3, <2>1
  <2> QED
    BY Zenon, <1>1, <1>2, <2>2 DEF SKInv
<1> QED
  BY Zenon, <1>1, <1>4, <1>5 DEF SKInv

\* A message is lost or doubled.
LEMMA FaultKeeps == ASSUME SKInv, NEW u \in Users, Lose(u) \/ Double(u) PROVE SKInv'
<1>1. queue[u] # <<>> /\ UNCHANGED <<members, sender, chain, keys, sent, got>>
  BY Zenon DEF Lose, Double, history2
<1>2. SentKeys' = SentKeys /\ \A v \in Users : Good(v)' = Good(v) /\ Readable(v)' = Readable(v)
  BY Zenon, <1>1, SetsStay
<1>3. queue[u] \in Seq(SentKeys) /\ Head(queue[u]) \in SentKeys /\ Tail(queue[u]) \in Seq(SentKeys)
  BY <1>1 DEF SKInv
<1>4. <<Head(queue[u])>> \o queue[u] \in Seq(SentKeys)
  BY <1>3
<1>5. PICK q \in Seq(SentKeys) : queue' = [queue EXCEPT ![u] = q]
  BY Zenon, <1>3, <1>4 DEF Lose, Double
<1>6. DOMAIN queue' = Users /\ \A v \in Users : queue'[v] \in Seq(SentKeys)
  BY Zenon, <1>5 DEF SKInv
<1> QED
  BY Zenon, <1>1, <1>2, <1>6 DEF SKInv

-----------------------------------------------------------------------------
\* A step of the server, which changes the group and tells the sender.
Server == \E u \in Users : RemoveMember(u) \/ AddMember(u)

\* Such a step leaves the sender and the users alone.
LEMMA ServerFrame ==
  ASSUME Server \/ UNCHANGED group
  PROVE  UNCHANGED <<members, sender, chain, queue, keys, sent, got, unread, excused>>
BY Zenon DEF Server, RemoveMember, AddMember, Event, history2, group

\* What the caller of Encrypt does stays.
LEMMA StoresStays == ASSUME [SenderNext]_group PROVE stores' = stores
BY Zenon DEF SenderNext, group

\* The invariant holds when the next chain key is stored.
THEOREM SenderInvariant == SenderSpec => [](stores => SKInv)
<1>1. ASSUME stores, SKInv, [SenderNext]_group PROVE SKInv'
  <2>1. CASE Server \/ UNCHANGED group
    <3>1. UNCHANGED <<members, sender, chain, queue, keys, sent, got>>
      BY Zenon, <2>1, ServerFrame
    <3> QED
      BY Zenon, <1>1, <3>1, SetsStay DEF SKInv
  <2>2. CASE Encrypt
    BY Zenon, <1>1, <2>2, EncryptKeeps
  <2>3. ASSUME NEW u \in Users, Decrypt(u) PROVE SKInv'
    BY Zenon, <1>1, <2>3, DecryptKeeps
  <2>4. ASSUME NEW u \in Users, ReceiveKey(u) PROVE SKInv'
    BY Zenon, <1>1, <2>4, ReceiveKeyKeeps
  <2>5. ASSUME NEW u \in Users, Rotate(u) PROVE SKInv'
    BY Zenon, <1>1, <2>5, RotateKeeps
  <2>6. ASSUME NEW u \in Users, Welcome(u) PROVE SKInv'
    BY Zenon, <1>1, <2>6, WelcomeKeeps
  <2>7. ASSUME NEW u \in Users, Lose(u) \/ Double(u) PROVE SKInv'
    BY Zenon, <1>1, <2>7, FaultKeeps
  <2> QED
    BY Zenon, <1>1, <2>1, <2>2, <2>3, <2>4, <2>5, <2>6, <2>7 DEF SenderNext, Server
<1>2. (stores => SKInv) /\ [SenderNext]_group => (stores => SKInv)'
  BY Zenon, <1>1, StoresStays
<1>3. SenderInit => (stores => SKInv)
  BY Zenon, SenderStarts
<1> QED
  BY <1>2, <1>3, PTL DEF SenderSpec

\* When the next chain key is stored, a message is read only by users whom the
\* sender knew for members when it encrypted it, in whatever order keys, messages
\* and rotation events arrive.
THEOREM SenderReadersWereMembers == SenderSpec => []ReadersWereMembers
<1>1. ASSUME SKInv, NEW u \in Users, NEW i \in 1 .. Len(got[u]) PROVE WasMember(u, got[u][i])
  <2>1. got[u][i] \in Readable(u)
    BY <1>1 DEF SKInv
  <2> QED
    BY Zenon, <2>1 DEF Readable
<1>2. (stores => SKInv) => ReadersWereMembers
  BY Zenon, <1>1 DEF ReadersWereMembers
<1> QED
  BY <1>2, SenderInvariant, PTL

-----------------------------------------------------------------------------
\* Message n comes directly after message m, or is of a later sender key.
After(m, n) == n.id > m.id \/ n = Ratchet(m)

Last(q) == q[Len(q)]

\* The keys on their way to a user are newer one after another and newer than
\* its chain key, which comes after all the user has read.
Ordered(u) ==
  /\ \A i \in 1 .. Len(keys[u]) : keys[u][i].id > chain[u].id
  /\ \A i, j \in 1 .. Len(keys[u]) : i < j => keys[u][i].id < keys[u][j].id
  /\ got[u] # <<>> => After(Last(got[u]), chain[u])
  /\ \A i \in 1 .. Len(got[u]) - 1 : After(got[u][i], got[u][i + 1])

SKOrder == SKInv /\ \A u \in Users : Ordered(u)

\* The types of what a user has.
LEMMA UserTypes ==
  ASSUME SKInv, NEW u \in Users
  PROVE  /\ chain[u] \in Key /\ keys[u] \in Seq(Key) /\ got[u] \in Seq(Key) /\ queue[u] \in Seq(Key)
         /\ sender \in Key
<1>1. Good(u) \subseteq Key /\ Readable(u) \subseteq Key
  BY Zenon DEF Good, Readable
<1>2. SentKeys \subseteq Key
  BY Zenon DEF SKInv, SentKeys
<1>3. chain[u] \in Good(u) /\ keys[u] \in Seq(Good(u)) /\ got[u] \in Seq(Readable(u))
      /\ queue[u] \in Seq(SentKeys) /\ sender \in Key
  BY Zenon DEF SKInv
<1> QED
  BY Zenon, <1>1, <1>2, <1>3, SeqGrows

\* Decrypt: the message read is the chain key, which came after the last one.
LEMMA DecryptOrdered ==
  ASSUME SKOrder, NEW u \in Users, Decrypt(u), Opens(chain[u], Head(queue[u]))
  PROVE  Ordered(u)'
<1> DEFINE msg == chain[u]
<1>1. /\ chain'[u] = Ratchet(msg) /\ got'[u] = Append(got[u], msg) /\ keys' = keys
  BY DEF Decrypt, Opens, SKOrder, SKInv
<1>2. msg \in Key /\ got[u] \in Seq(Key) /\ Ratchet(msg).id = msg.id
  BY Zenon, UserTypes DEF SKOrder, Ratchet, Key
<1>3. Ordered(u)
  BY Zenon DEF SKOrder
<1> HIDE DEF msg
<1>4. Len(got'[u]) = Len(got[u]) + 1 /\ Last(got'[u]) = msg
      /\ \A i \in 1 .. Len(got[u]) : got'[u][i] = got[u][i]
  BY <1>1, <1>2 DEF Last
<1>5. After(Last(got'[u]), chain'[u])
  BY Zenon, <1>1, <1>4 DEF After
<1>6. ASSUME NEW i \in 1 .. Len(got'[u]) - 1 PROVE After(got'[u][i], got'[u][i + 1])
  <2>1. CASE i = Len(got[u])
    <3>1. got[u] # <<>> /\ got'[u][i] = Last(got[u]) /\ got'[u][i + 1] = msg
      BY <1>2, <1>4, <2>1 DEF Last
    <3> QED
      BY Zenon, <1>3, <3>1 DEF Ordered, msg
  <2>2. CASE i # Len(got[u])
    <3>1. i \in 1 .. Len(got[u]) - 1 /\ got'[u][i] = got[u][i] /\ got'[u][i + 1] = got[u][i + 1]
      BY <1>2, <1>4, <2>2
    <3> QED
      BY Zenon, <1>3, <3>1 DEF Ordered
  <2> QED
    BY Zenon, <2>1, <2>2
<1>7. \A i \in 1 .. Len(keys'[u]) : keys'[u][i].id > chain'[u].id
  BY Zenon, <1>1, <1>2, <1>3 DEF Ordered, msg
<1> QED
  BY Zenon, <1>1, <1>3, <1>5, <1>6, <1>7 DEF Ordered

\* FromDistribution: the first key on its way is newer than the chain key and
\* older than those behind it.
LEMMA ReceiveKeyOrdered ==
  ASSUME SKOrder, NEW u \in Users, ReceiveKey(u)
  PROVE  Ordered(u)'
<1>1. keys[u] # <<>> /\ keys'[u] = Tail(keys[u]) /\ chain'[u] = keys[u][1] /\ got' = got
  BY DEF ReceiveKey, SKOrder, SKInv
<1>2. keys[u] \in Seq(Key) /\ chain[u] \in Key /\ got[u] \in Seq(Key)
  BY Zenon, UserTypes DEF SKOrder
<1>3. Ordered(u)
  BY Zenon DEF SKOrder
<1>4. Len(keys'[u]) = Len(keys[u]) - 1 /\ 1 \in 1 .. Len(keys[u])
      /\ \A i \in 1 .. Len(keys'[u]) : i + 1 \in 1 .. Len(keys[u]) /\ keys'[u][i] = keys[u][i + 1]
  BY <1>1, <1>2
<1>5. \A i \in 1 .. Len(keys'[u]) : keys'[u][i].id > chain'[u].id
  BY <1>1, <1>2, <1>3, <1>4 DEF Ordered, Key
<1>6. ASSUME NEW i \in 1 .. Len(keys'[u]), NEW j \in 1 .. Len(keys'[u]), i < j
      PROVE  keys'[u][i].id < keys'[u][j].id
  <2>1. i + 1 \in 1 .. Len(keys[u]) /\ j + 1 \in 1 .. Len(keys[u]) /\ i + 1 < j + 1
    BY <1>4, <1>6
  <2> QED
    BY Zenon, <1>3, <1>4, <2>1 DEF Ordered
<1>7. got[u] # <<>> => After(Last(got[u]), chain'[u])
  <2>1. SUFFICES ASSUME got[u] # <<>> PROVE After(Last(got[u]), chain'[u])
    BY Zenon
  <2>2. Last(got[u]) \in Key /\ keys[u][1] \in Key /\ keys[u][1].id > chain[u].id
    BY <1>2, <1>3, <1>4, <2>1 DEF Last, Ordered
  <2>3. chain[u].id >= Last(got[u]).id
    <3>1. After(Last(got[u]), chain[u])
      BY Zenon, <1>3, <2>1 DEF Ordered
    <3>2. Ratchet(Last(got[u])).id = Last(got[u]).id
      BY Zenon, <2>2 DEF Ratchet, Key
    <3> QED
      BY <1>2, <2>2, <3>1, <3>2 DEF After, Key
  <2> QED
    BY <1>1, <1>2, <2>2, <2>3 DEF After, Key
<1> QED
  BY Zenon, <1>1, <1>3, <1>5, <1>6, <1>7 DEF Ordered

\* A key is sent to u that is newer than all it has or will have.
LEMMA DistributeOrdered ==
  ASSUME SKOrder, NEW u \in Users, NEW k \in Key,
         keys'[u] = Append(keys[u], k), UNCHANGED <<chain, got>>,
         chain[u].id < k.id, \A i \in 1 .. Len(keys[u]) : keys[u][i].id < k.id
  PROVE  Ordered(u)'
<1>1. keys[u] \in Seq(Key) /\ chain[u] \in Key
  BY Zenon, UserTypes DEF SKOrder
<1>2. Ordered(u)
  BY Zenon DEF SKOrder
<1>3. Len(keys'[u]) = Len(keys[u]) + 1 /\ keys'[u][Len(keys[u]) + 1] = k
      /\ \A i \in 1 .. Len(keys[u]) : keys'[u][i] = keys[u][i]
  BY <1>1
<1>4. \A i \in 1 .. Len(keys'[u]) : i \in 1 .. Len(keys[u]) \/ i = Len(keys[u]) + 1
  BY <1>1, <1>3
<1>5. \A i \in 1 .. Len(keys'[u]) : keys'[u][i].id > chain[u].id
  BY Zenon, <1>1, <1>2, <1>3, <1>4 DEF Ordered, Key
<1>6. \A i, j \in 1 .. Len(keys'[u]) : i < j => keys'[u][i].id < keys'[u][j].id
  BY <1>1, <1>2, <1>3, <1>4 DEF Ordered
<1> QED
  BY Zenon, <1>2, <1>5, <1>6 DEF Ordered

\* A rotation, and a distribution to a new member.
LEMMA RotateOrdered ==
  ASSUME SKOrder, NEW u \in Users, Rotate(u), NEW v \in Users
  PROVE  Ordered(v)'
<1>1. /\ sender' = GenerateSenderKey(sender.id + 1) /\ UNCHANGED <<chain, got>>
      /\ keys'[v] = IF v \in members' THEN Append(keys[v], sender') ELSE keys[v]
  BY Zenon DEF Rotate, Distribute, history2
<1>2. sender \in Key /\ sender' \in Key /\ sender'.id = sender.id + 1
  BY <1>1 DEF SKOrder, SKInv, GenerateSenderKey, Key
<1>3. chain[v] \in Good(v) /\ keys[v] \in Seq(Good(v)) /\ Ordered(v)
  BY Zenon DEF SKOrder, SKInv
<1>4. chain[v].id < sender'.id /\ \A i \in 1 .. Len(keys[v]) : keys[v][i].id < sender'.id
  <2>1. ASSUME NEW k \in Good(v) PROVE k.id < sender'.id
    BY <1>2 DEF Good, Key
  <2>2. \A i \in 1 .. Len(keys[v]) : keys[v][i] \in Good(v)
    BY <1>3
  <2> QED
    BY Zenon, <1>3, <2>1, <2>2
<1>5. CASE v \in members'
  BY Zenon, <1>1, <1>2, <1>4, <1>5, DistributeOrdered
<1>6. CASE v \notin members'
  BY Zenon, <1>1, <1>3, <1>6 DEF Ordered
<1> QED
  BY Zenon, <1>5, <1>6

\* Welcome hands the chain key of now to a new member.
LEMMA WelcomeOrdered ==
  ASSUME stores, SKOrder, NEW u \in Users, Welcome(u), NEW v \in Users
  PROVE  Ordered(v)'
<1>1. /\ u \notin members /\ UNCHANGED <<chain, got>>
      /\ keys'[v] = IF v = u THEN Append(keys[v], sender) ELSE keys[v]
  BY Zenon DEF Welcome, ToDistribution, Distribute, history2
<1>2. sender \in Key /\ chain[v] \in Good(v) /\ keys[v] \in Seq(Good(v)) /\ Ordered(v)
  BY Zenon DEF SKOrder, SKInv
<1>3. CASE v = u
  <2>1. chain[v].id < sender.id /\ \A i \in 1 .. Len(keys[v]) : keys[v][i].id < sender.id
    BY <1>1, <1>2, <1>3 DEF Good
  <2> QED
    BY Zenon, <1>1, <1>2, <1>3, <2>1, DistributeOrdered
<1>4. CASE v # u
  BY Zenon, <1>1, <1>2, <1>4 DEF Ordered
<1> QED
  BY Zenon, <1>3, <1>4

\* A user whose keys and readings stay as they are.
LEMMA OthersOrdered ==
  ASSUME SKOrder, NEW v \in Users, keys'[v] = keys[v], chain'[v] = chain[v], got'[v] = got[v]
  PROVE  Ordered(v)'
BY Zenon DEF SKOrder, Ordered

\* Every step keeps the order of every user.
LEMMA OrderKept == ASSUME stores, SKOrder, [SenderNext]_group PROVE \A v \in Users : Ordered(v)'
<1> SUFFICES ASSUME NEW v \in Users PROVE Ordered(v)'
  BY Zenon
<1>1. CASE Server \/ UNCHANGED group
  BY Zenon, <1>1, OthersOrdered, ServerFrame
<1>2. CASE Encrypt
  BY Zenon, <1>2, OthersOrdered DEF Encrypt
<1>3. ASSUME NEW u \in Users, Decrypt(u) PROVE Ordered(v)'
  <2>1. CASE u = v /\ Opens(chain[u], Head(queue[u]))
    BY Zenon, <1>3, <2>1, DecryptOrdered
  <2>2. CASE ~ (u = v /\ Opens(chain[u], Head(queue[u])))
    <3>1. keys'[v] = keys[v] /\ chain'[v] = chain[v] /\ got'[v] = got[v]
      BY Zenon, <1>3, <2>2 DEF Decrypt, Fails, SKOrder, SKInv
    <3> QED
      BY Zenon, <3>1, OthersOrdered
  <2> QED
    BY Zenon, <2>1, <2>2
<1>4. ASSUME NEW u \in Users, ReceiveKey(u) PROVE Ordered(v)'
  <2>1. CASE u = v
    BY Zenon, <1>4, <2>1, ReceiveKeyOrdered
  <2>2. CASE u # v
    <3>1. keys'[v] = keys[v] /\ chain'[v] = chain[v] /\ got'[v] = got[v]
      BY Zenon, <1>4, <2>2 DEF ReceiveKey, SKOrder, SKInv
    <3> QED
      BY Zenon, <3>1, OthersOrdered
  <2> QED
    BY Zenon, <2>1, <2>2
<1>5. ASSUME NEW u \in Users, Rotate(u) PROVE Ordered(v)'
  BY Zenon, <1>5, RotateOrdered
<1>6. ASSUME NEW u \in Users, Welcome(u) PROVE Ordered(v)'
  BY Zenon, <1>6, WelcomeOrdered
<1>7. ASSUME NEW u \in Users, Lose(u) \/ Double(u) PROVE Ordered(v)'
  BY Zenon, <1>7, OthersOrdered DEF Lose, Double, history2
<1> QED
  BY Zenon, <1>1, <1>2, <1>3, <1>4, <1>5, <1>6, <1>7 DEF SenderNext, Server

\* What a user reads of one sender key it reads in order, once, without a gap,
\* whatever is lost, doubled or late.
THEOREM SenderReadWithoutGap == SenderSpec => []ReadWithoutGap
<1>1. SenderInit => \A u \in Users : Ordered(u)
  BY DEF SenderInit, Ordered
<1>2. (stores => SKInv) /\ (stores => \A u \in Users : Ordered(u)) /\ [SenderNext]_group
        => (stores => \A u \in Users : Ordered(u))'
  BY Zenon, OrderKept, StoresStays DEF SKOrder
<1>3. (stores => \A u \in Users : Ordered(u)) => ReadWithoutGap
  BY Zenon DEF Ordered, ReadWithoutGap, After
<1>4. SenderInit => (stores => \A u \in Users : Ordered(u))
  BY Zenon, <1>1
<1> QED
  BY <1>2, <1>3, <1>4, SenderInvariant, PTL DEF SenderSpec

-----------------------------------------------------------------------------
\* One of the first n messages is the one before this step.
Before(q, n, id, step) == \E j \in 1 .. n : q[j].id = id /\ q[j].step + 1 = step

\* The messages on their way, and the next one: those of k's sender key that k
\* is not behind come one after another from k on.
Follows(q, next, k) ==
  /\ \A i \in 1 .. Len(q) : q[i].id = k.id /\ q[i].step > k.step => Before(q, i - 1, k.id, q[i].step)
  /\ next.id = k.id /\ next.step > k.step => Before(q, Len(q), k.id, next.step)

HasRead(u, msg) == \E i \in 1 .. Len(got[u]) : got[u][i] = msg

Awaits(u, id) == \E j \in 1 .. Len(keys[u]) : keys[u][j].id = id

\* The chain key and the keys on their way lead to all that is not excused.
LeadsOn(u) ==
  /\ chain[u].id \notin excused[u] => Follows(queue[u], sender, chain[u])
  /\ \A j \in 1 .. Len(keys[u]) :
       keys[u][j].id \notin excused[u] => Follows(queue[u], sender, keys[u][j])

\* A message m for the user: behind the chain key it was read, it is not behind
\* a key on its way, and it is of a sender key that the user has or awaits.
MeantFor(u, m) ==
  /\ m.key.id = chain[u].id /\ m.key.step < chain[u].step => HasRead(u, m.key)
  /\ \A j \in 1 .. Len(keys[u]) : m.key.id = keys[u][j].id => m.key.step >= keys[u][j].step
  /\ m.key.id <= chain[u].id \/ Awaits(u, m.key.id)
  /\ m.key.id = sender.id => u \in members

\* The sender is not behind a key of its own.
NotAhead(u) ==
  /\ chain[u].id = sender.id => chain[u].step <= sender.step
  /\ \A j \in 1 .. Len(keys[u]) : keys[u][j].id = sender.id => keys[u][j].step <= sender.step

\* Why a user fails to read.
Reaches(u) ==
  /\ LeadsOn(u) /\ NotAhead(u)
  /\ \A m \in sent : u \in m.to => MeantFor(u, m)
  /\ u \in members => chain[u].id = sender.id \/ Awaits(u, sender.id)
  /\ \A i \in 1 .. Len(queue[u]) : queue[u][i].id < chain[u].id => queue[u][i].id \in excused[u]
  /\ \A msg \in unread[u] : msg.id \in excused[u]

ReachInv ==
  /\ SKOrder
  /\ DOMAIN unread = Users /\ DOMAIN excused = Users
  /\ \A u \in Users : Reaches(u)

\* The sender goes on.
LEMMA FollowsEncrypt ==
  ASSUME NEW q \in Seq(Key), NEW s \in Key, NEW k \in Key, Follows(q, s, k)
  PROVE  Follows(Append(q, s), Ratchet(s), k)
<1> DEFINE r == Append(q, s)
<1>1. Len(r) = Len(q) + 1 /\ Len(q) \in Nat /\ r[Len(q) + 1] = s /\ \A i \in 1 .. Len(q) : r[i] = q[i]
  OBVIOUS
<1>2. Ratchet(s).id = s.id /\ Ratchet(s).step = s.step + 1
  BY Zenon DEF Ratchet, Key
<1> HIDE DEF r
<1>3. ASSUME NEW i \in 1 .. Len(r), r[i].id = k.id, r[i].step > k.step
      PROVE  Before(r, i - 1, k.id, r[i].step)
  <2>1. CASE i \in 1 .. Len(q)
    <3>1. Before(q, i - 1, k.id, q[i].step) /\ r[i] = q[i]
      BY Zenon, <1>1, <1>3, <2>1 DEF Follows
    <3> QED
      BY <3>1, <1>1, <2>1 DEF Before
  <2>2. CASE i = Len(q) + 1
    <3>1. Before(q, Len(q), k.id, s.step)
      BY Zenon, <1>1, <1>3, <2>2 DEF Follows
    <3> QED
      BY <3>1, <1>1, <2>2 DEF Before
  <2> QED
    BY <2>1, <2>2, <1>1
<1>4. s.id = k.id => Before(r, Len(r), k.id, s.step + 1)
  BY <1>1 DEF Before
<1> QED
  BY Zenon, <1>2, <1>3, <1>4 DEF Follows, r

\* A message that is of another sender key or behind k is gone.
LEMMA FollowsTail ==
  ASSUME NEW q \in Seq(Key), NEW s \in Key, NEW k \in Key, Follows(q, s, k), q # <<>>,
         Head(q).id # k.id \/ Head(q).step < k.step
  PROVE  Follows(Tail(q), s, k)
<1> DEFINE r == Tail(q)
<1>1. /\ Len(r) = Len(q) - 1 /\ Len(q) \in Nat /\ Len(q) >= 1 /\ Head(q) = q[1]
      /\ \A i \in 1 .. Len(q) - 1 : r[i] = q[i + 1]
  OBVIOUS
<1>2. \A i \in 1 .. Len(q) : q[i].step \in Nat
  <2>1. \A i \in 1 .. Len(q) : q[i] \in Key
    OBVIOUS
  <2> QED
    BY Zenon, <2>1 DEF Key
<1>3. k.step \in Nat /\ s.step \in Nat
  BY Zenon DEF Key
<1> HIDE DEF r
<1>4. ASSUME NEW n \in 0 .. Len(q) - 1, NEW step \in Nat, step > k.step, Before(q, n + 1, k.id, step)
      PROVE  Before(r, n, k.id, step)
  <2>1. PICK j \in 1 .. n + 1 : q[j].id = k.id /\ q[j].step + 1 = step
    BY Zenon, <1>4 DEF Before
  <2>2. j \in 1 .. Len(q)
    BY <1>1
  <2>3. q[j].step >= k.step
    BY <2>1, <2>2, <1>2, <1>3, <1>4
  <2>4. j # 1
    BY <2>1, <2>3, <1>1, <1>2, <1>3, <2>2
  <2>5. j - 1 \in 1 .. n /\ r[j - 1] = q[j]
    BY <2>2, <2>4, <1>1
  <2> QED
    BY Zenon, <2>1, <2>5 DEF Before
<1>5. ASSUME NEW i \in 1 .. Len(r), r[i].id = k.id, r[i].step > k.step
      PROVE  Before(r, i - 1, k.id, r[i].step)
  <2>1. i + 1 \in 1 .. Len(q) /\ r[i] = q[i + 1] /\ i - 1 \in 0 .. Len(q) - 1 /\ (i + 1) - 1 = (i - 1) + 1
    BY <1>1
  <2>2. Before(q, (i - 1) + 1, k.id, q[i + 1].step)
    BY Zenon, <2>1, <1>5 DEF Follows
  <2> QED
    BY Zenon, <2>1, <2>2, <1>2, <1>4, <1>5
<1>6. s.id = k.id /\ s.step > k.step => Before(r, Len(r), k.id, s.step)
  <2>1. Len(r) \in 0 .. Len(q) - 1 /\ Len(r) + 1 = Len(q)
    BY <1>1
  <2> QED
    BY Zenon, <2>1, <1>3, <1>4 DEF Follows
<1> QED
  BY Zenon, <1>5, <1>6 DEF Follows, r

\* A message is delivered and comes again.
LEMMA FollowsDouble ==
  ASSUME NEW q \in Seq(Key), NEW s \in Key, NEW k \in Key, Follows(q, s, k), q # <<>>
  PROVE  Follows(<<Head(q)>> \o q, s, k)
<1> DEFINE r == <<Head(q)>> \o q
<1>1. /\ Len(r) = Len(q) + 1 /\ Len(q) \in Nat /\ Len(q) >= 1 /\ r[1] = q[1]
      /\ \A i \in 1 .. Len(q) : r[i + 1] = q[i]
  OBVIOUS
<1> HIDE DEF r
<1>2. ASSUME NEW n \in 0 .. Len(q), NEW step, Before(q, n, k.id, step)
      PROVE  Before(r, n + 1, k.id, step)
  <2>1. PICK j \in 1 .. n : q[j].id = k.id /\ q[j].step + 1 = step
    BY Zenon, <1>2 DEF Before
  <2>2. j + 1 \in 1 .. n + 1 /\ r[j + 1] = q[j]
    BY <1>1
  <2> QED
    BY Zenon, <2>1, <2>2 DEF Before
<1>3. ASSUME NEW i \in 1 .. Len(r), r[i].id = k.id, r[i].step > k.step
      PROVE  Before(r, i - 1, k.id, r[i].step)
  <2>1. CASE i = 1
    <3>1. 1 \in 1 .. Len(q) /\ Before(q, 1 - 1, k.id, q[1].step)
      BY <1>1, <1>3, <2>1 DEF Follows
    <3> QED
      BY <3>1 DEF Before
  <2>2. CASE i # 1
    <3>1. /\ i - 1 \in 1 .. Len(q) /\ (i - 1) + 1 = i /\ (i - 1) - 1 \in 0 .. Len(q)
          /\ ((i - 1) - 1) + 1 = i - 1
      BY <1>1, <2>2
    <3>2. r[i] = q[i - 1]
      BY Zenon, <1>1, <3>1
    <3>3. Before(q, (i - 1) - 1, k.id, q[i - 1].step)
      BY Zenon, <1>3, <3>1, <3>2 DEF Follows
    <3> QED
      BY Zenon, <1>2, <3>1, <3>2, <3>3
  <2> QED
    BY Zenon, <2>1, <2>2
<1>4. s.id = k.id /\ s.step > k.step => Before(r, Len(r), k.id, s.step)
  BY <1>1, <1>2 DEF Follows
<1> QED
  BY Zenon, <1>3, <1>4 DEF Follows, r

\* A new sender key begins at step 0, and a key is behind what it was made
\* after.
LEMMA FollowsNew ==
  ASSUME NEW q \in Seq(Key), NEW s \in Key, NEW k \in Key
  PROVE  /\ \A t \in Key : t.step = 0 /\ Follows(q, s, k) => Follows(q, t, k)
         /\ (\A i \in 1 .. Len(q) : q[i].id = s.id => q[i].step < s.step) => Follows(q, s, s)
         /\ Follows(q, s, k) => Follows(q, s, Ratchet(k))
<1>1. \A i \in 1 .. Len(q) : q[i].step \in Nat
  <2>1. \A i \in 1 .. Len(q) : q[i] \in Key
    OBVIOUS
  <2> QED
    BY Zenon, <2>1 DEF Key
<1>2. k.step \in Nat /\ s.step \in Nat /\ Ratchet(k).id = k.id /\ Ratchet(k).step = k.step + 1
  BY Zenon DEF Key, Ratchet
<1>3. ASSUME NEW t \in Key, t.step = 0, Follows(q, s, k) PROVE Follows(q, t, k)
  BY <1>2, <1>3 DEF Follows
<1>4. ASSUME \A i \in 1 .. Len(q) : q[i].id = s.id => q[i].step < s.step PROVE Follows(q, s, s)
  BY <1>1, <1>2, <1>4 DEF Follows
<1>5. ASSUME Follows(q, s, k) PROVE Follows(q, s, Ratchet(k))
  BY <1>1, <1>2, <1>5 DEF Follows
<1> QED
  BY Zenon, <1>3, <1>4, <1>5

\* What is on its way was sent, and the sender is ahead of it.
LEMMA QueueSent ==
  ASSUME SKInv, NEW u \in Users, NEW i \in 1 .. Len(queue[u])
  PROVE  /\ queue[u][i] \in Key /\ queue[u][i].id \in 1 .. sender.id
         /\ queue[u][i].id = sender.id => queue[u][i].step < sender.step
         /\ \E m \in sent : m.key = queue[u][i]
<1>1. queue[u] \in Seq(SentKeys)
  BY Zenon DEF SKInv
<1>2. queue[u][i] \in SentKeys
  BY <1>1
<1>3. PICK m \in sent : m.key = queue[u][i]
  BY Zenon, <1>2 DEF SentKeys
<1>4. m.key \in Key /\ m.key.id >= 1 /\ m.key.id <= sender.id
      /\ (m.key.id = sender.id => m.key.step < sender.step)
  BY Zenon DEF SKInv
<1>5. m.key.id \in Nat /\ sender.id \in Nat
  BY Zenon, <1>4 DEF SKInv, Key
<1> QED
  BY <1>3, <1>4, <1>5

\* In the beginning nothing has been sent.
LEMMA ReachStarts == SenderInit => \A u \in Users : Reaches(u)
<1> SUFFICES ASSUME SenderInit, NEW u \in Users PROVE Reaches(u)
  BY Zenon
<1>1. /\ queue[u] = <<>> /\ keys[u] = <<>> /\ sent = {} /\ unread[u] = {}
      /\ sender.id = 1 /\ sender.step = 0 /\ chain[u].step = 0
      /\ (u \in members => chain[u].id = sender.id)
  BY Zenon DEF SenderInit, GenerateSenderKey, NoKey
<1>2. Len(queue[u]) = 0 /\ Len(keys[u]) = 0
  BY Zenon, <1>1
<1>3. LeadsOn(u)
  BY <1>1, <1>2 DEF LeadsOn, Follows
<1>4. NotAhead(u)
  BY <1>1, <1>2 DEF NotAhead
<1> QED
  BY <1>1, <1>2, <1>3, <1>4 DEF Reaches

\* A user with whom nothing changes.
LEMMA ReachesFrame ==
  ASSUME NEW v \in Users, Reaches(v), sender' = sender, sent' = sent, (v \in members)' = (v \in members),
         queue'[v] = queue[v], chain'[v] = chain[v], keys'[v] = keys[v], got'[v] = got[v],
         unread'[v] = unread[v], excused'[v] = excused[v]
  PROVE  Reaches(v)'
<1>1. LeadsOn(v)' /\ NotAhead(v)'
  BY Zenon DEF Reaches, LeadsOn, NotAhead
<1>2. ASSUME NEW m \in sent, v \in m.to PROVE MeantFor(v, m)'
  BY <1>2 DEF Reaches, MeantFor, HasRead, Awaits
<1>3. v \in members' => chain'[v].id = sender'.id \/ Awaits(v, sender.id)'
  BY Zenon DEF Reaches, Awaits
<1> QED
  BY Zenon, <1>1, <1>2, <1>3 DEF Reaches

\* Encrypt sends the next message of the chain to all members.
LEMMA EncryptReaches ==
  ASSUME ReachInv, Encrypt, NEW v \in Users
  PROVE  Reaches(v)'
<1>1. /\ queue'[v] = Append(queue[v], sender) /\ sender' = Ratchet(sender)
      /\ sent' = sent \cup {[key |-> sender, to |-> members]}
      /\ UNCHANGED <<members, chain, keys, got, unread, excused>>
  BY Zenon DEF Encrypt
<1>2. SKInv /\ Reaches(v)
  BY Zenon DEF ReachInv, SKOrder
<1>3. chain[v] \in Key /\ keys[v] \in Seq(Key) /\ queue[v] \in Seq(Key) /\ sender \in Key
  BY Zenon, <1>2, UserTypes
<1>4. sender'.id = sender.id /\ sender'.step = sender.step + 1 /\ sender.step \in Nat /\ sender.id \in Nat
  BY Zenon, <1>1, <1>3 DEF Ratchet, Key
<1>5. \A j \in 1 .. Len(keys[v]) : keys[v][j] \in Key /\ keys[v][j].step \in Nat
  <2>1. \A j \in 1 .. Len(keys[v]) : keys[v][j] \in Key
    BY <1>3
  <2> QED
    BY Zenon, <2>1 DEF Key
<1>6. chain[v].step \in Nat /\ chain[v].id \in Nat /\ chain[v].id <= sender.id
  BY Zenon, <1>2, <1>3 DEF SKInv, Good, Key
<1>7. LeadsOn(v)'
  <2>1. LeadsOn(v)
    BY Zenon, <1>2 DEF Reaches
  <2>2. chain[v].id \notin excused[v] => Follows(Append(queue[v], sender), Ratchet(sender), chain[v])
    BY Zenon, <2>1, <1>3, FollowsEncrypt DEF LeadsOn
  <2>3. ASSUME NEW j \in 1 .. Len(keys[v]), keys[v][j].id \notin excused[v]
        PROVE  Follows(Append(queue[v], sender), Ratchet(sender), keys[v][j])
    BY Zenon, <2>1, <2>3, <1>3, <1>5, FollowsEncrypt DEF LeadsOn
  <2> QED
    BY Zenon, <2>2, <2>3, <1>1 DEF LeadsOn
<1>8. NotAhead(v)'
  <2>1. NotAhead(v)
    BY Zenon, <1>2 DEF Reaches
  <2>2. chain[v].id = sender.id => chain[v].step <= sender.step + 1
    BY <2>1, <1>4, <1>6 DEF NotAhead
  <2>3. \A j \in 1 .. Len(keys[v]) : keys[v][j].id = sender.id => keys[v][j].step <= sender.step + 1
    BY <2>1, <1>4, <1>5 DEF NotAhead
  <2> QED
    BY Zenon, <2>2, <2>3, <1>1, <1>4 DEF NotAhead
<1>9. ASSUME NEW m \in sent', v \in m.to PROVE MeantFor(v, m)'
  <2>1. CASE m \in sent
    <3>1. MeantFor(v, m)
      BY Zenon, <1>2, <1>9, <2>1 DEF Reaches
    <3> QED
      BY Zenon, <3>1, <1>1, <1>4 DEF MeantFor, HasRead, Awaits
  <2>2. CASE m = [key |-> sender, to |-> members]
    <3>1. m.key = sender /\ v \in members
      BY Zenon, <1>9, <2>2
    <3>2. /\ chain[v].id = sender.id => chain[v].step <= sender.step
          /\ \A j \in 1 .. Len(keys[v]) : keys[v][j].id = sender.id => keys[v][j].step <= sender.step
      BY Zenon, <1>2 DEF Reaches, NotAhead
    <3>3. chain[v].id = sender.id \/ Awaits(v, sender.id)
      BY Zenon, <1>2, <3>1 DEF Reaches
    <3>4. ~ (sender.id = chain[v].id /\ sender.step < chain[v].step)
      BY <3>2, <1>4, <1>6
    <3>5. \A j \in 1 .. Len(keys[v]) : sender.id = keys[v][j].id => sender.step >= keys[v][j].step
      BY Zenon, <3>2, <1>4, <1>5
    <3>6. m.key.id <= chain'[v].id \/ Awaits(v, m.key.id)'
      BY <3>1, <3>3, <1>1, <1>4 DEF Awaits
    <3>7. m.key.id = chain'[v].id /\ m.key.step < chain'[v].step => HasRead(v, m.key)'
      BY Zenon, <3>1, <3>4, <1>1
    <3>8. \A j \in 1 .. Len(keys'[v]) : m.key.id = keys'[v][j].id => m.key.step >= keys'[v][j].step
      BY Zenon, <3>1, <3>5, <1>1
    <3> QED
      BY Zenon, <3>1, <3>6, <3>7, <3>8, <1>1 DEF MeantFor
  <2> QED
    BY Zenon, <2>1, <2>2, <1>1
<1>10. v \in members' => chain'[v].id = sender'.id \/ Awaits(v, sender.id)'
  BY Zenon, <1>1, <1>2, <1>4 DEF Reaches, Awaits
<1>11. ASSUME NEW i \in 1 .. Len(queue'[v]), queue'[v][i].id < chain'[v].id
       PROVE  queue'[v][i].id \in excused'[v]
  <2>1. (i \in 1 .. Len(queue[v]) /\ queue'[v][i] = queue[v][i]) \/ queue'[v][i] = sender
    BY <1>1, <1>3
  <2>2. queue'[v][i] # sender
    BY <1>1, <1>4, <1>6, <1>11
  <2> QED
    BY Zenon, <2>1, <2>2, <1>1, <1>2, <1>11 DEF Reaches
<1> QED
  BY Zenon, <1>1, <1>2, <1>4, <1>7, <1>8, <1>9, <1>10, <1>11 DEF Reaches

\* The types of the keys and messages of a user, one by one.
LEMMA UserFields ==
  ASSUME SKInv, NEW u \in Users
  PROVE  /\ chain[u] \in Key /\ chain[u].step \in Nat /\ chain[u].id \in Nat
         /\ sender \in Key /\ sender.step \in Nat /\ sender.id \in Nat
         /\ queue[u] \in Seq(Key)
         /\ \A j \in 1 .. Len(keys[u]) :
              keys[u][j] \in Key /\ keys[u][j].step \in Nat /\ keys[u][j].id \in Nat
         /\ \A m \in sent : m.key \in Key /\ m.key.step \in Nat /\ m.key.id \in Nat
<1>1. chain[u] \in Key /\ keys[u] \in Seq(Key) /\ queue[u] \in Seq(Key) /\ sender \in Key
  BY Zenon, UserTypes
<1>2. \A j \in 1 .. Len(keys[u]) : keys[u][j] \in Key
  BY <1>1
<1>3. \A m \in sent : m.key \in Key
  BY Zenon DEF SKInv
<1>4. \A k \in Key : k.step \in Nat /\ k.id \in Nat
  BY Zenon DEF Key
<1> QED
  BY Zenon, <1>1, <1>2, <1>3, <1>4

\* Two keys of one sender key and step are one.
LEMMA SameKey ==
  ASSUME NEW k \in Key, NEW l \in Key, k.id = l.id, k.step = l.step
  PROVE  k = l
BY DEF Key

\* Decrypt: the message is read.
LEMMA DecryptReaches ==
  ASSUME ReachInv, NEW u \in Users, Decrypt(u), Opens(chain[u], Head(queue[u]))
  PROVE  Reaches(u)'
<1> DEFINE k == chain[u]
<1>0. SKInv /\ Ordered(u) /\ Reaches(u)
  BY Zenon DEF ReachInv, SKOrder
<1>1. /\ queue[u] # <<>> /\ Head(queue[u]) = k
      /\ queue'[u] = Tail(queue[u]) /\ chain'[u] = Ratchet(k) /\ got'[u] = Append(got[u], k)
      /\ UNCHANGED <<members, sender, keys, sent, unread, excused>>
  BY Zenon, <1>0 DEF Decrypt, Opens, SKInv
<1>2. /\ k \in Key /\ k.step \in Nat /\ k.id \in Nat /\ sender \in Key /\ queue[u] \in Seq(Key)
      /\ \A j \in 1 .. Len(keys[u]) : keys[u][j] \in Key /\ keys[u][j].id \in Nat
      /\ sender.step \in Nat
  BY Zenon, <1>0, UserFields
<1>3. \A m \in sent : m.key \in Key /\ m.key.step \in Nat
  BY Zenon, <1>0, UserFields
<1>4. got[u] \in Seq(Key)
  BY Zenon, <1>0, UserTypes
<1>5. chain'[u].id = k.id /\ chain'[u].step = k.step + 1
  BY Zenon, <1>1, <1>2 DEF Ratchet, Key
<1>6. Len(queue[u]) >= 1 /\ queue[u][1] = k /\ Len(queue[u]) \in Nat
      /\ \A i \in 1 .. Len(queue'[u]) : i + 1 \in 1 .. Len(queue[u]) /\ queue'[u][i] = queue[u][i + 1]
  BY <1>1, <1>2
<1>7. LeadsOn(u)'
  <2>1. LeadsOn(u)
    BY Zenon, <1>0 DEF Reaches
  <2>2. ASSUME k.id \notin excused[u] PROVE Follows(Tail(queue[u]), sender, Ratchet(k))
    <3>1. Follows(queue[u], sender, Ratchet(k)) /\ Ratchet(k) \in Key
      BY <2>1, <2>2, <1>2, FollowsNew DEF LeadsOn, Ratchet, Key
    <3>2. Head(queue[u]).step < Ratchet(k).step
      BY <1>1, <1>2, <1>5
    <3> QED
      BY Zenon, <3>1, <3>2, <1>1, <1>2, FollowsTail
  <2>3. ASSUME NEW j \in 1 .. Len(keys[u]), keys[u][j].id \notin excused[u]
        PROVE  Follows(Tail(queue[u]), sender, keys[u][j])
    <3>1. Head(queue[u]).id # keys[u][j].id
      BY <1>0, <1>1, <1>2 DEF Ordered
    <3> QED
      BY Zenon, <2>1, <2>3, <3>1, <1>1, <1>2, FollowsTail DEF LeadsOn
  <2> QED
    BY Zenon, <2>2, <2>3, <1>1, <1>5 DEF LeadsOn
<1>8. NotAhead(u)'
  <2>1. k.id = sender.id => k.step < sender.step
    <3>1. 1 \in 1 .. Len(queue[u])
      BY <1>6
    <3> QED
      BY <3>1, <1>0, <1>6, QueueSent
  <2>2. k.id = sender.id => k.step + 1 <= sender.step
    BY <2>1, <1>2
  <2> QED
    BY Zenon, <2>2, <1>0, <1>1, <1>5 DEF Reaches, NotAhead
<1>9. ASSUME NEW msg, HasRead(u, msg) \/ msg = k PROVE HasRead(u, msg)'
  <2>1. Len(got'[u]) = Len(got[u]) + 1 /\ Len(got[u]) \in Nat /\ got'[u][Len(got[u]) + 1] = k
        /\ \A i \in 1 .. Len(got[u]) : got'[u][i] = got[u][i]
    BY <1>1, <1>4
  <2> QED
    BY <2>1, <1>9 DEF HasRead
<1>10. ASSUME NEW m \in sent, u \in m.to PROVE MeantFor(u, m)'
  <2>1. MeantFor(u, m)
    BY Zenon, <1>0, <1>10 DEF Reaches
  <2>2. ASSUME m.key.id = k.id, m.key.step < k.step + 1 PROVE HasRead(u, m.key)'
    <3>1. m.key.step < k.step \/ m.key.step = k.step
      BY <2>2, <1>2, <1>3
    <3>2. m.key.step = k.step => m.key = k
      BY Zenon, <2>2, <1>2, <1>3, SameKey
    <3> QED
      BY Zenon, <3>1, <3>2, <2>1, <2>2, <1>9 DEF MeantFor
  <2> QED
    BY Zenon, <2>1, <2>2, <1>1, <1>5 DEF MeantFor, Awaits
<1>11. u \in members' => chain'[u].id = sender'.id \/ Awaits(u, sender.id)'
  BY Zenon, <1>0, <1>1, <1>5 DEF Reaches, Awaits
<1>12. \A i \in 1 .. Len(queue'[u]) : queue'[u][i].id < chain'[u].id => queue'[u][i].id \in excused'[u]
  BY Zenon, <1>0, <1>1, <1>5, <1>6 DEF Reaches
<1> QED
  BY Zenon, <1>0, <1>1, <1>7, <1>8, <1>10, <1>11, <1>12 DEF Reaches

\* Decrypt: the message is not read.
LEMMA FailsReaches ==
  ASSUME ReachInv, NEW u \in Users, Decrypt(u), ~ Opens(chain[u], Head(queue[u]))
  PROVE  Reaches(u)'
<1> DEFINE k == chain[u]
           msg == queue[u][1]
<1>0. SKInv /\ Reaches(u) /\ DOMAIN unread = Users /\ DOMAIN excused = Users
  BY Zenon DEF ReachInv, SKOrder
<1>1. /\ queue[u] # <<>> /\ Head(queue[u]) = msg /\ msg # k
      /\ queue'[u] = Tail(queue[u])
      /\ UNCHANGED <<members, sender, keys, sent, chain, got>>
      /\ Fails(u, Head(queue[u]))
  <2>1. /\ queue[u] # <<>> /\ queue'[u] = Tail(queue[u])
        /\ UNCHANGED <<members, sender, keys, sent, chain>>
        /\ Fails(u, Head(queue[u]))
    BY Zenon, <1>0 DEF Decrypt, SKInv
  <2>2. UNCHANGED got
    BY Zenon, <2>1 DEF Fails
  <2>3. Head(queue[u]) = msg
    BY <1>0, <2>1
  <2>4. Head(queue[u]) # k
    BY Zenon DEF Opens
  <2> QED
    BY Zenon, <2>1, <2>2, <2>3, <2>4
<1>2. /\ k \in Key /\ k.step \in Nat /\ k.id \in Nat /\ sender \in Key /\ queue[u] \in Seq(Key)
      /\ \A j \in 1 .. Len(keys[u]) : keys[u][j] \in Key /\ keys[u][j].id \in Nat
  BY Zenon, <1>0, UserFields
<1>3. 1 \in 1 .. Len(queue[u]) /\ Len(queue[u]) \in Nat
      /\ \A i \in 1 .. Len(queue'[u]) : i + 1 \in 1 .. Len(queue[u]) /\ queue'[u][i] = queue[u][i + 1]
  BY <1>1, <1>2
<1>4. msg \in Key /\ msg.step \in Nat /\ msg.id \in Nat
  BY Zenon, <1>0, <1>3, QueueSent DEF Key
<1> HIDE DEF k, msg
<1>5. /\ excused[u] \subseteq excused'[u]
      /\ Awaits(u, msg.id) => msg.id \in excused'[u]
  BY Zenon, <1>0, <1>1 DEF Fails, Awaits
<1>6. \A x \in unread'[u] : x \in unread[u] \/ (x = msg /\ WasMember(u, msg) /\ ~ HasRead(u, msg))
  <2> DEFINE new == WasMember(u, msg) /\ \A i \in 1 .. Len(got[u]) : got[u][i] # msg
  <2>1. unread'[u] = IF new THEN unread[u] \cup {msg} ELSE unread[u]
    BY Zenon, <1>0, <1>1 DEF Fails
  <2>2. new => WasMember(u, msg) /\ ~ HasRead(u, msg)
    BY Zenon DEF HasRead
  <2> HIDE DEF new
  <2> QED
    BY Zenon, <2>1, <2>2
<1>7. ASSUME msg.id = k.id, k.id \notin excused[u] PROVE msg.step < k.step
  <2>1. Follows(queue[u], sender, k)
    BY Zenon, <1>0, <1>7 DEF Reaches, LeadsOn, k
  <2>2. ~ (msg.step > k.step)
    BY <2>1, <1>3, <1>7 DEF Follows, Before, msg
  <2>3. msg.step # k.step
    BY Zenon, <1>1, <1>2, <1>4, <1>7, SameKey
  <2> QED
    BY <2>2, <2>3, <1>2, <1>4
<1>8. LeadsOn(u)'
  <2>1. LeadsOn(u)
    BY Zenon, <1>0 DEF Reaches
  <2>2. ASSUME k.id \notin excused'[u] PROVE Follows(Tail(queue[u]), sender, k)
    <3>1. Follows(queue[u], sender, k) /\ (msg.id # k.id \/ msg.step < k.step)
      BY Zenon, <2>1, <2>2, <1>5, <1>7 DEF LeadsOn, k
    <3> QED
      BY Zenon, <3>1, <1>1, <1>2, FollowsTail
  <2>3. ASSUME NEW j \in 1 .. Len(keys[u]), keys[u][j].id \notin excused'[u]
        PROVE  Follows(Tail(queue[u]), sender, keys[u][j])
    <3>1. msg.id # keys[u][j].id /\ keys[u][j].id \notin excused[u]
      BY Zenon, <2>3, <1>5 DEF Awaits
    <3> QED
      BY Zenon, <2>1, <3>1, <1>1, <1>2, FollowsTail DEF LeadsOn
  <2> QED
    BY Zenon, <2>2, <2>3, <1>1 DEF LeadsOn, k
<1>9. NotAhead(u)'
  BY Zenon, <1>0, <1>1 DEF Reaches, NotAhead
<1>10. ASSUME NEW m \in sent, u \in m.to PROVE MeantFor(u, m)'
  BY Zenon, <1>0, <1>1, <1>10 DEF Reaches, MeantFor, HasRead, Awaits
<1>11. ASSUME WasMember(u, msg), ~ HasRead(u, msg) PROVE msg.id \in excused'[u]
  <2>1. PICK m \in sent : m.key = msg /\ u \in m.to
    BY Zenon, <1>11 DEF WasMember
  <2>2. MeantFor(u, m)
    BY Zenon, <2>1, <1>0 DEF Reaches
  <2>3. CASE Awaits(u, msg.id)
    BY Zenon, <2>3, <1>5
  <2>4. CASE msg.id < k.id
    BY Zenon, <2>4, <1>0, <1>3, <1>5 DEF Reaches, k, msg
  <2>5. CASE msg.id = k.id
    BY Zenon, <2>1, <2>2, <2>5, <1>5, <1>7, <1>11 DEF MeantFor, k
  <2> QED
    BY <2>1, <2>2, <2>3, <2>4, <2>5, <1>2, <1>4 DEF MeantFor, k
<1>12. \A x \in unread'[u] : x.id \in excused'[u]
  BY Zenon, <1>0, <1>5, <1>6, <1>11 DEF Reaches
<1>13. u \in members' => chain'[u].id = sender'.id \/ Awaits(u, sender.id)'
  BY Zenon, <1>0, <1>1 DEF Reaches, Awaits
<1>14. \A i \in 1 .. Len(queue'[u]) : queue'[u][i].id < chain'[u].id => queue'[u][i].id \in excused'[u]
  BY Zenon, <1>0, <1>1, <1>3, <1>5 DEF Reaches
<1> QED
  BY Zenon, <1>1, <1>8, <1>9, <1>10, <1>12, <1>13, <1>14 DEF Reaches

\* FromDistribution.
LEMMA ReceiveKeyReaches ==
  ASSUME ReachInv, NEW u \in Users, ReceiveKey(u)
  PROVE  Reaches(u)'
<1>0. SKInv /\ Ordered(u) /\ Reaches(u) /\ DOMAIN excused = Users
  BY Zenon DEF ReachInv, SKOrder
<1>1. /\ keys[u] # <<>> /\ keys'[u] = Tail(keys[u]) /\ chain'[u] = keys[u][1]
      /\ excused'[u] = excused[u] \cup
           {queue[u][i].id : i \in {j \in 1 .. Len(queue[u]) : queue[u][j].id < Head(keys[u]).id}}
      /\ UNCHANGED <<members, sender, queue, sent, got, unread>>
  BY <1>0 DEF ReceiveKey, SKInv
<1>2. keys[u] \in Seq(Key)
  BY Zenon, <1>0, UserTypes
<1>3. /\ 1 \in 1 .. Len(keys[u]) /\ Head(keys[u]) = keys[u][1]
      /\ \A j \in 1 .. Len(keys'[u]) : j + 1 \in 1 .. Len(keys[u]) /\ keys'[u][j] = keys[u][j + 1]
      /\ \A j \in 1 .. Len(keys[u]) : j # 1 => j - 1 \in 1 .. Len(keys'[u]) /\ keys'[u][j - 1] = keys[u][j]
  BY <1>1, <1>2
<1>4. \A i \in 1 .. Len(queue[u]) : queue[u][i].id < keys[u][1].id => queue[u][i].id \in excused'[u]
  BY Zenon, <1>1, <1>3
<1>5. excused[u] \subseteq excused'[u]
  BY Zenon, <1>1
<1>6. /\ chain[u].id \in Nat /\ sender.id \in Nat /\ keys[u][1].id \in Nat
      /\ \A m \in sent : m.key.id \in Nat /\ m.key.step \in Nat
      /\ keys[u][1].step \in Nat
  BY Zenon, <1>0, <1>3, UserFields
<1>7. keys[u][1].id > chain[u].id /\ keys[u][1].id <= sender.id
  <2>1. keys[u] \in Seq(Good(u))
    BY Zenon, <1>0 DEF SKInv
  <2>2. keys[u][1] \in Good(u)
    BY <1>3, <2>1
  <2> QED
    BY Zenon, <1>0, <1>3, <2>2 DEF Ordered, Good
<1>8. ASSUME NEW id, Awaits(u, id) PROVE id = chain'[u].id \/ Awaits(u, id)'
  <2>1. PICK j \in 1 .. Len(keys[u]) : keys[u][j].id = id
    BY Zenon, <1>8 DEF Awaits
  <2> QED
    BY Zenon, <2>1, <1>1, <1>3 DEF Awaits
<1>9. LeadsOn(u)'
  <2>1. \A j \in 1 .. Len(keys[u]) :
          keys[u][j].id \notin excused'[u] => Follows(queue[u], sender, keys[u][j])
    BY Zenon, <1>0, <1>5 DEF Reaches, LeadsOn
  <2> QED
    BY Zenon, <2>1, <1>1, <1>3 DEF LeadsOn
<1>10. NotAhead(u)'
  <2>1. \A j \in 1 .. Len(keys[u]) : keys[u][j].id = sender.id => keys[u][j].step <= sender.step
    BY Zenon, <1>0 DEF Reaches, NotAhead
  <2> QED
    BY <2>1, <1>1, <1>3 DEF NotAhead
<1>11. ASSUME NEW m \in sent, u \in m.to PROVE MeantFor(u, m)'
  <2>1. MeantFor(u, m)
    BY Zenon, <1>0, <1>11 DEF Reaches
  <2>2. \A j \in 1 .. Len(keys[u]) : m.key.id = keys[u][j].id => m.key.step >= keys[u][j].step
    BY Zenon, <2>1 DEF MeantFor
  <2>3. ~ (m.key.id = chain'[u].id /\ m.key.step < chain'[u].step)
    BY <2>2, <1>1, <1>3, <1>6
  <2>4. ASSUME NEW j \in 1 .. Len(keys'[u]), m.key.id = keys'[u][j].id
        PROVE  m.key.step >= keys'[u][j].step
    <3>1. j + 1 \in 1 .. Len(keys[u]) /\ keys'[u][j] = keys[u][j + 1]
      BY Zenon, <1>3
    <3> QED
      BY Zenon, <3>1, <2>2, <2>4
  <2>5. m.key.id <= chain'[u].id \/ Awaits(u, m.key.id)'
    <3>1. CASE m.key.id <= chain[u].id
      BY <3>1, <1>1, <1>6, <1>7
    <3>2. CASE Awaits(u, m.key.id)
      BY <3>2, <1>6, <1>8
    <3> QED
      BY Zenon, <2>1, <3>1, <3>2 DEF MeantFor
  <2>6. m.key.id = sender'.id => u \in members'
    BY Zenon, <2>1, <1>1 DEF MeantFor
  <2> QED
    BY Zenon, <2>3, <2>4, <2>5, <2>6 DEF MeantFor
<1>12. ASSUME u \in members' PROVE chain'[u].id = sender'.id \/ Awaits(u, sender.id)'
  <2>1. Awaits(u, sender.id)
    BY <1>0, <1>1, <1>6, <1>7, <1>12 DEF Reaches
  <2> QED
    BY Zenon, <2>1, <1>1, <1>8 DEF Awaits
<1> QED
  BY Zenon, <1>0, <1>1, <1>4, <1>5, <1>9, <1>10, <1>11, <1>12 DEF Reaches

\* The keys on their way to a user to whom key n is sent.
LEMMA AppendedKeys ==
  ASSUME NEW v \in Users, keys[v] \in Seq(Key), NEW n \in Key, keys'[v] = Append(keys[v], n)
  PROVE  /\ \A j \in 1 .. Len(keys'[v]) :
              (j \in 1 .. Len(keys[v]) /\ keys'[v][j] = keys[v][j]) \/ keys'[v][j] = n
         /\ \A id : Awaits(v, id) \/ id = n.id => Awaits(v, id)'
<1>1. /\ Len(keys'[v]) = Len(keys[v]) + 1 /\ Len(keys[v]) \in Nat /\ keys'[v][Len(keys[v]) + 1] = n
      /\ \A j \in 1 .. Len(keys[v]) : keys'[v][j] = keys[v][j]
  OBVIOUS
<1>2. \A j \in 1 .. Len(keys'[v]) :
        (j \in 1 .. Len(keys[v]) /\ keys'[v][j] = keys[v][j]) \/ keys'[v][j] = n
  BY <1>1
<1>3. ASSUME NEW id, Awaits(v, id) \/ id = n.id PROVE Awaits(v, id)'
  BY <1>1, <1>3 DEF Awaits
<1> QED
  BY Zenon, <1>2, <1>3

\* RotationMemberRemoved.
LEMMA RotateReaches ==
  ASSUME ReachInv, NEW u \in Users, Rotate(u), NEW v \in Users
  PROVE  Reaches(v)'
<1>0. SKInv /\ Reaches(v)
  BY Zenon DEF ReachInv, SKOrder
<1>1. /\ sender' = GenerateSenderKey(sender.id + 1)
      /\ keys'[v] = IF v \in members' THEN Append(keys[v], sender') ELSE keys[v]
      /\ UNCHANGED <<chain, queue, sent, got, unread, excused>>
  BY Zenon DEF Rotate, Distribute, history2
<1>2. /\ chain[v] \in Key /\ chain[v].id \in Nat /\ sender \in Key /\ sender.id \in Nat
      /\ queue[v] \in Seq(Key)
      /\ \A j \in 1 .. Len(keys[v]) : keys[v][j] \in Key
  BY Zenon, <1>0, UserFields
<1>3. keys[v] \in Seq(Key)
  BY Zenon, <1>0, UserTypes
<1>4. sender' \in Key /\ sender'.id = sender.id + 1 /\ sender'.step = 0
  BY <1>1, <1>2 DEF GenerateSenderKey, Key
<1>5. \A j \in 1 .. Len(keys'[v]) :
        (j \in 1 .. Len(keys[v]) /\ keys'[v][j] = keys[v][j]) \/ keys'[v][j] = sender'
  BY Zenon, <1>1, <1>3, <1>4, AppendedKeys
<1>6. ASSUME NEW id, Awaits(v, id) PROVE Awaits(v, id)'
  <2>1. CASE v \in members'
    BY Zenon, <2>1, <1>1, <1>3, <1>4, <1>6, AppendedKeys
  <2>2. CASE v \notin members'
    BY Zenon, <2>2, <1>1, <1>6 DEF Awaits
  <2> QED
    BY Zenon, <2>1, <2>2
<1>7. chain[v].id <= sender.id /\ \A j \in 1 .. Len(keys[v]) : keys[v][j].id <= sender.id
  <2>1. chain[v] \in Good(v) /\ keys[v] \in Seq(Good(v))
    BY Zenon, <1>0 DEF SKInv
  <2>2. \A j \in 1 .. Len(keys[v]) : keys[v][j] \in Good(v)
    BY <2>1
  <2> QED
    BY Zenon, <2>1, <2>2 DEF Good
<1>8. LeadsOn(v)'
  <2>1. LeadsOn(v)
    BY Zenon, <1>0 DEF Reaches
  <2>2. chain[v].id \notin excused[v] => Follows(queue[v], sender', chain[v])
    BY Zenon, <2>1, <1>2, <1>4, FollowsNew DEF LeadsOn
  <2>3. \A j \in 1 .. Len(keys[v]) : keys[v][j].id \notin excused[v] => Follows(queue[v], sender', keys[v][j])
    BY Zenon, <2>1, <1>2, <1>4, FollowsNew DEF LeadsOn
  <2>4. \A i \in 1 .. Len(queue[v]) : queue[v][i].id # sender'.id
    <3> TAKE i \in 1 .. Len(queue[v])
    <3>1. queue[v][i].id \in 1 .. sender.id
      BY Zenon, <1>0, QueueSent
    <3> QED
      BY <3>1, <1>2, <1>4
  <2>5. Follows(queue[v], sender', sender')
    BY Zenon, <2>4, <1>2, <1>4, FollowsNew
  <2> QED
    BY Zenon, <2>2, <2>3, <2>5, <1>1, <1>5 DEF LeadsOn
<1>9. NotAhead(v)'
  <2>1. chain[v].id # sender'.id /\ \A j \in 1 .. Len(keys[v]) : keys[v][j].id # sender'.id
    <3>1. \A j \in 1 .. Len(keys[v]) : keys[v][j].id \in Nat
      BY Zenon, <1>0, UserFields
    <3> QED
      BY <3>1, <1>2, <1>4, <1>7
  <2> QED
    BY <2>1, <1>1, <1>4, <1>5 DEF NotAhead
<1>10. ASSUME NEW m \in sent, v \in m.to PROVE MeantFor(v, m)'
  <2>1. MeantFor(v, m)
    BY Zenon, <1>0, <1>10 DEF Reaches
  <2>2. m.key.id # sender'.id
    <3>1. m.key.id \in Nat /\ m.key.id <= sender.id
      BY Zenon, <1>0, UserFields DEF SKInv
    <3> QED
      BY <3>1, <1>2, <1>4
  <2>3. \A j \in 1 .. Len(keys'[v]) : m.key.id = keys'[v][j].id => m.key.step >= keys'[v][j].step
    BY Zenon, <2>1, <2>2, <1>5 DEF MeantFor
  <2>4. m.key.id = chain[v].id /\ m.key.step < chain[v].step => HasRead(v, m.key)'
    BY Zenon, <2>1, <1>1 DEF MeantFor, HasRead
  <2>5. m.key.id <= chain[v].id \/ Awaits(v, m.key.id)'
    BY Zenon, <2>1, <1>6 DEF MeantFor
  <2> QED
    BY Zenon, <2>2, <2>3, <2>4, <2>5, <1>1 DEF MeantFor
<1>11. v \in members' => Awaits(v, sender.id)'
  <2> SUFFICES ASSUME v \in members' PROVE \E j \in 1 .. Len(keys'[v]) : keys'[v][j].id = sender'.id
    BY Zenon DEF Awaits
  <2>1. Len(keys'[v]) = Len(keys[v]) + 1 /\ keys'[v][Len(keys[v]) + 1] = sender' /\ Len(keys[v]) \in Nat
    BY <1>1, <1>3
  <2> QED
    BY <2>1
<1> QED
  BY Zenon, <1>0, <1>1, <1>8, <1>9, <1>10, <1>11 DEF Reaches

\* RotationMemberAdded.
LEMMA WelcomeReaches ==
  ASSUME stores, ReachInv, NEW u \in Users, Welcome(u)
  PROVE  Reaches(u)'
<1>0. SKInv /\ Reaches(u)
  BY Zenon DEF ReachInv, SKOrder
<1>1. /\ u \notin members /\ u \in members' /\ keys'[u] = Append(keys[u], sender)
      /\ UNCHANGED <<sender, chain, queue, sent, got, unread, excused>>
  BY Zenon DEF Welcome, ToDistribution, Distribute, history2
<1>2. sender \in Key /\ sender.step \in Nat /\ queue[u] \in Seq(Key)
  BY Zenon, <1>0, UserFields
<1>3. keys[u] \in Seq(Key)
  BY Zenon, <1>0, UserTypes
<1>4. \A j \in 1 .. Len(keys'[u]) :
        (j \in 1 .. Len(keys[u]) /\ keys'[u][j] = keys[u][j]) \/ keys'[u][j] = sender
  BY Zenon, <1>1, <1>2, <1>3, AppendedKeys
<1>5. \A id : Awaits(u, id) \/ id = sender.id => Awaits(u, id)'
  BY Zenon, <1>1, <1>2, <1>3, AppendedKeys
<1>6. LeadsOn(u)'
  <2>1. \A i \in 1 .. Len(queue[u]) : queue[u][i].id = sender.id => queue[u][i].step < sender.step
    BY Zenon, <1>0, QueueSent
  <2>2. Follows(queue[u], sender, sender)
    BY Zenon, <2>1, <1>2, FollowsNew
  <2> QED
    BY Zenon, <2>2, <1>0, <1>1, <1>4 DEF Reaches, LeadsOn
<1>7. NotAhead(u)'
  BY <1>0, <1>1, <1>2, <1>4 DEF Reaches, NotAhead
<1>8. ASSUME NEW m \in sent, u \in m.to PROVE MeantFor(u, m)'
  <2>1. MeantFor(u, m) /\ m.key.id # sender.id
    BY Zenon, <1>0, <1>1, <1>8 DEF Reaches, MeantFor
  <2>2. \A j \in 1 .. Len(keys'[u]) : m.key.id = keys'[u][j].id => m.key.step >= keys'[u][j].step
    BY Zenon, <2>1, <1>4 DEF MeantFor
  <2>3. m.key.id <= chain[u].id \/ Awaits(u, m.key.id)'
    BY Zenon, <2>1, <1>5 DEF MeantFor
  <2> QED
    BY Zenon, <2>1, <2>2, <2>3, <1>1 DEF MeantFor, HasRead
<1>9. Awaits(u, sender.id)'
  BY Zenon, <1>1, <1>5 DEF Awaits
<1> QED
  BY Zenon, <1>0, <1>1, <1>6, <1>7, <1>8, <1>9 DEF Reaches

\* A message is lost, and its sender key is excused.
LEMMA LoseReaches ==
  ASSUME ReachInv, NEW u \in Users, Lose(u)
  PROVE  Reaches(u)'
<1>0. SKInv /\ Reaches(u) /\ DOMAIN excused = Users
  BY Zenon DEF ReachInv, SKOrder
<1>1. /\ queue[u] # <<>> /\ queue'[u] = Tail(queue[u])
      /\ excused'[u] = excused[u] \cup {Head(queue[u]).id}
      /\ UNCHANGED <<members, sender, chain, keys, sent, got, unread>>
  BY Zenon, <1>0 DEF Lose, SKInv
<1>2. /\ chain[u] \in Key /\ sender \in Key /\ queue[u] \in Seq(Key)
      /\ \A j \in 1 .. Len(keys[u]) : keys[u][j] \in Key
  BY Zenon, <1>0, UserFields
<1>3. \A i \in 1 .. Len(queue'[u]) : i + 1 \in 1 .. Len(queue[u]) /\ queue'[u][i] = queue[u][i + 1]
  BY <1>1, <1>2
<1>4. LeadsOn(u)'
  <2>1. ASSUME NEW k \in Key, k.id \notin excused'[u], Follows(queue[u], sender, k)
        PROVE  Follows(Tail(queue[u]), sender, k)
    <3>1. Head(queue[u]).id # k.id
      BY Zenon, <2>1, <1>1
    <3> QED
      BY Zenon, <2>1, <3>1, <1>1, <1>2, FollowsTail
  <2>2. chain[u].id \notin excused'[u] => Follows(Tail(queue[u]), sender, chain[u])
    BY Zenon, <2>1, <1>0, <1>1, <1>2 DEF Reaches, LeadsOn
  <2>3. \A j \in 1 .. Len(keys[u]) :
          keys[u][j].id \notin excused'[u] => Follows(Tail(queue[u]), sender, keys[u][j])
    BY Zenon, <2>1, <1>0, <1>1, <1>2 DEF Reaches, LeadsOn
  <2> QED
    BY Zenon, <2>2, <2>3, <1>1 DEF LeadsOn
<1>5. NotAhead(u)'
  BY Zenon, <1>0, <1>1 DEF Reaches, NotAhead
<1>6. ASSUME NEW m \in sent, u \in m.to PROVE MeantFor(u, m)'
  BY Zenon, <1>0, <1>1, <1>6 DEF Reaches, MeantFor, HasRead, Awaits
<1>7. u \in members' => chain'[u].id = sender'.id \/ Awaits(u, sender.id)'
  BY Zenon, <1>0, <1>1 DEF Reaches, Awaits
<1>8. \A i \in 1 .. Len(queue'[u]) : queue'[u][i].id < chain'[u].id => queue'[u][i].id \in excused'[u]
  BY Zenon, <1>0, <1>1, <1>3 DEF Reaches
<1> QED
  BY Zenon, <1>0, <1>1, <1>4, <1>5, <1>6, <1>7, <1>8 DEF Reaches

\* A message is doubled.
LEMMA DoubleReaches ==
  ASSUME ReachInv, NEW u \in Users, Double(u)
  PROVE  Reaches(u)'
<1>0. SKInv /\ Reaches(u)
  BY Zenon DEF ReachInv, SKOrder
<1>1. /\ queue[u] # <<>> /\ queue'[u] = <<Head(queue[u])>> \o queue[u]
      /\ UNCHANGED <<members, sender, chain, keys, sent, got, unread, excused>>
  BY Zenon, <1>0 DEF Double, SKInv, history2
<1>2. /\ chain[u] \in Key /\ sender \in Key /\ queue[u] \in Seq(Key)
      /\ \A j \in 1 .. Len(keys[u]) : keys[u][j] \in Key
  BY Zenon, <1>0, UserFields
<1>3. \A i \in 1 .. Len(queue'[u]) : \E j \in 1 .. Len(queue[u]) : queue'[u][i] = queue[u][j]
  <2> SUFFICES ASSUME NEW i \in 1 .. Len(queue'[u])
               PROVE  \E j \in 1 .. Len(queue[u]) : queue'[u][i] = queue[u][j]
    BY Zenon
  <2>1. Len(queue[u]) \in Nat /\ Len(queue[u]) >= 1 /\ Len(queue'[u]) = Len(queue[u]) + 1
    BY <1>1, <1>2
  <2>2. CASE i = 1
    <3>1. queue'[u][i] = queue[u][1]
      BY <1>1, <1>2, <2>2
    <3> QED
      BY <2>1, <3>1
  <2>3. CASE i # 1
    <3>1. i - 1 \in 1 .. Len(queue[u])
      BY <2>1, <2>3
    <3>2. queue'[u][i] = queue[u][i - 1]
      BY <1>1, <1>2, <2>1, <2>3
    <3> QED
      BY Zenon, <3>1, <3>2
  <2> QED
    BY Zenon, <2>2, <2>3
<1>4. LeadsOn(u)'
  <2>1. chain[u].id \notin excused[u] => Follows(<<Head(queue[u])>> \o queue[u], sender, chain[u])
    BY Zenon, <1>0, <1>1, <1>2, FollowsDouble DEF Reaches, LeadsOn
  <2>2. \A j \in 1 .. Len(keys[u]) :
          keys[u][j].id \notin excused[u] => Follows(<<Head(queue[u])>> \o queue[u], sender, keys[u][j])
    BY Zenon, <1>0, <1>1, <1>2, FollowsDouble DEF Reaches, LeadsOn
  <2> QED
    BY Zenon, <2>1, <2>2, <1>1 DEF LeadsOn
<1>5. NotAhead(u)'
  BY Zenon, <1>0, <1>1 DEF Reaches, NotAhead
<1>6. ASSUME NEW m \in sent, u \in m.to PROVE MeantFor(u, m)'
  BY Zenon, <1>0, <1>1, <1>6 DEF Reaches, MeantFor, HasRead, Awaits
<1>7. u \in members' => chain'[u].id = sender'.id \/ Awaits(u, sender.id)'
  BY Zenon, <1>0, <1>1 DEF Reaches, Awaits
<1>8. \A i \in 1 .. Len(queue'[u]) : queue'[u][i].id < chain'[u].id => queue'[u][i].id \in excused'[u]
  BY Zenon, <1>0, <1>1, <1>3 DEF Reaches
<1> QED
  BY Zenon, <1>0, <1>1, <1>4, <1>5, <1>6, <1>7, <1>8 DEF Reaches

\* Every step keeps it for every user.
LEMMA ReachKept ==
  ASSUME stores, ReachInv, [SenderNext]_group
  PROVE  /\ \A v \in Users : Reaches(v)'
         /\ DOMAIN unread' = Users /\ DOMAIN excused' = Users
<1>0. DOMAIN unread = Users /\ DOMAIN excused = Users /\ SKInv /\ \A v \in Users : Reaches(v)
  BY Zenon DEF ReachInv, SKOrder
<1>1. DOMAIN unread' = Users /\ DOMAIN excused' = Users
  BY Zenon, <1>0 DEF SenderNext, group, Encrypt, Decrypt, Fails, ReceiveKey, RemoveMember, AddMember,
    Event, Rotate, Welcome, Lose, Double, history2
<1> SUFFICES ASSUME NEW v \in Users PROVE Reaches(v)'
  BY Zenon, <1>1
<1>2. CASE Server \/ UNCHANGED group
  BY Zenon, <1>0, <1>2, ReachesFrame, ServerFrame
<1>3. CASE Encrypt
  BY Zenon, <1>3, EncryptReaches
<1>4. ASSUME NEW u \in Users, Decrypt(u) PROVE Reaches(v)'
  <2>1. CASE u = v
    BY Zenon, <1>4, <2>1, DecryptReaches, FailsReaches
  <2>2. CASE u # v
    <3>1. /\ queue'[v] = queue[v] /\ chain'[v] = chain[v] /\ got'[v] = got[v]
          /\ unread'[v] = unread[v] /\ excused'[v] = excused[v]
          /\ UNCHANGED <<members, sender, keys, sent>>
      BY Zenon, <1>0, <1>4, <2>2 DEF Decrypt, Fails, SKInv
    <3> QED
      BY Zenon, <1>0, <3>1, ReachesFrame
  <2> QED
    BY Zenon, <2>1, <2>2
<1>5. ASSUME NEW u \in Users, ReceiveKey(u) PROVE Reaches(v)'
  <2>1. CASE u = v
    BY Zenon, <1>5, <2>1, ReceiveKeyReaches
  <2>2. CASE u # v
    <3>1. /\ chain'[v] = chain[v] /\ keys'[v] = keys[v] /\ excused'[v] = excused[v]
          /\ UNCHANGED <<members, sender, queue, sent, got, unread>>
      BY Zenon, <1>0, <1>5, <2>2 DEF ReceiveKey, SKInv
    <3> QED
      BY Zenon, <1>0, <3>1, ReachesFrame
  <2> QED
    BY Zenon, <2>1, <2>2
<1>6. ASSUME NEW u \in Users, Rotate(u) PROVE Reaches(v)'
  BY Zenon, <1>6, RotateReaches
<1>7. ASSUME NEW u \in Users, Welcome(u) PROVE Reaches(v)'
  <2>1. CASE u = v
    BY Zenon, <1>7, <2>1, WelcomeReaches
  <2>2. CASE u # v
    <3>1. /\ keys'[v] = keys[v] /\ (v \in members)' = (v \in members)
          /\ UNCHANGED <<sender, chain, queue, sent, got, unread, excused>>
      BY <1>7, <2>2 DEF Welcome, ToDistribution, Distribute, history2
    <3> QED
      BY Zenon, <1>0, <3>1, ReachesFrame
  <2> QED
    BY Zenon, <2>1, <2>2
<1>8. ASSUME NEW u \in Users, Lose(u) \/ Double(u) PROVE Reaches(v)'
  <2>1. CASE u = v
    BY Zenon, <1>8, <2>1, LoseReaches, DoubleReaches
  <2>2. CASE u # v
    <3>1. /\ queue'[v] = queue[v] /\ excused'[v] = excused[v]
          /\ UNCHANGED <<members, sender, chain, keys, sent, got, unread>>
      BY Zenon, <1>0, <1>8, <2>2 DEF Lose, Double, SKInv, history2
    <3> QED
      BY Zenon, <1>0, <3>1, ReachesFrame
  <2> QED
    BY Zenon, <2>1, <2>2
<1> QED
  BY Zenon, <1>2, <1>3, <1>4, <1>5, <1>6, <1>7, <1>8 DEF SenderNext, Server

\* For any group and any history of rotations: a member fails to read a message
\* only when one of its sender key was lost, or that key came late, or a newer
\* one early; Decrypt keeps the chain key after an error, so that a doubled
\* message does no harm.
THEOREM SenderUnreadForCause == SenderSpec => []UnreadForCause
<1>1. SenderInit => ReachInv
  <2>1. SenderInit => \A u \in Users : Ordered(u)
    BY DEF SenderInit, Ordered
  <2>2. SenderInit => DOMAIN unread = Users /\ DOMAIN excused = Users
    BY Zenon DEF SenderInit
  <2> QED
    BY Zenon, <2>1, <2>2, SenderStarts, ReachStarts DEF ReachInv, SKOrder
<1>2. (stores => SKInv)' /\ (stores => ReachInv) /\ [SenderNext]_group => (stores => ReachInv)'
  BY Zenon, OrderKept, ReachKept, StoresStays DEF ReachInv, SKOrder
<1>3. (stores => ReachInv) => UnreadForCause
  BY Zenon DEF ReachInv, Reaches, UnreadForCause
<1>4. SenderInit => (stores => ReachInv)
  BY Zenon, <1>1
<1> QED
  BY <1>2, <1>3, <1>4, SenderInvariant, PTL DEF SenderSpec

-----------------------------------------------------------------------------
(***************************************************************************)
(* The handshakes of the crypto handler.                                   *)
(***************************************************************************)
Roles == {"initiator", "responder"}
Working == {"read", "reading", "write", "writing"}
ProcState ==
  [pc : Working \cup {"refused", "not found", "done"}, id : Handshakes, msg : 0 .. 3, index : 0 .. 3]

HandlerTypeOK ==
  /\ handshakes \subseteq Handshakes
  /\ role \in [Handshakes -> Roles \cup {"none"}]
  /\ index \in [Handshakes -> 0 .. 3]
  /\ DOMAIN proc = Processes
  /\ \A c \in Processes : proc[c] = [pc |-> "new"] \/ proc[c] \in ProcState
  /\ \A c \in Processes : proc[c].pc \in {"reading", "writing"} => proc[c].index <= 2
  /\ peer \in [Handshakes -> 0 .. 3]
  /\ answers \in [Handshakes -> [0 .. 2 -> Nat]]
  /\ states \in [Handshakes -> Nat]
  /\ DOMAIN brought = Handshakes

\* What a message is made for, and what the call that brings it leaves behind.
Start(m) == IF m = NoMessage THEN 0 ELSE m
AnswersAt(m) == IF m = NoMessage THEN 0 ELSE m + 1
End(m) == CASE m = 0 -> 2 [] m = NoMessage -> 1 [] OTHER -> 3
Brought(r) == CASE r = "initiator" -> {NoMessage, 1} [] r = "responder" -> {0, 2} [] OTHER -> {}

\* A call of a handshake whose calls do not overlap, at the server's index i.
BusyOK(p, i) ==
  /\ p.msg \in Brought(role[p.id])
  /\ p.msg # NoMessage => p.msg < peer[p.id]
  /\ p.pc \in {"read", "reading"} => p.msg # NoMessage
  /\ p.pc = "reading" => p.index = i /\ p.msg = i
  /\ p.pc = "writing" => p.index = i /\ i <= 2 /\ Writer(i) = role[p.id]

\* Its state is as far as the index: so many messages are written and read,
\* and neither side is ahead of what the other has written.
ExchangeOK(h) ==
  /\ \A c, d \in Busy(h) : c = d
  /\ \A c \in Busy(h) : BusyOK(proc[c], index[h])
  /\ role[h] = "none" => index[h] = 0 /\ peer[h] = 0 /\ brought[h] = {}
  /\ states[h] = IF index[h] = 3 THEN 1 ELSE 0
  /\ h \in handshakes <=> role[h] # "none" /\ index[h] # 3
  /\ \A i \in 0 .. 2 :
       /\ answers[h][i] = IF i < index[h] /\ Writer(i) = role[h] THEN 1 ELSE 0
       /\ i < index[h] /\ Writer(i) # role[h] => i < peer[h]
       /\ i < peer[h] /\ Writer(i) = role[h] => i < index[h]

\* When moreover every message is brought once, each finds the index it is
\* made for.
OnceOK(h) ==
  /\ \A c \in Busy(h) :
       /\ proc[c].pc \in {"read", "reading"} => index[h] = proc[c].msg
       /\ proc[c].pc \in {"write", "writing"} => index[h] = AnswersAt(proc[c].msg) /\ proc[c].msg # 2
       /\ proc[c].msg \in brought[h]
  /\ brought[h] \subseteq Brought(role[h])
  /\ \A m \in brought[h] : (\E c \in Busy(h) : proc[c].msg = m) \/ index[h] >= End(m)
  /\ \A m \in Brought(role[h]) \ brought[h] : index[h] <= Start(m)

RefusedForCause ==
  \A c \in Processes :
    proc[c].pc \in {"refused", "not found"} => proc[c].id \in repeated \cup overlapped

HandlerInv ==
  /\ HandlerTypeOK
  /\ \A h \in Handshakes \ overlapped : ExchangeOK(h)
  /\ \A h \in Handshakes \ (overlapped \cup repeated) : OnceOK(h)
  /\ RefusedForCause

\* Nothing has begun.
LEMMA HandlerStarts == HandlerInit => HandlerInv
<1> SUFFICES ASSUME HandlerInit PROVE HandlerInv
  BY Zenon
<1>1. HandlerTypeOK
  BY DEF HandlerInit, HandlerTypeOK, Roles
<1>2. \A h \in Handshakes : Busy(h) = {}
  BY Zenon DEF HandlerInit, Busy
<1>3. \A h \in Handshakes : ExchangeOK(h)
  BY <1>2 DEF HandlerInit, ExchangeOK
<1>4. \A h \in Handshakes : OnceOK(h)
  BY Zenon, <1>2 DEF HandlerInit, OnceOK, Brought
<1>5. RefusedForCause
  BY Zenon DEF HandlerInit, RefusedForCause
<1> QED
  BY Zenon, <1>1, <1>3, <1>4, <1>5 DEF HandlerInv

\* A handshake keeps its invariants when neither its state nor its calls
\* change.
LEMMA HandshakeFrame ==
  ASSUME NEW h \in Handshakes, role'[h] = role[h], index'[h] = index[h], peer'[h] = peer[h],
         answers'[h] = answers[h], states'[h] = states[h], brought'[h] = brought[h],
         h \in handshakes' <=> h \in handshakes,
         Busy(h)' = Busy(h), \A c \in Busy(h) : proc'[c] = proc[c]
  PROVE  /\ ExchangeOK(h) => ExchangeOK(h)'
         /\ OnceOK(h) => OnceOK(h)'
<1>1. \A c \in Busy(h) : proc[c].id = h
  BY Zenon DEF Busy
<1>2. ASSUME ExchangeOK(h) PROVE ExchangeOK(h)'
  <2>1. \A c \in Busy(h) : BusyOK(proc[c], index[h])'
    BY <1>1, <1>2 DEF ExchangeOK, BusyOK
  <2> QED
    BY Zenon, <1>2, <2>1 DEF ExchangeOK
<1>3. ASSUME OnceOK(h) PROVE OnceOK(h)'
  BY <1>3 DEF OnceOK
<1> QED
  BY Zenon, <1>2, <1>3

\* A call that goes on disturbs the calls of its own handshake only.
LEMMA OtherHandshakes ==
  ASSUME HandlerTypeOK, NEW c \in Processes, NEW h \in Handshakes,
         proc[c].pc = "new" \/ proc[c].id # h,
         NEW q, proc' = [proc EXCEPT ![c] = q], q.id # h
  PROVE  Busy(h)' = Busy(h) /\ \A d \in Busy(h) : proc'[d] = proc[d]
<1>1. \A d \in Processes : d # c => proc'[d] = proc[d]
  BY Zenon DEF HandlerTypeOK
<1>2. proc'[c] = q
  BY Zenon DEF HandlerTypeOK
<1>3. c \notin Busy(h) /\ c \notin Busy(h)'
  BY Zenon, <1>2 DEF Busy
<1> QED
  BY Zenon, <1>1, <1>3 DEF Busy

\* InitiateHandshake makes a handshake with nothing written or read.
LEMMA InitiateHandshakeKeeps ==
  ASSUME HandlerInv, NEW h \in Handshakes, NEW r \in {"initiator", "responder"}, InitiateHandshake(h, r)
  PROVE  HandlerInv'
<1>1. HandlerTypeOK'
  <2>1. /\ handshakes' \subseteq Handshakes /\ role' \in [Handshakes -> Roles \cup {"none"}]
        /\ UNCHANGED <<index, proc, peer, answers, states, brought>>
    BY Zenon DEF HandlerInv, HandlerTypeOK, InitiateHandshake, Roles, history
  <2> QED
    BY Zenon, <2>1 DEF HandlerInv, HandlerTypeOK
<1>2. UNCHANGED <<index, proc, peer, answers, states, brought, repeated, overlapped>>
      /\ role[h] = "none" /\ role'[h] = r /\ h \in handshakes'
      /\ \A g \in Handshakes : g # h => role'[g] = role[g] /\ (g \in handshakes' <=> g \in handshakes)
  BY Zenon DEF InitiateHandshake, history, HandlerInv, HandlerTypeOK
<1>3. \A g \in Handshakes : Busy(g)' = Busy(g) /\ \A c \in Busy(g) : proc'[c] = proc[c]
  BY Zenon, <1>2 DEF Busy
<1>4. ASSUME NEW g \in Handshakes, g # h
      PROVE  (ExchangeOK(g) => ExchangeOK(g)') /\ (OnceOK(g) => OnceOK(g)')
  BY Zenon, <1>2, <1>3, <1>4, HandshakeFrame
<1>5. ASSUME ExchangeOK(h)
      PROVE  Busy(h) = {} /\ index[h] = 0 /\ peer[h] = 0 /\ brought[h] = {}
  <2>1. index[h] = 0 /\ peer[h] = 0 /\ brought[h] = {}
    BY Zenon, <1>2, <1>5 DEF ExchangeOK
  <2>2. ASSUME NEW c \in Busy(h) PROVE FALSE
    <3>1. BusyOK(proc[c], index[h]) /\ proc[c].id = h
      BY Zenon, <1>5 DEF ExchangeOK, Busy
    <3> QED
      BY Zenon, <3>1, <1>2 DEF BusyOK, Brought
  <2> QED
    BY Zenon, <2>1, <2>2
<1>6. ExchangeOK(h) => ExchangeOK(h)'
  <2>s. SUFFICES ASSUME ExchangeOK(h) PROVE ExchangeOK(h)'
    BY Zenon
  <2>0. 0 # 3 /\ \A i \in 0 .. 2 : ~ (i < 0)
    OBVIOUS
  <2>1. index'[h] = 0 /\ peer'[h] = 0 /\ Busy(h)' = {} /\ states'[h] = 0
    BY Zenon, <2>s, <2>0, <1>2, <1>3, <1>5 DEF ExchangeOK
  <2>2. \A i \in 0 .. 2 : answers'[h][i] = 0
    BY Zenon, <2>s, <2>0, <1>2, <1>5 DEF ExchangeOK
  <2> QED
    BY Zenon, <2>0, <2>1, <2>2, <1>2 DEF ExchangeOK, Roles
<1>7. ExchangeOK(h) /\ OnceOK(h) => OnceOK(h)'
  BY <1>2, <1>3, <1>5 DEF OnceOK, Brought, Start, NoMessage
<1>8. RefusedForCause'
  BY Zenon, <1>2 DEF HandlerInv, RefusedForCause
<1> QED
  BY Zenon, <1>1, <1>2, <1>4, <1>6, <1>7, <1>8 DEF HandlerInv

\* The peer writes or reads its next message.
LEMMA PeerStepsKeeps ==
  ASSUME HandlerInv, NEW h \in Handshakes, PeerSteps(h)
  PROVE  HandlerInv'
<1>1. HandlerTypeOK'
  <2>1. /\ peer' \in [Handshakes -> 0 .. 3]
        /\ UNCHANGED <<handshakes, role, index, proc, answers, states, brought>>
    BY DEF HandlerInv, HandlerTypeOK, PeerSteps, history
  <2> QED
    BY Zenon, <2>1 DEF HandlerInv, HandlerTypeOK
<1>2. UNCHANGED <<handshakes, role, index, proc, answers, states, brought, repeated, overlapped>>
      /\ role[h] # "none" /\ peer[h] \in 0 .. 2 /\ peer'[h] = peer[h] + 1
      /\ (Writer(peer[h]) = role[h] => answers[h][peer[h]] > 0)
      /\ \A g \in Handshakes : g # h => peer'[g] = peer[g]
  BY DEF PeerSteps, history, HandlerInv, HandlerTypeOK
<1>3. \A g \in Handshakes : Busy(g)' = Busy(g) /\ \A c \in Busy(g) : proc'[c] = proc[c]
  BY Zenon, <1>2 DEF Busy
<1>4. ASSUME NEW g \in Handshakes, g # h
      PROVE  (ExchangeOK(g) => ExchangeOK(g)') /\ (OnceOK(g) => OnceOK(g)')
  BY Zenon, <1>2, <1>3, <1>4, HandshakeFrame
<1>5. ASSUME ExchangeOK(h) PROVE ExchangeOK(h)'
  <2>1. \A i \in 0 .. 2 : i < peer[h] + 1 /\ Writer(i) = role[h] => i < index[h]
    BY <1>2, <1>5 DEF ExchangeOK
  <2>2. \A i \in 0 .. 2 :
          /\ answers[h][i] = IF i < index[h] /\ Writer(i) = role[h] THEN 1 ELSE 0
          /\ i < index[h] /\ Writer(i) # role[h] => i < peer[h] + 1
    BY <1>2, <1>5 DEF ExchangeOK
  <2>3. \A c \in Busy(h) : BusyOK(proc[c], index[h])'
    <3> TAKE c \in Busy(h)
    <3>1. BusyOK(proc[c], index[h]) /\ proc[c].id = h /\ proc[c] \in ProcState
      BY <1>5 DEF ExchangeOK, Busy, HandlerInv, HandlerTypeOK
    <3>2. proc[c].msg \in 0 .. 3
      BY Zenon, <3>1 DEF ProcState
    <3> QED
      BY <3>1, <3>2, <1>2 DEF BusyOK
  <2> QED
    BY Zenon, <2>1, <2>2, <2>3, <1>2, <1>3, <1>5 DEF ExchangeOK
<1>6. OnceOK(h) => OnceOK(h)'
  BY Zenon, <1>2, <1>3 DEF OnceOK
<1>7. RefusedForCause'
  BY Zenon, <1>2 DEF HandlerInv, RefusedForCause
<1> QED
  BY Zenon, <1>1, <1>2, <1>4, <1>5, <1>6, <1>7 DEF HandlerInv

\* The record of a call with another place.
LEMMA FieldsMove ==
  ASSUME NEW r \in ProcState, NEW p, NEW i
  PROVE  [r EXCEPT !.pc = p, !.index = i] = [pc |-> p, id |-> r.id, msg |-> r.msg, index |-> i]
<1>0. r = [pc |-> r.pc, id |-> r.id, msg |-> r.msg, index |-> r.index]
  BY Zenon DEF ProcState
<1>1. ASSUME NEW s, s = [pc |-> r.pc, id |-> r.id, msg |-> r.msg, index |-> r.index]
      PROVE  [s EXCEPT !.pc = p] = [pc |-> p, id |-> r.id, msg |-> r.msg, index |-> r.index]
  BY <1>1
<1>2. [r EXCEPT !.pc = p, !.index = i] = [[r EXCEPT !.pc = p] EXCEPT !.index = i]
  BY Zenon
<1>3. ASSUME NEW s, s = [pc |-> p, id |-> r.id, msg |-> r.msg, index |-> r.index]
      PROVE  [s EXCEPT !.index = i] = [pc |-> p, id |-> r.id, msg |-> r.msg, index |-> i]
  BY <1>3
<1> QED
  BY Zenon, <1>0, <1>1, <1>2, <1>3

\* A call that has not begun.
LEMMA NotBegun ==
  ASSUME NEW r, r.pc # "new"
  PROVE  r # [pc |-> "new"]
OBVIOUS

\* A call goes on: the others stay where they are.
LEMMA CallMoves ==
  ASSUME HandlerTypeOK, NEW c \in Processes, proc[c].pc # "new",
         NEW p \in Working \cup {"refused", "not found", "done"}, NEW i \in 0 .. 3, At(c, p, i),
         p \in {"reading", "writing"} => i <= 2
  PROVE  /\ proc[c] \in ProcState
         /\ proc' = [proc EXCEPT ![c] =
              [pc |-> p, id |-> proc[c].id, msg |-> proc[c].msg, index |-> i]]
         /\ DOMAIN proc' = Processes
         /\ \A d \in Processes : proc'[d] = [pc |-> "new"] \/ proc'[d] \in ProcState
         /\ \A d \in Processes : proc'[d].pc \in {"reading", "writing"} => proc'[d].index <= 2
<1>1. proc[c] \in ProcState
  <2>1. proc[c] # [pc |-> "new"]
    BY Zenon, NotBegun
  <2> QED
    BY Zenon, <2>1 DEF HandlerTypeOK
<1>2. proc' = [proc EXCEPT ![c] =
        [pc |-> p, id |-> proc[c].id, msg |-> proc[c].msg, index |-> i]]
  <2>1. proc' = [proc EXCEPT ![c] = [proc[c] EXCEPT !.pc = p, !.index = i]]
    BY Zenon DEF At, HandlerTypeOK
  <2>2. [proc[c] EXCEPT !.pc = p, !.index = i] =
          [pc |-> p, id |-> proc[c].id, msg |-> proc[c].msg, index |-> i]
    BY Zenon, <1>1, FieldsMove
  <2> QED
    BY Zenon, <2>1, <2>2
<1>3. [pc |-> p, id |-> proc[c].id, msg |-> proc[c].msg, index |-> i] \in ProcState
  BY Zenon, <1>1 DEF ProcState
<1>4. /\ DOMAIN proc' = Processes
      /\ \A d \in Processes : proc'[d] = [pc |-> "new"] \/ proc'[d] \in ProcState
  BY Zenon, <1>2, <1>3 DEF HandlerTypeOK
<1>5. ASSUME NEW d \in Processes, proc'[d].pc \in {"reading", "writing"} PROVE proc'[d].index <= 2
  <2>1. CASE d = c
    <3>1. proc'[c].pc = p /\ proc'[c].index = i
      BY Zenon, <1>2 DEF HandlerTypeOK
    <3> QED
      BY Zenon, <3>1, <2>1, <1>5
  <2>2. CASE d # c
    <3>1. proc'[d] = proc[d]
      BY Zenon, <1>2, <2>2 DEF HandlerTypeOK
    <3> QED
      BY Zenon, <3>1, <1>5 DEF HandlerTypeOK
  <2> QED
    BY Zenon, <2>1, <2>2
<1> QED
  BY Zenon, <1>1, <1>2, <1>4, <1>5

\* The calls of a handshake after one of them went on.
LEMMA BusyMoves ==
  ASSUME HandlerTypeOK, NEW c \in Processes, NEW h, proc[c].id = h, proc[c].pc \in Working, ExchangeOK(h),
         NEW p, NEW m, NEW i, proc' = [proc EXCEPT ![c] = [pc |-> p, id |-> h, msg |-> m, index |-> i]]
  PROVE  /\ Busy(h) = {c}
         /\ p \in Working => Busy(h)' = {c}
         /\ p \notin Working => Busy(h)' = {}
<1>1. c \in Busy(h)
  BY Zenon DEF Busy, Working
<1>2. Busy(h) = {c}
  BY Zenon, <1>1 DEF ExchangeOK
<1>3. \A d \in Processes : d # c => proc'[d] = proc[d]
  BY Zenon DEF HandlerTypeOK
<1>4. proc'[c].pc = p /\ proc'[c].id = h
  BY Zenon DEF HandlerTypeOK
<1>5. Busy(h)' = IF p \in Working THEN {c} ELSE {}
  <2>1. \A d \in Processes : d # c => ~ (proc'[d].pc \in Working /\ proc'[d].id = h)
    BY Zenon, <1>2, <1>3 DEF Busy, Working
  <2> QED
    BY Zenon, <2>1, <1>4 DEF Busy, Working
<1> QED
  BY Zenon, <1>2, <1>5

\* A call enters the library or is refused there.
LEMMA EnteredKeeps ==
  ASSUME HandlerInv, NEW c \in Processes, proc[c].pc \in Working,
         NEW p \in {"reading", "writing", "refused"}, NEW i \in 0 .. 3, At(c, p, i),
         UNCHANGED <<handshakes, role, index, peer, answers, history>>,
         p # "refused" => i = index[proc[c].id] /\ i <= 2,
         p = "reading" => proc[c].pc = "read" /\ proc[c].msg = i,
         p = "writing" => proc[c].pc = "write" /\ Writer(i) = role[proc[c].id],
         p = "refused" => proc[c].id \in repeated \cup overlapped
  PROVE  HandlerInv'
<1>0. HandlerTypeOK /\ UNCHANGED <<states, brought, repeated, overlapped>>
  BY Zenon DEF HandlerInv, history
<1> DEFINE q == [pc |-> p, id |-> proc[c].id, msg |-> proc[c].msg, index |-> i]
<1>1. /\ proc[c] \in ProcState
      /\ proc' = [proc EXCEPT ![c] = q]
      /\ DOMAIN proc' = Processes
      /\ \A d \in Processes : proc'[d] = [pc |-> "new"] \/ proc'[d] \in ProcState
      /\ \A d \in Processes : proc'[d].pc \in {"reading", "writing"} => proc'[d].index <= 2
  BY Zenon, <1>0, CallMoves DEF Working
<1>2. HandlerTypeOK'
  BY Zenon, <1>0, <1>1 DEF HandlerTypeOK
<1>3. ASSUME NEW h \in Handshakes, h # proc[c].id
      PROVE  (ExchangeOK(h) => ExchangeOK(h)') /\ (OnceOK(h) => OnceOK(h)')
  <2>0. q.id # h
    BY Zenon, <1>3
  <2> HIDE DEF q
  <2>1. Busy(h)' = Busy(h) /\ \A d \in Busy(h) : proc'[d] = proc[d]
    BY ZenonT(60), <2>0, <1>0, <1>1, <1>3, OtherHandshakes
  <2> QED
    BY Zenon, <2>1, <1>0, HandshakeFrame
<1>4. ASSUME NEW h \in Handshakes, h = proc[c].id, ExchangeOK(h)
      PROVE  ExchangeOK(h)'
  <2>1. Busy(h) = {c} /\ (p \in Working => Busy(h)' = {c}) /\ (p \notin Working => Busy(h)' = {})
    BY Zenon, <1>0, <1>1, <1>4, BusyMoves
  <2>2. BusyOK(proc[c], index[h])
    BY Zenon, <2>1, <1>4 DEF ExchangeOK
  <2>3. proc'[c] = q
    BY Zenon, <1>0, <1>1 DEF HandlerTypeOK
  <2>4. p \in Working => BusyOK(proc[c], index[h])'
    <3>1. q.pc = p /\ q.id = h /\ q.msg = proc[c].msg /\ q.index = i
      BY Zenon, <1>4
    <3> QED
      BY Zenon, <2>2, <2>3, <3>1, <1>4 DEF BusyOK, Working
  <2> QED
    BY Zenon, <2>1, <2>4, <1>0, <1>4 DEF ExchangeOK
<1>5. ASSUME NEW h \in Handshakes, h = proc[c].id, ExchangeOK(h), OnceOK(h), h \notin overlapped \cup repeated
      PROVE  OnceOK(h)'
  <2>0. p \in Working
    BY Zenon, <1>5 DEF Working
  <2>1. Busy(h) = {c} /\ Busy(h)' = {c}
    BY Zenon, <2>0, <1>0, <1>1, <1>5, BusyMoves
  <2>2. proc'[c] = q
    BY Zenon, <1>0, <1>1 DEF HandlerTypeOK
  <2> QED
    <3>1. q.pc = p /\ q.msg = proc[c].msg
      BY Zenon
    <3>2. /\ p = "reading" => index[h] = proc[c].msg
          /\ p = "writing" => index[h] = AnswersAt(proc[c].msg) /\ proc[c].msg # 2
      BY Zenon, <2>1, <1>5 DEF OnceOK
    <3> QED
      <4> HIDE DEF q
      <4>1. \A d \in Busy(h)' : d = c
        BY Zenon, <2>1
      <4>2. /\ proc'[c].pc \in {"read", "reading"} => index'[h] = proc'[c].msg
            /\ proc'[c].pc \in {"write", "writing"} => index'[h] = AnswersAt(proc'[c].msg) /\ proc'[c].msg # 2
            /\ proc'[c].msg \in brought'[h]
        BY Zenon, <2>1, <2>2, <3>1, <3>2, <1>0, <1>5 DEF OnceOK
      <4> QED
        BY ZenonT(60), <4>1, <4>2, <2>1, <2>2, <3>1, <1>0, <1>5 DEF OnceOK
<1>6. RefusedForCause'
  <2>1. \A d \in Processes : d # c => proc'[d] = proc[d]
    BY Zenon, <1>0, <1>1 DEF HandlerTypeOK
  <2>2. proc'[c].pc = p /\ proc'[c].id = proc[c].id
    BY Zenon, <1>0, <1>1 DEF HandlerTypeOK
  <2>3. p = "refused" \/ p \notin {"refused", "not found"}
    BY Zenon
  <2> QED
    BY Zenon, <2>1, <2>2, <2>3, <1>0 DEF HandlerInv, RefusedForCause
<1> QED
  BY Zenon, <1>0, <1>2, <1>3, <1>4, <1>5, <1>6 DEF HandlerInv

\* A call enters ReadMessage or WriteMessage of the library.
LEMMA EnterKeeps ==
  ASSUME HandlerInv, NEW c \in Processes, EnterRead(c) \/ EnterWrite(c)
  PROVE  HandlerInv'
<1> DEFINE h == proc[c].id
           i == index[h]
<1>0. HandlerTypeOK /\ proc[c].pc \in Working /\ proc[c].pc # "new"
  BY Zenon DEF HandlerInv, EnterRead, EnterWrite, Enter, Working
<1>1. proc[c] \in ProcState
  BY Zenon, <1>0, NotBegun DEF HandlerTypeOK
<1>2. h \in Handshakes /\ i \in 0 .. 3 /\ proc[c].msg \in 0 .. 3
  BY Zenon, <1>0, <1>1 DEF HandlerTypeOK, ProcState
<1>3. c \in Busy(h)
  BY Zenon, <1>0 DEF Busy, Working
<1>4. ASSUME h \notin repeated \cup overlapped
      PROVE  /\ proc[c].msg \in Brought(role[h])
             /\ proc[c].pc = "read" => i = proc[c].msg /\ proc[c].msg # NoMessage
             /\ proc[c].pc = "write" => i = AnswersAt(proc[c].msg) /\ proc[c].msg # 2
  <2>1. ExchangeOK(h) /\ OnceOK(h)
    BY Zenon, <1>2, <1>4 DEF HandlerInv
  <2>2. BusyOK(proc[c], i)
    BY Zenon, <1>3, <2>1 DEF ExchangeOK
  <2> QED
    BY Zenon, <2>1, <2>2, <1>3 DEF OnceOK, BusyOK
<1>5. CASE EnterRead(c)
  <2> DEFINE p == IF i <= 2 /\ Writer(i) # role[h] /\ proc[c].msg = i THEN "reading" ELSE "refused"
  <2>1. proc[c].pc = "read" /\ At(c, p, i)
        /\ UNCHANGED <<handshakes, role, index, peer, answers, history>>
    <3> DEFINE mine == [j \in 0 .. 2 |-> Writer(j) # role[h] /\ proc[c].msg = j]
    <3>1. proc[c].pc = "read" /\ At(c, IF i <= 2 /\ mine[i] THEN "reading" ELSE "refused", i)
          /\ UNCHANGED <<handshakes, role, index, peer, answers, history>>
      BY Zenon, <1>5 DEF EnterRead, Enter
    <3>2. i <= 2 => mine[i] = (Writer(i) # role[h] /\ proc[c].msg = i)
      <4>1. i <= 2 => i \in 0 .. 2
        BY <1>2
      <4> QED
        BY Zenon, <4>1
    <3> HIDE DEF mine
    <3>3. (IF i <= 2 /\ mine[i] THEN "reading" ELSE "refused") = p
      BY Zenon, <3>2
    <3> QED
      BY Zenon, <3>1, <3>3
  <2>2. ASSUME h \notin repeated \cup overlapped PROVE p = "reading"
    BY <2>1, <2>2, <1>2, <1>4 DEF Brought, Writer, NoMessage
  <2> QED
    BY Zenon, <1>0, <1>2, <2>1, <2>2, EnteredKeeps
<1>6. CASE EnterWrite(c)
  <2> DEFINE p == IF i <= 2 /\ Writer(i) = role[h] THEN "writing" ELSE "refused"
  <2>1. proc[c].pc = "write" /\ At(c, p, i)
        /\ UNCHANGED <<handshakes, role, index, peer, answers, history>>
    <3> DEFINE mine == [j \in 0 .. 2 |-> Writer(j) = role[h]]
    <3>1. proc[c].pc = "write" /\ At(c, IF i <= 2 /\ mine[i] THEN "writing" ELSE "refused", i)
          /\ UNCHANGED <<handshakes, role, index, peer, answers, history>>
      BY Zenon, <1>6 DEF EnterWrite, Enter
    <3>2. i <= 2 => mine[i] = (Writer(i) = role[h])
      <4>1. i <= 2 => i \in 0 .. 2
        BY <1>2
      <4> QED
        BY Zenon, <4>1
    <3> HIDE DEF mine
    <3>3. (IF i <= 2 /\ mine[i] THEN "writing" ELSE "refused") = p
      BY Zenon, <3>2
    <3> QED
      BY Zenon, <3>1, <3>3
  <2>2. ASSUME h \notin repeated \cup overlapped PROVE p = "writing"
    BY <2>1, <2>2, <1>2, <1>4 DEF Brought, Writer, NoMessage, AnswersAt
  <2> QED
    BY Zenon, <1>0, <1>2, <2>1, <2>2, EnteredKeeps
<1> QED
  BY Zenon, <1>5, <1>6

\* A message that cannot be read any more leaves the handshake as it is.
LEMMA ReadFailsKeeps ==
  ASSUME HandlerInv, NEW c \in Processes, ReadFails(c)
  PROVE  HandlerInv'
<1>0. /\ HandlerTypeOK /\ proc[c].pc = "reading" /\ proc[c].id \in overlapped
      /\ At(c, "refused", proc[c].index)
      /\ UNCHANGED <<handshakes, role, index, peer, answers, history>>
  BY Zenon DEF HandlerInv, ReadFails
<1>1. proc[c] \in ProcState
  BY Zenon, <1>0, NotBegun DEF HandlerTypeOK
<1>2. proc[c].index \in 0 .. 3
  BY Zenon, <1>1 DEF ProcState
<1> QED
  BY Zenon, <1>0, <1>2, EnteredKeeps DEF Working

\* What reading and writing a message have in common.
LEMMA AdvanceParts ==
  ASSUME HandlerInv, NEW c \in Processes, Read(c) \/ Write(c), NEW h, h = proc[c].id,
         NEW i, i = proc[c].index, NEW p,
         p = IF proc[c].pc = "reading" /\ i # 2 THEN "write" ELSE "done"
  PROVE  /\ h \in Handshakes /\ i \in 0 .. 2 /\ proc[c].msg \in 0 .. 3
         /\ proc[c].pc \in {"reading", "writing"}
         /\ proc' = [proc EXCEPT ![c] = [pc |-> p, id |-> h, msg |-> proc[c].msg, index |-> i]]
         /\ index' = [index EXCEPT ![h] = i + 1]
         /\ handshakes' = IF i = 2 THEN handshakes \ {h} ELSE handshakes
         /\ states' = [states EXCEPT ![h] = states[h] + (IF i = 2 THEN 1 ELSE 0)]
         /\ proc[c].pc = "reading" => answers' = answers
         /\ proc[c].pc = "writing" =>
              answers' = [answers EXCEPT ![h] = [answers[h] EXCEPT ![i] = answers[h][i] + 1]]
         /\ UNCHANGED <<role, peer, brought, repeated, overlapped>>
         /\ HandlerTypeOK'
<1>0. HandlerTypeOK /\ proc[c].pc \in {"reading", "writing"} /\ proc[c].pc # "new"
  BY Zenon DEF HandlerInv, Read, Write
<1>1. proc[c] \in ProcState
  BY Zenon, <1>0, NotBegun DEF HandlerTypeOK
<1>2. h \in Handshakes /\ i \in 0 .. 3 /\ proc[c].msg \in 0 .. 3
  BY Zenon, <1>1 DEF ProcState
<1>3. i \in 0 .. 2
  BY <1>0, <1>2 DEF HandlerTypeOK
<1>4. /\ index' = [index EXCEPT ![h] = i + 1]
      /\ UNCHANGED <<role, peer, brought, repeated, overlapped>>
      /\ Complete(h, i)
      /\ At(c, p, i)
  BY Zenon DEF Read, Write, Splits
<1>5. /\ handshakes' = IF i = 2 THEN handshakes \ {h} ELSE handshakes
      /\ states' = [states EXCEPT ![h] = states[h] + (IF i = 2 THEN 1 ELSE 0)]
  BY Zenon, <1>4 DEF Complete, Splits
<1>6. proc[c].pc = "reading" => answers' = answers
  BY Zenon DEF Read, Write
<1>7. proc[c].pc = "writing" =>
        answers' = [answers EXCEPT ![h] = [answers[h] EXCEPT ![i] = answers[h][i] + 1]]
  BY Zenon DEF Read, Write
<1>8. /\ proc' = [proc EXCEPT ![c] = [pc |-> p, id |-> h, msg |-> proc[c].msg, index |-> i]]
      /\ DOMAIN proc' = Processes
      /\ \A d \in Processes : proc'[d] = [pc |-> "new"] \/ proc'[d] \in ProcState
      /\ \A d \in Processes : proc'[d].pc \in {"reading", "writing"} => proc'[d].index <= 2
  BY Zenon, <1>0, <1>2, <1>4, CallMoves DEF Working
<1>9. HandlerTypeOK'
  <2>0. i + 1 \in 0 .. 3
    BY <1>3
  <2>1. index' \in [Handshakes -> 0 .. 3] /\ handshakes' \subseteq Handshakes
    BY Zenon, <2>0, <1>0, <1>4, <1>5 DEF HandlerTypeOK
  <2>2. states' \in [Handshakes -> Nat]
    BY <1>0, <1>2, <1>5 DEF HandlerTypeOK
  <2>3. answers' \in [Handshakes -> [0 .. 2 -> Nat]]
    <3>1. answers \in [Handshakes -> [0 .. 2 -> Nat]]
      BY Zenon, <1>0 DEF HandlerTypeOK
    <3>2. [answers[h] EXCEPT ![i] = answers[h][i] + 1] \in [0 .. 2 -> Nat]
      BY <3>1, <1>2, <1>3
    <3> QED
      BY Zenon, <3>1, <3>2, <1>0, <1>2, <1>6, <1>7
  <2> QED
    BY Zenon, <2>1, <2>2, <2>3, <1>0, <1>4, <1>8 DEF HandlerTypeOK
<1> QED
  BY Zenon, <1>0, <1>2, <1>3, <1>4, <1>5, <1>6, <1>7, <1>8, <1>9

\* A message that is still to be brought starts after the round of another one
\* of its role.
LEMMA Rounds ==
  \A r : \A i \in 0 .. 2 : \A m, n \in Brought(r) :
    n # m /\ i <= Start(n) /\ (i = m \/ (i = AnswersAt(m) /\ m # 2)) => i + 1 <= Start(n)
BY DEF Brought, Start, AnswersAt, NoMessage

\* The index has reached the start of a message that the peer could make.
LEMMA StartReached ==
  \A r : \A m \in Brought(r) : \A i, n \in 0 .. 3 :
    (m # NoMessage => m < n) /\ (\A j \in 0 .. 2 : j < n /\ Writer(j) = r => j < i) =>
      Start(m) <= i /\ Start(m) \in 0 .. 2
BY DEF Brought, Start, Writer, NoMessage

\* ReadMessage or WriteMessage advances the handshake by one message.
LEMMA AdvanceKeeps ==
  ASSUME HandlerInv, NEW c \in Processes, Read(c) \/ Write(c)
  PROVE  HandlerInv'
<1>s. SUFFICES ASSUME NEW h, h = proc[c].id, NEW i, i = proc[c].index, NEW m, m = proc[c].msg,
                     NEW w, w = proc[c].pc, NEW p,
                     p = IF proc[c].pc = "reading" /\ i # 2 THEN "write" ELSE "done"
              PROVE  HandlerInv'
  BY Zenon
<1>0. /\ h \in Handshakes /\ i \in 0 .. 2 /\ m \in 0 .. 3 /\ w \in {"reading", "writing"}
      /\ proc' = [proc EXCEPT ![c] = [pc |-> p, id |-> h, msg |-> m, index |-> i]]
      /\ UNCHANGED <<role, peer, brought, repeated, overlapped>>
      /\ HandlerTypeOK /\ HandlerTypeOK'
  BY <1>s, AdvanceParts DEF HandlerInv
<1>a. /\ index' = [index EXCEPT ![h] = i + 1]
      /\ handshakes' = IF i = 2 THEN handshakes \ {h} ELSE handshakes
      /\ states' = [states EXCEPT ![h] = states[h] + (IF i = 2 THEN 1 ELSE 0)]
  BY <1>s, AdvanceParts
<1>b. w = "reading" => answers' = answers
  BY Zenon, <1>s, AdvanceParts
<1>c. w = "writing" =>
        answers' = [answers EXCEPT ![h] = [answers[h] EXCEPT ![i] = answers[h][i] + 1]]
  BY Zenon, <1>s DEF Read, Write
<1>1. /\ index'[h] = i + 1
      /\ h \in handshakes' <=> h \in handshakes /\ i # 2
      /\ states'[h] = states[h] + (IF i = 2 THEN 1 ELSE 0)
      /\ \A g \in Handshakes :
           g # h => /\ index'[g] = index[g] /\ states'[g] = states[g] /\ answers'[g] = answers[g]
                    /\ g \in handshakes' <=> g \in handshakes
  <2>1. /\ index'[h] = i + 1
        /\ h \in handshakes' <=> h \in handshakes /\ i # 2
        /\ states'[h] = states[h] + (IF i = 2 THEN 1 ELSE 0)
    BY Zenon, <1>a, <1>0 DEF HandlerTypeOK
  <2>2. ASSUME NEW g \in Handshakes, g # h
        PROVE  /\ index'[g] = index[g] /\ states'[g] = states[g]
               /\ g \in handshakes' <=> g \in handshakes
    BY Zenon, <1>a, <1>0, <2>2 DEF HandlerTypeOK
  <2>3. ASSUME NEW g \in Handshakes, g # h PROVE answers'[g] = answers[g]
    BY Zenon, <1>b, <1>c, <1>0, <2>3 DEF HandlerTypeOK
  <2> QED
    BY Zenon, <2>1, <2>2, <2>3
<1>2. \A j \in 0 .. 2 : answers'[h][j] = answers[h][j] + (IF w = "writing" /\ j = i THEN 1 ELSE 0)
  <2>1. answers[h] \in [0 .. 2 -> Nat]
    BY Zenon, <1>0 DEF HandlerTypeOK
  <2>2. CASE w = "reading"
    <3>1. answers' = answers
      BY Zenon, <2>2, <1>b
    <3> QED
      BY <2>1, <2>2, <3>1
  <2>3. CASE w = "writing"
    <3>1. answers' = [answers EXCEPT ![h] = [answers[h] EXCEPT ![i] = answers[h][i] + 1]]
      BY Zenon, <2>3, <1>c
    <3>2. answers'[h] = [answers[h] EXCEPT ![i] = answers[h][i] + 1]
      BY Zenon, <3>1, <1>0 DEF HandlerTypeOK
    <3> QED
      BY <2>1, <2>3, <3>2
  <2> QED
    BY Zenon, <1>0, <2>2, <2>3
<1>3. ASSUME NEW g \in Handshakes, g # h
      PROVE  (ExchangeOK(g) => ExchangeOK(g)') /\ (OnceOK(g) => OnceOK(g)')
  <2> DEFINE q == [pc |-> p, id |-> h, msg |-> m, index |-> i]
  <2>0. q.id # g /\ proc[c].id # g /\ proc' = [proc EXCEPT ![c] = q]
    BY Zenon, <1>s, <1>0, <1>3
  <2> HIDE DEF q
  <2>1. Busy(g)' = Busy(g) /\ \A d \in Busy(g) : proc'[d] = proc[d]
    BY ZenonT(60), <2>0, <1>0, OtherHandshakes
  <2> QED
    BY Zenon, <2>1, <1>0, <1>1, <1>3, HandshakeFrame
<1>4. proc'[c] = [pc |-> p, id |-> h, msg |-> m, index |-> i]
  BY Zenon, <1>0 DEF HandlerTypeOK
<1>5. ASSUME ExchangeOK(h)
      PROVE  /\ Busy(h) = {c}
             /\ p = "write" => Busy(h)' = {c}
             /\ p = "done" => Busy(h)' = {}
             /\ BusyOK(proc[c], index[h])
             /\ index[h] = i /\ m \in Brought(role[h]) /\ role[h] # "none"
             /\ m # NoMessage => m < peer[h]
             /\ w = "reading" => m = i /\ m # NoMessage /\ Writer(i) # role[h]
             /\ w = "writing" => Writer(i) = role[h]
  <2>1. Busy(h) = {c} /\ (p \in Working => Busy(h)' = {c}) /\ (p \notin Working => Busy(h)' = {})
    <3>1. proc[c].pc \in Working /\ proc[c].id = h
      BY Zenon, <1>s, <1>0 DEF Working
    <3> QED
      BY Zenon, <3>1, <1>0, <1>5, BusyMoves
  <2>2. BusyOK(proc[c], index[h])
    BY Zenon, <2>1, <1>5 DEF ExchangeOK
  <2>3. index[h] = i /\ m \in Brought(role[h]) /\ (m # NoMessage => m < peer[h])
    BY Zenon, <1>s, <2>2, <1>0 DEF BusyOK
  <2>4. w = "reading" => m = i /\ m # NoMessage /\ Writer(i) # role[h]
    BY Zenon, <1>s, <2>2, <2>3, <1>0 DEF BusyOK, Brought, Writer, NoMessage
  <2>5. w = "writing" => Writer(i) = role[h]
    BY Zenon, <1>s, <2>2, <2>3, <1>0 DEF BusyOK
  <2> QED
    BY Zenon, <1>s, <2>1, <2>2, <2>3, <2>4, <2>5 DEF Brought, Working
<1>6. ASSUME ExchangeOK(h) PROVE ExchangeOK(h)'
  <2>1. \A d \in Busy(h)' : BusyOK(proc[d], index[h])'
    <3> SUFFICES ASSUME p = "write" PROVE BusyOK(proc[c], index[h])'
      BY Zenon, <1>s, <1>5, <1>6
    <3>1. proc'[c].pc = "write" /\ proc'[c].msg = m /\ proc'[c].id = h
      BY <1>s, <1>4
    <3> QED
      BY Zenon, <3>1, <1>0, <1>5, <1>6 DEF BusyOK
  <2>2. \A d, e \in Busy(h)' : d = e
    BY Zenon, <1>s, <1>5, <1>6
  <2>3. states[h] = 0 /\ h \in handshakes
    BY <1>0, <1>5, <1>6 DEF ExchangeOK
  <2>4. /\ states'[h] = IF index'[h] = 3 THEN 1 ELSE 0
        /\ h \in handshakes' <=> role'[h] # "none" /\ index'[h] # 3
    BY <2>3, <1>0, <1>1, <1>5, <1>6
  <2>5. \A j \in 0 .. 2 :
          /\ answers[h][j] = IF j < i /\ Writer(j) = role[h] THEN 1 ELSE 0
          /\ j < i /\ Writer(j) # role[h] => j < peer[h]
          /\ j < peer[h] /\ Writer(j) = role[h] => j < i
    BY Zenon, <1>5, <1>6 DEF ExchangeOK
  <2>6. \A j \in 0 .. 2 :
          /\ answers'[h][j] = IF j < i + 1 /\ Writer(j) = role[h] THEN 1 ELSE 0
          /\ j < i + 1 /\ Writer(j) # role[h] => j < peer[h]
          /\ j < peer[h] /\ Writer(j) = role[h] => j < i + 1
    <3>1. /\ \A j \in 0 .. 2 : (j < i + 1 <=> j < i \/ j = i) /\ ~ (i < i)
          /\ 0 + 0 = 0 /\ 1 + 0 = 1 /\ 0 + 1 = 1
      BY <1>0
    <3>2. m = i /\ m # NoMessage => i < peer[h]
      BY Zenon, <1>5, <1>6
    <3> QED
      BY ZenonT(60), <1>0, <3>1, <3>2, <2>5, <1>2, <1>5, <1>6
  <2> QED
    BY Zenon, <2>1, <2>2, <2>4, <2>6, <1>0, <1>1, <1>5, <1>6 DEF ExchangeOK
<1>7. ASSUME ExchangeOK(h), OnceOK(h) PROVE OnceOK(h)'
  <2>1. /\ w = "reading" => i = m
        /\ w = "writing" => i = AnswersAt(m) /\ m # 2
        /\ m \in brought[h]
        /\ brought[h] \subseteq Brought(role[h])
    BY Zenon, <1>s, <1>0, <1>5, <1>7 DEF OnceOK
  <2>2. ASSUME NEW d \in Busy(h)'
        PROVE  /\ proc'[d].pc = "write" /\ i + 1 = AnswersAt(proc'[d].msg)
               /\ proc'[d].msg # 2 /\ proc'[d].msg \in brought[h]
    <3>1. p = "write" /\ d = c /\ w = "reading" /\ i # 2
      BY Zenon, <1>s, <2>2, <1>5, <1>7
    <3>2. proc'[c].pc = p /\ proc'[c].msg = m
      BY <1>4
    <3>3. i + 1 = AnswersAt(m) /\ m # 2
      BY <3>1, <2>1, <1>0 DEF AnswersAt, NoMessage
    <3> QED
      BY Zenon, <3>1, <3>2, <3>3, <2>1
  <2>3. p = "done" => i + 1 >= End(m)
    BY <1>s, <2>1, <1>0 DEF End, AnswersAt, NoMessage
  <2>4. ASSUME NEW n \in brought[h]
        PROVE  (\E d \in Busy(h)' : proc'[d].msg = n) \/ i + 1 >= End(n)
    <3>1. CASE n = m
      <4>0. proc'[c].msg = m
        BY <1>4
      <4>1. proc'[c].msg = m /\ (p = "write" => c \in Busy(h)') /\ p \in {"write", "done"}
        BY Zenon, <1>s, <4>0, <1>5, <1>7
      <4> QED
        BY Zenon, <3>1, <4>1, <2>3
    <3>2. CASE n # m
      <4>1. i >= End(n)
        BY Zenon, <1>s, <3>2, <1>5, <1>7 DEF OnceOK
      <4>2. End(n) \in Nat
        BY Zenon DEF End
      <4> QED
        BY <4>1, <4>2, <1>0
    <3> QED
      BY Zenon, <3>1, <3>2
  <2>5. ASSUME NEW n \in Brought(role[h]) \ brought[h] PROVE i + 1 <= Start(n)
    <3>1. i <= Start(n) /\ n # m
      BY Zenon, <1>s, <2>1, <1>5, <1>7 DEF OnceOK
    <3> QED
      <4>1. /\ i = m \/ (i = AnswersAt(m) /\ m # 2)
            /\ n \in Brought(role[h]) /\ m \in Brought(role[h])
        BY Zenon, <2>1, <1>0, <1>5, <1>7
      <4> QED
        BY Zenon, <3>1, <4>1, <1>0, Rounds
  <2> QED
    BY <2>1, <2>2, <2>4, <2>5, <1>0, <1>1 DEF OnceOK
<1>8. RefusedForCause'
  <2>1. \A d \in Processes : d # c => proc'[d] = proc[d]
    BY Zenon, <1>0 DEF HandlerTypeOK
  <2> QED
    <3>1. proc'[c].pc \in {"write", "done"}
      BY <1>s, <1>4
    <3> QED
      BY Zenon, <3>1, <2>1, <1>0 DEF HandlerInv, RefusedForCause
<1> QED
  BY Zenon, <1>0, <1>3, <1>6, <1>7, <1>8 DEF HandlerInv

\* ProcessHandshake looks up the handshake that a message is for.
LEMMA ProcessHandshakeKeeps ==
  ASSUME HandlerInv, NEW h \in Handshakes, NEW c \in Processes, NEW m \in Brings(h), ProcessHandshake(c, h, m)
  PROVE  HandlerInv'
<1> DEFINE p == IF h \notin handshakes THEN "not found" ELSE IF m = NoMessage THEN "write" ELSE "read"
           q == [pc |-> p, id |-> h, msg |-> m, index |-> 0]
<1>0. /\ HandlerTypeOK /\ proc[c].pc = "new"
      /\ proc' = [proc EXCEPT ![c] = q]
      /\ repeated' = IF m \in brought[h] THEN repeated \cup {h} ELSE repeated
      /\ brought' = [brought EXCEPT ![h] = brought[h] \cup {m}]
      /\ overlapped' = IF Busy(h) # {} THEN overlapped \cup {h} ELSE overlapped
      /\ UNCHANGED <<handshakes, role, index, peer, answers, states>>
  BY Zenon DEF HandlerInv, ProcessHandshake
<1> HIDE DEF p, q
<1>1. /\ role[h] # "none" /\ m \in 0 .. 3 /\ m \in Brought(role[h])
      /\ m # NoMessage => m < peer[h]
  <2>1. role[h] \in {"initiator", "responder", "none"}
    BY Zenon, <1>0 DEF HandlerTypeOK, Roles
  <2>2. role[h] # "none" /\ m \in 0 .. 3 /\ (m # NoMessage => m < peer[h] /\ Writer(m) # role[h])
        /\ (m = NoMessage => role[h] = "initiator")
    BY DEF Brings, NoMessage
  <2> QED
    BY <2>1, <2>2 DEF Brought, Writer, NoMessage
<1>2. q \in ProcState /\ q.pc \notin {"reading", "writing"} /\ q.pc = p /\ q.id = h /\ q.msg = m
  BY <1>1 DEF p, q, ProcState, Working
<1>3. p \in {"not found", "write", "read"} /\ (p = "not found" <=> h \notin handshakes)
      /\ (p = "write" => m = NoMessage) /\ (p = "read" => m # NoMessage)
  BY Zenon DEF p
<1>4. /\ proc'[c] = q /\ DOMAIN proc' = Processes
      /\ \A d \in Processes : d # c => proc'[d] = proc[d]
      /\ brought'[h] = brought[h] \cup {m} /\ DOMAIN brought' = Handshakes
      /\ \A g \in Handshakes : g # h => brought'[g] = brought[g]
  BY Zenon, <1>0 DEF HandlerTypeOK
<1>5. HandlerTypeOK'
  <2>1. \A d \in Processes : proc'[d] = [pc |-> "new"] \/ proc'[d] \in ProcState
    BY Zenon, <1>0, <1>2, <1>4 DEF HandlerTypeOK
  <2>2. \A d \in Processes : proc'[d].pc \in {"reading", "writing"} => proc'[d].index <= 2
    BY Zenon, <1>0, <1>2, <1>4 DEF HandlerTypeOK
  <2> QED
    BY Zenon, <2>1, <2>2, <1>0, <1>4 DEF HandlerTypeOK
<1>6. ASSUME NEW g \in Handshakes, g # h
      PROVE  (ExchangeOK(g) => ExchangeOK(g)') /\ (OnceOK(g) => OnceOK(g)')
  <2>1. Busy(g)' = Busy(g) /\ \A d \in Busy(g) : proc'[d] = proc[d]
    BY Zenon, <1>0, <1>2, <1>6, OtherHandshakes
  <2> QED
    BY Zenon, <2>1, <1>0, <1>4, <1>6, HandshakeFrame
<1>7. ASSUME Busy(h) = {}
      PROVE  Busy(h)' = IF p = "not found" THEN {} ELSE {c}
  <2>1. \A d \in Processes : d # c => ~ (proc'[d].pc \in Working /\ proc'[d].id = h)
    BY Zenon, <1>4, <1>7 DEF Busy, Working
  <2> QED
    BY Zenon, <2>1, <1>2, <1>3, <1>4 DEF Busy, Working
<1>8. ASSUME ExchangeOK(h), Busy(h) = {} PROVE ExchangeOK(h)'
  <2>1. \A d \in Busy(h)' : d = c /\ BusyOK(proc[d], index[h])'
    <3> SUFFICES ASSUME p # "not found" PROVE BusyOK(proc[c], index[h])'
      BY Zenon, <1>7, <1>8
    <3> QED
      BY Zenon, <1>0, <1>1, <1>2, <1>3, <1>4 DEF BusyOK
  <2>2. \A i \in 0 .. 2 :
          /\ answers[h][i] = IF i < index[h] /\ Writer(i) = role[h] THEN 1 ELSE 0
          /\ i < index[h] /\ Writer(i) # role[h] => i < peer[h]
          /\ i < peer[h] /\ Writer(i) = role[h] => i < index[h]
    BY Zenon, <1>8 DEF ExchangeOK
  <2> QED
    BY Zenon, <2>1, <2>2, <1>0, <1>1, <1>8 DEF ExchangeOK
<1>9. ASSUME ExchangeOK(h), OnceOK(h), Busy(h) = {}, m \notin brought[h]
      PROVE  index[h] = Start(m) /\ p # "not found"
  <2>1. index[h] <= Start(m) /\ index[h] \in 0 .. 3 /\ peer[h] \in 0 .. 3
    BY Zenon, <1>0, <1>1, <1>9 DEF OnceOK, HandlerTypeOK
  <2>2. \A i \in 0 .. 2 : i < peer[h] /\ Writer(i) = role[h] => i < index[h]
    BY Zenon, <1>9 DEF ExchangeOK
  <2>3. Start(m) <= index[h] /\ Start(m) \in 0 .. 2
    BY Zenon, <2>1, <2>2, <1>1, StartReached
  <2>4. h \in handshakes
    <3>1. index[h] # 3
      BY <2>1, <2>3
    <3> QED
      BY Zenon, <3>1, <1>1, <1>9 DEF ExchangeOK
  <2>5. index[h] = Start(m)
    BY <2>1, <2>3
  <2> QED
    BY Zenon, <2>4, <2>5, <1>3
<1>10. ASSUME ExchangeOK(h), OnceOK(h), Busy(h) = {}, m \notin brought[h] PROVE OnceOK(h)'
  <2>1. Busy(h)' = {c} /\ index[h] = Start(m) /\ p \in {"write", "read"}
    BY Zenon, <1>3, <1>7, <1>9, <1>10
  <2>2. /\ proc'[c].pc \in {"read", "reading"} => index[h] = proc'[c].msg
        /\ proc'[c].pc \in {"write", "writing"} => index[h] = AnswersAt(proc'[c].msg) /\ proc'[c].msg # 2
        /\ proc'[c].msg \in brought'[h]
    <3>1. proc'[c].pc = p /\ proc'[c].msg = m
      BY Zenon, <1>2, <1>4
    <3>2. p = "read" => index[h] = m
      BY Zenon, <2>1, <1>3 DEF Start
    <3>3. p = "write" => index[h] = AnswersAt(m) /\ m # 2
      BY <2>1, <1>3 DEF Start, AnswersAt, NoMessage
    <3> QED
      BY Zenon, <3>1, <3>2, <3>3, <2>1, <1>4
  <2>3. \A n \in brought'[h] : (\E d \in {c} : proc'[d].msg = n) \/ index[h] >= End(n)
    BY Zenon, <1>2, <1>4, <1>10 DEF OnceOK
  <2>4. /\ brought'[h] \subseteq Brought(role[h])
        /\ \A n \in Brought(role[h]) \ brought'[h] : index[h] <= Start(n)
    BY Zenon, <1>1, <1>4, <1>10 DEF OnceOK
  <2> QED
    BY Zenon, <2>1, <2>2, <2>3, <2>4, <1>0 DEF OnceOK
<1>11. RefusedForCause'
  <2>1. ASSUME p = "not found" PROVE h \in repeated' \cup overlapped'
    BY Zenon, <2>1, <1>0, <1>9 DEF HandlerInv
  <2>2. \A d \in Processes : d # c => (proc'[d].pc \in {"refused", "not found"} =>
          proc'[d].id \in repeated' \cup overlapped')
    BY Zenon, <1>0, <1>4 DEF HandlerInv, RefusedForCause
  <2> QED
    BY Zenon, <2>1, <2>2, <1>2, <1>3, <1>4 DEF RefusedForCause
<1>12. ASSUME NEW g \in Handshakes \ overlapped' PROVE ExchangeOK(g)'
  BY Zenon, <1>0, <1>6, <1>8, <1>12 DEF HandlerInv
<1>13. ASSUME NEW g \in Handshakes \ (overlapped' \cup repeated') PROVE OnceOK(g)'
  BY Zenon, <1>0, <1>6, <1>10, <1>13 DEF HandlerInv
<1> QED
  BY Zenon, <1>5, <1>11, <1>12, <1>13 DEF HandlerInv

\* ProcessHandshake and its peer: in every state the server is exactly as far
\* with a handshake as its index says, unless two of its calls overlapped.
THEOREM HandlerInvariant == HandlerSpec => []HandlerInv
<1>1. ASSUME HandlerInv, [HandlerNext]_handler PROVE HandlerInv'
  <2>1. CASE HandlerNext
    <3>1. ASSUME NEW h \in Handshakes, NEW r \in {"initiator", "responder"}, InitiateHandshake(h, r)
          PROVE  HandlerInv'
      BY Zenon, <1>1, <3>1, InitiateHandshakeKeeps
    <3>2. ASSUME NEW h \in Handshakes, PeerSteps(h) PROVE HandlerInv'
      BY Zenon, <1>1, <3>2, PeerStepsKeeps
    <3>3. ASSUME NEW h \in Handshakes, NEW c \in Processes, NEW m \in Brings(h), ProcessHandshake(c, h, m)
          PROVE  HandlerInv'
      BY Zenon, <1>1, <3>3, ProcessHandshakeKeeps
    <3>4. ASSUME NEW c \in Processes, EnterRead(c) \/ EnterWrite(c) PROVE HandlerInv'
      BY Zenon, <1>1, <3>4, EnterKeeps
    <3>5. ASSUME NEW c \in Processes, Read(c) \/ Write(c) PROVE HandlerInv'
      BY Zenon, <1>1, <3>5, AdvanceKeeps
    <3>6. ASSUME NEW c \in Processes, ReadFails(c) PROVE HandlerInv'
      BY Zenon, <1>1, <3>6, ReadFailsKeeps
    <3> QED
      BY Zenon, <2>1, <3>1, <3>2, <3>3, <3>4, <3>5, <3>6 DEF HandlerNext
  <2>2. CASE UNCHANGED handler
    <3>1. UNCHANGED <<handshakes, role, index, proc, peer, answers, states, brought, repeated, overlapped>>
      BY Zenon, <2>2 DEF handler
    <3>2. \A h \in Handshakes : Busy(h)' = Busy(h)
      BY Zenon, <3>1 DEF Busy
    <3>3. \A h \in Handshakes : (ExchangeOK(h) => ExchangeOK(h)') /\ (OnceOK(h) => OnceOK(h)')
      BY Zenon, <3>1, <3>2, HandshakeFrame
    <3>4. HandlerTypeOK' /\ RefusedForCause'
      BY Zenon, <1>1, <3>1 DEF HandlerInv, HandlerTypeOK, RefusedForCause
    <3> QED
      BY Zenon, <1>1, <3>1, <3>3, <3>4 DEF HandlerInv
  <2> QED
    BY Zenon, <1>1, <2>1, <2>2
<1> QED
  BY <1>1, HandlerStarts, PTL DEF HandlerSpec

\* For any handshakes, calls and repetitions: unless two calls of
\* ProcessHandshake for it overlap, every message of a handshake is written
\* once and one crypto state is given, when the peer has come as far; a peer
\* that brings every message once is never refused.
THEOREM HandlerOneExchange == HandlerSpec => []OneExchange
<1>1. ASSUME HandlerInv PROVE OneExchange
  <2>1. ASSUME NEW h \in Handshakes \ overlapped
        PROVE  /\ \A i \in 0 .. 2 : answers[h][i] <= 1
               /\ states[h] <= 1
               /\ states[h] > 0 => peer[h] >= IF role[h] = "responder" THEN 3 ELSE 2
    <3>1. ExchangeOK(h) /\ role[h] \in {"initiator", "responder", "none"} /\ peer[h] \in 0 .. 3
      BY Zenon, <1>1 DEF HandlerInv, HandlerTypeOK, Roles
    <3>2. \A i \in 0 .. 2 : answers[h][i] <= 1
      BY <3>1 DEF ExchangeOK
    <3>3. \A i \in 0 .. 2 : i < index[h] /\ Writer(i) # role[h] => i < peer[h]
      BY Zenon, <3>1 DEF ExchangeOK
    <3>4. states[h] = (IF index[h] = 3 THEN 1 ELSE 0) /\ (role[h] = "none" => index[h] = 0)
      BY Zenon, <3>1 DEF ExchangeOK
    <3>5. ASSUME index[h] = 3 PROVE peer[h] >= IF role[h] = "responder" THEN 3 ELSE 2
      BY <3>1, <3>3, <3>4, <3>5 DEF Writer
    <3> QED
      BY <3>2, <3>4, <3>5
  <2> QED
    BY Zenon, <1>1, <2>1 DEF OneExchange, HandlerInv, RefusedForCause
<1> QED
  BY <1>1, HandlerInvariant, PTL
=============================================================================
