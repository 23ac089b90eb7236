----------------------------- MODULE SyncProofs -----------------------------
(***************************************************************************)
(* Proofs that the sync service loses a message only by a failed or cut-   *)
(* off Handle, pushes nothing it has not stored and nothing twice in one   *)
(* life of its dedup key, and keeps its inboxes in the order of the topics *)
(* and free of duplicates and of strangers' messages, for any number of    *)
(* messages, topics, users and processes.                                  *)
(***************************************************************************)
EXTENDS SyncService, TLAPS

\* A claim past the dedup check is at a message of its topic that has a
\* recipient; a claim about to push has stored the message.
ClaimOK(k) ==
  /\ pc[k] \in {"insert", "push"} => pos[k] \in DOMAIN log[k[2]] /\ RecipientOf[At(k)] # NoUser
  /\ pc[k] = "push" => Stored(At(k))

\* A topic holds only messages that are published to it.
LogInv == \A t \in Topics : \A i \in DOMAIN log[t] : TopicOf[log[t][i]] = t

SInv ==
  /\ TypeOK
  /\ \A k \in Claims : ClaimOK(k)
  /\ LogInv
  /\ LostOnlyByFailure
  /\ PushedIsStored
  /\ InboxSound

-----------------------------------------------------------------------------
\* A claim is a process and a topic.
LEMMA ClaimParts ==
  ASSUME NEW k \in Claims
  PROVE  k[1] \in Processes /\ k[2] \in Topics
BY Zenon DEF Claims

\* The message a claim is at.
LEMMA AtFacts ==
  ASSUME TypeOK, NEW k \in Claims, pos[k] \in DOMAIN log[k[2]]
  PROVE  At(k) \in Messages
<1>1. k[2] \in Topics
  BY Zenon, ClaimParts
<1>2. log[k[2]] \in Seq(Messages)
  BY Zenon, <1>1 DEF TypeOK
<1> QED
  BY <1>2 DEF At

\* The message of a claim past the dedup check.
LEMMA HandFacts ==
  ASSUME SInv, NEW k \in Claims, pc[k] \in {"insert", "push"}
  PROVE  /\ At(k) \in Messages
         /\ RecipientOf[At(k)] \in Users
         /\ RecipientOf[At(k)] # NoUser
         /\ InLog(At(k))
<1>1. TypeOK /\ pos[k] \in DOMAIN log[k[2]] /\ RecipientOf[At(k)] # NoUser /\ k[2] \in Topics
  BY Zenon, ClaimParts DEF SInv, ClaimOK
<1>2. At(k) \in Messages
  BY Zenon, <1>1, AtFacts
<1>3. TopicOf[At(k)] = k[2]
  BY Zenon, <1>1 DEF SInv, LogInv, At
<1> QED
  BY Zenon, <1>1, <1>2, <1>3, SyncAssumption DEF InLog, Holds, At

\* A message a claim consumes.
LEMMA ConsumingFacts ==
  ASSUME SInv, NEW k \in Claims, Consuming(k)
  PROVE  At(k) \in Messages /\ pos[k] \in DOMAIN log[k[2]] /\ pc[k] = "next"
BY Zenon, AtFacts DEF SInv, Consuming

\* Going on to the next message.
LEMMA AdvanceFacts ==
  ASSUME TypeOK, NEW k \in Claims, Advance(k)
  PROVE  /\ pc' \in [Claims -> {"off", "next", "insert", "push"}]
         /\ pos' \in [Claims -> Nat \ {0}]
         /\ pc'[k] = "next"
         /\ \A j \in Claims \ {k} : pc'[j] = pc[j] /\ pos'[j] = pos[j]
BY DEF TypeOK, Advance

\* A step of one claim that leaves the logs alone keeps the invariant if the
\* claim itself does what Handle does.
LEMMA LocalStep ==
  ASSUME SInv, NEW k \in Claims, log' = log,
         \A j \in Claims \ {k} : pc'[j] = pc[j] /\ pos'[j] = pos[j],
         pc'[k] \in {"insert", "push"} =>
           pos'[k] = pos[k] /\ pos[k] \in DOMAIN log[k[2]] /\ RecipientOf[At(k)] # NoUser,
         pc'[k] = "push" => Stored(At(k))',
         \A m \in Messages : Stored(m) => Stored(m)',
         \A m \in Messages : pushed'[m] > 0 => pushed[m] > 0 \/ Stored(m)',
         failed \subseteq failed',
         \A m \in seen' : m \in seen \/ m \in failed' \/ (pc'[k] = "insert" /\ At(k) = m),
         pc[k] = "insert" => \/ pc'[k] = "insert"
                             \/ At(k) \in failed' \cup Anonymous
                             \/ \E m \in Messages : m = At(k) /\ Stored(m)',
         seen' \subseteq Messages
  PROVE  (\A j \in Claims : ClaimOK(j)') /\ LogInv' /\ LostOnlyByFailure' /\ PushedIsStored'
<1>1. \A j \in Claims \ {k} : At(j)' = At(j)
  BY Zenon DEF At
<1>2. pc'[k] \in {"insert", "push"} => At(k)' = At(k)
  BY Zenon DEF At
<1>3. ASSUME NEW j \in Claims PROVE ClaimOK(j)'
  <2>1. CASE j = k
    BY Zenon, <1>2, <2>1 DEF ClaimOK
  <2>2. CASE j # k
    <3>1. At(j)' = At(j) /\ pc'[j] = pc[j] /\ pos'[j] = pos[j] /\ ClaimOK(j)
      BY Zenon, <1>1, <2>2 DEF SInv
    <3>2. pc[j] = "push" => At(j) \in Messages /\ Stored(At(j))
      BY Zenon, <3>1, HandFacts DEF ClaimOK
    <3> QED
      BY Zenon, <3>1, <3>2 DEF ClaimOK
  <2> QED
    BY Zenon, <2>1, <2>2
<1>4. LogInv'
  BY Zenon DEF SInv, LogInv
<1>5. LostOnlyByFailure'
  <2> SUFFICES ASSUME NEW m \in seen' \ Anonymous PROVE Stored(m)' \/ InHand(m)' \/ m \in failed'
    BY Zenon DEF LostOnlyByFailure
  <2>1. CASE m \in failed'
    BY Zenon, <2>1
  <2>2. CASE pc'[k] = "insert" /\ At(k) = m
    BY Zenon, <1>2, <2>2 DEF InHand
  <2>3. CASE m \in seen /\ m \notin failed'
    <3>1. m \in Messages /\ (Stored(m) \/ InHand(m))
      BY Zenon, <2>3 DEF SInv, LostOnlyByFailure
    <3>2. ASSUME NEW j \in Claims, pc[j] = "insert", At(j) = m PROVE Stored(m)' \/ InHand(m)'
      <4>1. CASE j # k
        BY Zenon, <1>1, <3>2, <4>1 DEF InHand
      <4>2. CASE j = k
        BY Zenon, <1>2, <2>3, <3>2, <4>2 DEF InHand
      <4> QED
        BY Zenon, <4>1, <4>2
    <3> QED
      BY Zenon, <3>1, <3>2 DEF InHand
  <2> QED
    BY Zenon, <2>1, <2>2, <2>3
<1>6. PushedIsStored'
  BY Zenon DEF SInv, PushedIsStored
<1> QED
  BY Zenon, <1>3, <1>4, <1>5, <1>6

\* The elements of a sequence after an Append.
LEMMA AppendFacts ==
  ASSUME NEW S, NEW s \in Seq(S), NEW m \in S
  PROVE  /\ Append(s, m) \in Seq(S)
         /\ DOMAIN Append(s, m) = DOMAIN s \cup {Len(s) + 1}
         /\ \A i \in DOMAIN s : Append(s, m)[i] = s[i]
         /\ Append(s, m)[Len(s) + 1] = m
OBVIOUS

\* What a sequence holds after an Append.
LEMMA AppendHolds ==
  ASSUME NEW S, NEW s \in Seq(S), NEW m \in S, NEW n
  PROVE  Holds(Append(s, m), n) <=> Holds(s, n) \/ n = m
BY AppendFacts DEF Holds

\* Inserting keeps what is stored, stores its message and keeps the inboxes
\* sound.
LEMMA InsertFacts ==
  ASSUME SInv, NEW m \in Messages, RecipientOf[m] # NoUser, InLog(m), Insert(m), log' = log
  PROVE  /\ inbox' \in [Users -> Seq(Messages)]
         /\ Stored(m)'
         /\ \A n \in Messages : Stored(n) => Stored(n)'
         /\ InboxSound'
<1> DEFINE u == RecipientOf[m]
<1>1. u \in Users /\ inbox \in [Users -> Seq(Messages)] /\ inbox[u] \in Seq(Messages)
  BY Zenon, SyncAssumption DEF SInv, TypeOK
<1>2. /\ inbox'[u] = IF Holds(inbox[u], m) THEN inbox[u] ELSE Append(inbox[u], m)
      /\ \A v \in Users : v # u => inbox'[v] = inbox[v]
      /\ inbox' \in [Users -> Seq(Messages)]
  BY <1>1 DEF Insert
<1>3. ASSUME NEW n \in Messages PROVE Holds(inbox'[u], n) <=> Holds(inbox[u], n) \/ n = m
  <2>1. CASE Holds(inbox[u], m)
    BY Zenon, <1>2, <2>1
  <2>2. CASE ~ Holds(inbox[u], m)
    BY <1>1, <1>2, <2>2, AppendHolds
  <2> QED
    BY Zenon, <2>1, <2>2
<1>4. Stored(m)' /\ \A n \in Messages : Stored(n) => Stored(n)'
  <2> SUFFICES ASSUME NEW n \in Messages, Stored(n) \/ n = m PROVE Stored(n)'
    BY Zenon
  <2>1. CASE RecipientOf[n] = u
    BY Zenon, <1>3, <2>1 DEF Stored
  <2>2. CASE RecipientOf[n] # u
    BY Zenon, <1>2, <2>2, SyncAssumption DEF Stored
  <2> QED
    BY Zenon, <2>1, <2>2
<1>5. InboxSound'
  <2>1. \A n : InLog(n)' <=> InLog(n)
    BY Zenon DEF InLog
  <2> SUFFICES ASSUME NEW v \in Users
               PROVE  /\ \A i, j \in DOMAIN inbox'[v] : inbox'[v][i] = inbox'[v][j] => i = j
                      /\ \A i \in DOMAIN inbox'[v] : RecipientOf[inbox'[v][i]] = v /\ InLog(inbox'[v][i])
    BY Zenon, <2>1 DEF InboxSound
  <2>2. /\ \A i, j \in DOMAIN inbox[v] : inbox[v][i] = inbox[v][j] => i = j
        /\ \A i \in DOMAIN inbox[v] : RecipientOf[inbox[v][i]] = v /\ InLog(inbox[v][i])
    BY Zenon DEF SInv, InboxSound
  <2>3. CASE v # u \/ Holds(inbox[u], m)
    BY Zenon, <1>2, <2>2, <2>3
  <2>4. CASE v = u /\ ~ Holds(inbox[u], m)
    <3>1. inbox'[v] = Append(inbox[u], m)
      BY Zenon, <1>2, <2>4
    <3>2. \A i \in DOMAIN inbox[u] : inbox[u][i] # m
      BY Zenon, <2>4 DEF Holds
    <3>3. \A i \in DOMAIN inbox'[v] :
             \/ i \in DOMAIN inbox[u] /\ inbox'[v][i] = inbox[u][i]
             \/ i = Len(inbox[u]) + 1 /\ inbox'[v][i] = m
      BY <1>1, <3>1
    <3> QED
      BY <2>2, <2>4, <3>2, <3>3
  <2> QED
    BY Zenon, <2>3, <2>4
<1> QED
  BY Zenon, <1>2, <1>4, <1>5

\* Nothing is inserted.
LEMMA NoInsertFacts ==
  ASSUME SInv, inbox' = inbox, log' = log
  PROVE  InboxSound' /\ \A n \in Messages : Stored(n) => Stored(n)'
BY DEF SInv, InboxSound, InLog, Stored

\* A step counts at most one fault, and never more than the bound.
LEMMA FaultFacts ==
  ASSUME TypeOK, Fault \/ UNCHANGED faults
  PROVE  faults' \in 0 .. MaxFaults
BY SyncAssumption DEF TypeOK, Fault

-----------------------------------------------------------------------------
\* Messages dropped without a call: no recipient, or the key is there.
LEMMA PassStep ==
  ASSUME SInv, NEW k \in Claims, Skip(k) \/ Duplicate(k)
  PROVE  SInv'
<1>1. /\ TypeOK /\ Consuming(k) /\ Advance(k)
      /\ UNCHANGED <<log, topics, owner, seen, inbox, pushed, expired, failed, faults>>
  BY Zenon DEF SInv, Skip, Duplicate
<1>2. pc[k] = "next"
  BY Zenon, <1>1, ConsumingFacts
<1>3. TypeOK'
  BY Zenon, <1>1, AdvanceFacts DEF TypeOK
<1>4. InboxSound' /\ \A n \in Messages : Stored(n) => Stored(n)'
  BY Zenon, <1>1, NoInsertFacts
<1>5. (\A j \in Claims : ClaimOK(j)') /\ LogInv' /\ LostOnlyByFailure' /\ PushedIsStored'
  BY Zenon, <1>1, <1>2, <1>4, AdvanceFacts, LocalStep DEF TypeOK
<1> QED
  BY Zenon, <1>3, <1>4, <1>5 DEF SInv

\* SETNX sets the key.
LEMMA FirstSightStep ==
  ASSUME SInv, NEW k \in Claims, FirstSight(k)
  PROVE  SInv'
<1>1. /\ TypeOK /\ Consuming(k) /\ RecipientOf[At(k)] # NoUser
      /\ seen' = seen \cup {At(k)} /\ pc' = [pc EXCEPT ![k] = "insert"]
      /\ UNCHANGED <<log, topics, owner, pos, inbox, pushed, expired, failed, faults>>
  BY Zenon DEF SInv, FirstSight
<1>2. pc[k] = "next" /\ At(k) \in Messages /\ pos[k] \in DOMAIN log[k[2]]
  BY Zenon, <1>1, ConsumingFacts
<1>3. /\ pc' \in [Claims -> {"off", "next", "insert", "push"}]
      /\ pc'[k] = "insert"
      /\ \A j \in Claims \ {k} : pc'[j] = pc[j] /\ pos'[j] = pos[j]
  BY Zenon, <1>1 DEF TypeOK
<1>4. TypeOK'
  BY Zenon, <1>1, <1>2, <1>3 DEF TypeOK
<1>5. InboxSound' /\ \A n \in Messages : Stored(n) => Stored(n)'
  BY Zenon, <1>1, NoInsertFacts
<1>6. (\A j \in Claims : ClaimOK(j)') /\ LogInv' /\ LostOnlyByFailure' /\ PushedIsStored'
  BY Zenon, <1>1, <1>2, <1>3, <1>4, <1>5, LocalStep DEF TypeOK
<1> QED
  BY Zenon, <1>4, <1>5, <1>6 DEF SInv

\* SETNX returns an error.
LEMMA DedupFailStep ==
  ASSUME SInv, NEW k \in Claims, DedupFail(k)
  PROVE  SInv'
<1>1. /\ TypeOK /\ Consuming(k) /\ Advance(k) /\ Fault
      /\ seen' \in {seen, seen \cup {At(k)}} /\ failed' = failed \cup {At(k)}
      /\ UNCHANGED <<log, topics, owner, inbox, pushed, expired>>
  BY Zenon DEF SInv, DedupFail
<1>2. pc[k] = "next" /\ At(k) \in Messages
  BY Zenon, <1>1, ConsumingFacts
<1>3. TypeOK'
  BY Zenon, <1>1, <1>2, AdvanceFacts, FaultFacts DEF TypeOK
<1>4. InboxSound' /\ \A n \in Messages : Stored(n) => Stored(n)'
  BY Zenon, <1>1, NoInsertFacts
<1>5. /\ failed \subseteq failed' /\ seen' \subseteq Messages
      /\ \A m \in seen' : m \in seen \/ m \in failed'
  BY Zenon, <1>1, <1>3 DEF TypeOK
<1>6. (\A j \in Claims : ClaimOK(j)') /\ LogInv' /\ LostOnlyByFailure' /\ PushedIsStored'
  BY Zenon, <1>1, <1>2, <1>4, <1>5, AdvanceFacts, LocalStep
<1> QED
  BY Zenon, <1>3, <1>4, <1>6 DEF SInv

\* The row is inserted, or was there.
LEMMA InsertOkStep ==
  ASSUME SInv, NEW k \in Claims, InsertOk(k)
  PROVE  SInv'
<1>1. /\ TypeOK /\ pc[k] = "insert" /\ Insert(At(k)) /\ pc' = [pc EXCEPT ![k] = "push"]
      /\ UNCHANGED <<log, topics, owner, pos, seen, pushed, expired, failed, faults>>
  BY Zenon DEF SInv, InsertOk
<1>2. /\ At(k) \in Messages /\ RecipientOf[At(k)] # NoUser /\ InLog(At(k))
      /\ pos[k] \in DOMAIN log[k[2]]
  BY Zenon, <1>1, HandFacts DEF SInv, ClaimOK
<1>3. /\ pc' \in [Claims -> {"off", "next", "insert", "push"}]
      /\ pc'[k] = "push"
      /\ \A j \in Claims \ {k} : pc'[j] = pc[j] /\ pos'[j] = pos[j]
      /\ At(k)' = At(k)
  BY Zenon, <1>1 DEF TypeOK, At
<1> DEFINE m == At(k)
<1>4. /\ inbox' \in [Users -> Seq(Messages)]
      /\ InboxSound'
      /\ \A n \in Messages : Stored(n) => Stored(n)'
      /\ \A n \in Messages : n = m => Stored(n)'
  BY Zenon, <1>1, <1>2, InsertFacts
<1>5. TypeOK'
  BY Zenon, <1>1, <1>3, <1>4 DEF TypeOK
<1>6. Stored(At(k))' /\ \E n \in Messages : n = At(k) /\ Stored(n)'
  BY Zenon, <1>2, <1>3, <1>4
<1>7. (\A j \in Claims : ClaimOK(j)') /\ LogInv' /\ LostOnlyByFailure' /\ PushedIsStored'
  BY Zenon, <1>1, <1>2, <1>3, <1>4, <1>6, LocalStep DEF TypeOK
<1> QED
  BY Zenon, <1>4, <1>5, <1>7 DEF SInv

\* The insert fails, for want of a sender or otherwise.
LEMMA InsertFailStep ==
  ASSUME SInv, NEW k \in Claims, InsertReject(k) \/ InsertFail(k)
  PROVE  SInv'
<1>1. /\ TypeOK /\ pc[k] = "insert" /\ Advance(k) /\ failed' = failed \cup {At(k)}
      /\ inbox' = inbox \/ Insert(At(k))
      /\ UNCHANGED <<log, topics, owner, seen, pushed, expired>>
  BY Zenon DEF SInv, InsertReject, InsertFail
<1>2. At(k) \in Messages /\ RecipientOf[At(k)] # NoUser /\ InLog(At(k))
  BY Zenon, <1>1, HandFacts
<1>3. /\ inbox' \in [Users -> Seq(Messages)]
      /\ InboxSound'
      /\ \A n \in Messages : Stored(n) => Stored(n)'
  <2>1. CASE inbox' = inbox
    BY Zenon, <1>1, <2>1, NoInsertFacts DEF TypeOK
  <2>2. CASE Insert(At(k))
    BY Zenon, <1>1, <1>2, <2>2, InsertFacts
  <2> QED
    BY Zenon, <1>1, <2>1, <2>2
<1>4. faults' \in 0 .. MaxFaults
  BY Zenon, FaultFacts DEF SInv, InsertReject, InsertFail
<1>5. TypeOK'
  BY Zenon, <1>1, <1>2, <1>3, <1>4, AdvanceFacts DEF TypeOK
<1>6. (\A j \in Claims : ClaimOK(j)') /\ LogInv' /\ LostOnlyByFailure' /\ PushedIsStored'
  BY Zenon, <1>1, <1>2, <1>3, AdvanceFacts, LocalStep DEF TypeOK
<1> QED
  BY Zenon, <1>3, <1>5, <1>6 DEF SInv

\* The message is pushed.
LEMMA PushStep ==
  ASSUME SInv, NEW k \in Claims, Push(k)
  PROVE  SInv'
<1>1. /\ TypeOK /\ pc[k] = "push" /\ Advance(k) /\ pushed' = [pushed EXCEPT ![At(k)] = @ + 1]
      /\ UNCHANGED <<log, topics, owner, seen, inbox, expired, failed, faults>>
  BY Zenon DEF SInv, Push
<1>2. At(k) \in Messages /\ Stored(At(k))
  BY Zenon, <1>1, HandFacts DEF SInv, ClaimOK
<1>3. TypeOK'
  BY <1>1, <1>2, AdvanceFacts DEF TypeOK
<1>4. InboxSound' /\ \A n \in Messages : Stored(n) => Stored(n)'
  BY Zenon, <1>1, NoInsertFacts
<1>5. \A m \in Messages : pushed'[m] > 0 => pushed[m] > 0 \/ Stored(m)'
  BY Zenon, <1>1, <1>2, <1>4 DEF TypeOK
<1>6. (\A j \in Claims : ClaimOK(j)') /\ LogInv' /\ LostOnlyByFailure' /\ PushedIsStored'
  BY Zenon, <1>1, <1>4, <1>5, AdvanceFacts, LocalStep DEF TypeOK
<1> QED
  BY Zenon, <1>3, <1>4, <1>6 DEF SInv

\* The consumer group gives a claim to a process or ends one.
LEMMA GroupStepKeeps ==
  ASSUME SInv, NEW k \in Claims, GroupStep(k)
  PROVE  SInv'
<1>1. TypeOK /\ k[1] \in Processes /\ k[2] \in Topics
  BY Zenon, ClaimParts DEF SInv
<1>2. /\ pc[k] \in {"off", "next"}
      /\ UNCHANGED <<log, topics, seen, inbox, pushed, expired, failed>>
      /\ \/ owner' = [owner EXCEPT ![k[2]] = k[1]] /\ pos' = [pos EXCEPT ![k] = 1]
         \/ UNCHANGED <<owner, pos>>
      /\ pc' = [pc EXCEPT ![k] = "next"] \/ pc' = [pc EXCEPT ![k] = "off"]
  BY Zenon DEF GroupStep, Assign, Rebalance, Revoke, Open
<1>3. faults' \in 0 .. MaxFaults
  BY Zenon, <1>1, FaultFacts DEF GroupStep, Assign, Rebalance, Revoke
<1>4. /\ pc' \in [Claims -> {"off", "next", "insert", "push"}]
      /\ pos' \in [Claims -> Nat \ {0}]
      /\ owner' \in [Topics -> Processes \cup {NoProcess}]
      /\ pc'[k] \in {"off", "next"}
      /\ \A j \in Claims \ {k} : pc'[j] = pc[j] /\ pos'[j] = pos[j]
  <2>1. /\ pc' \in [Claims -> {"off", "next", "insert", "push"}]
        /\ pc'[k] \in {"off", "next"}
        /\ \A j \in Claims \ {k} : pc'[j] = pc[j]
    BY Zenon, <1>1, <1>2 DEF TypeOK
  <2>2. pos' \in [Claims -> Nat \ {0}] /\ \A j \in Claims \ {k} : pos'[j] = pos[j]
    BY <1>1, <1>2 DEF TypeOK
  <2>3. owner' \in [Topics -> Processes \cup {NoProcess}]
    BY Zenon, <1>1, <1>2 DEF TypeOK
  <2> QED
    BY Zenon, <2>1, <2>2, <2>3
<1>5. TypeOK'
  BY Zenon, <1>1, <1>2, <1>3, <1>4 DEF TypeOK
<1>6. InboxSound' /\ \A n \in Messages : Stored(n) => Stored(n)'
  BY Zenon, <1>2, NoInsertFacts
<1>7. (\A j \in Claims : ClaimOK(j)') /\ LogInv' /\ LostOnlyByFailure' /\ PushedIsStored'
  BY Zenon, <1>1, <1>2, <1>4, <1>6, LocalStep DEF TypeOK
<1> QED
  BY Zenon, <1>5, <1>6, <1>7 DEF SInv

\* A step that moves no claim and changes no log.
LEMMA QuietFacts ==
  ASSUME SInv, UNCHANGED <<log, pc, pos, inbox, pushed, failed>>, seen' \subseteq seen
  PROVE  /\ \A j \in Claims : ClaimOK(j)'
         /\ LogInv' /\ LostOnlyByFailure' /\ PushedIsStored' /\ InboxSound'
<1>1. \A j \in Claims : At(j)' = At(j)
  BY Zenon DEF At
<1>2. \A m : (Stored(m)' <=> Stored(m)) /\ (InHand(m)' <=> InHand(m))
  BY Zenon, <1>1 DEF Stored, InHand
<1>3. \A j \in Claims : ClaimOK(j)'
  BY Zenon, <1>1, <1>2 DEF SInv, ClaimOK, Stored
<1>4. LostOnlyByFailure' /\ PushedIsStored'
  BY Zenon, <1>2 DEF SInv, LostOnlyByFailure, PushedIsStored
<1>5. LogInv' /\ InboxSound'
  BY Zenon, NoInsertFacts DEF SInv, LogInv
<1> QED
  BY Zenon, <1>3, <1>4, <1>5

\* Processes that start, and keys that expire.
LEMMA QuietStep ==
  ASSUME SInv, (\E p \in Processes : Start(p)) \/ (\E m \in Messages : Expire(m))
  PROVE  SInv'
<1>1. /\ TypeOK /\ UNCHANGED <<log, owner, pc, pos, inbox, pushed, failed, faults>>
      /\ seen' \subseteq seen
  BY Zenon DEF SInv, Start, Expire, claims
<1>2. topics' \in [Processes -> SUBSET Watched] /\ expired' \in [Messages -> Nat]
  <2>1. ASSUME NEW p \in Processes, Start(p)
        PROVE  topics' \in [Processes -> SUBSET Watched] /\ expired' \in [Messages -> Nat]
    <3>1. PICK d \in SUBSET Watched : topics' = [topics EXCEPT ![p] = d]
      BY Zenon, <2>1 DEF Start
    <3> QED
      BY Zenon, <1>1, <2>1, <3>1 DEF TypeOK, Start
  <2>2. ASSUME NEW m \in Messages, Expire(m)
        PROVE  topics' \in [Processes -> SUBSET Watched] /\ expired' \in [Messages -> Nat]
    BY <1>1, <2>2 DEF TypeOK, Expire, claims
  <2> QED
    BY Zenon, <2>1, <2>2
<1>3. TypeOK'
  BY Zenon, <1>1, <1>2 DEF TypeOK
<1> QED
  BY Zenon, <1>1, <1>3, QuietFacts DEF SInv

\* A relay publishes: every claim stays where it is.
LEMMA PublishStep ==
  ASSUME SInv, NEW m \in Messages, Publish(m)
  PROVE  SInv'
<1> DEFINE t == TopicOf[m]
<1>1. /\ TypeOK /\ t \in Topics /\ log' = [log EXCEPT ![t] = Append(@, m)]
      /\ UNCHANGED <<topics, owner, pc, pos, seen, inbox, pushed, expired, failed, faults>>
  BY Zenon, SyncAssumption DEF SInv, Publish, claims
<1>2. \A u \in Topics : log[u] \in Seq(Messages)
  BY Zenon, <1>1 DEF TypeOK
<1>3. log'[t] = Append(log[t], m) /\ \A u \in Topics : u # t => log'[u] = log[u]
  BY Zenon, <1>1 DEF TypeOK
<1>4. ASSUME NEW u \in Topics
      PROVE  /\ log'[u] \in Seq(Messages)
             /\ DOMAIN log[u] \subseteq DOMAIN log'[u]
             /\ \A i \in DOMAIN log[u] : log'[u][i] = log[u][i]
             /\ \A i \in DOMAIN log'[u] : i \in DOMAIN log[u] \/ (log'[u][i] = m /\ u = t)
  <2>1. CASE u = t
    <3>1. log[u] \in Seq(Messages) /\ log'[u] = Append(log[u], m)
      BY Zenon, <1>2, <1>3, <2>1
    <3>2. /\ Append(log[u], m) \in Seq(Messages)
          /\ DOMAIN Append(log[u], m) = DOMAIN log[u] \cup {Len(log[u]) + 1}
          /\ \A i \in DOMAIN log[u] : Append(log[u], m)[i] = log[u][i]
          /\ Append(log[u], m)[Len(log[u]) + 1] = m
      BY <3>1, AppendFacts
    <3> QED
      BY Zenon, <2>1, <3>1, <3>2
  <2>2. CASE u # t
    BY Zenon, <1>2, <1>3, <2>2
  <2> QED
    BY Zenon, <2>1, <2>2
<1> HIDE DEF t
<1>5. TypeOK'
  <2>1. log' \in [Topics -> Seq(Messages)]
    BY <1>1, <1>2 DEF TypeOK
  <2> QED
    BY Zenon, <1>1, <2>1 DEF TypeOK
<1>6. \A j \in Claims : pos[j] \in DOMAIN log[j[2]] =>
         pos'[j] \in DOMAIN log'[j[2]] /\ At(j)' = At(j)
  BY <1>1, <1>4, ClaimParts DEF At
<1>7. \A n : Stored(n)' <=> Stored(n)
  BY Zenon, <1>1 DEF Stored
<1>8. ASSUME NEW j \in Claims PROVE ClaimOK(j)'
  <2>1. ClaimOK(j)
    BY Zenon DEF SInv
  <2>2. CASE pc[j] \in {"insert", "push"}
    BY Zenon, <1>1, <1>6, <1>7, <2>1, <2>2 DEF ClaimOK
  <2>3. CASE pc[j] \notin {"insert", "push"}
    BY Zenon, <1>1, <2>3 DEF ClaimOK
  <2> QED
    BY Zenon, <2>2, <2>3
<1>9. LogInv'
  BY <1>4 DEF SInv, LogInv, t
<1>10. LostOnlyByFailure' /\ PushedIsStored'
  <2>1. ASSUME NEW n, InHand(n) PROVE InHand(n)'
    <3>1. PICK j \in Claims : pc[j] = "insert" /\ At(j) = n
      BY Zenon, <2>1 DEF InHand
    <3>2. pos[j] \in DOMAIN log[j[2]]
      BY Zenon, <3>1 DEF SInv, ClaimOK
    <3> QED
      BY Zenon, <1>1, <1>6, <3>1, <3>2 DEF InHand
  <2> QED
    BY Zenon, <1>1, <1>7, <2>1 DEF SInv, LostOnlyByFailure, PushedIsStored
<1>11. InboxSound'
  <2>1. ASSUME NEW n \in Messages, InLog(n) PROVE InLog(n)'
    BY Zenon, <1>4, <2>1, SyncAssumption DEF InLog, Holds
  <2>2. \A u \in Users : \A i \in DOMAIN inbox[u] : inbox[u][i] \in Messages
    BY <1>1 DEF TypeOK
  <2> QED
    BY <1>1, <2>1, <2>2 DEF SInv, InboxSound
<1> QED
  BY Zenon, <1>5, <1>8, <1>9, <1>10, <1>11 DEF SInv

\* A process stops: the messages its claims had in hand count as failed.
LEMMA CrashStep ==
  ASSUME SInv, NEW p \in Processes, Crash(p)
  PROVE  SInv'
<1>1. /\ TypeOK /\ Fault
      /\ topics' = [topics EXCEPT ![p] = {}]
      /\ owner' = [t \in Topics |-> IF owner[t] = p THEN NoProcess ELSE owner[t]]
      /\ pc' = [k \in Claims |-> IF k[1] = p THEN "off" ELSE pc[k]]
      /\ failed' = failed \cup {At(k) : k \in {c \in Claims : c[1] = p /\ pc[c] = "insert"}}
      /\ UNCHANGED <<log, pos, seen, inbox, pushed, expired>>
  BY Zenon DEF SInv, Crash
<1>2. TypeOK'
  <2>1. topics' \in [Processes -> SUBSET Watched]
    BY Zenon, <1>1 DEF TypeOK
  <2>2. owner' \in [Topics -> Processes \cup {NoProcess}]
    BY Zenon, <1>1 DEF TypeOK
  <2>3. pc' \in [Claims -> {"off", "next", "insert", "push"}]
    BY Zenon, <1>1 DEF TypeOK
  <2>4. failed' \in SUBSET Messages
    <3>1. \A k \in Claims : pc[k] = "insert" => At(k) \in Messages
      BY Zenon, HandFacts
    <3> QED
      BY <1>1, <3>1 DEF TypeOK
  <2>5. faults' \in 0 .. MaxFaults
    BY Zenon, <1>1, FaultFacts
  <2> QED
    BY Zenon, <1>1, <2>1, <2>2, <2>3, <2>4, <2>5 DEF TypeOK
<1>3. \A j \in Claims : At(j)' = At(j) /\ pc'[j] \in {"off", pc[j]}
  BY Zenon, <1>1 DEF At
<1>4. \A n : Stored(n)' <=> Stored(n)
  BY Zenon, <1>1 DEF Stored
<1>5. ASSUME NEW j \in Claims PROVE ClaimOK(j)'
  <2>1. ClaimOK(j)
    BY Zenon DEF SInv
  <2>2. CASE pc'[j] = "off"
    BY Zenon, <2>2 DEF ClaimOK
  <2>3. CASE pc'[j] = pc[j]
    BY Zenon, <1>1, <1>3, <1>4, <2>1, <2>3 DEF ClaimOK, Stored
  <2> QED
    BY Zenon, <1>3, <2>2, <2>3
<1>6. ASSUME NEW n, InHand(n) PROVE InHand(n)' \/ n \in failed'
  <2>1. PICK j \in Claims : pc[j] = "insert" /\ At(j) = n
    BY Zenon, <1>6 DEF InHand
  <2>2. CASE j[1] = p
    BY Zenon, <1>1, <2>1, <2>2
  <2>3. CASE j[1] # p
    BY Zenon, <1>1, <1>3, <2>1, <2>3 DEF InHand
  <2> QED
    BY Zenon, <2>2, <2>3
<1>7. LostOnlyByFailure' /\ PushedIsStored'
  BY Zenon, <1>1, <1>4, <1>6 DEF SInv, LostOnlyByFailure, PushedIsStored
<1>8. LogInv' /\ InboxSound'
  BY Zenon, <1>1, NoInsertFacts DEF SInv, LogInv
<1> QED
  BY Zenon, <1>2, <1>5, <1>7, <1>8 DEF SInv

-----------------------------------------------------------------------------
\* Nothing is published, seen or stored at first.
LEMMA InvInit == Init => SInv
<1> SUFFICES ASSUME Init PROVE SInv
  BY Zenon
<1>1. TypeOK
  BY SyncAssumption DEF Init, TypeOK, Claims
<1>2. \A k \in Claims : ClaimOK(k)
  BY Zenon DEF Init, ClaimOK
<1>3. LogInv /\ LostOnlyByFailure /\ PushedIsStored /\ InboxSound
  BY DEF Init, LogInv, LostOnlyByFailure, PushedIsStored, InboxSound
<1> QED
  BY Zenon, <1>1, <1>2, <1>3 DEF SInv

\* Every step preserves the invariant.
LEMMA InvStep == SInv /\ [Next]_vars => SInv'
<1> SUFFICES ASSUME SInv, [Next]_vars PROVE SInv'
  BY Zenon
<1>1. ASSUME NEW m \in Messages, Publish(m) \/ Expire(m) PROVE SInv'
  BY Zenon, <1>1, PublishStep, QuietStep
<1>2. ASSUME NEW p \in Processes, Start(p) \/ Crash(p) PROVE SInv'
  BY Zenon, <1>2, QuietStep, CrashStep
<1>3. ASSUME NEW k \in Claims, GroupStep(k) PROVE SInv'
  BY Zenon, <1>3, GroupStepKeeps
<1>4. ASSUME NEW k \in Claims, HandleStep(k) PROVE SInv'
  BY Zenon, <1>4, PassStep, FirstSightStep, DedupFailStep, InsertOkStep, InsertFailStep, PushStep
     DEF HandleStep
<1>5. CASE UNCHANGED vars
  <2>1. TypeOK'
    BY Zenon, <1>5 DEF SInv, TypeOK, vars
  <2> QED
    BY Zenon, <1>5, <2>1, QuietFacts DEF SInv, vars
<1> QED
  BY Zenon, <1>1, <1>2, <1>3, <1>4, <1>5 DEF Next

\* The inductive invariant holds in every reachable state of the service.
THEOREM SyncInvariant == Spec => []SInv
BY InvInit, InvStep, PTL DEF Spec

\* Logs, claims, keys and inboxes always have their types: no interleaving of
\* ConsumeClaim, rebalances and crashes leads to a malformed state.
THEOREM SyncTyped == Spec => []TypeOK
<1>1. SInv => TypeOK
  BY Zenon DEF SInv
<1> QED
  BY <1>1, SyncInvariant, PTL

\* A message that IsDuplicate has marked as seen is in the inbox, in the hands
\* of a claim that will insert it, or one of which a Handle failed.
THEOREM SyncLostOnlyByFailure == Spec => []LostOnlyByFailure
<1>1. SInv => LostOnlyByFailure
  BY Zenon DEF SInv
<1> QED
  BY <1>1, SyncInvariant, PTL

\* Handle pushes nothing that the inbox does not have.
THEOREM SyncPushedIsStored == Spec => []PushedIsStored
<1>1. SInv => PushedIsStored
  BY Zenon DEF SInv
<1> QED
  BY <1>1, SyncInvariant, PTL

\* Store.Insert keeps every inbox free of duplicates and of messages that
\* were not published for its user, whatever is replayed.
THEOREM SyncInboxSound == Spec => []InboxSound
<1>1. SInv => InboxSound
  BY Zenon DEF SInv
<1> QED
  BY <1>1, SyncInvariant, PTL

-----------------------------------------------------------------------------
\* A claim that began with the oldest message has stored what it has passed,
\* and what is stored of its topic is what it has passed.
Swept(k) ==
  LET l == log[k[2]]
  IN /\ pos[k] <= Len(l) + 1
     /\ \A h \in DOMAIN l :
          (h < pos[k] /\ RecipientOf[l[h]] # NoUser /\ l[h] \notin Anonymous) => Stored(l[h])
     /\ \A m \in Messages : (Stored(m) /\ TopicOf[m] = k[2]) =>
          \E h \in DOMAIN l : l[h] = m /\ (h < pos[k] \/ (h = pos[k] /\ pc[k] = "push"))

\* Without faults a topic has one claim, which sweeps it once.
OrderInv ==
  faults = 0 =>
    /\ failed \subseteq Anonymous
    /\ \A k \in Claims : pc[k] # "off" => owner[k[2]] = k[1] /\ Swept(k)
    /\ \A m \in Messages : Stored(m) => owner[TopicOf[m]] # NoProcess

\* Two claims of a topic are the same.
LEMMA Alone ==
  ASSUME OrderInv, faults = 0, NEW j \in Claims, NEW k \in Claims,
         pc[j] # "off", pc[k] # "off", j[2] = k[2]
  PROVE  j = k
<1>1. j[1] = k[1]
  BY Zenon DEF OrderInv
<1> QED
  BY <1>1 DEF Claims

\* A claim that stays where it is while the others store nothing of its topic.
LEMMA SweptKept ==
  ASSUME SInv, NEW j \in Claims, Swept(j), log' = log, pc'[j] = pc[j], pos'[j] = pos[j],
         \A m \in Messages : Stored(m) => Stored(m)',
         \A m \in Messages : Stored(m)' => Stored(m) \/ TopicOf[m] # j[2]
  PROVE  Swept(j)'
<1>1. \A h \in DOMAIN log[j[2]] : log[j[2]][h] \in Messages
  BY ClaimParts DEF SInv, TypeOK
<1> QED
  BY <1>1 DEF Swept

\* A claim that goes on with nothing stored.
LEMMA SweptOn ==
  ASSUME SInv, NEW k \in Claims, Swept(k), log' = log, Advance(k), inbox' = inbox,
         pos[k] \in DOMAIN log[k[2]],
         (RecipientOf[At(k)] # NoUser /\ At(k) \notin Anonymous) => Stored(At(k))
  PROVE  Swept(k)'
<1> DEFINE l == log[k[2]]
<1>1. \A m : Stored(m)' <=> Stored(m)
  BY Zenon DEF Stored
<1>2. /\ l \in Seq(Messages) /\ pos[k] \in Nat /\ Len(l) \in Nat /\ DOMAIN l = 1 .. Len(l)
      /\ pos[k] \in 1 .. Len(l)
  BY ClaimParts DEF SInv, TypeOK
<1>3. pos'[k] = pos[k] + 1
  BY Zenon DEF Advance, SInv, TypeOK
<1>4. /\ \A h \in DOMAIN l :
          (h < pos[k] /\ RecipientOf[l[h]] # NoUser /\ l[h] \notin Anonymous) => Stored(l[h])
      /\ \A m \in Messages : (Stored(m) /\ TopicOf[m] = k[2]) =>
          \E h \in DOMAIN l : l[h] = m /\ h <= pos[k]
  BY <1>2 DEF Swept
<1>5. RecipientOf[l[pos[k]]] # NoUser /\ l[pos[k]] \notin Anonymous => Stored(l[pos[k]])
  BY Zenon DEF At
<1> HIDE DEF l
<1>6. pos'[k] <= Len(l) + 1
  BY <1>2, <1>3
<1>7. \A h \in DOMAIN l :
        (h < pos'[k] /\ RecipientOf[l[h]] # NoUser /\ l[h] \notin Anonymous) => Stored(l[h])
  <2> SUFFICES ASSUME NEW h \in DOMAIN l, h < pos'[k]
               PROVE  (RecipientOf[l[h]] # NoUser /\ l[h] \notin Anonymous) => Stored(l[h])
    BY Zenon
  <2>1. h < pos[k] \/ h = pos[k]
    BY <1>2, <1>3
  <2> QED
    BY Zenon, <1>4, <1>5, <2>1
<1>8. \A m \in Messages : (Stored(m) /\ TopicOf[m] = k[2]) => \E h \in DOMAIN l : l[h] = m /\ h < pos'[k]
  <2>1. \A h \in DOMAIN l : h <= pos[k] => h < pos'[k]
    BY <1>2, <1>3
  <2> QED
    BY Zenon, <1>4, <2>1
<1>9. log'[k[2]] = l
  BY Zenon DEF l
<1> QED
  BY Zenon, <1>1, <1>6, <1>7, <1>8, <1>9 DEF Swept

\* A step of a claim that has the topic.
LEMMA OrderLocal ==
  ASSUME SInv, OrderInv, faults = 0, NEW k \in Claims, log' = log, owner' = owner,
         \A j \in Claims \ {k} : pc'[j] = pc[j] /\ pos'[j] = pos[j],
         \A m \in Messages : Stored(m) => Stored(m)',
         \A m \in Messages : Stored(m)' => Stored(m) \/ TopicOf[m] = k[2],
         pc[k] # "off", Swept(k)', failed' \subseteq Anonymous
  PROVE  OrderInv'
<1>1. ASSUME NEW j \in Claims, pc'[j] # "off" PROVE owner'[j[2]] = j[1] /\ Swept(j)'
  <2>1. CASE j = k
    BY Zenon, <2>1 DEF OrderInv
  <2>2. CASE j # k
    <3>1. pc'[j] = pc[j] /\ pos'[j] = pos[j] /\ pc[j] # "off"
      BY Zenon, <1>1, <2>2
    <3>2. j[2] # k[2]
      BY Zenon, <2>2, <3>1, Alone
    <3>3. owner[j[2]] = j[1] /\ Swept(j)
      BY Zenon, <3>1 DEF OrderInv
    <3> QED
      BY Zenon, <3>1, <3>2, <3>3, SweptKept
  <2> QED
    BY Zenon, <2>1, <2>2
<1>2. owner[k[2]] # NoProcess
  BY ClaimParts, SyncAssumption DEF OrderInv
<1>3. \A m \in Messages : Stored(m)' => owner'[TopicOf[m]] # NoProcess
  BY Zenon, <1>2 DEF OrderInv
<1> QED
  BY Zenon, <1>1, <1>3 DEF OrderInv

\* The steps of Handle, without faults.
LEMMA OrderPass ==
  ASSUME SInv, OrderInv, faults = 0, NEW k \in Claims,
         Skip(k) \/ Duplicate(k) \/ InsertReject(k) \/ Push(k)
  PROVE  OrderInv'
<1>1. UNCHANGED <<log, owner, inbox>> /\ Advance(k) /\ pc[k] # "off"
  BY Zenon DEF Skip, Duplicate, InsertReject, Push, Consuming
<1>2. \A m : Stored(m)' <=> Stored(m)
  BY Zenon, <1>1 DEF Stored
<1>3. \A j \in Claims \ {k} : pc'[j] = pc[j] /\ pos'[j] = pos[j]
  BY Zenon, <1>1, AdvanceFacts DEF SInv
<1>4. failed' \subseteq Anonymous /\ Swept(k)
  BY Zenon, <1>1 DEF OrderInv, Skip, Duplicate, InsertReject, Push
<1>5. pos[k] \in DOMAIN log[k[2]]
  BY Zenon DEF Skip, Duplicate, InsertReject, Push, Consuming, SInv, ClaimOK
<1>6. At(k) \in Messages /\ TopicOf[At(k)] = k[2]
  BY Zenon, <1>5, AtFacts, ClaimParts DEF SInv, LogInv, At
<1>7. ASSUME RecipientOf[At(k)] # NoUser, At(k) \notin Anonymous PROVE Stored(At(k))
  <2>1. CASE Push(k)
    BY Zenon, <2>1 DEF Push, SInv, ClaimOK
  <2>2. CASE Duplicate(k)
    <3>1. At(k) \in seen \ Anonymous /\ pc[k] = "next"
      BY Zenon, <1>7, <2>2 DEF Duplicate, Consuming
    <3>2. At(k) \notin failed
      BY Zenon, <1>7 DEF OrderInv
    <3>3. ASSUME NEW j \in Claims, pc[j] = "insert", At(j) = At(k) PROVE FALSE
      <4>1. pos[j] \in DOMAIN log[j[2]] /\ j[2] \in Topics
        BY Zenon, <3>3, ClaimParts DEF SInv, ClaimOK
      <4>2. TopicOf[At(j)] = j[2]
        BY Zenon, <4>1 DEF SInv, LogInv, At
      <4>3. j = k
        BY Zenon, <1>1, <1>6, <3>3, <4>2, Alone
      <4> QED
        BY Zenon, <3>1, <3>3, <4>3
    <3> QED
      BY Zenon, <3>1, <3>2, <3>3 DEF SInv, LostOnlyByFailure, InHand
  <2> QED
    BY Zenon, <1>7, <2>1, <2>2 DEF Skip, InsertReject
<1>8. Swept(k)'
  BY Zenon, <1>1, <1>4, <1>5, <1>7, SweptOn
<1> QED
  BY Zenon, <1>1, <1>2, <1>3, <1>4, <1>8, OrderLocal

\* A claim that passes the dedup check stays where it is.
LEMMA OrderFirstSight ==
  ASSUME SInv, OrderInv, faults = 0, NEW k \in Claims, FirstSight(k)
  PROVE  OrderInv'
<1>1. /\ UNCHANGED <<log, owner, pos, inbox, failed>> /\ pc[k] = "next"
      /\ pc' = [pc EXCEPT ![k] = "insert"]
  BY Zenon DEF FirstSight, Consuming
<1>2. \A m : Stored(m)' <=> Stored(m)
  BY Zenon, <1>1 DEF Stored
<1>3. pc'[k] = "insert" /\ \A j \in Claims \ {k} : pc'[j] = pc[j] /\ pos'[j] = pos[j]
  BY Zenon, <1>1 DEF SInv, TypeOK
<1>4. Swept(k)'
  BY Zenon, <1>1, <1>2, <1>3 DEF OrderInv, Swept
<1>5. failed' \subseteq Anonymous
  BY Zenon, <1>1 DEF OrderInv
<1> QED
  BY Zenon, <1>1, <1>2, <1>3, <1>4, <1>5, OrderLocal

\* What is stored after an insert.
LEMMA InsertStores ==
  ASSUME SInv, NEW m \in Messages, RecipientOf[m] # NoUser, Insert(m), NEW n \in Messages, Stored(n)'
  PROVE  Stored(n) \/ n = m
<1> DEFINE u == RecipientOf[m]
<1>1. u \in Users /\ inbox \in [Users -> Seq(Messages)] /\ inbox[u] \in Seq(Messages)
  BY Zenon, SyncAssumption DEF SInv, TypeOK
<1>2. /\ inbox'[u] = IF Holds(inbox[u], m) THEN inbox[u] ELSE Append(inbox[u], m)
      /\ \A v \in Users : v # u => inbox'[v] = inbox[v]
  BY Zenon, <1>1 DEF Insert
<1>3. CASE RecipientOf[n] = u
  <2>1. Holds(inbox'[u], n) => Holds(inbox[u], n) \/ n = m
    BY <1>1, <1>2, AppendHolds
  <2> QED
    BY Zenon, <1>3, <2>1 DEF Stored
<1>4. CASE RecipientOf[n] # u
  BY Zenon, <1>2, <1>4, SyncAssumption DEF Stored
<1> QED
  BY Zenon, <1>3, <1>4

\* A claim stores the message it is at.
LEMMA OrderInsert ==
  ASSUME SInv, OrderInv, faults = 0, NEW k \in Claims, InsertOk(k)
  PROVE  OrderInv'
<1>1. /\ UNCHANGED <<log, owner, pos, failed>> /\ pc[k] = "insert" /\ Insert(At(k))
      /\ pc' = [pc EXCEPT ![k] = "push"]
  BY Zenon DEF InsertOk
<1>2. /\ At(k) \in Messages /\ RecipientOf[At(k)] # NoUser /\ InLog(At(k))
      /\ pos[k] \in DOMAIN log[k[2]] /\ TopicOf[At(k)] = k[2]
  BY Zenon, <1>1, HandFacts, ClaimParts DEF SInv, ClaimOK, LogInv, At
<1>3. pc'[k] = "push" /\ \A j \in Claims \ {k} : pc'[j] = pc[j] /\ pos'[j] = pos[j]
  BY Zenon, <1>1 DEF SInv, TypeOK
<1>4. \A m \in Messages : Stored(m) => Stored(m)'
  BY Zenon, <1>1, <1>2, InsertFacts
<1>5. \A m \in Messages : Stored(m)' => Stored(m) \/ m = At(k)
  BY Zenon, <1>1, <1>2, InsertStores
<1>6. Swept(k)'
  <2> DEFINE l == log[k[2]]
  <2>1. l \in Seq(Messages)
    BY Zenon, ClaimParts DEF SInv, TypeOK
  <2>2. Swept(k)
    BY Zenon, <1>1 DEF OrderInv
  <2>3. \A h \in DOMAIN l : l[h] \in Messages /\ \A m \in Messages :
          (l[h] = m /\ h < pos[k] /\ RecipientOf[m] # NoUser /\ m \notin Anonymous) => Stored(m)'
    BY <1>4, <2>1, <2>2 DEF Swept
  <2>4. \A m \in Messages : (Stored(m)' /\ TopicOf[m] = k[2]) =>
          \E h \in DOMAIN l : l[h] = m /\ (h < pos[k] \/ h = pos[k])
    BY Zenon, <1>2, <1>5, <2>2 DEF Swept, At
  <2>5. log'[k[2]] = l /\ pos'[k] = pos[k] /\ pos[k] <= Len(l) + 1
    BY Zenon, <1>1, <2>2 DEF Swept
  <2> HIDE DEF l
  <2> QED
    BY <1>3, <2>3, <2>4, <2>5 DEF Swept
<1>7. failed' \subseteq Anonymous
  BY Zenon, <1>1 DEF OrderInv
<1> QED
  BY Zenon, <1>1, <1>2, <1>3, <1>4, <1>5, <1>6, <1>7, OrderLocal

\* The group assigns a topic that nobody had: nothing of it is stored yet.
LEMMA OrderGroup ==
  ASSUME SInv, OrderInv, faults = 0, NEW k \in Claims, Assign(k) \/ Revoke(k)
  PROVE  OrderInv'
<1>1. Assign(k)
  BY Zenon DEF OrderInv, Revoke
<1>2. /\ UNCHANGED <<log, inbox, failed>> /\ owner[k[2]] = NoProcess /\ TypeOK
      /\ owner' = [owner EXCEPT ![k[2]] = k[1]] /\ pc' = [pc EXCEPT ![k] = "next"]
      /\ pos' = [pos EXCEPT ![k] = 1]
  BY Zenon, <1>1 DEF Assign, Open, SInv
<1>3. k[1] \in Processes /\ k[2] \in Topics /\ NoProcess \notin Processes
  BY Zenon, ClaimParts, SyncAssumption
<1>4. \A m : Stored(m)' <=> Stored(m)
  BY Zenon, <1>2 DEF Stored
<1>5. pos'[k] = 1 /\ \A j \in Claims \ {k} : pc'[j] = pc[j] /\ pos'[j] = pos[j]
  BY Zenon, <1>2 DEF TypeOK
<1>6. owner'[k[2]] = k[1] /\ \A t \in Topics : t # k[2] => owner'[t] = owner[t]
  BY Zenon, <1>2, <1>3 DEF TypeOK
<1>7. \A m \in Messages : Stored(m) => TopicOf[m] # k[2]
  BY Zenon, <1>2 DEF OrderInv
<1>8. ASSUME NEW j \in Claims, pc'[j] # "off" PROVE owner'[j[2]] = j[1] /\ Swept(j)'
  <2>1. CASE j = k
    <3>1. log[k[2]] \in Seq(Messages) /\ log'[k[2]] = log[k[2]]
      BY Zenon, <1>2, <1>3 DEF TypeOK
    <3>2. pos'[k] <= Len(log'[k[2]]) + 1 /\ \A h \in DOMAIN log'[k[2]] : ~ h < pos'[k]
      BY <1>5, <3>1
    <3>3. Swept(k)'
      BY Zenon, <1>4, <1>7, <3>2 DEF Swept
    <3> QED
      BY Zenon, <1>6, <2>1, <3>3
  <2>2. CASE j # k
    <3>1. pc'[j] = pc[j] /\ pos'[j] = pos[j] /\ pc[j] # "off"
      BY Zenon, <1>5, <1>8, <2>2
    <3>2. owner[j[2]] = j[1] /\ Swept(j) /\ j[1] \in Processes /\ j[2] \in Topics
      BY Zenon, <3>1, ClaimParts DEF OrderInv
    <3>3. Swept(j)'
      BY Zenon, <1>2, <1>4, <3>1, <3>2, SweptKept
    <3> QED
      BY Zenon, <1>2, <1>3, <1>6, <3>2, <3>3
  <2> QED
    BY Zenon, <2>1, <2>2
<1>9. \A m \in Messages : Stored(m)' => owner'[TopicOf[m]] # NoProcess
  BY Zenon, <1>3, <1>4, <1>6, <1>7, SyncAssumption DEF OrderInv
<1>10. failed' \subseteq Anonymous
  BY Zenon, <1>2 DEF OrderInv
<1> QED
  BY Zenon, <1>8, <1>9, <1>10 DEF OrderInv

\* Steps that leave claims, logs and inboxes alone.
LEMMA OrderQuiet ==
  ASSUME OrderInv, UNCHANGED <<log, owner, pc, pos, inbox, failed, faults>>
  PROVE  OrderInv'
<1>1. \A m : Stored(m)' <=> Stored(m)
  BY Zenon DEF Stored
<1>2. \A k \in Claims : Swept(k)' <=> Swept(k)
  BY <1>1 DEF Swept
<1> QED
  BY Zenon, <1>1, <1>2 DEF OrderInv

\* What a topic holds after a message is published.
LEMMA PublishFacts ==
  ASSUME TypeOK, NEW m \in Messages, Publish(m), NEW t \in Topics
  PROVE  /\ log[t] \in Seq(Messages) /\ Len(log[t]) <= Len(log'[t]) /\ Len(log'[t]) \in Nat
         /\ DOMAIN log[t] \subseteq DOMAIN log'[t]
         /\ \A i \in DOMAIN log[t] : log'[t][i] = log[t][i]
         /\ \A i \in DOMAIN log'[t] : i \in DOMAIN log[t] \/ i = Len(log[t]) + 1
<1>1. log[t] \in Seq(Messages) /\ log'[t] \in {log[t], Append(log[t], m)}
  BY Zenon DEF TypeOK, Publish
<1>2. CASE log'[t] = log[t]
  BY <1>1, <1>2
<1>3. CASE log'[t] = Append(log[t], m)
  <2>1. Len(Append(log[t], m)) = Len(log[t]) + 1 /\ Len(log[t]) \in Nat
    BY <1>1
  <2> QED
    BY <1>1, <1>3, <2>1, AppendFacts
<1> QED
  BY Zenon, <1>1, <1>2, <1>3

\* A new message comes after what every claim has passed.
LEMMA OrderPublish ==
  ASSUME SInv, OrderInv, NEW m \in Messages, Publish(m)
  PROVE  OrderInv'
<1>1. UNCHANGED <<owner, pc, pos, inbox, failed, faults>> /\ TypeOK
  BY Zenon DEF Publish, claims, SInv
<1>2. \A n : Stored(n)' <=> Stored(n)
  BY Zenon, <1>1 DEF Stored
<1>3. ASSUME NEW k \in Claims, Swept(k) PROVE Swept(k)'
  <2> DEFINE l == log[k[2]]
             g == log'[k[2]]
  <2>1. /\ l \in Seq(Messages) /\ Len(l) <= Len(g) /\ Len(g) \in Nat /\ DOMAIN l \subseteq DOMAIN g
        /\ \A i \in DOMAIN l : g[i] = l[i]
        /\ \A i \in DOMAIN g : i \in DOMAIN l \/ i = Len(l) + 1
    BY Zenon, <1>1, ClaimParts, PublishFacts
  <2>2. pos[k] \in Nat /\ Len(l) \in Nat
    BY <1>1, <2>1 DEF TypeOK
  <2>3. pos[k] <= Len(l) + 1
    BY Zenon, <1>3 DEF Swept
  <2> HIDE DEF l, g
  <2>4. pos[k] <= Len(g) + 1 /\ \A i \in DOMAIN g : i < pos[k] => i \in DOMAIN l
    BY <2>1, <2>2, <2>3
  <2> USE DEF l, g
  <2>5. \A h \in DOMAIN g :
          (h < pos[k] /\ RecipientOf[g[h]] # NoUser /\ g[h] \notin Anonymous) => Stored(l[h]) /\ g[h] = l[h]
    BY Zenon, <1>3, <2>1, <2>4 DEF Swept
  <2>6. \A n \in Messages : (Stored(n) /\ TopicOf[n] = k[2]) =>
          \E h \in DOMAIN g : g[h] = n /\ (h < pos[k] \/ (h = pos[k] /\ pc[k] = "push"))
    BY <1>3, <2>1 DEF Swept
  <2> QED
    BY Zenon, <1>1, <1>2, <2>4, <2>5, <2>6 DEF Swept
<1> QED
  BY Zenon, <1>1, <1>2, <1>3 DEF OrderInv

\* The topic of a has a before any b.
Before(a, b) ==
  \E k \in DOMAIN log[TopicOf[a]] :
    log[TopicOf[a]][k] = a /\ \A h \in 1 .. k : log[TopicOf[a]][h] # b

\* What OrderNeedsFault says of two entries of an inbox.
LEMMA OrderedBefore ==
  ASSUME OrderNeedsFault, faults = 0, NEW u \in Users, NEW i \in DOMAIN inbox[u], NEW j \in DOMAIN inbox[u],
         i < j, TopicOf[inbox[u][i]] = TopicOf[inbox[u][j]]
  PROVE  Before(inbox[u][i], inbox[u][j])
BY DEF OrderNeedsFault, Before

\* The claim inserts what its topic has after everything stored of the topic.
LEMMA InsertsInOrder ==
  ASSUME SInv, OrderInv, faults = 0, OrderNeedsFault, NEW k \in Claims, InsertOk(k)
  PROVE  OrderNeedsFault'
<1> DEFINE m == At(k)
           u == RecipientOf[m]
           l == log[k[2]]
<1>1. /\ UNCHANGED <<log, faults>> /\ pc[k] = "insert" /\ Insert(m) /\ m \notin Anonymous
  BY Zenon DEF InsertOk
<1>2. /\ m \in Messages /\ u \in Users /\ u # NoUser
      /\ pos[k] \in DOMAIN l /\ TopicOf[m] = k[2] /\ Swept(k) /\ l[pos[k]] = m
  BY Zenon, <1>1, HandFacts, ClaimParts DEF SInv, ClaimOK, LogInv, At, OrderInv
<1>3. /\ inbox[u] \in Seq(Messages)
      /\ inbox'[u] = IF Holds(inbox[u], m) THEN inbox[u] ELSE Append(inbox[u], m)
      /\ \A v \in Users : v # u => inbox'[v] = inbox[v]
  BY Zenon, <1>1, <1>2 DEF Insert, SInv, TypeOK
<1>4. l \in Seq(Messages) /\ DOMAIN l = 1 .. Len(l) /\ Len(l) \in Nat /\ pos[k] \in Nat
  BY ClaimParts DEF SInv, TypeOK
<1>5. ASSUME NEW a \in Messages, Stored(a), ~ Stored(m), TopicOf[a] = k[2] PROVE Before(a, m)
  <2>1. PICK h \in DOMAIN l : l[h] = a /\ h < pos[k]
    BY Zenon, <1>1, <1>2, <1>5 DEF Swept
  <2>2. ASSUME NEW g \in 1 .. h PROVE l[g] # m
    <3>1. g \in DOMAIN l /\ g < pos[k]
      BY <1>4, <2>1
    <3> QED
      BY Zenon, <1>1, <1>2, <1>5, <3>1 DEF Swept
  <2> QED
    BY Zenon, <1>5, <2>1, <2>2 DEF Before
<1>6. \A a, b : Before(a, b)' <=> Before(a, b)
  BY Zenon, <1>1 DEF Before
<1>7. ASSUME NEW v \in Users, NEW i \in DOMAIN inbox'[v], NEW j \in DOMAIN inbox'[v], i < j,
             TopicOf[inbox'[v][i]] = TopicOf[inbox'[v][j]]
      PROVE  Before(inbox'[v][i], inbox'[v][j])
  <2>1. CASE inbox'[v] = inbox[v]
    BY <1>7, <2>1 DEF OrderNeedsFault, Before
  <2>2. CASE v = u /\ ~ Holds(inbox[u], m) /\ inbox'[u] = Append(inbox[u], m)
    <3> DEFINE s == inbox[u]
    <3>1. /\ s \in Seq(Messages) /\ Len(s) \in Nat /\ DOMAIN s = 1 .. Len(s)
          /\ DOMAIN inbox'[v] = DOMAIN s \cup {Len(s) + 1} /\ inbox'[v][Len(s) + 1] = m
          /\ \A h \in DOMAIN s : inbox'[v][h] = s[h] /\ s[h] \in Messages
      BY <1>2, <1>3, <2>2, AppendFacts
    <3>2. i \in DOMAIN s /\ (j \in DOMAIN s \/ j = Len(s) + 1)
      <4> HIDE DEF s
      <4> QED
        BY <1>7, <3>1
    <3>3. CASE j \in DOMAIN s
      <4>1. inbox'[v][i] = s[i] /\ inbox'[v][j] = s[j]
        BY Zenon, <3>1, <3>2, <3>3
      <4>2. TopicOf[s[i]] = TopicOf[s[j]] /\ i \in DOMAIN inbox[u] /\ j \in DOMAIN inbox[u]
        BY Zenon, <1>7, <3>2, <3>3, <4>1
      <4>3. Before(s[i], s[j])
        BY Zenon, <1>2, <1>7, <4>2, OrderedBefore
      <4> QED
        BY Zenon, <4>1, <4>3
    <3>4. CASE j = Len(s) + 1
      <4>1. inbox'[v][i] = s[i] /\ inbox'[v][j] = m /\ TopicOf[s[i]] = k[2] /\ s[i] \in Messages
        BY Zenon, <1>2, <1>7, <3>1, <3>2, <3>4
      <4>2. RecipientOf[s[i]] = u
        BY Zenon, <1>2, <3>2 DEF SInv, InboxSound
      <4>3. Stored(s[i]) /\ ~ Stored(m)
        BY Zenon, <1>2, <2>2, <3>2, <4>2 DEF Stored, Holds
      <4> QED
        BY Zenon, <1>5, <4>1, <4>3
    <3> QED
      BY Zenon, <3>2, <3>3, <3>4
  <2> QED
    BY Zenon, <1>3, <2>1, <2>2
<1>8. ASSUME NEW v \in Users, NEW i \in DOMAIN inbox'[v], NEW j \in DOMAIN inbox'[v], i < j,
             TopicOf[inbox'[v][i]] = TopicOf[inbox'[v][j]]
      PROVE  Before(inbox[v][i], inbox[v][j])'
  BY Zenon, <1>6, <1>7, <1>8
<1> QED
  BY <1>8 DEF OrderNeedsFault, Before

\* A message that is appended to its topic changes nothing before it.
LEMMA PublishedInOrder ==
  ASSUME SInv, OrderNeedsFault, NEW m \in Messages, Publish(m)
  PROVE  OrderNeedsFault'
<1>1. UNCHANGED <<inbox, faults>> /\ TypeOK
  BY Zenon DEF Publish, claims, SInv
<1>2. ASSUME NEW a \in Messages, NEW b, Before(a, b) PROVE Before(a, b)'
  <2> DEFINE l == log[TopicOf[a]]
             g == log'[TopicOf[a]]
  <2>1. /\ l \in Seq(Messages) /\ DOMAIN l \subseteq DOMAIN g
        /\ \A i \in DOMAIN l : g[i] = l[i]
    BY Zenon, <1>1, SyncAssumption, PublishFacts
  <2>2. PICK k \in DOMAIN l : l[k] = a /\ \A h \in 1 .. k : l[h] # b
    BY Zenon, <1>2 DEF Before
  <2>3. \A h \in 1 .. k : h \in DOMAIN l
    BY <2>1
  <2>4. k \in DOMAIN g /\ g[k] = a /\ \A h \in 1 .. k : g[h] # b
    BY Zenon, <2>1, <2>2, <2>3
  <2> QED
    BY Zenon, <2>4 DEF Before
<1>3. \A u \in Users : \A i \in DOMAIN inbox[u] : inbox[u][i] \in Messages
  BY <1>1 DEF TypeOK
<1>4. ASSUME NEW u \in Users, NEW i \in DOMAIN inbox[u], NEW j \in DOMAIN inbox[u], faults = 0, i < j,
             TopicOf[inbox[u][i]] = TopicOf[inbox[u][j]]
      PROVE  Before(inbox[u][i], inbox[u][j])'
  <2>1. Before(inbox[u][i], inbox[u][j])
    BY <1>4 DEF OrderNeedsFault, Before
  <2> QED
    BY Zenon, <1>1, <1>2, <1>3, <2>1
<1> QED
  BY <1>1, <1>4 DEF OrderNeedsFault, Before

\* Every step keeps the claims sweeping and the inboxes in order.
LEMMA OrderStep ==
  ASSUME SInv, OrderInv, OrderNeedsFault, [Next]_vars
  PROVE  OrderInv' /\ OrderNeedsFault'
<1>1. ASSUME NEW m \in Messages, Publish(m) PROVE OrderInv' /\ OrderNeedsFault'
  BY Zenon, <1>1, OrderPublish, PublishedInOrder
<1>2. CASE Fault
  <2>1. faults' # 0
    BY <1>2 DEF Fault, SInv, TypeOK
  <2> QED
    BY Zenon, <2>1 DEF OrderInv, OrderNeedsFault
<1>3. ASSUME ~ Fault, UNCHANGED <<log, inbox>>, faults' = faults PROVE OrderNeedsFault'
  BY <1>3 DEF OrderNeedsFault
<1>4. CASE UNCHANGED <<log, owner, pc, pos, inbox, failed, faults>>
  BY <1>4, OrderQuiet DEF OrderNeedsFault
<1>5. ASSUME NEW k \in Claims, InsertOk(k) PROVE OrderInv' /\ OrderNeedsFault'
  <2>1. faults' = faults
    BY Zenon, <1>5 DEF InsertOk
  <2> QED
    BY Zenon, <1>5, <2>1, OrderInsert, InsertsInOrder DEF OrderInv, OrderNeedsFault
<1>6. ASSUME NEW k \in Claims,
             Assign(k) \/ Revoke(k) \/ Skip(k) \/ Duplicate(k) \/ InsertReject(k) \/ Push(k) \/ FirstSight(k)
      PROVE  OrderInv' /\ OrderNeedsFault'
  <2>1. UNCHANGED <<log, inbox, faults>>
    BY Zenon, <1>6 DEF Assign, Open, Revoke, Skip, Duplicate, InsertReject, Push, FirstSight
  <2>2. CASE faults = 0
    BY <1>6, <2>1, <2>2, OrderGroup, OrderPass, OrderFirstSight DEF OrderNeedsFault
  <2>3. CASE faults # 0
    BY Zenon, <2>1, <2>3 DEF OrderInv, OrderNeedsFault
  <2> QED
    BY Zenon, <2>2, <2>3
<1>7. ASSUME NEW m \in Messages, Expire(m) PROVE UNCHANGED <<log, owner, pc, pos, inbox, failed, faults>>
  BY Zenon, <1>7 DEF Expire, claims
<1>8. ASSUME NEW p \in Processes, Start(p) PROVE UNCHANGED <<log, owner, pc, pos, inbox, failed, faults>>
  BY Zenon, <1>8 DEF Start
<1>9. \A p \in Processes : Crash(p) => Fault
  BY Zenon DEF Crash
<1>10. \A k \in Claims : Rebalance(k) \/ DedupFail(k) \/ InsertFail(k) => Fault
  BY Zenon DEF Rebalance, DedupFail, InsertFail
<1>11. UNCHANGED vars => UNCHANGED <<log, owner, pc, pos, inbox, failed, faults>>
  BY Zenon DEF vars
<1> QED
  BY Zenon, <1>1, <1>2, <1>4, <1>5, <1>6, <1>7, <1>8, <1>9, <1>10, <1>11 DEF Next, GroupStep, HandleStep

\* Messages of one topic come into the inbox in the order of the topic, unless
\* a call fails, a topic changes hands or a process stops: replays, duplicates
\* and expiring dedup keys alone do not disturb the order.
THEOREM SyncOrderNeedsFault == Spec => []OrderNeedsFault
<1> DEFINE Inv == SInv /\ OrderInv /\ OrderNeedsFault
<1>1. Init => Inv
  <2>1. Init => OrderNeedsFault /\ \A m \in Messages : ~ Stored(m)
    BY SyncAssumption DEF Init, OrderNeedsFault, Stored, Holds
  <2>2. Init => OrderInv
    BY Zenon, <2>1 DEF Init, OrderInv
  <2> QED
    BY Zenon, <2>1, <2>2, InvInit
<1>2. Inv /\ [Next]_vars => Inv'
  BY Zenon, InvStep, OrderStep
<1> QED
  BY <1>1, <1>2, PTL DEF Spec

-----------------------------------------------------------------------------
INSTANCE FiniteSetTheorems

\* The claims that have passed the dedup check for m and have yet to push it.
Holders(m) == {k \in Claims : pc[k] \in {"insert", "push"} /\ At(k) = m}

Lives(m) == expired[m] + IF m \in seen THEN 1 ELSE 0

\* Every push of m, done or still to come, has used up a life of its dedup key.
KeyInv(m) == IsFiniteSet(Holders(m)) /\ pushed[m] + Cardinality(Holders(m)) <= Lives(m)

\* A step that pushes nothing, lets no claim pass the check and ends no life.
LEMMA KeyKept ==
  ASSUME TypeOK, TypeOK', NEW m \in Messages, KeyInv(m),
         Holders(m)' \subseteq Holders(m), pushed'[m] = pushed[m], Lives(m) <= Lives(m)'
  PROVE  KeyInv(m)'
<1> DEFINE H == Holders(m)
           G == Holders(m)'
<1>1. IsFiniteSet(H) /\ pushed[m] + Cardinality(H) <= Lives(m)
  BY Zenon DEF KeyInv
<1>2. IsFiniteSet(G) /\ Cardinality(G) <= Cardinality(H) /\ Cardinality(G) \in Nat /\ Cardinality(H) \in Nat
  BY Zenon, <1>1, FS_Subset, FS_CardinalityType
<1>3. pushed[m] \in Nat /\ Lives(m) \in Nat /\ Lives(m)' \in Nat
  BY DEF TypeOK, Lives
<1>4. IsFiniteSet(Holders(m))' /\ Cardinality(Holders(m))' = Cardinality(G)
  BY Zenon, <1>2
<1> HIDE DEF H, G
<1>5. pushed'[m] + Cardinality(G) <= Lives(m)'
  BY <1>1, <1>2, <1>3
<1> QED
  BY Zenon, <1>4, <1>5 DEF KeyInv

\* The claims that hold a message, after a step of one of them.
LEMMA HoldersOfOthers ==
  ASSUME NEW k \in Claims, log' = log, NEW m,
         \A j \in Claims \ {k} : pc'[j] = pc[j] /\ pos'[j] = pos[j]
  PROVE  Holders(m)' \ {k} = Holders(m) \ {k}
<1>1. \A j \in Claims \ {k} : At(j)' = At(j)
  BY Zenon DEF At
<1> QED
  BY Zenon, <1>1 DEF Holders

\* A claim that is not past the check afterwards holds nothing.
LEMMA KeyLocal ==
  ASSUME SInv, SInv', NEW k \in Claims, log' = log, NEW m \in Messages, KeyInv(m),
         \A j \in Claims \ {k} : pc'[j] = pc[j] /\ pos'[j] = pos[j],
         pc'[k] \notin {"insert", "push"} \/ (k \in Holders(m)' => k \in Holders(m)),
         pushed'[m] = pushed[m], expired'[m] = expired[m], seen \subseteq seen'
  PROVE  KeyInv(m)'
<1>1. Holders(m)' \ {k} = Holders(m) \ {k}
  BY Zenon, HoldersOfOthers
<1>2. k \in Holders(m)' => k \in Holders(m)
  BY Zenon DEF Holders
<1>3. Holders(m)' \subseteq Holders(m)
  BY Zenon, <1>1, <1>2
<1>4. Lives(m) <= Lives(m)'
  BY DEF Lives, SInv, TypeOK
<1> QED
  BY Zenon, <1>3, <1>4, KeyKept DEF SInv

\* A claim that passes the dedup check begins a life of the key.
LEMMA KeyFirstSight ==
  ASSUME SInv, SInv', NEW k \in Claims, FirstSight(k), NEW m \in Messages, KeyInv(m)
  PROVE  KeyInv(m)'
<1>1. /\ seen' = seen \cup {At(k)} /\ pc' = [pc EXCEPT ![k] = "insert"]
      /\ At(k) \notin seen /\ pc[k] = "next"
      /\ UNCHANGED <<log, pos, pushed, expired>>
  BY Zenon DEF FirstSight, Consuming
<1>2. pc'[k] = "insert" /\ \A j \in Claims \ {k} : pc'[j] = pc[j] /\ pos'[j] = pos[j]
  BY Zenon, <1>1 DEF SInv, TypeOK
<1>3. Holders(m)' \ {k} = Holders(m) \ {k}
  BY Zenon, <1>1, <1>2, HoldersOfOthers
<1>4. At(k)' = At(k)
  BY Zenon, <1>1 DEF At
<1>5. k \notin Holders(m)
  BY Zenon, <1>1 DEF Holders
<1>6. CASE At(k) # m
  <2>1. k \notin Holders(m)'
    BY Zenon, <1>4, <1>6 DEF Holders
  <2>2. Holders(m)' \subseteq Holders(m)
    BY Zenon, <1>3, <2>1
  <2>3. Lives(m) <= Lives(m)'
    BY <1>1 DEF Lives, SInv, TypeOK
  <2> QED
    BY Zenon, <1>1, <2>2, <2>3, KeyKept DEF SInv
<1>7. CASE At(k) = m
  <2> DEFINE H == Holders(m)
  <2>1. Holders(m)' = H \cup {k}
    BY Zenon, <1>2, <1>3, <1>4, <1>5, <1>7 DEF Holders
  <2>2. IsFiniteSet(H) /\ pushed[m] + Cardinality(H) <= Lives(m)
    BY Zenon DEF KeyInv
  <2>3. IsFiniteSet(H \cup {k}) /\ Cardinality(H \cup {k}) = Cardinality(H) + 1 /\ Cardinality(H) \in Nat
    BY Zenon, <1>5, <2>2, FS_AddElement, FS_CardinalityType
  <2>4. Lives(m)' = Lives(m) + 1 /\ pushed[m] \in Nat /\ pushed'[m] = pushed[m] /\ Lives(m) \in Nat
    BY <1>1, <1>7 DEF Lives, SInv, TypeOK
  <2> HIDE DEF H
  <2>5. pushed'[m] + Cardinality(H \cup {k}) <= Lives(m)'
    BY <2>2, <2>3, <2>4
  <2> QED
    BY Zenon, <2>1, <2>3, <2>5 DEF KeyInv
<1> QED
  BY Zenon, <1>6, <1>7

\* A claim that pushes holds the message no more.
LEMMA KeyPush ==
  ASSUME SInv, SInv', NEW k \in Claims, Push(k), NEW m \in Messages, KeyInv(m)
  PROVE  KeyInv(m)'
<1>1. /\ pc[k] = "push" /\ Advance(k) /\ pushed' = [pushed EXCEPT ![At(k)] = @ + 1]
      /\ UNCHANGED <<log, seen, expired>> /\ TypeOK /\ pushed \in [Messages -> Nat]
  BY Zenon DEF Push, SInv, TypeOK
<1>2. pc'[k] = "next" /\ \A j \in Claims \ {k} : pc'[j] = pc[j] /\ pos'[j] = pos[j]
  BY Zenon, <1>1, AdvanceFacts
<1>3. CASE At(k) # m
  <2>1. pushed'[m] = pushed[m]
    BY Zenon, <1>1, <1>3
  <2> QED
    BY Zenon, <1>1, <1>2, <2>1, KeyLocal
<1>4. CASE At(k) = m
  <2> DEFINE H == Holders(m)
  <2>1. Holders(m)' \ {k} = Holders(m) \ {k} /\ k \notin Holders(m)' /\ k \in Holders(m)
    BY <1>1, <1>2, <1>4, HoldersOfOthers DEF Holders
  <2>2. Holders(m)' = H \ {k} /\ k \in H
    BY Zenon, <2>1
  <2>3. IsFiniteSet(H) /\ pushed[m] + Cardinality(H) <= Lives(m)
    BY Zenon DEF KeyInv
  <2>4. IsFiniteSet(H \ {k}) /\ Cardinality(H \ {k}) = Cardinality(H) - 1 /\ Cardinality(H) \in Nat
    BY Zenon, <2>2, <2>3, FS_RemoveElement, FS_CardinalityType
  <2>5. Lives(m)' = Lives(m) /\ pushed[m] \in Nat /\ pushed'[m] = pushed[m] + 1 /\ Lives(m) \in Nat
    BY <1>1, <1>4 DEF Lives, SInv, TypeOK
  <2>6. Holders(m)' = H \ {k}
    BY Zenon, <2>2
  <2> HIDE DEF H
  <2>7. pushed'[m] + Cardinality(H \ {k}) <= Lives(m)'
    BY <2>3, <2>4, <2>5
  <2> QED
    BY Zenon, <2>6, <2>4, <2>7 DEF KeyInv
<1> QED
  BY Zenon, <1>3, <1>4

\* Every step keeps the count of pushes within the lives of the key.
LEMMA KeyStep ==
  ASSUME SInv, SInv', [Next]_vars, NEW m \in Messages, KeyInv(m)
  PROVE  KeyInv(m)'
<1>1. ASSUME NEW n \in Messages, Publish(n) PROVE KeyInv(m)'
  <2>1. UNCHANGED <<pc, pos, seen, pushed, expired>> /\ log' = [log EXCEPT ![TopicOf[n]] = Append(@, n)]
    BY Zenon, <1>1 DEF Publish, claims
  <2>2. ASSUME NEW k \in Claims, pc[k] \in {"insert", "push"} PROVE At(k)' = At(k)
    <3>1. k[2] \in Topics /\ log \in [Topics -> Seq(Messages)] /\ pos[k] \in DOMAIN log[k[2]]
      BY Zenon, <2>2, ClaimParts DEF SInv, TypeOK, ClaimOK
    <3>2. \A i \in DOMAIN log[k[2]] : Append(log[k[2]], n)[i] = log[k[2]][i]
      BY <3>1, AppendFacts
    <3>3. log'[k[2]] \in {log[k[2]], Append(log[k[2]], n)}
      BY Zenon, <2>1, <3>1
    <3> QED
      BY Zenon, <2>1, <3>1, <3>2, <3>3 DEF At
  <2>3. Holders(m)' \subseteq Holders(m)
    BY Zenon, <2>1, <2>2 DEF Holders
  <2>4. Lives(m) <= Lives(m)' /\ pushed'[m] = pushed[m]
    BY <2>1 DEF Lives, SInv, TypeOK
  <2> QED
    BY Zenon, <2>3, <2>4, KeyKept DEF SInv
<1>2. ASSUME NEW n \in Messages, Expire(n) PROVE KeyInv(m)'
  <2>1. /\ UNCHANGED <<log, pc, pos, pushed>> /\ n \in seen
        /\ seen' = seen \ {n} /\ expired' = [expired EXCEPT ![n] = @ + 1]
    BY Zenon, <1>2 DEF Expire, claims
  <2>2. Holders(m)' \subseteq Holders(m)
    BY Zenon, <2>1 DEF Holders, At
  <2>3. Lives(m) <= Lives(m)'
    BY <2>1 DEF Lives, SInv, TypeOK
  <2> QED
    BY Zenon, <2>1, <2>2, <2>3, KeyKept DEF SInv
<1>3. ASSUME NEW p \in Processes, Start(p) \/ Crash(p) PROVE KeyInv(m)'
  <2>1. UNCHANGED <<log, pos, seen, pushed, expired>>
    BY Zenon, <1>3 DEF Start, Crash
  <2>2. \A k \in Claims : pc'[k] \in {"off", pc[k]}
    BY Zenon, <1>3 DEF Start, Crash
  <2>3. Holders(m)' \subseteq Holders(m)
    BY Zenon, <2>1, <2>2 DEF Holders, At
  <2>4. Lives(m) <= Lives(m)'
    BY <2>1 DEF Lives, SInv, TypeOK
  <2> QED
    BY <2>1, <2>3, <2>4, KeyKept DEF SInv
<1>4. ASSUME NEW k \in Claims, GroupStep(k) PROVE KeyInv(m)'
  <2>1. /\ UNCHANGED <<log, seen, pushed, expired>>
        /\ pos' = [pos EXCEPT ![k] = 1] \/ UNCHANGED pos
        /\ pc' = [pc EXCEPT ![k] = "next"] \/ pc' = [pc EXCEPT ![k] = "off"]
    BY Zenon, <1>4 DEF GroupStep, Assign, Rebalance, Revoke, Open
  <2>2. pc'[k] \notin {"insert", "push"} /\ \A j \in Claims \ {k} : pc'[j] = pc[j] /\ pos'[j] = pos[j]
    BY Zenon, <2>1 DEF SInv, TypeOK
  <2> QED
    BY Zenon, <2>1, <2>2, KeyLocal
<1>5. ASSUME NEW k \in Claims, Skip(k) \/ Duplicate(k) \/ DedupFail(k) \/ InsertReject(k) \/ InsertFail(k)
      PROVE  KeyInv(m)'
  <2>1. UNCHANGED <<log, pushed, expired>> /\ Advance(k) /\ seen \subseteq seen'
    BY Zenon, <1>5 DEF Skip, Duplicate, DedupFail, InsertReject, InsertFail
  <2>2. pc'[k] = "next" /\ \A j \in Claims \ {k} : pc'[j] = pc[j] /\ pos'[j] = pos[j]
    BY Zenon, <2>1, AdvanceFacts DEF SInv
  <2> QED
    BY Zenon, <2>1, <2>2, KeyLocal
<1>6. ASSUME NEW k \in Claims, InsertOk(k) PROVE KeyInv(m)'
  <2>1. UNCHANGED <<log, pos, seen, pushed, expired>> /\ pc[k] = "insert" /\ pc' = [pc EXCEPT ![k] = "push"]
    BY Zenon, <1>6 DEF InsertOk
  <2>2. \A j \in Claims \ {k} : pc'[j] = pc[j] /\ pos'[j] = pos[j]
    BY Zenon, <2>1 DEF SInv, TypeOK
  <2>3. k \in Holders(m)' => k \in Holders(m)
    BY Zenon, <2>1 DEF Holders, At
  <2> QED
    BY Zenon, <2>1, <2>2, <2>3, KeyLocal
<1>7. CASE UNCHANGED vars
  <2>1. UNCHANGED <<log, pc, pos, seen, pushed, expired>>
    BY Zenon, <1>7 DEF vars
  <2>2. Holders(m)' \subseteq Holders(m)
    BY Zenon, <2>1 DEF Holders, At
  <2>3. Lives(m) <= Lives(m)'
    BY <2>1 DEF Lives, SInv, TypeOK
  <2> QED
    BY Zenon, <2>1, <2>2, <2>3, KeyKept DEF SInv
<1>8. ASSUME NEW k \in Claims, FirstSight(k) \/ Push(k) PROVE KeyInv(m)'
  BY Zenon, <1>8, KeyFirstSight, KeyPush
<1> QED
  BY <1>1, <1>2, <1>3, <1>4, <1>5, <1>6, <1>7, <1>8 DEF Next, HandleStep

\* SETNX decides: between two expiries of its dedup key a message is pushed at
\* most once, by however many processes and claims that handle it concurrently.
THEOREM SyncPushedOncePerKey == Spec => []PushedOncePerKey
<1> DEFINE Inv == SInv /\ \A m \in Messages : KeyInv(m)
<1>1. Init => Inv
  <2> SUFFICES ASSUME Init PROVE Inv
    BY Zenon
  <2>1. ASSUME NEW m \in Messages PROVE KeyInv(m)
    <3>1. Holders(m) = {} /\ pushed[m] = 0 /\ Lives(m) = 0
      BY DEF Init, Holders, Lives
    <3> QED
      BY <3>1, FS_EmptySet DEF KeyInv
  <2> QED
    BY Zenon, <2>1, InvInit
<1>2. Inv /\ [Next]_vars => Inv'
  BY Zenon, InvStep, KeyStep
<1>3. Inv => PushedOncePerKey
  <2> SUFFICES ASSUME Inv, NEW m \in Messages PROVE pushed[m] <= 1 + expired[m]
    BY Zenon DEF PushedOncePerKey
  <2>1. Cardinality(Holders(m)) \in Nat /\ pushed[m] + Cardinality(Holders(m)) <= Lives(m)
    BY Zenon, FS_CardinalityType DEF KeyInv
  <2>2. pushed[m] \in Nat /\ expired[m] \in Nat /\ Lives(m) \in Nat /\ Lives(m) <= 1 + expired[m]
    BY DEF Lives, SInv, TypeOK
  <2> QED
    BY <2>1, <2>2
<1> QED
  BY <1>1, <1>2, <1>3, PTL DEF Spec
=============================================================================
