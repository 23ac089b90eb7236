---------------------------- MODULE SyncService -----------------------------
(***************************************************************************)
(* The receiving half of the message pipeline: processes of the sync       *)
(* service consume the user- and group- topics, drop what the dedup keys   *)
(* in Redis say has been seen, insert the rest into the table "inbox" and  *)
(* push it to the recipient's devices.                                     *)
(*                                                                         *)
(* A claim is a goroutine running ConsumeClaim on one topic (all messages  *)
(* of a topic have one key, hence are in one partition) in one process.    *)
(* AutoCommit is off and Commit is never called, so that every claim       *)
(* starts with the oldest message.  Each call to Redis, PostgreSQL or the  *)
(* push service is one step.  Calls fail with or without effect, claims    *)
(* are taken away and processes stop; MaxFaults bounds this.               *)
(***************************************************************************)
EXTENDS Naturals, Sequences, FiniteSets

CONSTANTS
  Messages,     \* AppMessages
  Topics,       \* topics, the ones the service does not watch included
  Watched,      \* the topics DiscoverTopics keeps
  TopicOf,      \* the topic a message is published to
  Users,
  NoUser,       \* nil
  RecipientOf,  \* what extractRecipientID finds, or NoUser
  Anonymous,    \* the messages in which extractSenderID finds nothing
  Processes,    \* processes of the service, all in one consumer group
  NoProcess,
  MaxCopies,    \* how often the relays may publish a message
  MaxExpiries,  \* how often a dedup key may expire
  MaxFaults     \* how many calls fail, claims are lost and processes stop

ASSUME SyncAssumption ==
  /\ Watched \subseteq Topics
  /\ TopicOf \in [Messages -> Topics]
  /\ NoUser \notin Users
  /\ RecipientOf \in [Messages -> Users \cup {NoUser}]
  /\ Anonymous \subseteq Messages
  /\ NoProcess \notin Processes
  /\ MaxCopies \in Nat /\ MaxExpiries \in Nat /\ MaxFaults \in Nat

Claims == Processes \X Topics

VARIABLES
  log,      \* what Kafka holds of each topic
  topics,   \* the topics a process has discovered; none if it is not running
  owner,    \* the process to which the consumer group assigns a topic
  pc,       \* where each claim is in Handle
  pos,      \* the index of the message each claim is at
  seen,     \* the messages whose dedup key is set
  inbox,    \* the inbox rows of each user, in the order of insertion
  pushed,   \* history: how often each message was pushed
  expired,  \* history: how often the dedup key of each message expired
  failed,   \* history: messages of which a Handle failed or was cut off
  faults

claims == <<topics, owner, pc, pos>>
vars == <<log, topics, owner, pc, pos, seen, inbox, pushed, expired, failed, faults>>

At(k) == log[k[2]][pos[k]]
Holds(s, m) == \E i \in DOMAIN s : s[i] = m
Stored(m) == RecipientOf[m] # NoUser /\ Holds(inbox[RecipientOf[m]], m)
InLog(m) == Holds(log[TopicOf[m]], m)
Count(s, m) == Cardinality({i \in DOMAIN s : s[i] = m})

TypeOK ==
  /\ log \in [Topics -> Seq(Messages)]
  /\ topics \in [Processes -> SUBSET Watched]
  /\ owner \in [Topics -> Processes \cup {NoProcess}]
  /\ pc \in [Claims -> {"off", "next", "insert", "push"}]
  /\ pos \in [Claims -> Nat \ {0}]
  /\ seen \in SUBSET Messages
  /\ inbox \in [Users -> Seq(Messages)]
  /\ pushed \in [Messages -> Nat]
  /\ expired \in [Messages -> Nat]
  /\ failed \in SUBSET Messages
  /\ faults \in 0 .. MaxFaults

Init ==
  /\ log = [t \in Topics |-> <<>>]
  /\ topics = [p \in Processes |-> {}]
  /\ owner = [t \in Topics |-> NoProcess]
  /\ pc = [k \in Claims |-> "off"]
  /\ pos = [k \in Claims |-> 1]
  /\ seen = {}
  /\ inbox = [u \in Users |-> <<>>]
  /\ pushed = [m \in Messages |-> 0]
  /\ expired = [m \in Messages |-> 0]
  /\ failed = {}
  /\ faults = 0

Fault == faults < MaxFaults /\ faults' = faults + 1

(***************************************************************************)
(* The surroundings: relays publish at least once, keys expire (dedupTTL). *)
(***************************************************************************)
Publish(m) ==
  /\ Count(log[TopicOf[m]], m) < MaxCopies
  /\ log' = [log EXCEPT ![TopicOf[m]] = Append(@, m)]
  /\ UNCHANGED <<claims, seen, inbox, pushed, expired, failed, faults>>

Expire(m) ==
  /\ m \in seen
  /\ expired[m] < MaxExpiries
  /\ seen' = seen \ {m}
  /\ expired' = [expired EXCEPT ![m] = @ + 1]
  /\ UNCHANGED <<log, claims, inbox, pushed, failed, faults>>

(***************************************************************************)
(* Starting, and the consumer group.                                       *)
(***************************************************************************)
\* main: DiscoverTopics lists the topics that exist now, once; then Run.
\* Without any topic, or when the listing fails, Run returns and the process
\* ends: nothing has happened.
Start(p) ==
  LET discovered == {t \in Watched : log[t] # <<>>}
  IN /\ topics[p] = {}
     /\ discovered # {}
     /\ topics' = [topics EXCEPT ![p] = discovered]
     /\ UNCHANGED <<log, owner, pc, pos, seen, inbox, pushed, expired, failed, faults>>

\* The claim begins: no offset has been committed, so it begins at the oldest.
Open(k) ==
  /\ owner' = [owner EXCEPT ![k[2]] = k[1]]
  /\ pc' = [pc EXCEPT ![k] = "next"]
  /\ pos' = [pos EXCEPT ![k] = 1]
  /\ UNCHANGED <<log, topics, seen, inbox, pushed, expired, failed>>

Assign(k) ==
  /\ k[2] \in topics[k[1]]
  /\ owner[k[2]] = NoProcess
  /\ pc[k] = "off"
  /\ Open(k)
  /\ UNCHANGED faults

\* The group is rebalanced.  A claim of the same process has ended before it
\* begins anew; one of another process may go on for a while (Revoke).
Rebalance(k) ==
  /\ k[2] \in topics[k[1]]
  /\ owner[k[2]] # NoProcess
  /\ pc[k] = "off" \/ (owner[k[2]] = k[1] /\ pc[k] = "next")
  /\ Fault
  /\ Open(k)

\* The claim ends after it was given to another process.
Revoke(k) ==
  /\ pc[k] = "next"
  /\ owner[k[2]] # k[1]
  /\ pc' = [pc EXCEPT ![k] = "off"]
  /\ UNCHANGED <<log, topics, owner, pos, seen, inbox, pushed, expired, failed, faults>>

(***************************************************************************)
(* ConsumeClaim and Handle.  An error of Handle is logged and the loop     *)
(* goes on; MarkMessage marks an offset that is never committed.           *)
(***************************************************************************)
Consuming(k) == pc[k] = "next" /\ pos[k] \in DOMAIN log[k[2]]

Advance(k) ==
  /\ pc' = [pc EXCEPT ![k] = "next"]
  /\ pos' = [pos EXCEPT ![k] = @ + 1]

\* Handle: extractRecipientID finds nobody.
Skip(k) ==
  /\ Consuming(k)
  /\ RecipientOf[At(k)] = NoUser
  /\ Advance(k)
  /\ UNCHANGED <<log, topics, owner, seen, inbox, pushed, expired, failed, faults>>

\* Mutant: the key is read but not set.
FirstSightUnmarked(k) ==
  /\ Consuming(k)
  /\ RecipientOf[At(k)] # NoUser
  /\ At(k) \notin seen
  /\ pc' = [pc EXCEPT ![k] = "insert"]
  /\ UNCHANGED <<log, topics, owner, pos, seen, inbox, pushed, expired, failed, faults>>

\* Mutant: the result of SETNX is not negated.
FirstSightInverted(k) ==
  /\ Consuming(k)
  /\ RecipientOf[At(k)] # NoUser
  /\ At(k) \notin seen
  /\ seen' = seen \cup {At(k)}
  /\ Advance(k)
  /\ UNCHANGED <<log, topics, owner, inbox, pushed, expired, failed, faults>>

\* IsDuplicate: SETNX sets the key.
FirstSight(k) ==
  /\ Consuming(k)
  /\ RecipientOf[At(k)] # NoUser
  /\ At(k) \notin seen
  /\ seen' = seen \cup {At(k)}
  /\ pc' = [pc EXCEPT ![k] = "insert"]
  /\ UNCHANGED <<log, topics, owner, pos, inbox, pushed, expired, failed, faults>>

\* Mutant: ConsumeClaim returns instead of going on.
DuplicateEnds(k) ==
  /\ Consuming(k)
  /\ RecipientOf[At(k)] # NoUser
  /\ At(k) \in seen
  /\ pc' = [pc EXCEPT ![k] = "off"]
  /\ UNCHANGED <<log, topics, owner, pos, seen, inbox, pushed, expired, failed, faults>>

\* IsDuplicate: the key is there.
Duplicate(k) ==
  /\ Consuming(k)
  /\ RecipientOf[At(k)] # NoUser
  /\ At(k) \in seen
  /\ Advance(k)
  /\ UNCHANGED <<log, topics, owner, seen, inbox, pushed, expired, failed, faults>>

\* IsDuplicate returns an error, whether or not the key is set by then.
DedupFail(k) ==
  /\ Consuming(k)
  /\ RecipientOf[At(k)] # NoUser
  /\ Fault
  /\ seen' \in {seen, seen \cup {At(k)}}
  /\ failed' = failed \cup {At(k)}
  /\ Advance(k)
  /\ UNCHANGED <<log, topics, owner, inbox, pushed, expired>>

\* Mutant: the INSERT without ON CONFLICT DO NOTHING, on a table without UNIQUE.
InsertAgain(m) == inbox' = [inbox EXCEPT ![RecipientOf[m]] = Append(@, m)]

\* Mutant: created_at comes from the sender, whose clock may be behind.
InsertSenderClock(m) ==
  LET old == inbox[RecipientOf[m]]
  IN \E new \in IF Holds(old, m) THEN {old} ELSE {Append(old, m), <<m>> \o old} :
       inbox' = [inbox EXCEPT ![RecipientOf[m]] = new]

\* Store.Insert: ON CONFLICT (user_id, message_id) DO NOTHING.
Insert(m) ==
  inbox' = [inbox EXCEPT ![RecipientOf[m]] = IF Holds(@, m) THEN @ ELSE Append(@, m)]

InsertOk(k) ==
  /\ pc[k] = "insert"
  /\ At(k) \notin Anonymous
  /\ Insert(At(k))
  /\ pc' = [pc EXCEPT ![k] = "push"]
  /\ UNCHANGED <<log, topics, owner, pos, seen, pushed, expired, failed, faults>>

\* The column sender_id is NOT NULL.
InsertReject(k) ==
  /\ pc[k] = "insert"
  /\ At(k) \in Anonymous
  /\ failed' = failed \cup {At(k)}
  /\ Advance(k)
  /\ UNCHANGED <<log, topics, owner, seen, inbox, pushed, expired, faults>>

\* Store.Insert returns an error, whether or not the row is there by then.
InsertFail(k) ==
  /\ pc[k] = "insert"
  /\ At(k) \notin Anonymous
  /\ Fault
  /\ UNCHANGED inbox \/ Insert(At(k))
  /\ failed' = failed \cup {At(k)}
  /\ Advance(k)
  /\ UNCHANGED <<log, topics, owner, seen, pushed, expired>>

\* PushToUser, the error of which is logged only.
Push(k) ==
  /\ pc[k] = "push"
  /\ pushed' = [pushed EXCEPT ![At(k)] = @ + 1]
  /\ Advance(k)
  /\ UNCHANGED <<log, topics, owner, seen, inbox, expired, failed, faults>>

\* The process stops; its claims end wherever they are.
Crash(p) ==
  /\ topics[p] # {}
  /\ Fault
  /\ topics' = [topics EXCEPT ![p] = {}]
  /\ owner' = [t \in Topics |-> IF owner[t] = p THEN NoProcess ELSE owner[t]]
  /\ pc' = [k \in Claims |-> IF k[1] = p THEN "off" ELSE pc[k]]
  /\ failed' = failed \cup {At(k) : k \in {c \in Claims : c[1] = p /\ pc[c] = "insert"}}
  /\ UNCHANGED <<log, pos, seen, inbox, pushed, expired>>

-----------------------------------------------------------------------------
HandleStep(k) ==
  \/ Skip(k)
  \/ FirstSight(k)
  \/ Duplicate(k)
  \/ DedupFail(k)
  \/ InsertOk(k)
  \/ InsertReject(k)
  \/ InsertFail(k)
  \/ Push(k)

GroupStep(k) == Assign(k) \/ Rebalance(k) \/ Revoke(k)

Next ==
  \/ \E m \in Messages : Publish(m) \/ Expire(m)
  \/ \E p \in Processes : Start(p) \/ Crash(p)
  \/ \E k \in Claims : GroupStep(k) \/ HandleStep(k)

Spec == Init /\ [][Next]_vars

\* Consume is called in a loop and ranges over the messages of its claims, and
\* the group assigns every subscribed topic; nothing starts a process again,
\* publishes or expires for sure.
Fairness ==
  \A k \in Claims : WF_vars(HandleStep(k)) /\ WF_vars(Assign(k) \/ Revoke(k))

FairSpec == Spec /\ Fairness

-----------------------------------------------------------------------------
\* Some claim has set the key of m and has not yet inserted m.
InHand(m) == \E k \in Claims : pc[k] = "insert" /\ At(k) = m

\* Handle sets the dedup key before it inserts.  A message whose key is set is
\* nevertheless in the inbox, or about to be, unless a Handle of it returned
\* an error or was cut off: claims that replay the topic, take it over from
\* each other, or find the key set by another claim lose nothing else.
LostOnlyByFailure ==
  \A m \in seen \ Anonymous : Stored(m) \/ InHand(m) \/ m \in failed

\* Handle inserts before it pushes: a push that fails, or is lost with the
\* device, finds the message in the inbox later.
PushedIsStored ==
  \A m \in Messages : pushed[m] > 0 => Stored(m)

\* An inbox has a message at most once, and only messages that were published
\* for its user, although relays publish twice, claims replay and keys expire.
InboxSound ==
  \A u \in Users :
    /\ \A i, j \in DOMAIN inbox[u] : inbox[u][i] = inbox[u][j] => i = j
    /\ \A i \in DOMAIN inbox[u] : RecipientOf[inbox[u][i]] = u /\ InLog(inbox[u][i])

\* A message is pushed once for every life of its dedup key, however many
\* claims handle it at the same time: SETNX decides.
PushedOncePerKey == \A m \in Messages : pushed[m] <= 1 + expired[m]

\* As long as some process that knows the topic keeps running, a message in
\* the topic gets into the inbox or a Handle of it fails.
EventuallyStored ==
  \A m \in Messages \ Anonymous :
    RecipientOf[m] # NoUser =>
      ((<>[](InLog(m) /\ \E p \in Processes : TopicOf[m] \in topics[p]))
         => <>(Stored(m) \/ m \in failed))

\* Messages of one topic come into the inbox in the order of the topic as long
\* as no call fails and no topic changes hands: a claim inserts a message
\* before it turns to the next one, and one claim has the topic.
OrderNeedsFault ==
  \A u \in Users : \A i, j \in DOMAIN inbox[u] :
    LET l == log[TopicOf[inbox[u][i]]]
    IN (faults = 0 /\ i < j /\ TopicOf[inbox[u][i]] = TopicOf[inbox[u][j]]) =>
         \E k \in DOMAIN l : l[k] = inbox[u][i] /\ \A h \in 1 .. k : l[h] # inbox[u][j]

\* As long as some process keeps running, a message in a watched topic gets
\* into the inbox or a Handle of it fails.
TopicsDiscovered ==
  \A m \in Messages \ Anonymous :
    (RecipientOf[m] # NoUser /\ TopicOf[m] \in Watched) =>
      ((<>[](InLog(m) /\ \E p \in Processes : topics[p] # {}))
         => <>(Stored(m) \/ m \in failed))
=============================================================================
