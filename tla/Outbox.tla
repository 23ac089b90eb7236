------------------------------- MODULE Outbox -------------------------------
(***************************************************************************)
(* The sending half of the message pipeline: Dispatcher.Dispatch writes an *)
(* AppMessage to the PostgreSQL table "outbox", and Relay goroutines (one  *)
(* in every dispatcher process) poll the table and publish its pending     *)
(* rows to Kafka.                                                          *)
(*                                                                         *)
(* Each call the code makes to PostgreSQL or to Kafka is one step, so that *)
(* relays of different processes interleave between any two of them.  A    *)
(* call may fail: without effect, or (for the calls whose error the code   *)
(* looks at) after having taken effect, the answer being lost.  A relay's  *)
(* process may stop between two calls.  MaxFaults bounds these faults.     *)
(***************************************************************************)
EXTENDS Naturals, Sequences, FiniteSets

CONSTANTS
  Messages,     \* AppMessages, each with its own message_id
  Topics,       \* the topics messages are routed to
  DeadLetter,   \* the topic kafka.TopicDeadLetter
  NoRoute,      \* stands for the error of RouteMessage
  RouteOf,      \* the topic RouteMessage chooses, or NoRoute
  Relays,       \* the relay goroutines, one per dispatcher process
  BatchSize,    \* the batch field of Relay
  MaxRetries,   \* the constant MaxRetries
  Unavailable,  \* topics to which no Send ever succeeds
  MaxFaults     \* how many calls may fail and processes stop

ASSUME OutboxAssumption ==
  /\ RouteOf \in [Messages -> Topics \cup {NoRoute}]
  /\ DeadLetter \notin Topics
  /\ NoRoute \notin Topics
  /\ Unavailable \subseteq Topics
  /\ IsFiniteSet(Relays)
  /\ BatchSize \in Nat \ {0}
  /\ MaxRetries \in Nat \ {0}
  /\ MaxFaults \in Nat

VARIABLES
  rows,      \* the outbox table in the order of the commits; a row's id is its index
  open,      \* the INSERT statements that have begun and are not committed
  log,       \* what Kafka holds of each topic, in offset order
  pc,        \* the call each relay makes next
  entry,     \* the entry e of poll's loop that each relay is working on
  todo,      \* the entries of the fetched batch that come after it
  reply,     \* what the gateway last told the sender of a message
  attempts,  \* history: failed publish attempts of each message
  faults     \* how many faults there have been

table == <<rows, open, reply>>
local == <<pc, entry, todo>>
vars  == <<rows, open, log, pc, entry, todo, reply, attempts, faults>>

Status == {"pending", "published", "failed"}

\* "since" stands for created_at, which is NOW() when the statement begins:
\* the number of rows that were committed by then.
Row == [msg : Messages, status : Status, retry : Nat, since : Nat]
Statement == [msg : Messages, since : Nat]

\* What poll keeps of a fetched row: the id and the retry_count it had then.
Entry == [id : Nat, retry : Nat]
NoEntry == [id |-> 0, retry |-> 0]

Ids == DOMAIN rows
Msg(r) == rows[entry[r].id].msg

InLog(t, m) == \E k \in DOMAIN log[t] : log[t][k] = m
InTable(m)  == \E i \in Ids : rows[i].msg = m

TypeOK ==
  /\ rows \in Seq(Row)
  /\ open \in SUBSET Statement
  /\ log \in [Topics \cup {DeadLetter} -> Seq(Messages)]
  /\ pc \in [Relays -> {"idle", "send", "mark", "retry", "dead", "fail"}]
  /\ entry \in [Relays -> Entry]
  /\ todo \in [Relays -> SUBSET Entry]
  /\ reply \in [Messages -> {"none", "acked", "refused"}]
  /\ attempts \in [Messages -> Nat]
  /\ faults \in 0 .. MaxFaults

Init ==
  /\ rows = <<>>
  /\ open = {}
  /\ log = [t \in Topics \cup {DeadLetter} |-> <<>>]
  /\ pc = [r \in Relays |-> "idle"]
  /\ entry = [r \in Relays |-> NoEntry]
  /\ todo = [r \in Relays |-> {}]
  /\ reply = [m \in Messages |-> "none"]
  /\ attempts = [m \in Messages |-> 0]
  /\ faults = 0

Fault == faults < MaxFaults /\ faults' = faults + 1

(***************************************************************************)
(* Dispatch, with the gateway's answer: an Ack RECEIVED when the dispatch  *)
(* succeeds, an echo of the request when it does not.  Dispatches of       *)
(* different messages run at the same time: an INSERT takes its created_at *)
(* when it begins and shows its row when it commits.                       *)
(***************************************************************************)
Insert(s) ==
  rows' = Append(rows, [msg |-> s.msg, status |-> "pending", retry |-> 0, since |-> s.since])
Answer(m, a) == reply' = [reply EXCEPT ![m] = a]

\* RouteMessage returns an error: nothing is written.
DispatchUnroutable(m) ==
  /\ RouteOf[m] = NoRoute
  /\ Answer(m, "refused")
  /\ UNCHANGED <<rows, open, log, local, attempts, faults>>

\* The INSERT begins.  A second one of the same message_id waits for it on the
\* UNIQUE index and so begins after it.
DispatchBegins(m) ==
  /\ RouteOf[m] # NoRoute
  /\ \A s \in open : s.msg # m
  /\ open' = open \cup {[msg |-> m, since |-> Len(rows)]}
  /\ UNCHANGED <<rows, log, local, reply, attempts, faults>>

DispatchAccept(s) ==
  /\ ~ InTable(s.msg)
  /\ Insert(s)
  /\ Answer(s.msg, "acked")
  /\ open' = open \ {s}
  /\ UNCHANGED <<log, local, attempts, faults>>

\* Mutant: ON CONFLICT DO UPDATE makes the row pending again.
DispatchConflictResets(s) ==
  /\ InTable(s.msg)
  /\ rows' = [i \in Ids |-> IF rows[i].msg = s.msg THEN [rows[i] EXCEPT !.status = "pending"] ELSE rows[i]]
  /\ Answer(s.msg, "refused")
  /\ open' = open \ {s}
  /\ UNCHANGED <<log, local, attempts, faults>>

\* message_id is UNIQUE: a message sent a second time is refused.
DispatchConflict(s) ==
  /\ InTable(s.msg)
  /\ Answer(s.msg, "refused")
  /\ open' = open \ {s}
  /\ UNCHANGED <<rows, log, local, attempts, faults>>

\* The INSERT fails, or its answer is lost after it has been committed.
DispatchFault(s) ==
  /\ Fault
  /\ Answer(s.msg, "refused")
  /\ rows' = rows \/ (~ InTable(s.msg) /\ Insert(s))
  /\ open' = open \ {s}
  /\ UNCHANGED <<log, local, attempts>>

(***************************************************************************)
(* Relay.poll.                                                             *)
(***************************************************************************)
\* Row i has the smaller created_at: it was committed before the INSERT of
\* row j began (the rows share one database clock).  Rows whose statements
\* overlapped may come in either order, and the ORDER BY breaks no tie.
Precedes(i, j) == i <= rows[j].since

\* The BatchSize rows of P that an ORDER BY created_at may put first.
Oldest(P) ==
  {S \in SUBSET P :
     /\ Cardinality(S) = IF Cardinality(P) < BatchSize THEN Cardinality(P) ELSE BatchSize
     /\ \A j \in S : \A i \in P : Precedes(i, j) => i \in S}

Entries(S) == {[id |-> i, retry |-> rows[i].retry] : i \in S}

\* Mutant: the query has lost its WHERE clause.
FetchAnyStatus == {Entries(S) : S \in Oldest(Ids)}

\* Mutant: the query has lost its ORDER BY.
FetchUnordered ==
  LET pending == {i \in Ids : rows[i].status = "pending"}
      size == IF Cardinality(pending) < BatchSize THEN Cardinality(pending) ELSE BatchSize
  IN {Entries(S) : S \in {T \in SUBSET pending : Cardinality(T) = size}}

\* Mutant: the query leaves out the rows that are to be given up.
FetchBelowLimit ==
  {Entries(S) : S \in Oldest({i \in Ids : rows[i].status = "pending" /\ rows[i].retry < MaxRetries})}

\* The batches FetchPending may return: the oldest pending rows, BatchSize at
\* most.  No row is locked, so relays of two processes may fetch the same rows.
FetchPending == {Entries(S) : S \in Oldest({i \in Ids : rows[i].status = "pending"})}

\* The relay turns to the first entry of S, or waits for the next tick.
Loop(r, S) ==
  \/ /\ S = {}
     /\ pc' = [pc EXCEPT ![r] = "idle"]
     /\ entry' = [entry EXCEPT ![r] = NoEntry]
     /\ todo' = [todo EXCEPT ![r] = {}]
  \/ \E e \in S :
       /\ \A f \in S : ~ Precedes(f.id, e.id)
       /\ pc' = [pc EXCEPT ![r] = "send"]
       /\ entry' = [entry EXCEPT ![r] = e]
       /\ todo' = [todo EXCEPT ![r] = S \ {e}]

Goto(r, l) == pc' = [pc EXCEPT ![r] = l] /\ UNCHANGED <<entry, todo>>

\* A tick.  One that finds nothing, or whose query fails, changes nothing.
Poll(r) ==
  /\ pc[r] = "idle"
  /\ \E S \in FetchPending : S # {} /\ Loop(r, S)
  /\ UNCHANGED <<table, log, attempts, faults>>

Publish(t, m) == log' = [log EXCEPT ![t] = Append(@, m)]

\* publish: producer.Send succeeds.
SendOk(r) ==
  /\ pc[r] = "send"
  /\ RouteOf[Msg(r)] \notin Unavailable
  /\ Publish(RouteOf[Msg(r)], Msg(r))
  /\ Goto(r, "mark")
  /\ UNCHANGED <<table, attempts, faults>>

\* Mutant: publish marks the row although the Send has failed.
SendFailIgnored(r) ==
  /\ pc[r] = "send"
  /\ \/ /\ RouteOf[Msg(r)] \in Unavailable
        /\ UNCHANGED <<log, faults>>
     \/ /\ RouteOf[Msg(r)] \notin Unavailable
        /\ Fault
        /\ UNCHANGED log \/ Publish(RouteOf[Msg(r)], Msg(r))
  /\ Goto(r, "mark")
  /\ UNCHANGED <<table, attempts>>

\* publish: producer.Send returns an error, whether or not the broker has
\* stored the message.
SendFail(r) ==
  /\ pc[r] = "send"
  /\ \/ /\ RouteOf[Msg(r)] \in Unavailable
        /\ UNCHANGED <<log, faults>>
     \/ /\ RouteOf[Msg(r)] \notin Unavailable
        /\ Fault
        /\ UNCHANGED log \/ Publish(RouteOf[Msg(r)], Msg(r))
  /\ Goto(r, "retry")
  /\ UNCHANGED <<table, attempts>>

SetStatus(r, s) == rows' = [rows EXCEPT ![entry[r].id].status = s]

\* publish: MarkPublished, whatever the status has become since the fetch.
MarkPublished(r) ==
  /\ pc[r] = "mark"
  /\ SetStatus(r, "published")
  /\ Loop(r, todo[r])
  /\ UNCHANGED <<open, log, reply, attempts, faults>>

\* publish: MarkPublished returns an error, which counts as a failed publish.
MarkPublishedFail(r) ==
  /\ pc[r] = "mark"
  /\ Fault
  /\ UNCHANGED rows \/ SetStatus(r, "published")
  /\ Goto(r, "retry")
  /\ UNCHANGED <<open, log, reply, attempts>>

\* Mutant: the comparison adds one to the count IncrementRetry has written.
IncrementRetryTwice(r) ==
  /\ pc[r] = "retry"
  /\ \/ /\ rows' = [rows EXCEPT ![entry[r].id].retry = @ + 1]
        /\ UNCHANGED faults
     \/ Fault /\ UNCHANGED rows
  /\ attempts' = [attempts EXCEPT ![Msg(r)] = @ + 1]
  /\ IF rows'[entry[r].id].retry + 1 >= MaxRetries THEN Goto(r, "dead") ELSE Loop(r, todo[r])
  /\ UNCHANGED <<open, log, reply>>

\* poll: IncrementRetry, whose error is ignored; then the comparison with
\* MaxRetries, on the retry count fetched with the batch.
IncrementRetry(r) ==
  /\ pc[r] = "retry"
  /\ \/ /\ rows' = [rows EXCEPT ![entry[r].id].retry = @ + 1]
        /\ UNCHANGED faults
     \/ Fault /\ UNCHANGED rows
  /\ attempts' = [attempts EXCEPT ![Msg(r)] = @ + 1]
  /\ IF entry[r].retry + 1 >= MaxRetries THEN Goto(r, "dead") ELSE Loop(r, todo[r])
  /\ UNCHANGED <<open, log, reply>>

\* sendToDeadLetter: the Send succeeds.
SendToDeadLetter(r) ==
  /\ pc[r] = "dead"
  /\ Publish(DeadLetter, Msg(r))
  /\ Goto(r, "fail")
  /\ UNCHANGED <<table, attempts, faults>>

\* sendToDeadLetter: the Send returns an error; the row stays pending.
SendToDeadLetterFail(r) ==
  /\ pc[r] = "dead"
  /\ Fault
  /\ UNCHANGED log \/ Publish(DeadLetter, Msg(r))
  /\ Loop(r, todo[r])
  /\ UNCHANGED <<table, attempts>>

\* sendToDeadLetter: MarkFailed, whose error is only logged.
MarkFailed(r) ==
  /\ pc[r] = "fail"
  /\ \/ SetStatus(r, "failed") /\ UNCHANGED faults
     \/ Fault /\ UNCHANGED rows
  /\ Loop(r, todo[r])
  /\ UNCHANGED <<open, log, reply, attempts>>

\* The relay's process stops; it, or its successor, starts again from Run.
Crash(r) ==
  /\ pc[r] # "idle"
  /\ Fault
  /\ Loop(r, {})
  /\ UNCHANGED <<table, log, attempts>>

-----------------------------------------------------------------------------
Dispatch(m) ==
  \/ DispatchUnroutable(m)
  \/ DispatchBegins(m)
  \/ \E s \in open : s.msg = m /\ (DispatchAccept(s) \/ DispatchConflict(s) \/ DispatchFault(s))

RelayStep(r) ==
  \/ Poll(r)
  \/ SendOk(r)
  \/ SendFail(r)
  \/ MarkPublished(r)
  \/ MarkPublishedFail(r)
  \/ IncrementRetry(r)
  \/ SendToDeadLetter(r)
  \/ SendToDeadLetterFail(r)
  \/ MarkFailed(r)

Next ==
  \/ \E m \in Messages : Dispatch(m)
  \/ \E r \in Relays : RelayStep(r) \/ Crash(r)

Spec == Init /\ [][Next]_vars

\* The ticker of Run fires for ever and every call returns, so a relay that
\* has something to do does it; senders and faults are not fair.
FairSpec == Spec /\ \A r \in Relays : WF_vars(RelayStep(r))

-----------------------------------------------------------------------------
\* The message is in the topic it was routed to.
Delivered(m) == RouteOf[m] # NoRoute /\ InLog(RouteOf[m], m)

\* Every message the gateway acknowledged is still due or is in Kafka: a row
\* is 'published' only when its topic holds the message, 'failed' only when
\* the dead-letter topic holds it, and an acknowledged message has a row.
\* This is what publish (Send before MarkPublished) and sendToDeadLetter
\* (Send before MarkFailed) are for, with relays that overwrite each other's
\* statuses, lost answers and crashes between any two calls.
NothingLost ==
  /\ \A i \in Ids :
       /\ rows[i].status = "published" => Delivered(rows[i].msg)
       /\ rows[i].status = "failed" => InLog(DeadLetter, rows[i].msg)
  /\ \A m \in Messages : reply[m] = "acked" => InTable(m)

\* poll gives a message up only after MaxRetries failed attempts to publish
\* it, although it compares a retry count that may be stale and that other
\* relays increment too.
DeadLetterOnlyExhausted ==
  \A m \in Messages : InLog(DeadLetter, m) => attempts[m] >= MaxRetries

Copies(m) == Cardinality({k \in DOMAIN log[RouteOf[m]] : log[RouteOf[m]][k] = m})

\* Each relay process publishes a message at most once, plus once for every
\* call that failed or process that stopped: relays that fetch the same rows
\* and mark them under each other's hands do not add copies without end.
DuplicateNeedsFault ==
  \A m \in Messages : RouteOf[m] # NoRoute => Copies(m) <= Cardinality(Relays) + faults

\* Without any fault no message is published twice, whatever the number of
\* relay processes (what fetching the rows FOR UPDATE SKIP LOCKED would give).
PublishedOnce ==
  \A m \in Messages : RouteOf[m] # NoRoute => Copies(m) <= 1

\* A message is overtaken in its topic (one recipient or one group, hence one
\* partition) by a message dispatched after its acknowledgement only when an
\* attempt to publish it has failed before: poll then goes on with the next
\* entry.  No crash, lost answer or second relay puts a later message before
\* one that has not failed.  Messages whose dispatches overlapped have no order.
OvertakenOnlyAfterFailure ==
  \A i, j \in Ids :
    Precedes(i, j) /\ RouteOf[rows[i].msg] = RouteOf[rows[j].msg] =>
      LET l == log[RouteOf[rows[i].msg]]
      IN \A k \in DOMAIN l :
           l[k] = rows[j].msg =>
             attempts[rows[i].msg] > 0 \/ \E h \in 1 .. k : l[h] = rows[i].msg

Accepted == {m \in Messages : InTable(m)}
Due == {m \in Messages : \E i \in Ids : rows[i].msg = m /\ rows[i].status = "pending"}
InTopic == {m \in Messages : Delivered(m)}
InDeadLetter == {m \in Messages : InLog(DeadLetter, m)}

D == INSTANCE Delivery WITH accepted <- Accepted, due <- Due,
                            delivered <- InTopic, abandoned <- InDeadLetter

\* Dispatcher and relays, however many and whatever fails, keep the promise of
\* Delivery: a row is inserted once and never becomes pending again, it stops
\* being pending only when Kafka has its message, and Kafka gets no message
\* that was not accepted.
ImplementsDelivery == D!Spec

\* Every accepted message is published, or given up to the dead-letter topic:
\* poll's retries end and no row is skipped for ever behind other rows.
AcceptedReachesKafka ==
  \A m \in Messages : InTable(m) ~> Delivered(m) \/ InLog(DeadLetter, m)
=============================================================================
