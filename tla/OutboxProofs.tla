---------------------------- MODULE OutboxProofs ----------------------------
(***************************************************************************)
(* Proofs that the outbox loses nothing and gives up only what has failed  *)
(* MaxRetries times, for any number of messages, topics and relays, any    *)
(* batch size and any number of faults; that it implements Delivery; and   *)
(* that a message is overtaken only after a failed attempt to publish it,  *)
(* and published more than once per relay only when a call fails or a      *)
(* process stops.                                                          *)
(***************************************************************************)
EXTENDS Outbox, TLAPS

\* A row a relay has fetched exists, and its retry count has not gone down.
Fetched(e) == e.id \in Ids /\ e.retry <= rows[e.id].retry

\* What a relay knows at each point of poll's loop.  NothingLost and
\* DeadLetterOnlyExhausted are not inductive without it: they need that a
\* relay about to mark a row has sent the row's message, and that a relay
\* about to give a message up has seen it fail often enough.
RelayOK(r) ==
  /\ \A e \in todo[r] : Fetched(e)
  /\ pc[r] # "idle" => Fetched(entry[r])
  /\ pc[r] = "mark" => Delivered(Msg(r))
  /\ pc[r] = "fail" => InLog(DeadLetter, Msg(r))
  /\ pc[r] \in {"dead", "fail"} => attempts[Msg(r)] >= MaxRetries

RelayInv == \A r \in Relays : RelayOK(r)

\* The retry count of a row counts failed attempts of its message, and only
\* routable messages have rows.
RowInv ==
  \A i \in Ids :
    /\ rows[i].retry <= attempts[rows[i].msg]
    /\ RouteOf[rows[i].msg] \in Topics

\* Dispatch begins an INSERT only when RouteMessage has found a topic.
OpenInv == \A s \in open : RouteOf[s.msg] \in Topics

IInv == TypeOK /\ RelayInv /\ RowInv /\ OpenInv /\ NothingLost /\ DeadLetterOnlyExhausted

-----------------------------------------------------------------------------
\* What a relay needs to know of the steps of others: the table, the logs and
\* the counts only grow.
Grows ==
  /\ rows' \in Seq(Row)
  /\ attempts' \in [Messages -> Nat]
  /\ Ids \subseteq DOMAIN rows'
  /\ \A i \in Ids : rows'[i].msg = rows[i].msg /\ rows[i].retry <= rows'[i].retry
  /\ \A t \in Topics \cup {DeadLetter} : \A m \in Messages : InLog(t, m) => InLog(t, m)'
  /\ \A m \in Messages : attempts[m] <= attempts'[m]

\* The initial values have their types.
LEMMA TypeInit == Init => TypeOK
<1> SUFFICES ASSUME Init PROVE TypeOK
  BY Zenon
<1>1. NoEntry \in Entry
  BY Zenon DEF NoEntry, Entry
<1>2. QED
  BY <1>1, OutboxAssumption DEF Init, TypeOK

\* Publishing appends one message to one topic and keeps the others.
LEMMA PublishFacts ==
  ASSUME TypeOK, NEW t \in Topics \cup {DeadLetter}, NEW m \in Messages, Publish(t, m)
  PROVE  /\ log' \in [Topics \cup {DeadLetter} -> Seq(Messages)]
         /\ InLog(t, m)'
         /\ \A u \in Topics \cup {DeadLetter}, n \in Messages :
              InLog(u, n)' <=> InLog(u, n) \/ (u = t /\ n = m)
<1>1. log[t] \in Seq(Messages) /\ log'[t] = Append(log[t], m)
  BY Zenon DEF TypeOK, Publish
<1>2. \A u \in Topics \cup {DeadLetter} : u # t => log'[u] = log[u]
  BY Zenon DEF TypeOK, Publish
<1>3. log' \in [Topics \cup {DeadLetter} -> Seq(Messages)]
  BY DEF TypeOK, Publish
<1>4. ASSUME NEW n \in Messages
      PROVE  (\E k \in DOMAIN log'[t] : log'[t][k] = n)
               <=> (\E k \in DOMAIN log[t] : log[t][k] = n) \/ n = m
  BY <1>1
<1>5. QED
  BY <1>2, <1>3, <1>4 DEF InLog

\* The elements of a sequence over S are in S.
LEMMA SeqElement ==
  ASSUME NEW S, NEW s \in Seq(S), NEW i \in DOMAIN s
  PROVE  s[i] \in S
OBVIOUS

\* The columns of a row have their types.
LEMMA RowFields ==
  ASSUME NEW s \in Seq(Row), NEW i \in DOMAIN s
  PROVE  /\ s[i] \in Row /\ s[i].msg \in Messages /\ s[i].status \in Status
         /\ s[i].retry \in Nat /\ s[i].since \in Nat
<1>1. s[i] \in Row
  BY Zenon, SeqElement
<1> QED
  BY Zenon, <1>1 DEF Row

\* A fetched row stays in the table and its retry count never goes down.
LEMMA FetchedStable ==
  ASSUME IInv, Grows, NEW e \in Entry, Fetched(e)
  PROVE  Fetched(e)'
<1>1. e.id \in Ids /\ e.retry \in Nat /\ e.retry <= rows[e.id].retry
  BY Zenon DEF Fetched, Entry
<1>2. rows[e.id].retry \in Nat /\ rows'[e.id].retry \in Nat
  BY Zenon, <1>1, RowFields DEF IInv, TypeOK, Grows, Ids
<1>3. rows[e.id].retry <= rows'[e.id].retry /\ e.id \in DOMAIN rows'
  BY Zenon, <1>1 DEF Grows, Ids
<1> QED
  BY <1>1, <1>2, <1>3 DEF Fetched, Ids

\* What a relay knows stays true while the relay itself does not move.
LEMMA RelayStable ==
  ASSUME IInv, Grows, NEW q \in Relays,
         pc'[q] = pc[q], entry'[q] = entry[q], todo'[q] = todo[q]
  PROVE  RelayOK(q)'
<1>1. \A e \in Entry : Fetched(e) => Fetched(e)'
  BY Zenon, FetchedStable
<1>2. RelayOK(q)
  BY Zenon DEF IInv, RelayInv
<1> /\ \A e \in todo[q] : e \in Entry
    /\ entry[q] \in Entry
  BY Zenon DEF IInv, TypeOK
<1>3. \A e \in todo'[q] : Fetched(e)'
  BY Zenon, <1>1, <1>2 DEF RelayOK
<1>4. CASE pc[q] = "idle"
  BY Zenon, <1>3, <1>4 DEF RelayOK
<1>5. CASE pc[q] # "idle"
  <2>1. Fetched(entry[q]) /\ Fetched(entry[q])'
    BY Zenon, <1>1, <1>2, <1>5 DEF RelayOK
  <2>2. Msg(q) \in Messages /\ RouteOf[Msg(q)] \in Topics
    BY Zenon, <2>1, RowFields DEF Fetched, Msg, IInv, RowInv, TypeOK, Ids
  <2>3. Msg(q)' = Msg(q)
    BY Zenon, <2>1 DEF Fetched, Msg, Grows, Ids
  <2>4. Delivered(Msg(q)) => Delivered(Msg(q))'
    BY Zenon, <2>2, <2>3 DEF Delivered, Grows
  <2>5. attempts[Msg(q)] >= MaxRetries => attempts'[Msg(q)] >= MaxRetries
    BY <2>2, OutboxAssumption DEF Grows, IInv, TypeOK
  <2> QED
    BY Zenon, <1>2, <1>3, <2>1, <2>2, <2>3, <2>4, <2>5 DEF RelayOK, Grows
<1> QED
  BY Zenon, <1>4, <1>5

\* Turning to the next entry, or to the next tick, establishes what a relay
\* knows there.
LEMMA LoopFacts ==
  ASSUME IInv, Grows, NEW r \in Relays, NEW S \in SUBSET Entry,
         \A e \in S : Fetched(e), Loop(r, S)
  PROVE  /\ pc' \in [Relays -> {"idle", "send", "mark", "retry", "dead", "fail"}]
         /\ entry' \in [Relays -> Entry]
         /\ todo' \in [Relays -> SUBSET Entry]
         /\ RelayInv'
<1> /\ pc \in [Relays -> {"idle", "send", "mark", "retry", "dead", "fail"}]
    /\ entry \in [Relays -> Entry]
    /\ todo \in [Relays -> SUBSET Entry]
  BY Zenon DEF IInv, TypeOK
<1>1. \A e \in Entry : Fetched(e) => Fetched(e)'
  BY Zenon, FetchedStable
<1>2. NoEntry \in Entry
  BY Zenon DEF NoEntry, Entry
<1>3. \A q \in Relays : q # r => RelayOK(q)'
  <2> SUFFICES ASSUME NEW q \in Relays, q # r PROVE RelayOK(q)'
    BY Zenon
  <2>1. pc'[q] = pc[q] /\ entry'[q] = entry[q] /\ todo'[q] = todo[q]
    BY Zenon DEF Loop
  <2> QED
    BY Zenon, <2>1, RelayStable
<1>4. CASE S = {} /\ pc' = [pc EXCEPT ![r] = "idle"]
           /\ entry' = [entry EXCEPT ![r] = NoEntry] /\ todo' = [todo EXCEPT ![r] = {}]
  <2>1. RelayOK(r)'
    BY Zenon, <1>4 DEF RelayOK
  <2> QED
    BY Zenon, <1>2, <1>3, <1>4, <2>1 DEF RelayInv
<1>5. ASSUME NEW e \in S, pc' = [pc EXCEPT ![r] = "send"],
             entry' = [entry EXCEPT ![r] = e], todo' = [todo EXCEPT ![r] = S \ {e}]
      PROVE  /\ pc' \in [Relays -> {"idle", "send", "mark", "retry", "dead", "fail"}]
             /\ entry' \in [Relays -> Entry]
             /\ todo' \in [Relays -> SUBSET Entry]
             /\ RelayInv'
  <2>1. pc'[r] = "send" /\ entry'[r] = e /\ todo'[r] = S \ {e}
    BY Zenon, <1>5
  <2>2. RelayOK(r)'
    BY Zenon, <1>1, <2>1 DEF RelayOK
  <2> QED
    BY Zenon, <1>3, <1>5, <2>2 DEF RelayInv
<1> QED
  BY Zenon, <1>4, <1>5 DEF Loop

\* A step that moves no relay.
LEMMA UnmovedFacts ==
  ASSUME IInv, Grows, UNCHANGED local
  PROVE  RelayInv'
BY Zenon, RelayStable DEF local, RelayInv

\* The row and the message a busy relay works on.
LEMMA BusyFacts ==
  ASSUME IInv, NEW r \in Relays, pc[r] # "idle"
  PROVE  /\ entry[r].id \in Ids
         /\ rows[entry[r].id] \in Row
         /\ entry[r].retry \in Nat
         /\ entry[r].retry <= rows[entry[r].id].retry
         /\ Msg(r) \in Messages
         /\ RouteOf[Msg(r)] \in Topics
         /\ todo[r] \in SUBSET Entry
         /\ \A e \in todo[r] : Fetched(e)
<1>1. RelayOK(r) /\ entry[r] \in Entry
  BY Zenon DEF IInv, RelayInv, TypeOK
<1>2. entry[r].id \in Ids /\ entry[r].retry <= rows[entry[r].id].retry
  BY Zenon, <1>1 DEF RelayOK, Fetched
<1> QED
  BY Zenon, <1>1, <1>2, RowFields DEF IInv, TypeOK, RowInv, RelayOK, Msg, Ids, Entry

\* Moving on to another call for the same entry.
LEMMA GotoFacts ==
  ASSUME IInv, Grows, NEW r \in Relays, pc[r] # "idle",
         NEW l \in {"mark", "retry", "dead", "fail"}, Goto(r, l),
         l = "mark" => Delivered(Msg(r))',
         l = "fail" => InLog(DeadLetter, Msg(r))',
         l \in {"dead", "fail"} => attempts'[Msg(r)] >= MaxRetries
  PROVE  /\ pc' \in [Relays -> {"idle", "send", "mark", "retry", "dead", "fail"}]
         /\ entry' \in [Relays -> Entry]
         /\ todo' \in [Relays -> SUBSET Entry]
         /\ RelayInv'
<1> /\ pc \in [Relays -> {"idle", "send", "mark", "retry", "dead", "fail"}]
    /\ entry \in [Relays -> Entry]
    /\ todo \in [Relays -> SUBSET Entry]
  BY Zenon DEF IInv, TypeOK
<1>1. /\ pc'[r] = l /\ entry' = entry /\ todo' = todo
      /\ pc' \in [Relays -> {"idle", "send", "mark", "retry", "dead", "fail"}]
      /\ \A q \in Relays : q # r => pc'[q] = pc[q]
  BY Zenon DEF Goto
<1>2. \A q \in Relays : q # r => RelayOK(q)'
  BY Zenon, <1>1, RelayStable
<1>3. RelayOK(r)'
  <2>1. Fetched(entry[r]) /\ (\A e \in todo[r] : Fetched(e))
    BY Zenon DEF IInv, RelayInv, RelayOK
  <2>2. Fetched(entry[r])' /\ (\A e \in todo'[r] : Fetched(e)')
    BY Zenon, <1>1, <2>1, FetchedStable
  <2>3. Msg(r)' = Msg(r)
    BY Zenon, <1>1, <2>1 DEF Fetched, Msg, Grows, Ids
  <2> QED
    BY Zenon, <1>1, <2>2, <2>3 DEF RelayOK
<1> QED
  BY Zenon, <1>1, <1>2, <1>3 DEF RelayInv

\* Writing a status, or nothing, to the row of a relay's entry.
LEMMA StatusFacts ==
  ASSUME IInv, NEW r \in Relays, pc[r] # "idle", NEW s \in Status,
         UNCHANGED rows \/ SetStatus(r, s)
  PROVE  /\ rows' \in Seq(Row)
         /\ DOMAIN rows' = Ids
         /\ \A i \in Ids : /\ rows'[i].msg = rows[i].msg
                           /\ rows'[i].since = rows[i].since
                           /\ rows'[i].retry = rows[i].retry
                           /\ \/ rows'[i].status = rows[i].status
                              \/ rows'[i].status = s /\ i = entry[r].id
<1>1. rows \in Seq(Row) /\ entry[r].id \in Ids /\ rows[entry[r].id] \in Row
  BY Zenon, BusyFacts DEF IInv, TypeOK
<1>2. CASE UNCHANGED rows
  BY Zenon, <1>1, <1>2 DEF Ids
<1>3. CASE SetStatus(r, s)
  <2> DEFINE new == [rows[entry[r].id] EXCEPT !.status = s]
  <2>1. /\ new \in Row
        /\ new.msg = rows[entry[r].id].msg
        /\ new.since = rows[entry[r].id].since
        /\ new.retry = rows[entry[r].id].retry
        /\ new.status = s
    BY Zenon, <1>1 DEF Row
  <2>2. rows' = [rows EXCEPT ![entry[r].id] = new]
    BY Zenon, <1>3 DEF SetStatus
  <2> HIDE DEF new
  <2> QED
    BY <1>1, <2>1, <2>2 DEF Ids
<1> QED
  BY Zenon, <1>2, <1>3

\* A step that leaves the table's rows alone and publishes nothing to the
\* dead-letter topic keeps the invariants of the rows and of the topics.
LEMMA RowsKept ==
  ASSUME IInv, Grows, UNCHANGED rows,
         \A m \in Messages : reply'[m] = "acked" => reply[m] = "acked",
         \A m \in Messages : InLog(DeadLetter, m)' => attempts'[m] >= MaxRetries
  PROVE  RowInv' /\ NothingLost' /\ DeadLetterOnlyExhausted'
<1>1. \A i \in Ids : rows[i].msg \in Messages /\ rows[i].retry \in Nat
  BY Zenon, RowFields DEF IInv, TypeOK, Ids
<1>2. \A m \in Messages : Delivered(m) => Delivered(m)'
  BY Zenon, OutboxAssumption DEF Delivered, Grows
<1>3. RowInv'
  BY <1>1 DEF IInv, TypeOK, RowInv, Grows, Ids
<1>4. NothingLost'
  BY Zenon, <1>1, <1>2 DEF IInv, NothingLost, InTable, Grows, Ids
<1> QED
  BY Zenon, <1>3, <1>4 DEF DeadLetterOnlyExhausted

\* A step that writes a status to a relay's row.
LEMMA StatusKept ==
  ASSUME IInv, NEW r \in Relays, pc[r] # "idle", NEW s \in Status,
         UNCHANGED rows \/ SetStatus(r, s),
         s = "published" => Delivered(Msg(r)),
         s = "failed" => InLog(DeadLetter, Msg(r)),
         UNCHANGED <<log, reply, attempts>>
  PROVE  Grows /\ RowInv' /\ NothingLost' /\ DeadLetterOnlyExhausted'
<1>1. /\ rows' \in Seq(Row)
      /\ DOMAIN rows' = Ids
      /\ \A i \in Ids : /\ rows'[i].msg = rows[i].msg
                        /\ rows'[i].retry = rows[i].retry
                        /\ \/ rows'[i].status = rows[i].status
                           \/ rows'[i].status = s /\ i = entry[r].id
  BY Zenon, StatusFacts
<1>2. \A i \in Ids : rows[i].msg \in Messages /\ rows[i].retry \in Nat
  BY Zenon, RowFields DEF IInv, TypeOK, Ids
<1>3. /\ \A t, m : InLog(t, m)' <=> InLog(t, m)
      /\ \A m : Delivered(m)' <=> Delivered(m)
      /\ \A m : InTable(m)' <=> InTable(m)
  BY Zenon, <1>1 DEF InLog, Delivered, InTable, Ids
<1>4. Grows
  BY <1>1, <1>2, <1>3 DEF Grows, IInv, TypeOK
<1>5. RowInv'
  BY Zenon, <1>1, <1>2 DEF IInv, RowInv, Ids
<1>6. NothingLost'
  BY <1>1, <1>3 DEF IInv, NothingLost, Ids, Msg
<1>7. DeadLetterOnlyExhausted'
  BY Zenon, <1>3 DEF IInv, DeadLetterOnlyExhausted
<1> QED
  BY Zenon, <1>4, <1>5, <1>6, <1>7

-----------------------------------------------------------------------------
\* A step counts at most one fault, and never more than the bound.
LEMMA FaultFacts ==
  ASSUME IInv, Fault \/ UNCHANGED faults
  PROVE  faults' \in 0 .. MaxFaults
BY OutboxAssumption DEF IInv, TypeOK, Fault

\* The row that a statement inserts.
LEMMA InsertFacts ==
  ASSUME TypeOK, NEW s \in Statement, Insert(s)
  PROVE  \E new \in Row :
           /\ new.msg = s.msg /\ new.status = "pending" /\ new.retry = 0 /\ new.since = s.since
           /\ rows' \in Seq(Row)
           /\ Len(rows) \in Nat /\ Ids = 1 .. Len(rows)
           /\ DOMAIN rows' = Ids \cup {Len(rows) + 1}
           /\ rows'[Len(rows) + 1] = new
           /\ \A i \in Ids : rows'[i] = rows[i]
<1> DEFINE new == [msg |-> s.msg, status |-> "pending", retry |-> 0, since |-> s.since]
<1>1. /\ new \in Row /\ new.msg = s.msg /\ new.status = "pending" /\ new.retry = 0
      /\ new.since = s.since /\ rows \in Seq(Row)
  BY Zenon DEF Row, Status, Statement, TypeOK
<1>2. rows' = Append(rows, new)
  BY Zenon DEF Insert
<1> HIDE DEF new
<1>3. /\ rows' \in Seq(Row)
      /\ Len(rows) \in Nat /\ Ids = 1 .. Len(rows)
      /\ DOMAIN rows' = Ids \cup {Len(rows) + 1}
      /\ rows'[Len(rows) + 1] = new
      /\ \A i \in Ids : rows'[i] = rows[i]
  BY <1>1, <1>2 DEF Ids
<1> QED
  BY Zenon, <1>1, <1>3

\* What the steps of Dispatch have in common: a statement begins, or ends with
\* or without a row.
LEMMA DispatchCases ==
  ASSUME IInv, NEW m \in Messages, Dispatch(m)
  PROVE  /\ UNCHANGED <<log, local, attempts>> /\ faults' \in 0 .. MaxFaults
         /\ faults' = faults \/ Fault
         /\ open' \in SUBSET Statement
         /\ \/ rows' = rows /\ reply' = reply /\ open' = open \cup {[msg |-> m, since |-> Len(rows)]}
               /\ RouteOf[m] # NoRoute
            \/ rows' = rows /\ Answer(m, "refused") /\ open' \subseteq open
            \/ \E s \in open, a \in {"acked", "refused"} :
                 s.msg = m /\ ~ InTable(m) /\ Insert(s) /\ Answer(m, a) /\ open' \subseteq open
<1>1. TypeOK /\ open \in SUBSET Statement
  BY Zenon DEF IInv, TypeOK
<1>2. CASE DispatchUnroutable(m)
  BY Zenon, <1>1, <1>2, FaultFacts DEF DispatchUnroutable
<1>3. CASE DispatchBegins(m)
  <2>1. Len(rows) \in Nat
    BY <1>1 DEF TypeOK
  <2>2. [msg |-> m, since |-> Len(rows)] \in Statement
    BY Zenon, <2>1 DEF Statement
  <2> QED
    BY Zenon, <1>1, <1>3, <2>2, FaultFacts DEF DispatchBegins
<1>4. ASSUME NEW s \in open, s.msg = m, DispatchAccept(s) \/ DispatchConflict(s) \/ DispatchFault(s)
      PROVE  /\ UNCHANGED <<log, local, attempts>> /\ (faults' = faults \/ Fault) /\ open' = open \ {s}
             /\ \/ rows' = rows /\ Answer(m, "refused")
                \/ \E a \in {"acked", "refused"} : ~ InTable(m) /\ Insert(s) /\ Answer(m, a)
  BY Zenon, <1>4 DEF DispatchAccept, DispatchConflict, DispatchFault
<1>5. CASE \E s \in open : s.msg = m /\ (DispatchAccept(s) \/ DispatchConflict(s) \/ DispatchFault(s))
  BY Zenon, <1>1, <1>4, <1>5, FaultFacts
<1> QED
  BY Zenon, <1>2, <1>3, <1>5 DEF Dispatch

\* Every action of the dispatcher preserves the invariant.
LEMMA DispatchStep ==
  ASSUME IInv, NEW m \in Messages, Dispatch(m)
  PROVE  IInv'
<1> /\ TypeOK /\ rows \in Seq(Row) /\ reply \in [Messages -> {"none", "acked", "refused"}]
    /\ attempts \in [Messages -> Nat] /\ open \in SUBSET Statement
  BY Zenon DEF IInv, TypeOK
<1>1. UNCHANGED <<log, local, attempts>> /\ faults' \in 0 .. MaxFaults /\ open' \in SUBSET Statement
  BY Zenon, DispatchCases
<1>2. \A i \in Ids : rows[i].msg \in Messages /\ rows[i].retry \in Nat
  BY Zenon, RowFields DEF Ids
<1>3. ASSUME UNCHANGED rows, reply' = reply \/ Answer(m, "refused") PROVE IInv'
  <2>1. Grows
    BY <1>1, <1>2, <1>3 DEF Grows, InLog, Ids
  <2>2. /\ reply' \in [Messages -> {"none", "acked", "refused"}]
        /\ \A n \in Messages : reply'[n] = "acked" => reply[n] = "acked"
    BY Zenon, <1>3 DEF Answer
  <2>3. TypeOK'
    BY Zenon, <1>1, <1>3, <2>2 DEF TypeOK, local
  <2>4. \A n \in Messages : InLog(DeadLetter, n)' => attempts'[n] >= MaxRetries
    BY Zenon, <1>1 DEF IInv, DeadLetterOnlyExhausted, InLog
  <2>5. OpenInv'
    <3> DEFINE begun == [msg |-> m, since |-> Len(rows)]
    <3>1. open' \subseteq open \/ (open' = open \cup {begun} /\ RouteOf[m] # NoRoute)
      BY Zenon, DispatchCases
    <3>2. RouteOf[m] # NoRoute => RouteOf[begun.msg] \in Topics
      BY Zenon, OutboxAssumption
    <3> HIDE DEF begun
    <3> QED
      BY Zenon, <3>1, <3>2 DEF IInv, OpenInv
  <2> QED
    BY Zenon, <1>1, <1>3, <2>1, <2>2, <2>3, <2>4, <2>5, RowsKept, UnmovedFacts DEF IInv
<1>4. ASSUME NEW s \in open, s.msg = m, Insert(s), open' \subseteq open,
             NEW a \in {"acked", "refused"}, Answer(m, a)
      PROVE  IInv'
  <2>1. PICK new \in Row :
          /\ new.msg = m /\ new.status = "pending" /\ new.retry = 0
          /\ rows' \in Seq(Row)
          /\ DOMAIN rows' = Ids \cup {Len(rows) + 1}
          /\ rows'[Len(rows) + 1] = new
          /\ \A i \in Ids : rows'[i] = rows[i]
    BY Zenon, <1>4, InsertFacts
  <2>4. reply' = [reply EXCEPT ![m] = a]
    BY Zenon, <1>4 DEF Answer
  <2>5. TypeOK'
    BY Zenon, <1>1, <2>1, <2>4 DEF TypeOK, local
  <2>6. /\ \A t, n : InLog(t, n)' <=> InLog(t, n)
        /\ \A n : Delivered(n)' <=> Delivered(n)
        /\ \A n : InTable(n)' <=> InTable(n) \/ n = m
    BY Zenon, <1>1, <2>1 DEF InLog, Delivered, InTable, Ids
  <2>7. Grows
    BY <1>1, <1>2, <2>1, <2>6 DEF Grows, Ids
  <2>8. RowInv' /\ OpenInv'
    <3>1. RouteOf[m] \in Topics
      BY Zenon, <1>4 DEF IInv, OpenInv
    <3>2. 0 <= attempts[m]
      BY DEF TypeOK
    <3>3. RowInv'
      BY Zenon, <1>1, <2>1, <3>1, <3>2 DEF IInv, RowInv, Ids
    <3> QED
      BY Zenon, <1>4, <3>3 DEF IInv, OpenInv
  <2>9. NothingLost'
    BY Zenon, <2>1, <2>4, <2>6 DEF IInv, NothingLost, Ids
  <2>10. DeadLetterOnlyExhausted'
    BY Zenon, <1>1, <2>6 DEF IInv, DeadLetterOnlyExhausted
  <2> QED
    BY Zenon, <1>1, <2>5, <2>7, <2>8, <2>9, <2>10, UnmovedFacts DEF IInv
<1> QED
  BY Zenon, <1>3, <1>4, DispatchCases

\* A tick that fetches a batch.
LEMMA PollStep ==
  ASSUME IInv, NEW r \in Relays, Poll(r)
  PROVE  IInv'
<1> /\ TypeOK /\ rows \in Seq(Row) /\ UNCHANGED <<table, log, attempts, faults>>
  BY Zenon DEF IInv, TypeOK, Poll
<1>1. \A i \in Ids : rows[i].msg \in Messages /\ rows[i].retry \in Nat /\ i \in Nat
  BY RowFields DEF Ids
<1>2. ASSUME NEW S \in FetchPending PROVE S \in SUBSET Entry /\ \A e \in S : Fetched(e)
  <2>1. S \subseteq {[id |-> i, retry |-> rows[i].retry] : i \in Ids}
    BY Zenon, <1>2 DEF FetchPending, Entries, Oldest
  <2>2. ASSUME NEW i \in Ids
        PROVE  LET e == [id |-> i, retry |-> rows[i].retry] IN e \in Entry /\ Fetched(e)
    BY <1>1 DEF Entry, Fetched
  <2> QED
    BY Zenon, <2>1, <2>2
<1>3. Grows
  BY <1>1 DEF Grows, TypeOK, InLog, table, Ids
<1>4. \A m \in Messages : InLog(DeadLetter, m)' => attempts'[m] >= MaxRetries
  BY Zenon DEF IInv, DeadLetterOnlyExhausted, InLog
<1>5. RowInv' /\ NothingLost' /\ DeadLetterOnlyExhausted'
  BY Zenon, <1>3, <1>4, RowsKept DEF table
<1>6. /\ pc' \in [Relays -> {"idle", "send", "mark", "retry", "dead", "fail"}]
      /\ entry' \in [Relays -> Entry]
      /\ todo' \in [Relays -> SUBSET Entry]
      /\ RelayInv'
  BY Zenon, <1>2, <1>3, LoopFacts DEF Poll
<1>7. TypeOK' /\ OpenInv'
  BY Zenon, <1>6 DEF IInv, TypeOK, OpenInv, table
<1> QED
  BY Zenon, <1>5, <1>6, <1>7 DEF IInv

\* The steps that publish a message, or fail to.
LEMMA SendStep ==
  ASSUME IInv, NEW r \in Relays, SendOk(r) \/ SendFail(r)
  PROVE  IInv'
<1> /\ TypeOK /\ rows \in Seq(Row) /\ attempts \in [Messages -> Nat]
    /\ pc[r] # "idle" /\ UNCHANGED <<table, attempts>>
  BY Zenon DEF IInv, TypeOK, SendOk, SendFail
<1> DEFINE t == RouteOf[Msg(r)]
<1>1. t \in Topics /\ Msg(r) \in Messages /\ t # DeadLetter /\ t # NoRoute
  BY Zenon, BusyFacts, OutboxAssumption
<1>2. UNCHANGED log \/ Publish(t, Msg(r))
  BY Zenon DEF SendOk, SendFail
<1>3. /\ log' \in [Topics \cup {DeadLetter} -> Seq(Messages)]
      /\ \A u \in Topics \cup {DeadLetter}, n \in Messages : InLog(u, n) => InLog(u, n)'
      /\ \A n \in Messages : InLog(DeadLetter, n)' => InLog(DeadLetter, n)
  <2>1. CASE UNCHANGED log
    BY Zenon, <2>1 DEF TypeOK, InLog
  <2>2. CASE Publish(t, Msg(r))
    BY Zenon, <1>1, <2>2, PublishFacts
  <2> QED
    BY Zenon, <1>2, <2>1, <2>2
<1>4. Grows
  <2>1. \A i \in Ids : rows[i].retry \in Nat
    BY Zenon, RowFields DEF Ids
  <2>2. rows' = rows /\ attempts' = attempts
    BY Zenon DEF table
  <2>3. \A i \in Ids : rows'[i].msg = rows[i].msg /\ rows[i].retry <= rows'[i].retry
    BY <2>1, <2>2
  <2>4. \A m \in Messages : attempts[m] <= attempts'[m]
    BY <2>2
  <2> QED
    BY Zenon, <1>3, <2>2, <2>3, <2>4 DEF Grows, Ids
<1>5. RowInv' /\ NothingLost' /\ DeadLetterOnlyExhausted'
  BY Zenon, <1>3, <1>4, RowsKept DEF table, IInv, DeadLetterOnlyExhausted
<1>6. faults' \in 0 .. MaxFaults
  BY Zenon, FaultFacts DEF SendOk, SendFail
<1>7. /\ pc' \in [Relays -> {"idle", "send", "mark", "retry", "dead", "fail"}]
      /\ entry' \in [Relays -> Entry]
      /\ todo' \in [Relays -> SUBSET Entry]
      /\ RelayInv'
  <2>1. CASE SendOk(r)
    <3>1. Goto(r, "mark") /\ Publish(t, Msg(r)) /\ Msg(r)' = Msg(r)
      BY Zenon, <2>1 DEF SendOk, Goto, Msg, table
    <3>2. Delivered(Msg(r))'
      BY <1>1, <3>1, PublishFacts DEF Delivered
    <3> QED
      BY Zenon, <1>4, <3>1, <3>2, GotoFacts
  <2>2. CASE SendFail(r)
    BY Zenon, <1>4, <2>2, GotoFacts DEF SendFail
  <2> QED
    BY Zenon, <2>1, <2>2
<1>8. TypeOK' /\ OpenInv'
  BY Zenon, <1>3, <1>6, <1>7 DEF IInv, TypeOK, OpenInv, table
<1> QED
  BY Zenon, <1>5, <1>7, <1>8 DEF IInv

\* MarkPublished, or its failure, after a Send that succeeded.
LEMMA MarkPublishedStep ==
  ASSUME IInv, NEW r \in Relays, MarkPublished(r) \/ MarkPublishedFail(r)
  PROVE  IInv'
<1> /\ TypeOK /\ pc[r] = "mark" /\ pc[r] # "idle" /\ UNCHANGED <<open, log, reply, attempts>>
    /\ "published" \in Status
  BY Zenon DEF IInv, MarkPublished, MarkPublishedFail, Status
<1>1. UNCHANGED rows \/ SetStatus(r, "published")
  BY Zenon DEF MarkPublished, MarkPublishedFail
<1>2. Delivered(Msg(r))
  BY Zenon DEF IInv, RelayInv, RelayOK
<1>3. Grows /\ RowInv' /\ NothingLost' /\ DeadLetterOnlyExhausted'
  BY Zenon, <1>1, <1>2, StatusKept
<1>4. faults' \in 0 .. MaxFaults
  BY Zenon, FaultFacts DEF MarkPublished, MarkPublishedFail
<1>5. /\ pc' \in [Relays -> {"idle", "send", "mark", "retry", "dead", "fail"}]
      /\ entry' \in [Relays -> Entry]
      /\ todo' \in [Relays -> SUBSET Entry]
      /\ RelayInv'
  <2>1. CASE MarkPublished(r)
    BY Zenon, <1>3, <2>1, BusyFacts, LoopFacts DEF MarkPublished
  <2>2. CASE MarkPublishedFail(r)
    BY Zenon, <1>3, <2>2, GotoFacts DEF MarkPublishedFail
  <2> QED
    BY Zenon, <2>1, <2>2
<1>6. TypeOK' /\ OpenInv'
  BY Zenon, <1>3, <1>4, <1>5 DEF IInv, TypeOK, OpenInv, Grows
<1> QED
  BY Zenon, <1>3, <1>5, <1>6 DEF IInv

\* IncrementRetry, or its ignored failure, and the choice to give up.
LEMMA IncrementRetryStep ==
  ASSUME IInv, NEW r \in Relays, IncrementRetry(r)
  PROVE  IInv'
<1> DEFINE id == entry[r].id
<1>1. /\ TypeOK /\ rows \in Seq(Row) /\ attempts \in [Messages -> Nat]
      /\ pc[r] = "retry" /\ pc[r] # "idle" /\ UNCHANGED <<open, log, reply>>
      /\ attempts' = [attempts EXCEPT ![Msg(r)] = @ + 1]
  BY Zenon DEF IInv, TypeOK, IncrementRetry
<1>2. /\ id \in Ids /\ rows[id] \in Row /\ Msg(r) \in Messages /\ Msg(r) = rows[id].msg
      /\ entry[r].retry \in Nat /\ entry[r].retry <= rows[id].retry
  BY Zenon, <1>1, BusyFacts DEF Msg
<1>3. \A i \in Ids : /\ rows[i].msg \in Messages /\ rows[i].retry \in Nat
                     /\ rows[i].retry <= attempts[rows[i].msg]
                     /\ RouteOf[rows[i].msg] \in Topics
  BY Zenon, <1>1, RowFields DEF IInv, RowInv, Ids
<1>4. /\ rows' \in Seq(Row)
      /\ DOMAIN rows' = Ids
      /\ \A i \in Ids : /\ rows'[i].msg = rows[i].msg
                        /\ rows'[i].status = rows[i].status
                        /\ \/ rows'[i].retry = rows[i].retry
                           \/ rows'[i].retry = rows[i].retry + 1 /\ i = id
  <2>1. CASE UNCHANGED rows
    BY Zenon, <1>1, <2>1 DEF Ids
  <2>2. CASE rows' = [rows EXCEPT ![id].retry = @ + 1]
    <3> DEFINE new == [rows[id] EXCEPT !.retry = @ + 1]
    <3>1. /\ new \in Row
          /\ new.msg = rows[id].msg
          /\ new.status = rows[id].status
          /\ new.retry = rows[id].retry + 1
      BY <1>2 DEF Row
    <3>2. rows' = [rows EXCEPT ![id] = new]
      BY Zenon, <2>2
    <3> HIDE DEF new, id
    <3> QED
      BY <1>1, <1>2, <3>1, <3>2 DEF Ids
  <2> QED
    BY Zenon, <2>1, <2>2 DEF IncrementRetry
<1>5. /\ attempts' \in [Messages -> Nat]
      /\ attempts'[Msg(r)] = attempts[Msg(r)] + 1
      /\ \A m \in Messages : attempts[m] <= attempts'[m]
  BY <1>1, <1>2
<1>6. /\ \A t, m : InLog(t, m)' <=> InLog(t, m)
      /\ \A m : Delivered(m)' <=> Delivered(m)
      /\ \A m : InTable(m)' <=> InTable(m)
  BY Zenon, <1>1, <1>4 DEF InLog, Delivered, InTable, Ids
<1> HIDE DEF id
<1>7. Grows
  BY <1>3, <1>4, <1>5, <1>6 DEF Grows
<1>8. RowInv'
  <2> SUFFICES ASSUME NEW i \in Ids
               PROVE  rows'[i].retry <= attempts'[rows'[i].msg] /\ RouteOf[rows'[i].msg] \in Topics
    BY Zenon, <1>4 DEF RowInv, Ids
  <2>1. rows[i].retry \in Nat /\ attempts[rows[i].msg] \in Nat /\ attempts'[rows[i].msg] \in Nat
    BY Zenon, <1>1, <1>3, <1>5
  <2>2. CASE i = id
    BY <1>2, <1>3, <1>4, <1>5, <2>1, <2>2
  <2>3. CASE i # id
    BY <1>3, <1>4, <1>5, <2>1, <2>3
  <2> QED
    BY Zenon, <2>2, <2>3
<1>9. NothingLost' /\ DeadLetterOnlyExhausted'
  BY <1>1, <1>4, <1>5, <1>6, OutboxAssumption
     DEF IInv, NothingLost, DeadLetterOnlyExhausted, Ids
<1>10. faults' \in 0 .. MaxFaults
  BY Zenon, FaultFacts DEF IncrementRetry
<1>11. /\ pc' \in [Relays -> {"idle", "send", "mark", "retry", "dead", "fail"}]
       /\ entry' \in [Relays -> Entry]
       /\ todo' \in [Relays -> SUBSET Entry]
       /\ RelayInv'
  <2>1. CASE entry[r].retry + 1 >= MaxRetries
    <3>1. attempts'[Msg(r)] >= MaxRetries
      BY <1>1, <1>2, <1>3, <1>5, <2>1, OutboxAssumption
    <3> QED
      BY Zenon, <1>1, <1>7, <2>1, <3>1, GotoFacts DEF IncrementRetry
  <2>2. CASE ~ (entry[r].retry + 1 >= MaxRetries)
    BY Zenon, <1>1, <1>7, <2>2, BusyFacts, LoopFacts DEF IncrementRetry
  <2> QED
    BY Zenon, <2>1, <2>2
<1>12. TypeOK' /\ OpenInv'
  BY Zenon, <1>1, <1>4, <1>5, <1>10, <1>11 DEF IInv, TypeOK, OpenInv
<1> QED
  BY Zenon, <1>8, <1>9, <1>11, <1>12 DEF IInv

\* Giving a message up: the dead-letter topic gets it, or the call fails.
LEMMA DeadLetterStep ==
  ASSUME IInv, NEW r \in Relays, SendToDeadLetter(r) \/ SendToDeadLetterFail(r)
  PROVE  IInv'
<1>1. /\ TypeOK /\ rows \in Seq(Row) /\ attempts \in [Messages -> Nat]
      /\ pc[r] = "dead" /\ pc[r] # "idle" /\ rows' = rows /\ reply' = reply
      /\ attempts' = attempts /\ open' = open
  BY Zenon DEF IInv, TypeOK, SendToDeadLetter, SendToDeadLetterFail, table
<1>2. Msg(r) \in Messages /\ attempts[Msg(r)] >= MaxRetries
  BY Zenon, <1>1, BusyFacts DEF IInv, RelayInv, RelayOK
<1>3. UNCHANGED log \/ Publish(DeadLetter, Msg(r))
  BY Zenon DEF SendToDeadLetter, SendToDeadLetterFail
<1>4. /\ log' \in [Topics \cup {DeadLetter} -> Seq(Messages)]
      /\ \A u \in Topics \cup {DeadLetter}, n \in Messages : InLog(u, n) => InLog(u, n)'
      /\ \A n \in Messages : InLog(DeadLetter, n)' => InLog(DeadLetter, n) \/ n = Msg(r)
  <2>1. CASE UNCHANGED log
    BY Zenon, <1>1, <2>1 DEF TypeOK, InLog
  <2>2. CASE Publish(DeadLetter, Msg(r))
    BY Zenon, <1>1, <1>2, <2>2, PublishFacts
  <2> QED
    BY Zenon, <1>3, <2>1, <2>2
<1>5. Grows
  <2>1. \A i \in Ids : rows[i].retry \in Nat
    BY Zenon, <1>1, RowFields DEF Ids
  <2>2. \A i \in Ids : rows'[i].msg = rows[i].msg /\ rows[i].retry <= rows'[i].retry
    BY <1>1, <2>1
  <2>3. \A m \in Messages : attempts[m] <= attempts'[m]
    BY <1>1
  <2> QED
    BY Zenon, <1>1, <1>4, <2>2, <2>3 DEF Grows, Ids
<1>6. RowInv' /\ NothingLost' /\ DeadLetterOnlyExhausted'
  <2>1. \A n \in Messages : InLog(DeadLetter, n)' => attempts'[n] >= MaxRetries
    BY Zenon, <1>1, <1>2, <1>4 DEF IInv, DeadLetterOnlyExhausted
  <2> QED
    BY Zenon, <1>1, <1>5, <2>1, RowsKept
<1>7. faults' \in 0 .. MaxFaults
  BY Zenon, FaultFacts DEF SendToDeadLetter, SendToDeadLetterFail
<1>8. /\ pc' \in [Relays -> {"idle", "send", "mark", "retry", "dead", "fail"}]
      /\ entry' \in [Relays -> Entry]
      /\ todo' \in [Relays -> SUBSET Entry]
      /\ RelayInv'
  <2>1. CASE SendToDeadLetter(r)
    <3>1. Goto(r, "fail") /\ Publish(DeadLetter, Msg(r)) /\ Msg(r)' = Msg(r)
      BY Zenon, <1>1, <2>1 DEF SendToDeadLetter, Goto, Msg
    <3>2. InLog(DeadLetter, Msg(r))'
      BY <1>1, <1>2, <3>1, PublishFacts
    <3> QED
      BY Zenon, <1>1, <1>2, <1>5, <3>1, <3>2, GotoFacts
  <2>2. CASE SendToDeadLetterFail(r)
    BY Zenon, <1>1, <1>5, <2>2, BusyFacts, LoopFacts DEF SendToDeadLetterFail
  <2> QED
    BY Zenon, <2>1, <2>2
<1>9. TypeOK' /\ OpenInv'
  BY Zenon, <1>1, <1>4, <1>7, <1>8 DEF IInv, TypeOK, OpenInv
<1> QED
  BY Zenon, <1>6, <1>8, <1>9 DEF IInv

\* MarkFailed, or its failure.
LEMMA MarkFailedStep ==
  ASSUME IInv, NEW r \in Relays, MarkFailed(r)
  PROVE  IInv'
<1>1. /\ TypeOK /\ pc[r] = "fail" /\ pc[r] # "idle" /\ UNCHANGED <<open, log, reply, attempts>>
      /\ "failed" \in Status /\ (UNCHANGED rows \/ SetStatus(r, "failed"))
  BY Zenon DEF IInv, MarkFailed, Status
<1>2. InLog(DeadLetter, Msg(r))
  BY Zenon, <1>1 DEF IInv, RelayInv, RelayOK
<1>3. Grows /\ RowInv' /\ NothingLost' /\ DeadLetterOnlyExhausted'
  BY Zenon, <1>1, <1>2, StatusKept
<1>4. faults' \in 0 .. MaxFaults
  BY Zenon, FaultFacts DEF MarkFailed
<1>5. /\ pc' \in [Relays -> {"idle", "send", "mark", "retry", "dead", "fail"}]
      /\ entry' \in [Relays -> Entry]
      /\ todo' \in [Relays -> SUBSET Entry]
      /\ RelayInv'
  BY Zenon, <1>1, <1>3, BusyFacts, LoopFacts DEF MarkFailed
<1>6. TypeOK' /\ OpenInv'
  BY Zenon, <1>1, <1>3, <1>4, <1>5 DEF IInv, TypeOK, OpenInv, Grows
<1> QED
  BY Zenon, <1>3, <1>5, <1>6 DEF IInv

\* A relay process that stops forgets its batch and nothing else.
LEMMA CrashStep ==
  ASSUME IInv, NEW r \in Relays, Crash(r)
  PROVE  IInv'
<1>1. /\ TypeOK /\ rows \in Seq(Row) /\ attempts \in [Messages -> Nat]
      /\ rows' = rows /\ reply' = reply /\ log' = log /\ attempts' = attempts /\ open' = open
      /\ Loop(r, {}) /\ {} \in SUBSET Entry
  BY Zenon DEF IInv, TypeOK, Crash, table
<1>2. Grows
  <2>1. \A i \in Ids : rows[i].retry \in Nat
    BY Zenon, <1>1, RowFields DEF Ids
  <2> QED
    BY <1>1, <2>1 DEF Grows, InLog, Ids
<1>3. \A m \in Messages : InLog(DeadLetter, m)' => attempts'[m] >= MaxRetries
  BY Zenon, <1>1 DEF IInv, DeadLetterOnlyExhausted, InLog
<1>4. RowInv' /\ NothingLost' /\ DeadLetterOnlyExhausted'
  BY Zenon, <1>1, <1>2, <1>3, RowsKept
<1>5. faults' \in 0 .. MaxFaults
  BY Zenon, FaultFacts DEF Crash
<1>6. /\ pc' \in [Relays -> {"idle", "send", "mark", "retry", "dead", "fail"}]
      /\ entry' \in [Relays -> Entry]
      /\ todo' \in [Relays -> SUBSET Entry]
      /\ RelayInv'
  BY Zenon, <1>1, <1>2, LoopFacts
<1>7. TypeOK' /\ OpenInv'
  BY Zenon, <1>1, <1>5, <1>6 DEF IInv, TypeOK, OpenInv
<1> QED
  BY Zenon, <1>4, <1>6, <1>7 DEF IInv

-----------------------------------------------------------------------------
\* An empty table, empty topics and idle relays satisfy the invariant.
LEMMA InvInit == Init => IInv
<1> SUFFICES ASSUME Init PROVE IInv
  BY Zenon
<1>1. TypeOK
  BY Zenon, TypeInit
<1>2. Ids = {} /\ (\A m \in Messages : ~ InLog(DeadLetter, m) /\ reply[m] # "acked")
  BY DEF Init, Ids, InLog
<1>3. RelayInv /\ OpenInv
  BY Zenon DEF Init, RelayInv, RelayOK, OpenInv
<1> QED
  BY Zenon, <1>1, <1>2, <1>3 DEF IInv, RowInv, NothingLost, DeadLetterOnlyExhausted

\* Every step of the dispatcher and of the relays preserves the invariant.
LEMMA InvStep == IInv /\ [Next]_vars => IInv'
<1> SUFFICES ASSUME IInv, [Next]_vars PROVE IInv'
  BY Zenon
<1>1. ASSUME NEW m \in Messages, Dispatch(m) PROVE IInv'
  BY Zenon, <1>1, DispatchStep
<1>2. ASSUME NEW r \in Relays, RelayStep(r) PROVE IInv'
  BY Zenon, <1>2, PollStep, SendStep, MarkPublishedStep, IncrementRetryStep, DeadLetterStep,
     MarkFailedStep DEF RelayStep
<1>3. ASSUME NEW r \in Relays, Crash(r) PROVE IInv'
  BY Zenon, <1>3, CrashStep
<1>4. CASE UNCHANGED vars
  <2>1. TypeOK' /\ RowInv' /\ OpenInv'
    BY Zenon, <1>4 DEF vars, IInv, TypeOK, RowInv, OpenInv, Ids
  <2>2. RelayInv'
    BY Zenon, <1>4 DEF vars, IInv, RelayInv, RelayOK, Fetched, Msg, Ids, Delivered, InLog
  <2>3. NothingLost' /\ DeadLetterOnlyExhausted'
    BY Zenon, <1>4 DEF vars, IInv, NothingLost, DeadLetterOnlyExhausted, Ids, Delivered, InLog, InTable
  <2> QED
    BY Zenon, <2>1, <2>2, <2>3 DEF IInv
<1> QED
  BY Zenon, <1>1, <1>2, <1>3, <1>4 DEF Next

\* The inductive invariant holds in every reachable state of dispatcher and
\* relays.
THEOREM OutboxInvariant == Spec => []IInv
BY InvInit, InvStep, PTL DEF Spec

\* Table, topics and relays always have their types: no sequence of Insert,
\* poll, publish, sendToDeadLetter and crashes leads to a malformed state.
THEOREM OutboxTyped == Spec => []TypeOK
<1>1. IInv => TypeOK
  BY Zenon DEF IInv
<1> QED
  BY <1>1, OutboxInvariant, PTL

\* No acknowledged message is ever lost between Dispatch and Kafka: for any
\* number of relays, publish marks a row only when its topic holds the
\* message, and sendToDeadLetter only when the dead-letter topic does.
THEOREM OutboxNothingLost == Spec => []NothingLost
<1>1. IInv => NothingLost
  BY Zenon DEF IInv
<1> QED
  BY <1>1, OutboxInvariant, PTL

\* poll gives a message up only after MaxRetries failed attempts, whatever
\* the number of relays that share its retry_count.
THEOREM OutboxDeadLetterOnlyExhausted == Spec => []DeadLetterOnlyExhausted
<1>1. IInv => DeadLetterOnlyExhausted
  BY Zenon DEF IInv
<1> QED
  BY <1>1, OutboxInvariant, PTL

-----------------------------------------------------------------------------
\* Nothing has been accepted at the start.
LEMMA DeliveryInit == Init => D!Init
<1> SUFFICES ASSUME Init PROVE D!Init
  BY Zenon
<1>1. Ids = {}
  BY DEF Init, Ids
<1>2. \A t \in Topics \cup {DeadLetter}, m \in Messages : ~ InLog(t, m)
  BY DEF Init, InLog
<1>3. Accepted = {} /\ Due = {}
  BY Zenon, <1>1 DEF Accepted, Due, InTable
<1>4. InTopic = {} /\ InDeadLetter = {}
  BY Zenon, <1>2, OutboxAssumption DEF InTopic, InDeadLetter, Delivered
<1> QED
  BY Zenon, <1>3, <1>4 DEF D!Init

\* A step of the dispatcher accepts a message or changes nothing of it.
LEMMA DispatchDelivers ==
  ASSUME IInv, NEW m \in Messages, Dispatch(m)
  PROVE  [D!Next]_(D!vars)
<1>1. log' = log /\ TypeOK
  BY Zenon, DispatchCases DEF IInv
<1>2. InTopic' = InTopic /\ InDeadLetter' = InDeadLetter
  BY Zenon, <1>1 DEF InTopic, InDeadLetter, Delivered, InLog
<1>3. rows' = rows \/ \E s \in open : s.msg = m /\ ~ InTable(m) /\ Insert(s)
  BY Zenon, DispatchCases
<1>4. CASE rows' = rows
  <2>1. Accepted' = Accepted /\ Due' = Due
    BY Zenon, <1>4 DEF Accepted, Due, InTable, Ids
  <2> QED
    BY Zenon, <1>2, <2>1 DEF D!vars
<1>5. ASSUME NEW s \in open, s.msg = m, ~ InTable(m), Insert(s) PROVE [D!Next]_(D!vars)
  <2>1. s \in Statement
    BY Zenon, <1>1 DEF TypeOK
  <2>2. PICK new \in Row :
          /\ new.msg = m /\ new.status = "pending"
          /\ DOMAIN rows' = Ids \cup {Len(rows) + 1}
          /\ rows'[Len(rows) + 1] = new
          /\ \A i \in Ids : rows'[i] = rows[i]
    BY Zenon, <1>1, <1>5, <2>1, InsertFacts
  <2>4. Accepted' = Accepted \cup {m}
    BY Zenon, <2>2 DEF Accepted, InTable, Ids
  <2>5. Due' = Due \cup {m}
    BY Zenon, <2>2 DEF Due, Ids
  <2>6. m \notin Accepted
    BY Zenon, <1>5 DEF Accepted
  <2>7. D!Accept(m)
    BY Zenon, <1>2, <2>4, <2>5, <2>6 DEF D!Accept
  <2> QED
    BY Zenon, <2>7 DEF D!Next
<1> QED
  BY Zenon, <1>3, <1>4, <1>5

\* A Send adds a message of the table to one of the two sets in Kafka, or
\* changes nothing.
LEMMA PublishDelivers ==
  ASSUME IInv, NEW r \in Relays, pc[r] # "idle", rows' = rows,
         NEW t \in {RouteOf[Msg(r)], DeadLetter}, log' = log \/ Publish(t, Msg(r))
  PROVE  [D!Next]_(D!vars)
<1>1. Msg(r) \in Messages /\ RouteOf[Msg(r)] \in Topics /\ Msg(r) \in Accepted
  BY Zenon, BusyFacts DEF Accepted, InTable, Msg
<1>2. Accepted' = Accepted /\ Due' = Due
  BY Zenon DEF Accepted, Due, InTable, Ids
<1>3. CASE log' = log
  <2>1. InTopic' = InTopic /\ InDeadLetter' = InDeadLetter
    BY Zenon, <1>3 DEF InTopic, InDeadLetter, Delivered, InLog
  <2> QED
    BY Zenon, <1>2, <2>1 DEF D!vars
<1>4. CASE Publish(t, Msg(r))
  <2>1. TypeOK /\ t \in Topics \cup {DeadLetter}
    BY Zenon, <1>1 DEF IInv
  <2>2. \A u \in Topics \cup {DeadLetter}, n \in Messages :
          InLog(u, n)' <=> InLog(u, n) \/ (u = t /\ n = Msg(r))
    BY Zenon, <1>1, <1>4, <2>1, PublishFacts
  <2>3. CASE t = RouteOf[Msg(r)]
    <3>1. InDeadLetter' = InDeadLetter
      BY <1>1, <2>2, <2>3, OutboxAssumption DEF InDeadLetter
    <3>2. InTopic' = InTopic \cup {Msg(r)}
      <4>1. \A n \in Messages : Delivered(n)' <=> Delivered(n) \/ n = Msg(r)
        BY Zenon, <1>1, <2>2, <2>3, OutboxAssumption DEF Delivered
      <4> QED
        BY Zenon, <1>1, <4>1 DEF InTopic
    <3>3. D!Deliver(Msg(r))
      BY Zenon, <1>1, <1>2, <3>1, <3>2 DEF D!Deliver
    <3> QED
      BY Zenon, <1>1, <3>3 DEF D!Next
  <2>4. CASE t = DeadLetter
    <3>1. InDeadLetter' = InDeadLetter \cup {Msg(r)}
      BY Zenon, <1>1, <2>2, <2>4 DEF InDeadLetter
    <3>2. InTopic' = InTopic
      <4>1. \A n \in Messages : Delivered(n)' <=> Delivered(n)
        BY <2>2, <2>4, OutboxAssumption DEF Delivered
      <4> QED
        BY Zenon, <4>1 DEF InTopic
    <3>3. D!Abandon(Msg(r))
      BY Zenon, <1>1, <1>2, <3>1, <3>2 DEF D!Abandon
    <3> QED
      BY Zenon, <1>1, <3>3 DEF D!Next
  <2> QED
    BY Zenon, <2>3, <2>4
<1> QED
  BY Zenon, <1>3, <1>4

\* A step on a relay's row keeps its message, and takes it off the due ones at
\* most when Kafka has it.
LEMMA RowDelivers ==
  ASSUME IInv, NEW r \in Relays, pc[r] # "idle", log' = log,
         DOMAIN rows' = Ids,
         \A i \in Ids : rows'[i].msg = rows[i].msg,
         \A i \in Ids : \/ rows'[i].status = rows[i].status
                        \/ /\ i = entry[r].id /\ rows'[i].status \in {"published", "failed"}
                           /\ Delivered(Msg(r)) \/ InLog(DeadLetter, Msg(r))
  PROVE  [D!Next]_(D!vars)
<1>1. entry[r].id \in Ids /\ Msg(r) \in Messages /\ Msg(r) = rows[entry[r].id].msg
  BY Zenon, BusyFacts DEF Msg
<1>2. Accepted' = Accepted
  BY Zenon DEF Accepted, InTable, Ids
<1>3. InTopic' = InTopic /\ InDeadLetter' = InDeadLetter
  BY Zenon DEF InTopic, InDeadLetter, Delivered, InLog
<1>4. CASE Due' = Due
  BY Zenon, <1>2, <1>3, <1>4 DEF D!vars
<1>5. CASE Due' # Due
  <2>1. /\ \A n \in Messages : n \in Due' => n \in Due
        /\ \A n \in Messages : n \in Due /\ n # Msg(r) => n \in Due'
    BY Zenon, <1>1 DEF Due, Ids
  <2>2. Due' \subseteq Messages /\ Due \subseteq Messages
    BY Zenon DEF Due
  <2>3. Due' = Due \ {Msg(r)} /\ Msg(r) \in Due
    BY Zenon, <1>5, <2>1, <2>2
  <2>4. Delivered(Msg(r)) \/ InLog(DeadLetter, Msg(r))
    <3>1. CASE \A i \in Ids : rows'[i].status = rows[i].status
      BY Zenon, <1>5, <3>1 DEF Due, Ids
    <3> QED
      BY Zenon, <3>1
  <2>5. Msg(r) \in InTopic \cup InDeadLetter
    BY Zenon, <1>1, <2>4 DEF InTopic, InDeadLetter
  <2>6. D!Settle(Msg(r))
    BY Zenon, <1>2, <1>3, <2>3, <2>5 DEF D!Settle
  <2> QED
    BY Zenon, <1>1, <2>6 DEF D!Next
<1> QED
  BY Zenon, <1>4, <1>5

\* Every step of a relay is a step of Delivery or none.
LEMMA RelayDelivers ==
  ASSUME IInv, NEW r \in Relays, RelayStep(r) \/ Crash(r)
  PROVE  [D!Next]_(D!vars)
<1>1. ASSUME rows' = rows, log' = log PROVE [D!Next]_(D!vars)
  <2>1. Accepted' = Accepted /\ Due' = Due
    BY Zenon, <1>1 DEF Accepted, Due, InTable, Ids
  <2>2. InTopic' = InTopic /\ InDeadLetter' = InDeadLetter
    BY Zenon, <1>1 DEF InTopic, InDeadLetter, Delivered, InLog
  <2> QED
    BY Zenon, <2>1, <2>2 DEF D!vars
<1>2. CASE Poll(r) \/ Crash(r)
  BY Zenon, <1>1, <1>2 DEF Poll, Crash, table
<1>3. CASE SendOk(r) \/ SendFail(r)
  <2>1. pc[r] # "idle" /\ rows' = rows /\ (log' = log \/ Publish(RouteOf[Msg(r)], Msg(r)))
    BY Zenon, <1>3 DEF SendOk, SendFail, table
  <2> QED
    BY Zenon, <2>1, PublishDelivers
<1>4. CASE SendToDeadLetter(r) \/ SendToDeadLetterFail(r)
  <2>1. pc[r] # "idle" /\ rows' = rows /\ (log' = log \/ Publish(DeadLetter, Msg(r)))
    BY Zenon, <1>4 DEF SendToDeadLetter, SendToDeadLetterFail, table
  <2> QED
    BY Zenon, <2>1, PublishDelivers
<1>5. CASE MarkPublished(r) \/ MarkPublishedFail(r)
  <2>1. /\ pc[r] # "idle" /\ log' = log /\ "published" \in Status
        /\ UNCHANGED rows \/ SetStatus(r, "published")
    BY Zenon, <1>5 DEF MarkPublished, MarkPublishedFail, Status
  <2>2. Delivered(Msg(r))
    BY Zenon, <1>5 DEF MarkPublished, MarkPublishedFail, IInv, RelayInv, RelayOK
  <2>3. /\ DOMAIN rows' = Ids
        /\ \A i \in Ids : rows'[i].msg = rows[i].msg
        /\ \A i \in Ids : \/ rows'[i].status = rows[i].status
                          \/ rows'[i].status = "published" /\ i = entry[r].id
    BY Zenon, <2>1, StatusFacts
  <2> QED
    BY Zenon, <2>1, <2>2, <2>3, RowDelivers
<1>6. CASE MarkFailed(r)
  <2>1. /\ pc[r] # "idle" /\ log' = log /\ "failed" \in Status
        /\ UNCHANGED rows \/ SetStatus(r, "failed")
    BY Zenon, <1>6 DEF MarkFailed, Status
  <2>2. InLog(DeadLetter, Msg(r))
    BY Zenon, <1>6 DEF MarkFailed, IInv, RelayInv, RelayOK
  <2>3. /\ DOMAIN rows' = Ids
        /\ \A i \in Ids : rows'[i].msg = rows[i].msg
        /\ \A i \in Ids : \/ rows'[i].status = rows[i].status
                          \/ rows'[i].status = "failed" /\ i = entry[r].id
    BY Zenon, <2>1, StatusFacts
  <2> QED
    BY Zenon, <2>1, <2>2, <2>3, RowDelivers
<1>7. CASE IncrementRetry(r)
  <2>1. pc[r] # "idle" /\ log' = log
    BY Zenon, <1>7 DEF IncrementRetry
  <2>2. CASE rows' = rows
    BY Zenon, <1>1, <2>1, <2>2
  <2>3. CASE rows' = [rows EXCEPT ![entry[r].id].retry = @ + 1]
    <3> DEFINE new == [rows[entry[r].id] EXCEPT !.retry = @ + 1]
    <3>1. rows \in Seq(Row) /\ entry[r].id \in Ids /\ rows[entry[r].id] \in Row
      BY Zenon, <2>1, BusyFacts DEF IInv, TypeOK
    <3>2. new.msg = rows[entry[r].id].msg /\ new.status = rows[entry[r].id].status
      BY Zenon, <3>1 DEF Row
    <3>3. rows' = [rows EXCEPT ![entry[r].id] = new]
      BY Zenon, <2>3
    <3> HIDE DEF new
    <3>4. /\ DOMAIN rows' = Ids
          /\ \A i \in Ids : rows'[i].msg = rows[i].msg /\ rows'[i].status = rows[i].status
      BY Zenon, <3>1, <3>2, <3>3 DEF Ids
    <3> QED
      BY Zenon, <2>1, <3>4, RowDelivers
  <2> QED
    BY Zenon, <1>7, <2>2, <2>3 DEF IncrementRetry
<1> QED
  BY Zenon, <1>2, <1>3, <1>4, <1>5, <1>6, <1>7 DEF RelayStep

\* Every step of the specification is a step of Delivery or none.
LEMMA DeliveryStep == IInv /\ [Next]_vars => [D!Next]_(D!vars)
<1> SUFFICES ASSUME IInv, [Next]_vars PROVE [D!Next]_(D!vars)
  BY Zenon
<1>1. ASSUME NEW m \in Messages, Dispatch(m) PROVE [D!Next]_(D!vars)
  BY Zenon, <1>1, DispatchDelivers
<1>2. ASSUME NEW r \in Relays, RelayStep(r) \/ Crash(r) PROVE [D!Next]_(D!vars)
  BY Zenon, <1>2, RelayDelivers
<1>3. CASE UNCHANGED vars
  <2>1. rows' = rows /\ log' = log
    BY Zenon, <1>3 DEF vars
  <2>2. Accepted' = Accepted /\ Due' = Due
    BY Zenon, <2>1 DEF Accepted, Due, InTable, Ids
  <2>3. InTopic' = InTopic /\ InDeadLetter' = InDeadLetter
    BY Zenon, <2>1 DEF InTopic, InDeadLetter, Delivered, InLog
  <2> QED
    BY Zenon, <2>2, <2>3 DEF D!vars
<1> QED
  BY Zenon, <1>1, <1>2, <1>3 DEF Next

\* Dispatcher and relays implement Delivery, for any number of messages and
\* relays, any batch size and any faults: Insert, publish and sendToDeadLetter
\* accept a message once and take it off the pending ones only when Kafka has
\* it.
THEOREM OutboxImplementsDelivery == Spec => ImplementsDelivery
BY DeliveryInit, DeliveryStep, OutboxInvariant, PTL DEF Spec, ImplementsDelivery, D!Spec

-----------------------------------------------------------------------------
\* message_id is UNIQUE, Kafka has only messages of the table, and a row or a
\* statement began after rows that are in the table.
TableInv ==
  /\ \A i, j \in Ids : rows[i].msg = rows[j].msg => i = j
  /\ \A t \in Topics \cup {DeadLetter} : \A m \in Messages : InLog(t, m) => InTable(m)
  /\ \A i \in Ids : rows[i].since <= Len(rows)
  /\ \A s \in open : s.since <= Len(rows)

\* A relay works through a batch of different rows.
BatchOK(r) ==
  /\ pc[r] # "idle" => \A e \in todo[r] : entry[r].id # e.id
  /\ \A e, f \in todo[r] : e.id = f.id => e = f

BatchInv == TableInv /\ \A r \in Relays : BatchOK(r)

\* What a step does to the relay that makes it.
Stays(r) == pc[r] # "idle" /\ pc'[r] \notin {"idle", "send"} /\ entry'[r] = entry[r] /\ todo'[r] = todo[r]

Rests(r) == pc'[r] = "idle" /\ todo'[r] = {}

Turns(r, S) ==
  /\ pc'[r] = "send" /\ entry'[r] \in S /\ todo'[r] = S \ {entry'[r]}
  /\ \A f \in S : ~ Precedes(f.id, entry'[r].id)

\* The end of a turn of poll's loop: the next entry of the batch or none.
LEMMA LoopKinds ==
  ASSUME TypeOK, NEW r \in Relays, NEW S, Loop(r, S)
  PROVE  /\ \A q \in Relays \ {r} : pc'[q] = pc[q] /\ entry'[q] = entry[q] /\ todo'[q] = todo[q]
         /\ (S = {} /\ Rests(r)) \/ Turns(r, S)
<1>1. /\ pc \in [Relays -> {"idle", "send", "mark", "retry", "dead", "fail"}]
      /\ entry \in [Relays -> Entry] /\ todo \in [Relays -> SUBSET Entry]
  BY Zenon DEF TypeOK
<1> QED
  BY Zenon, <1>1 DEF Loop, Rests, Turns

\* A step inside a turn keeps entry and batch.
LEMMA GotoKinds ==
  ASSUME TypeOK, NEW r \in Relays, pc[r] # "idle", NEW l \in {"mark", "retry", "dead", "fail"}, Goto(r, l)
  PROVE  /\ \A q \in Relays \ {r} : pc'[q] = pc[q] /\ entry'[q] = entry[q] /\ todo'[q] = todo[q]
         /\ Stays(r) /\ pc'[r] = l
<1>1. pc \in [Relays -> {"idle", "send", "mark", "retry", "dead", "fail"}]
  BY Zenon DEF TypeOK
<1> QED
  BY Zenon, <1>1 DEF Goto, Stays

\* A relay moves alone: it turns to a fresh batch or to the rest of its batch.
LEMMA MoveKinds ==
  ASSUME IInv, NEW r \in Relays, RelayStep(r) \/ Crash(r)
  PROVE  /\ \A q \in Relays \ {r} : pc'[q] = pc[q] /\ entry'[q] = entry[q] /\ todo'[q] = todo[q]
         /\ \/ Rests(r) \/ Stays(r)
            \/ Poll(r) /\ \E S \in FetchPending : Turns(r, S)
            \/ pc[r] \in {"mark", "retry", "dead", "fail"} /\ Turns(r, todo[r])
<1>1. TypeOK
  BY Zenon DEF IInv
<1>2. CASE Poll(r)
  BY Zenon, <1>1, <1>2, LoopKinds DEF Poll
<1>3. CASE SendOk(r)
  BY Zenon, <1>1, <1>3, GotoKinds DEF SendOk
<1>4. CASE SendFail(r)
  BY Zenon, <1>1, <1>4, GotoKinds DEF SendFail
<1>5. CASE MarkPublished(r)
  BY Zenon, <1>1, <1>5, LoopKinds DEF MarkPublished
<1>6. CASE MarkPublishedFail(r)
  BY Zenon, <1>1, <1>6, GotoKinds DEF MarkPublishedFail
<1>7. CASE IncrementRetry(r)
  BY Zenon, <1>1, <1>7, GotoKinds, LoopKinds DEF IncrementRetry
<1>8. CASE SendToDeadLetter(r)
  BY Zenon, <1>1, <1>8, GotoKinds DEF SendToDeadLetter
<1>9. CASE SendToDeadLetterFail(r)
  BY Zenon, <1>1, <1>9, LoopKinds DEF SendToDeadLetterFail
<1>10. CASE MarkFailed(r)
  BY Zenon, <1>1, <1>10, LoopKinds DEF MarkFailed
<1>11. CASE Crash(r)
  BY Zenon, <1>1, <1>11, LoopKinds DEF Crash, Turns
<1> QED
  BY Zenon, <1>2, <1>3, <1>4, <1>5, <1>6, <1>7, <1>8, <1>9, <1>10, <1>11 DEF RelayStep

\* A relay adds no row, no row becomes pending again, and it fails only its own.
LEMMA MoveRows ==
  ASSUME IInv, NEW r \in Relays, RelayStep(r) \/ Crash(r)
  PROVE  /\ DOMAIN rows' = Ids
         /\ \A i \in Ids :
              /\ rows'[i].msg = rows[i].msg /\ rows'[i].since = rows[i].since
              /\ rows'[i].status = "pending" => rows[i].status = "pending"
              /\ rows'[i].status = "failed" =>
                   rows[i].status = "failed" \/ (i = entry[r].id /\ pc[r] = "fail")
<1>1. CASE rows' = rows
  BY Zenon, <1>1 DEF Ids
<1>2. ASSUME NEW s \in {"published", "failed"}, SetStatus(r, s), pc[r] # "idle", s = "failed" => pc[r] = "fail"
      PROVE  /\ DOMAIN rows' = Ids
             /\ \A i \in Ids :
                  /\ rows'[i].msg = rows[i].msg /\ rows'[i].since = rows[i].since
                  /\ rows'[i].status = "pending" => rows[i].status = "pending"
                  /\ rows'[i].status = "failed" =>
                       rows[i].status = "failed" \/ (i = entry[r].id /\ pc[r] = "fail")
  BY Zenon, <1>2, StatusFacts DEF Status
<1>3. CASE pc[r] = "retry" /\ rows' = [rows EXCEPT ![entry[r].id].retry = @ + 1]
  <2> DEFINE new == [rows[entry[r].id] EXCEPT !.retry = @ + 1]
  <2>1. rows \in Seq(Row) /\ entry[r].id \in Ids /\ rows[entry[r].id] \in Row
    BY Zenon, <1>3, BusyFacts DEF IInv, TypeOK
  <2>2. /\ new.msg = rows[entry[r].id].msg /\ new.status = rows[entry[r].id].status
        /\ new.since = rows[entry[r].id].since
    BY Zenon, <2>1 DEF Row
  <2>3. rows' = [rows EXCEPT ![entry[r].id] = new]
    BY Zenon, <1>3
  <2> HIDE DEF new
  <2> QED
    BY Zenon, <2>1, <2>2, <2>3 DEF Ids
<1> QED
  BY Zenon, <1>1, <1>2, <1>3 DEF RelayStep, Crash, Poll, SendOk, SendFail, MarkPublished, MarkPublishedFail,
     IncrementRetry, SendToDeadLetter, SendToDeadLetterFail, MarkFailed, table

INSTANCE FiniteSetTheorems

\* FetchPending: different pending rows, and with a row every older pending one.
LEMMA FetchFacts ==
  ASSUME IInv, NEW S \in FetchPending
  PROVE  /\ \A e \in S : e \in Entry /\ e.id \in Ids /\ rows[e.id].status = "pending"
         /\ \A e, f \in S : e.id = f.id => e = f
         /\ \A e \in S : \A i \in Ids :
              (Precedes(i, e.id) /\ rows[i].status = "pending") => \E f \in S : f.id = i
<1>1. PICK T \in Oldest({i \in Ids : rows[i].status = "pending"}) : S = Entries(T)
  BY Zenon DEF FetchPending
<1>2. /\ \A i \in T : i \in Ids /\ rows[i].status = "pending"
      /\ \A j \in T : \A i \in Ids : rows[i].status = "pending" /\ Precedes(i, j) => i \in T
  BY Zenon, <1>1 DEF Oldest
<1>3. \A i \in Ids : rows[i].retry \in Nat /\ i \in Nat
  BY RowFields DEF IInv, TypeOK, Ids
<1>4. \A i \in T : \E f \in S : f.id = i
  <2> SUFFICES ASSUME NEW i \in T PROVE \E f \in S : f.id = i
    BY Zenon
  <2>1. [id |-> i, retry |-> rows[i].retry] \in S
    BY Zenon, <1>1 DEF Entries
  <2> QED
    BY Zenon, <2>1
<1>5. ASSUME NEW e \in S
      PROVE  e.id \in T /\ e.retry = rows[e.id].retry /\ e = [id |-> e.id, retry |-> rows[e.id].retry]
  <2>1. PICK k \in T : e = [id |-> k, retry |-> rows[k].retry]
    BY Zenon, <1>1 DEF Entries
  <2> QED
    BY Zenon, <2>1
<1>6. ASSUME NEW e \in S PROVE e \in Entry /\ e.id \in Ids /\ rows[e.id].status = "pending"
  <2>1. e.id \in Ids /\ rows[e.id].status = "pending" /\ e = [id |-> e.id, retry |-> rows[e.id].retry]
    BY Zenon, <1>2, <1>5
  <2>2. [id |-> e.id, retry |-> rows[e.id].retry] \in Entry
    BY Zenon, <1>3, <2>1 DEF Entry
  <2> QED
    BY Zenon, <2>1, <2>2
<1>7. \A e, f \in S : e.id = f.id => e = f
  BY Zenon, <1>5
<1>8. ASSUME NEW e \in S, NEW i \in Ids, Precedes(i, e.id), rows[i].status = "pending"
      PROVE  \E f \in S : f.id = i
  BY Zenon, <1>2, <1>4, <1>5, <1>8
<1> QED
  BY Zenon, <1>6, <1>7, <1>8

\* A relay's step keeps the rows of its batch different.
LEMMA BatchMove ==
  ASSUME IInv, IInv', BatchInv, NEW r \in Relays, RelayStep(r) \/ Crash(r)
  PROVE  BatchInv'
<1>1. /\ DOMAIN rows' = Ids
      /\ \A i \in Ids : rows'[i].msg = rows[i].msg /\ rows'[i].since = rows[i].since
  BY Zenon, MoveRows
<1>2. \A m : InTable(m)' <=> InTable(m)
  BY Zenon, <1>1 DEF InTable, Ids
<1>3. ASSUME NEW t \in Topics \cup {DeadLetter}, NEW m \in Messages, InLog(t, m)' PROVE InTable(m)'
  <2>1. CASE log' = log
    BY Zenon, <1>2, <1>3, <2>1 DEF BatchInv, TableInv, InLog
  <2>2. ASSUME NEW u \in {RouteOf[Msg(r)], DeadLetter}, Publish(u, Msg(r)), pc[r] # "idle" PROVE InTable(m)'
    <3>1. Msg(r) \in Messages /\ InTable(Msg(r)) /\ u \in Topics \cup {DeadLetter}
      BY Zenon, <2>2, BusyFacts DEF InTable, Msg
    <3>2. InLog(t, m) \/ m = Msg(r)
      <4>1. TypeOK
        BY Zenon DEF IInv
      <4>2. \A v \in Topics \cup {DeadLetter}, n \in Messages :
              InLog(v, n)' <=> InLog(v, n) \/ (v = u /\ n = Msg(r))
        BY Zenon, <2>2, <3>1, <4>1, PublishFacts
      <4> QED
        BY Zenon, <1>3, <4>2
    <3> QED
      BY Zenon, <1>2, <3>1, <3>2 DEF BatchInv, TableInv
  <2> QED
    BY Zenon, <2>1, <2>2 DEF RelayStep, Crash, Poll, SendOk, SendFail, MarkPublished, MarkPublishedFail,
       IncrementRetry, SendToDeadLetter, SendToDeadLetterFail, MarkFailed
<1>4. TableInv'
  <2>1. open' = open
    BY Zenon DEF RelayStep, Crash, Poll, SendOk, SendFail, MarkPublished, MarkPublishedFail,
       IncrementRetry, SendToDeadLetter, SendToDeadLetterFail, MarkFailed, table
  <2>2. Len(rows') = Len(rows)
    <3>1. rows \in Seq(Row) /\ rows' \in Seq(Row)
      BY Zenon DEF IInv, TypeOK
    <3> QED
      BY <1>1, <3>1 DEF Ids
  <2> QED
    BY Zenon, <1>1, <1>3, <2>1, <2>2 DEF BatchInv, TableInv, Ids
<1>5. ASSUME NEW S, \A e, f \in S : e.id = f.id => e = f, Turns(r, S) PROVE BatchOK(r)'
  BY Zenon, <1>5 DEF Turns, BatchOK
<1>6. BatchOK(r)'
  <2>1. CASE Rests(r)
    BY Zenon, <2>1 DEF Rests, BatchOK
  <2>2. CASE Stays(r)
    BY Zenon, <2>2 DEF Stays, BatchOK, BatchInv
  <2>3. ASSUME NEW S \in FetchPending, Turns(r, S) PROVE BatchOK(r)'
    BY Zenon, <1>5, <2>3, FetchFacts
  <2>4. CASE Turns(r, todo[r])
    BY Zenon, <1>5, <2>4 DEF BatchInv, BatchOK
  <2> QED
    BY Zenon, <2>1, <2>2, <2>3, <2>4, MoveKinds
<1>7. \A q \in Relays \ {r} : BatchOK(q)'
  BY Zenon, MoveKinds DEF BatchInv, BatchOK
<1> QED
  BY Zenon, <1>4, <1>6, <1>7 DEF BatchInv

\* What the dispatcher does to the table.
LEMMA DispatchFacts ==
  ASSUME IInv, NEW m \in Messages, Dispatch(m)
  PROVE  /\ UNCHANGED <<log, pc, entry, todo, attempts>> /\ (faults' = faults \/ Fault)
         /\ \/ rows' = rows
            \/ /\ ~ InTable(m) /\ Len(rows) \in Nat /\ Ids = 1 .. Len(rows)
               /\ DOMAIN rows' = Ids \cup {Len(rows) + 1}
               /\ \A i \in Ids : rows'[i] = rows[i]
               /\ rows'[Len(rows) + 1].msg = m /\ rows'[Len(rows) + 1].status = "pending"
<1>1. UNCHANGED <<log, pc, entry, todo, attempts>> /\ (faults' = faults \/ Fault)
  BY Zenon, DispatchCases DEF local
<1>2. TypeOK /\ \A s \in open : s \in Statement
  BY Zenon DEF IInv, TypeOK
<1>3. rows' = rows \/ \E s \in open : s.msg = m /\ ~ InTable(m) /\ Insert(s)
  BY Zenon, DispatchCases
<1>4. ASSUME NEW s \in open, s.msg = m, ~ InTable(m), Insert(s)
      PROVE  /\ ~ InTable(m) /\ Len(rows) \in Nat /\ Ids = 1 .. Len(rows)
             /\ DOMAIN rows' = Ids \cup {Len(rows) + 1}
             /\ \A i \in Ids : rows'[i] = rows[i]
             /\ rows'[Len(rows) + 1].msg = m /\ rows'[Len(rows) + 1].status = "pending"
  BY Zenon, <1>2, <1>4, InsertFacts
<1> QED
  BY Zenon, <1>1, <1>3, <1>4

\* The number of committed rows, before and after one more.
LEMMA Numbers ==
  /\ \A n \in Nat : n <= n /\ ~ (n + 1 <= n) /\ n + 1 \in Nat
  /\ \A a, n \in Nat : a <= n => a <= n + 1 /\ ~ (n + 1 <= a)
  /\ \A n \in Nat : \A i \in 1 .. n : i \in Nat /\ i # n + 1
OBVIOUS

\* A new row has an id of its own, and its message is in no topic.
LEMMA BatchDispatch ==
  ASSUME IInv, IInv', BatchInv, NEW m \in Messages, Dispatch(m)
  PROVE  BatchInv'
<1>1. UNCHANGED <<log, pc, entry, todo>>
  BY Zenon, DispatchFacts
<1>2. \A r \in Relays : BatchOK(r)'
  BY Zenon, <1>1 DEF BatchInv, BatchOK
<1>3. \A t, n : InLog(t, n)' <=> InLog(t, n)
  BY Zenon, <1>1 DEF InLog
<1>4. TypeOK /\ Len(rows) \in Nat
  BY DEF IInv, TypeOK
<1>5. CASE rows' = rows
  <2>1. \A s \in open' : s.since <= Len(rows)
    <3>1. open' \subseteq open \/ open' = open \cup {[msg |-> m, since |-> Len(rows)]}
      BY Zenon, DispatchCases
    <3>2. [msg |-> m, since |-> Len(rows)].since <= Len(rows)
      BY Zenon, <1>4, Numbers
    <3> QED
      BY Zenon, <3>1, <3>2 DEF BatchInv, TableInv
  <2> QED
    BY Zenon, <1>2, <1>3, <1>5, <2>1 DEF BatchInv, TableInv, InTable, Ids
<1>6. CASE rows' # rows
  <2>1. PICK s \in open : s.msg = m /\ ~ InTable(m) /\ Insert(s) /\ open' \subseteq open
    BY Zenon, <1>6, DispatchCases
  <2>2. s \in Statement /\ s.since \in Nat /\ s.since <= Len(rows)
    BY Zenon, <1>4 DEF TypeOK, Statement, BatchInv, TableInv
  <2>3. PICK new \in Row :
          /\ new.msg = m /\ new.since = s.since
          /\ Ids = 1 .. Len(rows)
          /\ DOMAIN rows' = Ids \cup {Len(rows) + 1}
          /\ rows'[Len(rows) + 1] = new
          /\ \A i \in Ids : rows'[i] = rows[i]
    BY Zenon, <1>4, <2>1, <2>2, InsertFacts
  <2>4. Len(rows') = Len(rows) + 1
    <3>1. rows' \in Seq(Row)
      BY Zenon DEF IInv, TypeOK
    <3> QED
      BY <1>4, <2>3, <3>1
  <2>5. \A n : InTable(n) => InTable(n)'
    BY Zenon, <2>3 DEF InTable, Ids
  <2>6. \A i \in Ids : rows[i].msg # m
    BY Zenon, <2>1 DEF InTable
  <2>7. \A i, j \in DOMAIN rows' : rows'[i].msg = rows'[j].msg => i = j
    BY Zenon, <2>3, <2>6 DEF BatchInv, TableInv
  <2>8. \A i \in DOMAIN rows' : rows'[i].since <= Len(rows')
    <3>1. \A i \in Ids : rows[i].since \in Nat /\ rows[i].since <= Len(rows)
      BY Zenon, <1>4, RowFields DEF TypeOK, Ids, BatchInv, TableInv
    <3>2. \A a \in Nat : a <= Len(rows) => a <= Len(rows')
      BY <1>4, <2>4
    <3> QED
      BY Zenon, <2>2, <2>3, <3>1, <3>2
  <2>9. \A u \in open' : u.since <= Len(rows')
    <3>1. \A u \in open : u.since \in Nat /\ u.since <= Len(rows)
      BY Zenon, <1>4 DEF TypeOK, Statement, BatchInv, TableInv
    <3>2. \A a \in Nat : a <= Len(rows) => a <= Len(rows')
      BY <1>4, <2>4
    <3> QED
      BY Zenon, <2>1, <3>1, <3>2
  <2> QED
    BY Zenon, <1>2, <1>3, <2>5, <2>7, <2>8, <2>9 DEF BatchInv, TableInv, Ids
<1> QED
  BY Zenon, <1>5, <1>6

\* Every step keeps table and batches.
LEMMA BatchStep == IInv /\ BatchInv /\ [Next]_vars => BatchInv'
<1> SUFFICES ASSUME IInv, IInv', BatchInv, [Next]_vars PROVE BatchInv'
  BY Zenon, InvStep
<1>1. CASE UNCHANGED vars
  BY Zenon, <1>1 DEF vars, BatchInv, TableInv, BatchOK, InLog, InTable, Ids
<1> QED
  BY Zenon, <1>1, BatchDispatch, BatchMove DEF Next

\* The table is empty in the beginning.
LEMMA BatchStart == Init => BatchInv
<1> SUFFICES ASSUME Init PROVE BatchInv
  BY Zenon
<1>1. Ids = {} /\ open = {} /\ \A r \in Relays : todo[r] = {}
  BY DEF Init, Ids
<1>2. \A t \in Topics \cup {DeadLetter} : \A m \in Messages : ~ InLog(t, m)
  BY DEF Init, InLog
<1> QED
  BY Zenon, <1>1, <1>2 DEF BatchInv, TableInv, BatchOK

-----------------------------------------------------------------------------
Has(r, i) == \E e \in todo[r] : e.id = i

\* The message of the row is in its topic, or an attempt to publish it failed.
Tried(i) == Delivered(rows[i].msg) \/ attempts[rows[i].msg] > 0

\* A relay has tried what precedes its entry, and what precedes another row of
\* its batch has been tried or is in the batch too.
InTurn(r) ==
  /\ pc[r] # "idle" => \A i \in Ids : Precedes(i, entry[r].id) => Tried(i)
  /\ \A e \in todo[r] : \A i \in Ids :
       Precedes(i, e.id) => Tried(i) \/ (pc[r] # "idle" /\ i = entry[r].id) \/ Has(r, i)

TurnInv == \A r \in Relays : InTurn(r)

\* Only SendOk publishes a message to its topic without a fault.
LEMMA PublishKinds ==
  ASSUME NEW r \in Relays, RelayStep(r) \/ Crash(r)
  PROVE  \/ log' = log
         \/ pc[r] = "dead" /\ Publish(DeadLetter, Msg(r))
         \/ pc[r] = "send" /\ Publish(RouteOf[Msg(r)], Msg(r)) /\ Fault
         \/ SendOk(r)
BY ZenonT(60) DEF RelayStep, Crash, Poll, SendFail, MarkPublished, MarkPublishedFail, IncrementRetry,
   SendToDeadLetter, SendToDeadLetterFail, MarkFailed

\* What a relay does to the counts of failed attempts.
LEMMA AttemptKinds ==
  ASSUME NEW r \in Relays, RelayStep(r) \/ Crash(r)
  PROVE  \/ attempts' = attempts
         \/ pc[r] = "retry" /\ attempts' = [attempts EXCEPT ![Msg(r)] = @ + 1]
BY ZenonT(60) DEF RelayStep, Crash, Poll, SendOk, SendFail, MarkPublished, MarkPublishedFail,
   IncrementRetry, SendToDeadLetter, SendToDeadLetterFail, MarkFailed

\* Counts and the comparison with zero.
LEMMA Counts ==
  /\ \A n \in Nat : n + 1 > 0
  /\ \A n \in Nat : n > 0 => n + 1 > 0
  /\ \A a, n \in Nat : n # 0 /\ a >= n => a > 0
OBVIOUS

\* What has been tried stays tried.
LEMMA TriedKept ==
  ASSUME IInv, NEW r \in Relays, RelayStep(r) \/ Crash(r), NEW i \in Ids, NEW m, m = rows[i].msg,
         Delivered(m) \/ attempts[m] > 0
  PROVE  Tried(i)'
<1>1. rows'[i].msg = m /\ m \in Messages /\ TypeOK /\ attempts \in [Messages -> Nat]
  BY Zenon, MoveRows, RowFields DEF IInv, TypeOK, Ids
<1>2. pc[r] # "idle" => Msg(r) \in Messages /\ RouteOf[Msg(r)] \in Topics
  BY Zenon, BusyFacts
<1>3. CASE Delivered(m)
  <2>1. RouteOf[m] \in Topics /\ RouteOf[m] # NoRoute /\ InLog(RouteOf[m], m)
    BY Zenon, <1>1, <1>3, OutboxAssumption DEF Delivered
  <2>2. CASE log' = log
    BY Zenon, <1>1, <2>1, <2>2 DEF Tried, Delivered, InLog
  <2>3. ASSUME NEW u \in Topics \cup {DeadLetter}, Publish(u, Msg(r)), pc[r] # "idle" PROVE InLog(RouteOf[m], m)'
    BY Zenon, <1>1, <1>2, <2>1, <2>3, PublishFacts
  <2>4. CASE InLog(RouteOf[m], m)'
    BY Zenon, <1>1, <2>1, <2>4 DEF Tried, Delivered
  <2> QED
    BY Zenon, <1>2, <2>2, <2>3, <2>4, PublishKinds DEF SendOk
<1>4. CASE attempts[m] > 0
  <2>1. attempts'[m] > 0
    <3>1. attempts[m] \in Nat
      BY Zenon, <1>1
    <3>2. attempts'[m] = attempts[m] \/ attempts'[m] = attempts[m] + 1
      BY Zenon, <1>1, <1>2, AttemptKinds
    <3> QED
      BY Zenon, <1>4, <3>1, <3>2, Counts
  <2> QED
    BY Zenon, <1>1, <2>1 DEF Tried
<1> QED
  BY Zenon, <1>3, <1>4

\* A relay has tried its entry when it turns to another one.
LEMMA EntryTried ==
  ASSUME IInv, NEW r \in Relays, RelayStep(r) \/ Crash(r), pc'[r] = "send",
         pc[r] \in {"mark", "retry", "dead", "fail"}, NEW i, i = entry[r].id
  PROVE  Tried(i)'
<1>1. i \in Ids /\ Msg(r) \in Messages /\ Msg(r) = rows[i].msg /\ attempts \in [Messages -> Nat]
  BY Zenon, BusyFacts DEF IInv, TypeOK, Msg
<1>2. CASE pc[r] = "mark"
  <2>1. Delivered(Msg(r))
    BY Zenon, <1>2 DEF IInv, RelayInv, RelayOK
  <2> QED
    BY Zenon, <1>1, <2>1, TriedKept
<1>3. CASE pc[r] \in {"dead", "fail"}
  <2>1. attempts[Msg(r)] > 0
    <3>1. attempts[Msg(r)] >= MaxRetries
      BY Zenon, <1>3 DEF IInv, RelayInv, RelayOK
    <3>2. attempts[Msg(r)] \in Nat /\ MaxRetries \in Nat /\ MaxRetries # 0
      BY Zenon, <1>1, OutboxAssumption
    <3> QED
      BY Zenon, <3>1, <3>2, Counts
  <2> QED
    BY Zenon, <1>1, <2>1, TriedKept
<1>4. CASE pc[r] = "retry"
  <2>1. attempts' = [attempts EXCEPT ![Msg(r)] = @ + 1]
    BY ZenonT(60), <1>4 DEF RelayStep, Crash, Loop, Poll, SendOk, SendFail, MarkPublished,
       MarkPublishedFail, IncrementRetry, SendToDeadLetter, SendToDeadLetterFail, MarkFailed, IInv, TypeOK
  <2>2. attempts'[Msg(r)] = attempts[Msg(r)] + 1 /\ attempts[Msg(r)] \in Nat
    BY Zenon, <1>1, <2>1
  <2>3. attempts'[Msg(r)] > 0
    BY Zenon, <2>2, Counts
  <2>4. rows'[i].msg = Msg(r)
    BY Zenon, <1>1, MoveRows
  <2> QED
    BY Zenon, <2>3, <2>4 DEF Tried
<1> QED
  BY Zenon, <1>2, <1>3, <1>4

\* The relay turns to an entry that nothing untried precedes.
LEMMA TurnsFacts ==
  ASSUME NEW r \in Relays, NEW S, Turns(r, S), Ids' = Ids, \A e \in S : e.id \in Ids,
         \A i \in Ids : rows'[i].since = rows[i].since,
         \A e \in S : \A i \in Ids : Precedes(i, e.id) => Tried(i)' \/ \E f \in S : f.id = i
  PROVE  InTurn(r)'
<1>1. /\ pc'[r] = "send" /\ entry'[r] \in S /\ todo'[r] = S \ {entry'[r]}
      /\ \A f \in S : ~ Precedes(f.id, entry'[r].id)
  BY Zenon DEF Turns
<1>2. \A i \in Ids : i <= rows'[entry'[r].id].since => Tried(i)'
  <2>1. rows'[entry'[r].id].since = rows[entry'[r].id].since
    <3>1. entry'[r].id \in Ids
      BY Zenon, <1>1
    <3> QED
      BY <3>1
  <2>2. ASSUME NEW i \in Ids, Precedes(i, entry'[r].id) PROVE Tried(i)'
    <3>1. Tried(i)' \/ \E f \in S : f.id = i
      BY Zenon, <1>1, <2>2
    <3>2. \A f \in S : f.id # i
      BY Zenon, <1>1, <2>2 DEF Precedes
    <3> QED
      BY Zenon, <3>1, <3>2
  <2> QED
    BY Zenon, <2>1, <2>2 DEF Precedes
<1>3. \A i \in Ids : (\E f \in S : f.id = i) => i = entry'[r].id \/ Has(r, i)'
  BY Zenon, <1>1 DEF Has
<1>4. \A e \in todo'[r] : \A i \in Ids : i <= rows'[e.id].since => Tried(i)' \/ i = entry'[r].id \/ Has(r, i)'
  BY Zenon, <1>1, <1>3 DEF Precedes
<1> QED
  BY Zenon, <1>1, <1>2, <1>4 DEF InTurn, Precedes

\* A relay that stays at its entry stays in turn.
LEMMA InTurnKept ==
  ASSUME IInv, NEW q \in Relays, InTurn(q), pc[q] # "idle" <=> pc'[q] # "idle",
         entry'[q] = entry[q], todo'[q] = todo[q],
         \A j \in Ids : \A i \in Ids' : Precedes(i, j)' => i \in Ids /\ Precedes(i, j),
         \A i \in Ids : Tried(i) => Tried(i)'
  PROVE  InTurn(q)'
<1>1. (pc[q] # "idle" => entry[q].id \in Ids) /\ \A e \in todo[q] : e.id \in Ids
  BY Zenon DEF IInv, RelayInv, RelayOK, Fetched
<1>2. \A i : Has(q, i)' <=> Has(q, i)
  BY Zenon DEF Has
<1>3. ASSUME NEW j \in Ids, NEW i \in Ids', i <= rows'[j].since
      PROVE  i \in Ids /\ Precedes(i, j)
  BY Zenon, <1>3 DEF Precedes
<1>4. pc[q] # "idle" => \A i \in Ids' : i <= rows'[entry[q].id].since => Tried(i)'
  BY Zenon, <1>1, <1>3 DEF InTurn
<1>5. \A e \in todo[q] : \A i \in Ids' :
        i <= rows'[e.id].since => Tried(i)' \/ (pc[q] # "idle" /\ i = entry[q].id) \/ Has(q, i)
  BY Zenon, <1>1, <1>3 DEF InTurn
<1> QED
  BY Zenon, <1>2, <1>4, <1>5 DEF InTurn, Precedes

\* A relay's step keeps every relay in turn.
LEMMA TurnMove ==
  ASSUME IInv, TurnInv, NEW r \in Relays, RelayStep(r) \/ Crash(r)
  PROVE  TurnInv'
<1>1. /\ Ids' = Ids
      /\ \A i \in Ids : rows'[i].since = rows[i].since
  BY Zenon, MoveRows DEF Ids
<1>2. \A j \in Ids : \A i \in Ids : Precedes(i, j)' <=> Precedes(i, j)
  BY Zenon, <1>1 DEF Precedes
<1>3. \A i \in Ids : Tried(i) => Tried(i)'
  BY Zenon, TriedKept DEF Tried
<1>4. \A q \in Relays : InTurn(q)
  BY Zenon DEF TurnInv
<1>5. \A q \in Relays \ {r} : InTurn(q)'
  BY Zenon, <1>1, <1>2, <1>3, <1>4, InTurnKept, MoveKinds
<1>6. InTurn(r)'
  <2>1. CASE Rests(r)
    BY Zenon, <2>1 DEF Rests, InTurn
  <2>2. CASE Stays(r)
    BY Zenon, <1>1, <1>2, <1>3, <1>4, <2>2, InTurnKept DEF Stays
  <2>3. ASSUME NEW S \in FetchPending, Turns(r, S) PROVE InTurn(r)'
    <3>1. ASSUME NEW e \in S, NEW i \in Ids, Precedes(i, e.id)
          PROVE  Tried(i)' \/ \E f \in S : f.id = i
      <4>1. CASE rows[i].status = "pending"
        BY Zenon, <3>1, <4>1, FetchFacts
      <4>2. CASE rows[i].status = "published"
        BY Zenon, <1>3, <4>2 DEF IInv, NothingLost, Tried
      <4>3. CASE rows[i].status = "failed"
        <5>1. rows[i].msg \in Messages /\ attempts \in [Messages -> Nat]
          BY Zenon, RowFields DEF IInv, TypeOK, Ids
        <5>2. attempts[rows[i].msg] >= MaxRetries
          BY Zenon, <4>3, <5>1 DEF IInv, NothingLost, DeadLetterOnlyExhausted
        <5>3. attempts[rows[i].msg] \in Nat /\ MaxRetries \in Nat /\ MaxRetries # 0
          BY Zenon, <5>1, OutboxAssumption
        <5>4. attempts[rows[i].msg] > 0
          BY Zenon, <5>2, <5>3, Counts
        <5> QED
          BY Zenon, <1>3, <5>4 DEF Tried
      <4>4. rows[i].status \in Status
        BY Zenon, RowFields DEF IInv, TypeOK, Ids
      <4> QED
        BY Zenon, <4>1, <4>2, <4>3, <4>4 DEF Status
    <3>2. \A e \in S : e.id \in Ids
      BY Zenon, FetchFacts
    <3> QED
      BY Zenon, <1>1, <1>2, <2>3, <3>1, <3>2, TurnsFacts
  <2>4. CASE pc[r] \in {"mark", "retry", "dead", "fail"} /\ Turns(r, todo[r])
    <3>1. \A i \in Ids : i = entry[r].id => Tried(i)'
      BY Zenon, <2>4, EntryTried DEF Turns
    <3>2. \A e \in todo[r] : e.id \in Ids
      BY Zenon DEF IInv, RelayInv, RelayOK, Fetched
    <3>3. \A e \in todo[r] : \A i \in Ids : Precedes(i, e.id) => Tried(i)' \/ \E f \in todo[r] : f.id = i
      BY Zenon, <1>3, <1>4, <3>1 DEF InTurn, Has
    <3> QED
      BY Zenon, <1>1, <1>2, <2>4, <3>2, <3>3, TurnsFacts
  <2> QED
    BY Zenon, <2>1, <2>2, <2>3, <2>4, MoveKinds
<1> QED
  BY Zenon, <1>5, <1>6 DEF TurnInv

\* A new row precedes no row that was there before.
LEMMA DispatchPrecedes ==
  ASSUME IInv, BatchInv, NEW m \in Messages, Dispatch(m)
  PROVE  /\ Ids \subseteq Ids'
         /\ \A i \in Ids : rows'[i] = rows[i]
         /\ \A j \in Ids : \A i \in Ids' : Precedes(i, j)' => i \in Ids /\ Precedes(i, j)
<1>1. CASE rows' = rows
  BY Zenon, <1>1 DEF Ids, Precedes
<1>2. CASE rows' # rows
  <2>1. /\ Len(rows) \in Nat /\ Ids' = Ids \cup {Len(rows) + 1}
        /\ \A i \in Ids : rows'[i] = rows[i]
    BY Zenon, <1>2, DispatchFacts DEF Ids
  <2>2. \A j \in Ids : rows[j].since \in Nat /\ rows[j].since <= Len(rows)
    BY Zenon, RowFields DEF IInv, TypeOK, Ids, BatchInv, TableInv
  <2>3. \A j \in Ids : ~ (Len(rows) + 1 <= rows'[j].since)
    BY Zenon, <2>1, <2>2, Numbers
  <2> QED
    BY Zenon, <2>1, <2>3 DEF Precedes
<1> QED
  BY Zenon, <1>1, <1>2

\* The dispatcher keeps every relay in turn.
LEMMA TurnDispatch ==
  ASSUME IInv, BatchInv, TurnInv, NEW m \in Messages, Dispatch(m)
  PROVE  TurnInv'
<1>1. UNCHANGED <<log, pc, entry, todo, attempts>>
  BY Zenon, DispatchFacts
<1>2. /\ \A i \in Ids : rows'[i] = rows[i]
      /\ \A j \in Ids : \A i \in Ids' : Precedes(i, j)' => i \in Ids /\ Precedes(i, j)
  BY Zenon, DispatchPrecedes
<1>3. \A i \in Ids : Tried(i) => Tried(i)'
  BY Zenon, <1>1, <1>2 DEF Tried, Delivered, InLog
<1> QED
  BY Zenon, <1>1, <1>2, <1>3, InTurnKept DEF TurnInv

\* The elements of a sequence after an Append.
LEMMA AppendFacts ==
  ASSUME NEW S, NEW s \in Seq(S), NEW m \in S
  PROVE  /\ DOMAIN s = 1 .. Len(s) /\ Len(s) \in Nat
         /\ DOMAIN Append(s, m) = 1 .. (Len(s) + 1)
         /\ \A i \in 1 .. Len(s) : Append(s, m)[i] = s[i]
         /\ Append(s, m)[Len(s) + 1] = m
OBVIOUS

\* The same for the log of a topic.
LEMMA LogAppends ==
  \A s \in Seq(Messages), m \in Messages :
    /\ DOMAIN s = 1 .. Len(s) /\ Len(s) \in Nat
    /\ DOMAIN Append(s, m) = 1 .. (Len(s) + 1)
    /\ \A i \in 1 .. Len(s) : Append(s, m)[i] = s[i]
    /\ Append(s, m)[Len(s) + 1] = m
BY AppendFacts

\* Positions in a log before and after an append.
LEMMA Positions ==
  \A n \in Nat :
    /\ \A k \in 1 .. n : \A h \in 1 .. k : h \in 1 .. n
    /\ \A h \in 1 .. n : h \in 1 .. (n + 1)
    /\ \A k \in 1 .. (n + 1) : k \in 1 .. n \/ k = n + 1
OBVIOUS

\* The arithmetic of the copies and faults.
LEMMA Sums ==
  /\ \A n \in Nat : n + 1 \in Nat /\ n + 1 >= n /\ n >= n /\ ~ (n < n)
  /\ \A a, b, c, f, g \in Nat : a + b <= c + f /\ g >= f => a + b <= c + g
  /\ \A b, c, g \in Nat : b <= c => 0 + b <= c + g
OBVIOUS

\* The relay appends a message to its topic after every older one that has
\* not failed.
LEMMA OrderMove ==
  ASSUME IInv, BatchInv, TurnInv, OvertakenOnlyAfterFailure, NEW r \in Relays, RelayStep(r) \/ Crash(r)
  PROVE  OvertakenOnlyAfterFailure'
<1>1. /\ Ids' = Ids
      /\ \A i \in Ids : /\ rows'[i].msg = rows[i].msg /\ rows'[i].since = rows[i].since
                        /\ rows[i].msg \in Messages
  BY Zenon, MoveRows, RowFields DEF Ids, IInv, TypeOK
<1>2. TypeOK /\ InTurn(r)
  BY Zenon DEF TurnInv, IInv
<1>3. \A i, j \in Ids : Precedes(i, j)' <=> Precedes(i, j)
  BY Zenon, <1>1 DEF Precedes
<1>4. \A m \in Messages : attempts[m] > 0 => attempts'[m] > 0
  <2>1. pc[r] # "idle" => Msg(r) \in Messages
    BY Zenon, BusyFacts
  <2>2. attempts \in [Messages -> Nat]
    BY Zenon, <1>2 DEF TypeOK
  <2>3. \A m \in Messages : attempts'[m] = attempts[m] \/ attempts'[m] = attempts[m] + 1
    BY Zenon, <2>1, <2>2, AttemptKinds
  <2> QED
    BY Zenon, <2>2, <2>3, Counts
<1> SUFFICES ASSUME NEW i \in Ids, NEW j \in Ids, Precedes(i, j),
                    RouteOf[rows[i].msg] = RouteOf[rows[j].msg],
                    NEW k \in DOMAIN log'[RouteOf[rows[i].msg]],
                    log'[RouteOf[rows[i].msg]][k] = rows[j].msg,
                    ~ (attempts'[rows[i].msg] > 0)
             PROVE  \E h \in 1 .. k : log'[RouteOf[rows[i].msg]][h] = rows[i].msg
  BY <1>1, <1>3 DEF OvertakenOnlyAfterFailure
<1> DEFINE t == RouteOf[rows[i].msg]
<1>5. t \in Topics /\ t # DeadLetter /\ log[t] \in Seq(Messages)
  BY Zenon, OutboxAssumption DEF IInv, RowInv, TypeOK
<1>6. \A g \in DOMAIN log[t] : log[t][g] = rows[j].msg => \E h \in 1 .. g : log[t][h] = rows[i].msg
  BY Zenon, <1>1, <1>4 DEF OvertakenOnlyAfterFailure
<1>7. CASE log'[t] = log[t]
  BY Zenon, <1>6, <1>7
<1>8. CASE log'[t] # log[t]
  <2>1. pc[r] = "send" /\ Publish(t, Msg(r)) /\ RouteOf[Msg(r)] = t
    <3>1. log \in [Topics \cup {DeadLetter} -> Seq(Messages)]
      BY Zenon, <1>2 DEF TypeOK
    <3>2. \A u, n : Publish(u, n) => u = t
      BY Zenon, <1>5, <1>8, <3>1 DEF Publish
    <3> QED
      BY Zenon, <1>5, <1>8, <3>2, PublishKinds DEF SendOk
  <2>2. entry[r].id \in Ids /\ Msg(r) = rows[entry[r].id].msg /\ Msg(r) \in Messages
    BY Zenon, <2>1, BusyFacts DEF Msg
  <2>3. log'[t] = Append(log[t], Msg(r))
    BY Zenon, <1>2, <1>5, <2>1 DEF Publish, TypeOK
  <2>4. /\ DOMAIN log'[t] = 1 .. (Len(log[t]) + 1) /\ Len(log[t]) \in Nat /\ DOMAIN log[t] = 1 .. Len(log[t])
        /\ \A g \in 1 .. Len(log[t]) : log'[t][g] = log[t][g]
        /\ log'[t][Len(log[t]) + 1] = Msg(r)
    <3>1. /\ DOMAIN log[t] = 1 .. Len(log[t]) /\ Len(log[t]) \in Nat
          /\ DOMAIN Append(log[t], Msg(r)) = 1 .. (Len(log[t]) + 1)
          /\ \A g \in 1 .. Len(log[t]) : Append(log[t], Msg(r))[g] = log[t][g]
          /\ Append(log[t], Msg(r))[Len(log[t]) + 1] = Msg(r)
      <4>1. log[t] \in Seq(Messages) /\ Msg(r) \in Messages
        BY Zenon, <1>5, <2>2
      <4> QED
        BY Zenon, <4>1, LogAppends
    <3> QED
      BY Zenon, <2>3, <3>1
  <2>5. Len(log[t]) \in Nat /\ k \in 1 .. (Len(log[t]) + 1)
    BY Zenon, <2>4
  <2>6. CASE k \in 1 .. Len(log[t])
    <3>1. PICK h \in 1 .. k : log[t][h] = rows[i].msg
      BY Zenon, <1>6, <2>4, <2>6
    <3>2. h \in 1 .. Len(log[t])
      BY Zenon, <2>5, <2>6, Positions
    <3> QED
      BY Zenon, <2>4, <3>1, <3>2
  <2>7. CASE k = Len(log[t]) + 1
    <3>1. Msg(r) = rows[j].msg
      BY Zenon, <2>4, <2>7
    <3>2. entry[r].id = j
      BY Zenon, <2>2, <3>1 DEF BatchInv, TableInv
    <3>3. Tried(i)
      BY Zenon, <1>2, <2>1, <3>2 DEF InTurn
    <3>4. Delivered(rows[i].msg)
      BY Zenon, <1>1, <1>4, <3>3 DEF Tried
    <3>5. PICK h \in 1 .. Len(log[t]) : log[t][h] = rows[i].msg
      BY Zenon, <2>4, <3>4 DEF Delivered, InLog
    <3>6. h \in 1 .. k
      BY Zenon, <2>7, <2>5, Positions
    <3> QED
      BY Zenon, <2>4, <3>5, <3>6
  <2> QED
    BY Zenon, <2>6, <2>7, <2>5, Positions
<1> QED
  BY Zenon, <1>7, <1>8

\* The message of a new row is in no topic, so the order stays.
LEMMA OrderDispatch ==
  ASSUME IInv, IInv', BatchInv, BatchInv', OvertakenOnlyAfterFailure, NEW m \in Messages, Dispatch(m)
  PROVE  OvertakenOnlyAfterFailure'
<1>1. log' = log /\ attempts' = attempts
  BY Zenon, DispatchFacts
<1>2. /\ \A i \in Ids : rows'[i] = rows[i]
      /\ \A j \in Ids : \A i \in Ids' : Precedes(i, j)' => i \in Ids /\ Precedes(i, j)
  BY Zenon, DispatchPrecedes
<1>3. \A j \in Ids' : j \in Ids \/ (rows'[j].msg = m /\ ~ InTable(m))
  BY Zenon, DispatchFacts DEF Ids
<1> SUFFICES ASSUME NEW i \in Ids', NEW j \in Ids', Precedes(i, j)',
                    RouteOf[rows'[i].msg] = RouteOf[rows'[j].msg],
                    NEW k \in DOMAIN log[RouteOf[rows'[i].msg]],
                    log[RouteOf[rows'[i].msg]][k] = rows'[j].msg
             PROVE  \/ attempts[rows'[i].msg] > 0
                    \/ \E h \in 1 .. k : log[RouteOf[rows'[i].msg]][h] = rows'[i].msg
  BY Zenon, <1>1 DEF OvertakenOnlyAfterFailure
<1>4. j \in Ids
  <2>1. RouteOf[rows'[i].msg] \in Topics
    BY Zenon DEF IInv, RowInv
  <2>2. rows'[j].msg = m => InTable(m)
    BY Zenon, <2>1 DEF BatchInv, TableInv, InLog
  <2> QED
    BY Zenon, <1>3, <2>2
<1>5. i \in Ids /\ Precedes(i, j) /\ rows'[i] = rows[i] /\ rows'[j] = rows[j]
  BY Zenon, <1>2, <1>4
<1>6. \A g \in DOMAIN log[RouteOf[rows[i].msg]] : log[RouteOf[rows[i].msg]][g] = rows[j].msg =>
        attempts[rows[i].msg] > 0 \/ \E h \in 1 .. g : log[RouteOf[rows[i].msg]][h] = rows[i].msg
  BY Zenon, <1>4, <1>5 DEF OvertakenOnlyAfterFailure
<1> QED
  BY Zenon, <1>5, <1>6

\* A message is overtaken in its topic by one that was dispatched after its
\* acknowledgement only when an attempt to publish it failed before: for any
\* number of relays that fetch the same rows with FetchPending, any batch size,
\* and any crashes and lost answers.
THEOREM OutboxOvertakenOnlyAfterFailure == Spec => []OvertakenOnlyAfterFailure
<1> DEFINE Inv == IInv /\ BatchInv /\ TurnInv /\ OvertakenOnlyAfterFailure
<1>1. Init => Inv
  <2> SUFFICES ASSUME Init PROVE TurnInv /\ OvertakenOnlyAfterFailure
    BY Zenon, InvInit, BatchStart
  <2>1. Ids = {} /\ \A r \in Relays : pc[r] = "idle" /\ todo[r] = {}
    BY DEF Init, Ids
  <2> QED
    BY Zenon, <2>1 DEF TurnInv, InTurn, OvertakenOnlyAfterFailure
<1>2. Inv /\ [Next]_vars => Inv'
  <2> SUFFICES ASSUME IInv, IInv', BatchInv, BatchInv', TurnInv, OvertakenOnlyAfterFailure, [Next]_vars
               PROVE  TurnInv' /\ OvertakenOnlyAfterFailure'
    BY Zenon, InvStep, BatchStep
  <2>1. CASE UNCHANGED vars
    <3>1. UNCHANGED <<rows, log, pc, entry, todo, attempts>>
      BY Zenon, <2>1 DEF vars
    <3>2. Ids' = Ids /\ \A i, j : Precedes(i, j)' <=> Precedes(i, j)
      BY Zenon, <3>1 DEF Ids, Precedes
    <3>3. \A i : Tried(i)' <=> Tried(i)
      BY Zenon, <3>1 DEF Tried, Delivered, InLog
    <3>4. TurnInv'
      BY Zenon, <3>1, <3>2, <3>3, InTurnKept DEF TurnInv
    <3>5. OvertakenOnlyAfterFailure'
      BY <3>1 DEF OvertakenOnlyAfterFailure, Ids, Precedes
    <3> QED
      BY Zenon, <3>4, <3>5
  <2>2. ASSUME NEW m \in Messages, Dispatch(m) PROVE TurnInv' /\ OvertakenOnlyAfterFailure'
    BY Zenon, <2>2, TurnDispatch, OrderDispatch
  <2>3. ASSUME NEW r \in Relays, RelayStep(r) \/ Crash(r) PROVE TurnInv' /\ OvertakenOnlyAfterFailure'
    BY Zenon, <2>3, TurnMove, OrderMove
  <2> QED
    BY Zenon, <2>1, <2>2, <2>3 DEF Next
<1> QED
  BY <1>1, <1>2, PTL DEF Spec

-----------------------------------------------------------------------------
\* The relays that publish row i once more before they meet another fault.
Could(i) ==
  {r \in Relays :
     \/ rows[i].status = "pending" /\ ~ (pc[r] = "mark" /\ entry[r].id = i)
     \/ Has(r, i)
     \/ pc[r] = "send" /\ entry[r].id = i}

\* Every relay has one copy of a row to give, and one more for every fault.
CopyOK(i) == Copies(rows[i].msg) + Cardinality(Could(i)) <= Cardinality(Relays) + faults

\* The relays that may yet publish a row are finitely many.
LEMMA CouldFinite ==
  ASSUME NEW i
  PROVE  /\ IsFiniteSet(Could(i)) /\ Cardinality(Could(i)) \in Nat
         /\ Cardinality(Relays) \in Nat /\ Cardinality(Could(i)) <= Cardinality(Relays)
<1>1. Could(i) \subseteq Relays
  BY Zenon DEF Could
<1> QED
  BY Zenon, <1>1, OutboxAssumption, FS_Subset, FS_CardinalityType

\* The copies of a message after a Send.
LEMMA CopiesFacts ==
  ASSUME TypeOK, NEW m \in Messages, RouteOf[m] \in Topics
  PROVE  /\ Copies(m) \in Nat
         /\ log' = log => Copies(m)' = Copies(m)
         /\ \A u \in Topics \cup {DeadLetter} : \A n \in Messages : Publish(u, n) =>
              Copies(m)' = IF n = m /\ u = RouteOf[m] THEN Copies(m) + 1 ELSE Copies(m)
<1> DEFINE t == RouteOf[m]
           C == {k \in DOMAIN log[t] : log[t][k] = m}
<1>1. log \in [Topics \cup {DeadLetter} -> Seq(Messages)] /\ log[t] \in Seq(Messages)
  BY Zenon DEF TypeOK
<1>2. DOMAIN log[t] = 1 .. Len(log[t]) /\ Len(log[t]) \in Nat
  BY <1>1
<1>3. IsFiniteSet(C) /\ Cardinality(C) \in Nat
  <2>1. IsFiniteSet(1 .. Len(log[t])) /\ C \in SUBSET (1 .. Len(log[t]))
    BY <1>2, FS_Interval
  <2>2. IsFiniteSet(C)
    BY Zenon, <2>1, FS_Subset
  <2> QED
    BY Zenon, <2>2, FS_CardinalityType
<1>4. ASSUME NEW u \in Topics \cup {DeadLetter}, NEW n \in Messages, Publish(u, n)
      PROVE  Copies(m)' = IF n = m /\ u = RouteOf[m] THEN Copies(m) + 1 ELSE Copies(m)
  <2>1. CASE u # t
    <3>1. log'[t] = log[t]
      BY Zenon, <1>1, <1>4, <2>1 DEF Publish
    <3> QED
      BY Zenon, <2>1, <3>1 DEF Copies
  <2>2. CASE u = t
    <3>1. log'[t] = Append(log[t], n)
      BY Zenon, <1>1, <1>4, <2>2 DEF Publish
    <3>2. /\ DOMAIN Append(log[t], n) = 1 .. (Len(log[t]) + 1)
          /\ \A g \in 1 .. Len(log[t]) : Append(log[t], n)[g] = log[t][g]
          /\ Append(log[t], n)[Len(log[t]) + 1] = n
      BY <1>1, AppendFacts
    <3>3. Len(log[t]) + 1 \notin C
      BY <1>2
    <3>4. CASE n = m
      <4>1. {k \in DOMAIN log'[t] : log'[t][k] = m} = C \cup {Len(log[t]) + 1}
        BY <1>2, <3>1, <3>2, <3>4
      <4>2. Cardinality(C \cup {Len(log[t]) + 1}) = Cardinality(C) + 1
        BY Zenon, <1>3, <3>3, FS_AddElement
      <4> QED
        BY ZenonT(60), <2>2, <3>4, <4>1, <4>2 DEF Copies
    <3>5. CASE n # m
      <4>1. {k \in DOMAIN log'[t] : log'[t][k] = m} = C
        BY <1>2, <3>1, <3>2, <3>5
      <4> QED
        BY Zenon, <3>5, <4>1 DEF Copies
    <3> QED
      BY Zenon, <3>4, <3>5
  <2> QED
    BY Zenon, <2>1, <2>2
<1> QED
  BY Zenon, <1>3, <1>4 DEF Copies

\* Only a fault after its Send gives a relay another copy to publish.
LEMMA CouldMove ==
  ASSUME IInv, BatchInv, NEW r \in Relays, RelayStep(r) \/ Crash(r), NEW i \in Ids
  PROVE  /\ Could(i)' \subseteq Could(i) \cup {r}
         /\ r \in Could(i)' => r \in Could(i) \/ (pc[r] = "mark" /\ Fault)
<1>1. rows'[i].status = "pending" => rows[i].status = "pending"
  BY Zenon, MoveRows
<1>2. ASSUME NEW q \in Relays \ {r} PROVE q \in Could(i)' => q \in Could(i)
  BY <1>1, <1>2, MoveKinds DEF Could, Has
<1>3. ASSUME r \in Could(i)' PROVE r \in Could(i) \/ (pc[r] = "mark" /\ Fault)
  <2>1. CASE Poll(r)
    <3>1. pc[r] = "idle" /\ UNCHANGED rows
      BY Zenon, <2>1 DEF Poll, table
    <3>2. Rests(r) \/ \E S \in FetchPending : Turns(r, S)
      BY Zenon, <2>1, <3>1, MoveKinds DEF Stays
    <3>3. Has(r, i)' \/ (pc'[r] = "send" /\ entry'[r].id = i) => rows[i].status = "pending"
      <4>1. CASE Rests(r)
        BY Zenon, <4>1 DEF Rests, Has
      <4>2. ASSUME NEW S \in FetchPending, Turns(r, S)
            PROVE  Has(r, i)' \/ (pc'[r] = "send" /\ entry'[r].id = i) => rows[i].status = "pending"
        <5>1. \A e \in S : rows[e.id].status = "pending"
          BY Zenon, FetchFacts
        <5>2. entry'[r] \in S /\ \A e \in todo'[r] : e \in S
          BY Zenon, <4>2 DEF Turns
        <5> QED
          BY Zenon, <5>1, <5>2 DEF Has
      <4> QED
        BY Zenon, <3>2, <4>1, <4>2
    <3> QED
      BY Zenon, <1>1, <1>3, <3>1, <3>3 DEF Could
  <2>2. CASE ~ Poll(r)
    <3>1. Has(r, i)' => Has(r, i)
      BY Zenon, <2>2, MoveKinds DEF Rests, Stays, Turns, Has
    <3>2. pc'[r] = "send" /\ entry'[r].id = i => Has(r, i)
      BY Zenon, <2>2, MoveKinds DEF Rests, Stays, Turns, Has
    <3>3. CASE pc[r] # "mark"
      BY Zenon, <1>1, <1>3, <3>1, <3>2, <3>3 DEF Could
    <3>4. CASE MarkPublished(r)
      <4>1. pc[r] = "mark" /\ SetStatus(r, "published") /\ entry[r].id \in Ids /\ rows[entry[r].id] \in Row
        BY Zenon, <3>4, BusyFacts DEF MarkPublished
      <4>2. rows'[entry[r].id].status = "published"
        BY Zenon, <4>1 DEF SetStatus, IInv, TypeOK, Ids, Row
      <4> QED
        BY Zenon, <1>1, <1>3, <3>1, <3>2, <4>2 DEF Could
    <3>5. CASE pc[r] = "mark" /\ (MarkPublishedFail(r) \/ Crash(r))
      BY Zenon, <3>5 DEF MarkPublishedFail, Crash
    <3> QED
      BY Zenon, <2>2, <3>3, <3>4, <3>5 DEF RelayStep, SendOk, SendFail, IncrementRetry, SendToDeadLetter,
         SendToDeadLetterFail, MarkFailed
  <2> QED
    BY Zenon, <2>1, <2>2
<1>4. Could(i)' \subseteq Relays
  BY Zenon DEF Could
<1> QED
  BY Zenon, <1>2, <1>3, <1>4

\* The sums, for each way in which a step changes them.
LEMMA CopySums ==
  ASSUME NEW c \in Nat, NEW d \in Nat, NEW f \in Nat, NEW g \in Nat, NEW R \in Nat,
         NEW S, NEW T, NEW r, IsFiniteSet(S), c + Cardinality(S) <= R + f,
         \/ d = c /\ g >= f /\ T \subseteq S
         \/ d \in {c, c + 1} /\ g = f + 1 /\ T \subseteq S
         \/ d = c /\ g = f + 1 /\ T \subseteq S \cup {r}
         \/ d = c + 1 /\ g = f /\ r \in S /\ T \subseteq S \ {r}
  PROVE  d + Cardinality(T) <= R + g
<1>1. Cardinality(S) \in Nat
  BY Zenon, FS_CardinalityType
<1>2. ASSUME NEW U, IsFiniteSet(U), T \subseteq U PROVE Cardinality(T) <= Cardinality(U) /\ Cardinality(T) \in Nat
  BY Zenon, <1>2, FS_Subset, FS_CardinalityType
<1>3. CASE T \subseteq S /\ ((d = c /\ g >= f) \/ (d \in {c, c + 1} /\ g = f + 1))
  <2>1. Cardinality(T) <= Cardinality(S) /\ Cardinality(T) \in Nat
    BY Zenon, <1>2, <1>3
  <2> QED
    BY <1>1, <1>3, <2>1
<1>4. CASE d = c /\ g = f + 1 /\ T \subseteq S \cup {r}
  <2>1. IsFiniteSet(S \cup {r}) /\ Cardinality(S \cup {r}) \in {Cardinality(S), Cardinality(S) + 1}
    BY Zenon, FS_AddElement
  <2>2. Cardinality(T) <= Cardinality(S \cup {r}) /\ Cardinality(T) \in Nat
    BY Zenon, <1>2, <1>4, <2>1
  <2> QED
    BY <1>1, <1>4, <2>1, <2>2
<1>5. CASE d = c + 1 /\ g = f /\ r \in S /\ T \subseteq S \ {r}
  <2>1. IsFiniteSet(S \ {r}) /\ Cardinality(S \ {r}) = Cardinality(S) - 1
    BY Zenon, <1>5, FS_RemoveElement
  <2>2. Cardinality(T) <= Cardinality(S \ {r}) /\ Cardinality(T) \in Nat
    BY Zenon, <1>2, <1>5, <2>1
  <2> QED
    BY <1>1, <1>5, <2>1, <2>2
<1> QED
  BY Zenon, <1>3, <1>4, <1>5

\* A relay's step pays for a copy with its place or with a fault.
LEMMA CopyMove ==
  ASSUME IInv, IInv', BatchInv, NEW r \in Relays, RelayStep(r) \/ Crash(r), NEW i \in Ids, CopyOK(i),
         NEW m, rows[i].msg = m
  PROVE  CopyOK(i)'
<1>1. /\ m \in Messages /\ RouteOf[m] \in Topics /\ RouteOf[m] # DeadLetter /\ TypeOK
      /\ rows'[i].msg = m
  <2>1. rows \in Seq(Row) /\ TypeOK /\ RouteOf[m] \in Topics
    BY Zenon DEF IInv, TypeOK, RowInv
  <2>2. m \in Messages
    BY Zenon, <2>1, RowFields DEF Ids
  <2> QED
    BY Zenon, <2>1, <2>2, MoveRows, OutboxAssumption
<1>2. /\ Copies(m) \in Nat /\ (log' = log => Copies(m)' = Copies(m))
      /\ \A u \in Topics \cup {DeadLetter} : \A n \in Messages : Publish(u, n) =>
           Copies(m)' = IF n = m /\ u = RouteOf[m] THEN Copies(m) + 1 ELSE Copies(m)
  BY Zenon, <1>1, CopiesFacts
<1>3. /\ Could(i)' \subseteq Could(i) \cup {r}
      /\ r \in Could(i)' => r \in Could(i) \/ (pc[r] = "mark" /\ Fault)
  BY Zenon, CouldMove
<1>4. faults \in Nat /\ faults' \in Nat /\ (Fault => faults' = faults + 1) /\ (Fault \/ faults' = faults)
  BY DEF IInv, TypeOK, Fault, RelayStep, Crash, Poll, SendOk, SendFail, MarkPublished, MarkPublishedFail,
         IncrementRetry, SendToDeadLetter, SendToDeadLetterFail, MarkFailed
<1>5. pc[r] # "idle" => Msg(r) \in Messages /\ RouteOf[Msg(r)] \in Topics
  BY Zenon, BusyFacts
<1>6. \/ Copies(m)' = Copies(m) /\ faults' >= faults /\ Could(i)' \subseteq Could(i)
      \/ Copies(m)' \in {Copies(m), Copies(m) + 1} /\ faults' = faults + 1 /\ Could(i)' \subseteq Could(i)
      \/ Copies(m)' = Copies(m) /\ faults' = faults + 1 /\ Could(i)' \subseteq Could(i) \cup {r}
      \/ Copies(m)' = Copies(m) + 1 /\ faults' = faults /\ r \in Could(i) /\ Could(i)' \subseteq Could(i) \ {r}
  <2>0. ASSUME Copies(m)' = Copies(m)
        PROVE  \/ faults' >= faults /\ Could(i)' \subseteq Could(i)
               \/ faults' = faults + 1 /\ Could(i)' \subseteq Could(i) \cup {r}
    BY Zenon, <1>3, <1>4, Sums
  <2>1. CASE log' = log
    BY Zenon, <1>2, <2>0, <2>1
  <2>2. CASE pc[r] = "dead" /\ Publish(DeadLetter, Msg(r))
    BY Zenon, <1>1, <1>2, <1>5, <2>0, <2>2
  <2>3. CASE pc[r] = "send" /\ Publish(RouteOf[Msg(r)], Msg(r)) /\ Fault
    BY Zenon, <1>2, <1>3, <1>4, <1>5, <2>3
  <2>4. CASE SendOk(r) /\ Msg(r) # m
    BY Zenon, <1>2, <1>5, <2>0, <2>4 DEF SendOk
  <2>5. CASE SendOk(r) /\ Msg(r) = m
    <3>1. /\ pc[r] = "send" /\ Publish(RouteOf[m], m) /\ faults' = faults
          /\ Stays(r) /\ pc'[r] = "mark"
      BY Zenon, <1>1, <2>5, GotoKinds DEF SendOk
    <3>2. entry[r].id = i
      BY Zenon, <2>5, <3>1, BusyFacts DEF Msg, BatchInv, TableInv
    <3>3. r \in Could(i)
      BY Zenon, <3>1, <3>2 DEF Could
    <3>4. ~ Has(r, i)
      <4>1. \A e \in todo[r] : entry[r].id # e.id
        BY Zenon, <3>1 DEF BatchInv, BatchOK
      <4> QED
        BY Zenon, <3>2, <4>1 DEF Has
    <3>5. r \notin Could(i)'
      BY Zenon, <3>1, <3>2, <3>4 DEF Could, Has, Stays
    <3>6. Copies(m)' = Copies(m) + 1
      BY Zenon, <1>1, <1>2, <3>1
    <3> QED
      BY Zenon, <1>3, <3>1, <3>3, <3>5, <3>6
  <2> QED
    BY Zenon, <2>1, <2>2, <2>3, <2>4, <2>5, PublishKinds
<1>7. Copies(m)' \in Nat
  BY Zenon, <1>2, <1>6, Sums
<1>8. /\ IsFiniteSet(Could(i)) /\ Cardinality(Relays) \in Nat
      /\ Copies(m) + Cardinality(Could(i)) <= Cardinality(Relays) + faults
  BY Zenon, CouldFinite DEF CopyOK
<1>9. Copies(m)' + Cardinality(Could(i)') <= Cardinality(Relays) + faults'
  <2> DEFINE c == Copies(m)
             d == Copies(m)'
             f == faults
             g == faults'
             S == Could(i)
             T == Could(i)'
             R == Cardinality(Relays)
  <2>1. /\ c \in Nat /\ d \in Nat /\ f \in Nat /\ g \in Nat /\ R \in Nat
        /\ IsFiniteSet(S) /\ c + Cardinality(S) <= R + f
    BY Zenon, <1>2, <1>4, <1>7, <1>8
  <2>2. \/ d = c /\ g >= f /\ T \subseteq S
        \/ d \in {c, c + 1} /\ g = f + 1 /\ T \subseteq S
        \/ d = c /\ g = f + 1 /\ T \subseteq S \cup {r}
        \/ d = c + 1 /\ g = f /\ r \in S /\ T \subseteq S \ {r}
    BY Zenon, <1>6
  <2> HIDE DEF c, d, f, g, S, T, R
  <2>3. d + Cardinality(T) <= R + g
    BY <2>1, <2>2, CopySums
  <2> QED
    BY Zenon, <2>3 DEF d, g, T, R
<1>10. Copies(rows[i].msg)' = Copies(m)'
  BY Zenon, <1>1 DEF Copies
<1> QED
  BY Zenon, <1>9, <1>10 DEF CopyOK

\* A message that is dispatched is not in any log yet.
LEMMA CopyDispatch ==
  ASSUME IInv, IInv', BatchInv, BatchInv', NEW m \in Messages, Dispatch(m),
         \A i \in Ids : CopyOK(i), NEW i \in DOMAIN rows'
  PROVE  CopyOK(i)'
<1>1. log' = log /\ pc' = pc /\ entry' = entry /\ todo' = todo /\ faults' >= faults /\ faults \in Nat /\ faults' \in Nat
  <2>1. faults \in Nat /\ faults' \in Nat
    BY DEF IInv, TypeOK
  <2> QED
    BY <2>1, DispatchFacts DEF Fault
<1>2. CASE i \in Ids
  <2>0. rows \in Seq(Row) /\ TypeOK /\ RouteOf[rows[i].msg] \in Topics
    BY Zenon, <1>2 DEF IInv, TypeOK, RowInv
  <2>1. rows'[i] = rows[i] /\ CopyOK(i) /\ Copies(rows[i].msg) \in Nat
    <3>1. rows[i].msg \in Messages
      BY Zenon, <1>2, <2>0, RowFields DEF Ids
    <3> QED
      BY Zenon, <1>2, <2>0, <3>1, DispatchFacts, CopiesFacts
  <2>2. Copies(rows[i].msg)' = Copies(rows[i].msg) /\ Could(i)' = Could(i)
    BY Zenon, <1>1, <2>1 DEF Copies, Could, Has
  <2>3. Cardinality(Could(i)) \in Nat /\ Cardinality(Relays) \in Nat
    BY Zenon, CouldFinite
  <2> QED
    BY Zenon, <1>1, <2>1, <2>2, <2>3, Sums DEF CopyOK
<1>3. CASE i \notin Ids
  <2>1. rows'[i].msg = m /\ RouteOf[m] \in Topics /\ ~ InTable(m)
    <3>1. rows'[i].msg = m /\ ~ InTable(m)
      BY Zenon, <1>3, DispatchFacts DEF Ids
    <3>2. RowInv'
      BY Zenon DEF IInv
    <3> QED
      BY Zenon, <3>1, <3>2 DEF RowInv, Ids
  <2>2. ~ InLog(RouteOf[m], m)
    BY Zenon, <2>1 DEF BatchInv, TableInv
  <2>3. Copies(rows[i].msg)' = Cardinality({})
    BY Zenon, <1>1, <2>1, <2>2 DEF Copies, InLog
  <2>4. Cardinality(Could(i)') \in Nat /\ Cardinality(Could(i)') <= Cardinality(Relays) /\ Cardinality(Relays) \in Nat
    <3>1. Could(i)' \in SUBSET Relays /\ IsFiniteSet(Relays)
      BY Zenon, OutboxAssumption DEF Could
    <3> QED
      BY Zenon, <3>1, FS_Subset, FS_CardinalityType
  <2> QED
    BY Zenon, <1>1, <2>3, <2>4, Sums, FS_EmptySet DEF CopyOK
<1> QED
  BY Zenon, <1>2, <1>3
\* Each relay process publishes a message at most once, plus once for every
\* call that failed or process that stopped: Relay.poll fetches its rows
\* without a lock, and still adds no copies beyond that.
THEOREM OutboxDuplicateNeedsFault == Spec => []DuplicateNeedsFault
<1> DEFINE CopyInv == \A i \in Ids : CopyOK(i)
           Inv == IInv /\ BatchInv /\ CopyInv
<1>1. Init => Inv
  <2> SUFFICES ASSUME Init PROVE CopyInv
    BY Zenon, InvInit, BatchStart
  <2>1. Ids = {}
    BY DEF Init, Ids
  <2> QED
    BY Zenon, <2>1
<1>2. Inv /\ [Next]_vars => Inv'
  <2> SUFFICES ASSUME IInv, BatchInv, CopyInv, [Next]_vars, IInv', BatchInv' PROVE CopyInv'
    BY Zenon, InvStep, BatchStep
  <2>1. CASE UNCHANGED vars
    <3>1. ASSUME NEW i \in Ids PROVE CopyOK(i)'
      <4>1. CopyOK(i)
        BY Zenon
      <4> QED
        BY Zenon, <2>1, <4>1 DEF vars, CopyOK, Copies, Could, Has
    <3> QED
      BY Zenon, <2>1, <3>1 DEF vars, Ids
  <2>2. ASSUME NEW m \in Messages, Dispatch(m) PROVE CopyInv'
    <3>1. \A i \in Ids : CopyOK(i)
      BY Zenon
    <3>2. ASSUME NEW i \in DOMAIN rows' PROVE CopyOK(i)'
      BY Zenon, <2>2, <3>1, CopyDispatch
    <3> QED
      BY Zenon, <3>2 DEF Ids
  <2>3. ASSUME NEW r \in Relays, RelayStep(r) \/ Crash(r) PROVE CopyInv'
    <3>1. ASSUME NEW i \in Ids PROVE CopyOK(i)'
      BY Zenon, <2>3, CopyMove
    <3> QED
      BY Zenon, <2>3, <3>1, MoveRows DEF Ids
  <2> QED
    BY Zenon, <2>1, <2>2, <2>3 DEF Next
<1>3. Inv => DuplicateNeedsFault
  <2> SUFFICES ASSUME Inv, NEW m \in Messages, RouteOf[m] # NoRoute
               PROVE  Copies(m) <= Cardinality(Relays) + faults
    BY Zenon DEF DuplicateNeedsFault
  <2>1. RouteOf[m] \in Topics /\ TypeOK /\ faults \in Nat /\ Cardinality(Relays) \in Nat
    <3>1. Cardinality(Relays) \in Nat
      BY Zenon, OutboxAssumption, FS_CardinalityType
    <3>2. RouteOf[m] \in Topics
      BY Zenon, OutboxAssumption
    <3> QED
      BY <3>1, <3>2 DEF IInv, TypeOK
  <2>2. CASE InTable(m)
    <3>1. PICK i \in Ids : rows[i].msg = m
      BY Zenon, <2>2 DEF InTable
    <3>2. Copies(m) + Cardinality(Could(i)) <= Cardinality(Relays) + faults
      BY Zenon, <3>1 DEF CopyOK
    <3>3. Copies(m) \in Nat /\ Cardinality(Could(i)) \in Nat
      BY Zenon, <2>1, CopiesFacts, CouldFinite
    <3> QED
      BY <2>1, <3>2, <3>3
  <2>3. CASE ~ InTable(m)
    <3>1. ~ InLog(RouteOf[m], m)
      BY Zenon, <2>1, <2>3 DEF BatchInv, TableInv
    <3>2. Copies(m) = Cardinality({})
      BY Zenon, <3>1 DEF Copies, InLog
    <3> QED
      BY <2>1, <3>2, FS_EmptySet
  <2> QED
    BY Zenon, <2>2, <2>3
<1> QED
  BY <1>1, <1>2, <1>3, PTL DEF Spec
=============================================================================
