--------------------------- MODULE SessionProofs ----------------------------
(***************************************************************************)
(* Proofs that, for any number of sessions, connections and calls at the   *)
(* same time, no session gets past "connecting" without a handshake, every *)
(* session with an owner that a caller can name is complete, and the limit *)
(* of connections is exceeded by less than the number of calls.            *)
(***************************************************************************)
EXTENDS Session, FiniteSetTheorems, TLAPS

\* What a call in progress knows: the session it works on (one that Create made,
\* listed before its SAdd only with a TTL, without its owner once Delete has
\* removed the hash, and held by the caller of anything but Create), and that
\* the status it is going to write exists and follows from a handshake.
CallOK(c) ==
  /\ call[c].pc # "done" => call[c].sid \in born
  /\ (call[c].pc = "sadd" /\ Owned(call[c].sid)) => hash[call[c].sid].ttl
  /\ call[c].pc \in {"del_conns", "srem"} => ~ Owned(call[c].sid)
  /\ (call[c].pc \notin {"done", "expire", "sadd", "pg_create"} /\ Owned(call[c].sid)) =>
       call[c].sid \in Held
  /\ call[c].pc = "add" => call[c].conn \in Conns
  /\ call[c].pc \in {"status", "last_active", "last_ttl", "pg_status"} =>
       Transition(call[c].found, call[c].event) \in Statuses
  /\ (call[c].pc = "status" /\ call[c].event # "HandshakeOK") =>
       \/ call[c].sid \in shaken
       \/ Transition(call[c].found, call[c].event) = "connecting"

\* Only ids that CreateSession has generated are in use.
BornInv == Held \subseteq born /\ \A s \in Sessions \ born : conns[s] = {}

SInv ==
  /\ TypeOK
  /\ BornInv
  /\ \A c \in Calls : CallOK(c)
  /\ HandshakeFirst
  /\ HeldIsComplete

\* What a step may not do to the sessions of calls in progress: give one an
\* owner again, or take its TTL or its listing and leave the owner.
Keeps ==
  /\ born \subseteq born' /\ shaken \subseteq shaken'
  /\ \A s \in born : Owned(s)' => /\ Owned(s)
                                  /\ hash[s].ttl => hash'[s].ttl
                                  /\ s \in Held => s \in Held'

\* The calls that have passed the check of RegisterConnection for s.
Pending(s) == {c \in Calls : call[c].pc = "add" /\ call[c].sid = s}

\* What each pending call will add counts as a connection already.
CapInv ==
  \A s \in Sessions :
    Cardinality(conns[s]) + Cardinality(Pending(s)) + 1 <= MaxConnections + Cardinality(Calls)

-----------------------------------------------------------------------------
\* What the state machine returns.
LEMMA TransitionFacts ==
  ASSUME NEW st \in Statuses \cup {NoStatus}, NEW e
  PROVE  /\ Transition(st, e) \in {"active", "sleeping", "expired", "destroyed", "invalid"}
         /\ (Transition(st, e) \in Statuses /\ e # "HandshakeOK") => st \in {"active", "sleeping"}
BY Zenon DEF Transition, Statuses, NoStatus

\* A call that a step leaves alone knows what it knew.
LEMMA CallKept ==
  ASSUME NEW d, CallOK(d), Keeps, call'[d] = call[d]
  PROVE  CallOK(d)'
<1> DEFINE t == call[d].sid
<1>1. call'[d].sid = t
  BY Zenon
<1>2. call[d].pc # "done" => t \in born
  BY Zenon DEF CallOK
<1>3. t \in born => ("owner" \in hash'[t].fields => /\ Owned(t) /\ (hash[t].ttl => hash'[t].ttl)
                                                    /\ (t \in Held => t \in Held'))
  BY Zenon DEF Keeps, Owned
<1>4. t \in born => t \in born'
  BY Zenon DEF Keeps
<1>5. t \in shaken => t \in shaken'
  BY Zenon DEF Keeps
<1> HIDE DEF t
<1>6. /\ call[d].pc # "done" => t \in born'
      /\ (call[d].pc = "sadd" /\ "owner" \in hash'[t].fields) => hash'[t].ttl
      /\ call[d].pc \in {"del_conns", "srem"} => "owner" \notin hash'[t].fields
      /\ (call[d].pc \notin {"done", "expire", "sadd", "pg_create"} /\ "owner" \in hash'[t].fields) =>
           t \in Held'
      /\ (call[d].pc = "status" /\ call[d].event # "HandshakeOK") =>
           t \in shaken' \/ Transition(call[d].found, call[d].event) = "connecting"
  BY ZenonT(60), <1>2, <1>3, <1>4, <1>5 DEF CallOK, t
<1> QED
  BY Zenon, <1>1, <1>6 DEF CallOK, Owned

\* A step that changes one call.
LEMMA CallStep ==
  ASSUME SInv, NEW c \in Calls, NEW r \in Call,
         call' = [call EXCEPT ![c] = r],
         Keeps,
         CallOK(c)'
  PROVE  call' \in [Calls -> Call] /\ \A d \in Calls : CallOK(d)'
<1>1. call \in [Calls -> Call]
  BY Zenon DEF SInv, TypeOK
<1>2. call' \in [Calls -> Call]
  BY Zenon, <1>1
<1>3. ASSUME NEW d \in Calls PROVE CallOK(d)'
  <2>1. CASE d = c
    BY Zenon, <2>1
  <2>2. CASE d # c
    <3>1. call'[d] = call[d]
      BY Zenon, <1>1, <2>2
    <3>2. CallOK(d)
      BY Zenon DEF SInv
    <3> QED
      BY Zenon, <3>1, <3>2, CallKept
  <2> QED
    BY Zenon, <2>1, <2>2
<1> QED
  BY Zenon, <1>2, <1>3

\* A call begins.
LEMMA BeginFacts ==
  ASSUME SInv, NEW c \in Calls, NEW s \in Sessions, NEW e \in AllEvents \cup {"none"},
         NEW k \in Conns \cup {"none"}, NEW p \in {"expire", "status", "delete", "add"},
         Begin(c, s, e, k, p),
         Keeps, s \in born',
         p # "expire" => s \in Held',
         p = "add" => k \in Conns,
         p = "status" => Transition(hash[s].status, e) \in Statuses
  PROVE  call' \in [Calls -> Call] /\ \A d \in Calls : CallOK(d)'
<1> DEFINE r == [pc |-> p, sid |-> s, event |-> e, conn |-> k,
                 found |-> hash[s].status, owned |-> FALSE]
<1>1. hash[s] \in Hash /\ hash[s].status \in Statuses \cup {NoStatus}
  BY Zenon DEF SInv, TypeOK, Hash
<1>2. r \in Call
  BY Zenon, <1>1 DEF Call
<1>3. call' = [call EXCEPT ![c] = r]
  BY Zenon DEF Begin
<1>4. call'[c] = r
  BY Zenon, <1>3 DEF SInv, TypeOK
<1>5. (p = "status" /\ e # "HandshakeOK") => s \in shaken'
  BY Zenon, <1>1, TransitionFacts DEF SInv, HandshakeFirst, Keeps
<1>6. /\ call'[c].pc = p /\ call'[c].sid = s /\ call'[c].event = e /\ call'[c].conn = k
      /\ call'[c].found = hash[s].status
  BY <1>4
<1>7. CallOK(c)'
  BY <1>5, <1>6 DEF CallOK
<1> QED
  BY Zenon, <1>2, <1>3, <1>7, CallStep

\* A call goes on with the same arguments.
LEMMA GoFacts ==
  ASSUME SInv, NEW c \in Calls, NEW r \in Call, call' = [call EXCEPT ![c] = r],
         Keeps,
         r.pc \in {"sadd", "pg_create", "last_active", "last_ttl", "pg_status", "del", "del_conns",
                   "srem", "pg_delete"},
         r.sid = call[c].sid, r.found = call[c].found, r.event = call[c].event,
         call[c].pc # "done",
         r.pc = "sadd" /\ "owner" \in hash'[call[c].sid].fields => hash'[call[c].sid].ttl,
         r.pc \in {"del_conns", "srem"} => "owner" \notin hash'[call[c].sid].fields,
         r.pc \notin {"sadd", "pg_create"} =>
           call[c].pc \notin {"done", "expire", "sadd", "pg_create"},
         r.pc \in {"last_active", "last_ttl", "pg_status"} =>
           call[c].pc \in {"status", "last_active", "last_ttl"}
  PROVE  call' \in [Calls -> Call] /\ \A d \in Calls : CallOK(d)'
<1>1. CallOK(c) /\ call'[c] = r
  BY Zenon DEF SInv, TypeOK
<1> DEFINE t == call[c].sid
<1>2. t \in born /\ t \in born'
  BY Zenon, <1>1 DEF CallOK, Keeps
<1>3. r.pc \notin {"sadd", "pg_create"} /\ "owner" \in hash'[t].fields => t \in Held'
  BY Zenon, <1>1, <1>2 DEF CallOK, Keeps, Owned
<1>4. r.pc \in {"last_active", "last_ttl", "pg_status"} =>
        Transition(r.found, r.event) \in Statuses
  BY Zenon, <1>1 DEF CallOK
<1>5. call'[c].sid = t /\ call'[c].pc = r.pc
  BY Zenon, <1>1
<1> HIDE DEF t
<1>6. CallOK(c)'
  BY Zenon, <1>1, <1>2, <1>3, <1>4, <1>5 DEF CallOK, Owned, t
<1> QED
  BY Zenon, <1>6, CallStep

\* Goto.
LEMMA GotoFacts ==
  ASSUME SInv, NEW c \in Calls, Keeps, call[c].pc # "done",
         NEW p \in {"sadd", "pg_create", "last_active", "last_ttl", "pg_status", "del_conns",
                    "srem", "pg_delete"},
         Goto(c, p),
         p = "sadd" /\ "owner" \in hash'[call[c].sid].fields => hash'[call[c].sid].ttl,
         p \in {"del_conns", "srem"} => "owner" \notin hash'[call[c].sid].fields,
         p \notin {"sadd", "pg_create"} => call[c].pc \notin {"done", "expire", "sadd", "pg_create"},
         p \in {"last_active", "last_ttl", "pg_status"} =>
           call[c].pc \in {"status", "last_active", "last_ttl"}
  PROVE  call' \in [Calls -> Call] /\ \A d \in Calls : CallOK(d)'
<1> DEFINE r == [call[c] EXCEPT !.pc = p]
<1>1. call[c] \in Call
  BY Zenon DEF SInv, TypeOK
<1>2. /\ r \in Call /\ r.pc = p /\ r.sid = call[c].sid
      /\ r.found = call[c].found /\ r.event = call[c].event
  BY Zenon, <1>1 DEF Call
<1>3. call' = [call EXCEPT ![c] = r]
  BY Zenon DEF Goto
<1> HIDE DEF r
<1> QED
  BY Zenon, <1>2, <1>3, GoFacts

\* A call ends.
LEMMA FinishFacts ==
  ASSUME SInv, NEW c \in Calls, Keeps, Finish(c)
  PROVE  call' \in [Calls -> Call] /\ \A d \in Calls : CallOK(d)'
<1>1. Idle \in Call
  BY Zenon DEF Idle, Call, NoStatus
<1>2. call' = [call EXCEPT ![c] = Idle] /\ call'[c] = Idle
  BY Zenon DEF Finish, SInv, TypeOK
<1>3. call'[c].pc = "done"
  BY <1>2 DEF Idle
<1>4. CallOK(c)'
  BY Zenon, <1>3 DEF CallOK
<1> QED
  BY Zenon, <1>1, <1>2, <1>4, CallStep

\* The hash of a session changes, or goes: an owner is never given, and what is
\* kept of an owned session is complete.
LEMMA HashStep ==
  ASSUME SInv, NEW s \in Sessions, NEW h \in Hash,
         hash' = [hash EXCEPT ![s] = h],
         UNCHANGED <<conns, index, born, known>>, shaken \subseteq shaken',
         "owner" \in h.fields => /\ Owned(s)
                                 /\ hash[s].fields \subseteq h.fields
                                 /\ hash[s].ttl => h.ttl
                                 /\ s \in Held \/ h.status = hash[s].status,
         h.status \in {"active", "sleeping", "expired"} => s \in shaken'
  PROVE  hash' \in [Sessions -> Hash] /\ BornInv' /\ HandshakeFirst' /\ HeldIsComplete' /\ Keeps
<1>1. hash \in [Sessions -> Hash]
  BY Zenon DEF SInv, TypeOK
<1>2. hash'[s] = h /\ \A r \in Sessions \ {s} : hash'[r] = hash[r]
  BY Zenon, <1>1
<1>3. hash' \in [Sessions -> Hash]
  BY Zenon, <1>1
<1>4. HandshakeFirst'
  BY Zenon, <1>2 DEF SInv, HandshakeFirst
<1>5. Held' = Held
  BY Zenon DEF Held
<1>6. BornInv'
  BY Zenon, <1>5 DEF SInv, BornInv
<1>7. Keeps
  <2>1. born \subseteq Sessions
    BY Zenon DEF SInv, TypeOK
  <2>2. ASSUME NEW r \in born, "owner" \in hash'[r].fields
        PROVE  Owned(r) /\ (hash[r].ttl => hash'[r].ttl) /\ (r \in Held => r \in Held')
    BY Zenon, <1>2, <1>5, <2>1, <2>2 DEF Owned
  <2> QED
    BY Zenon, <2>2 DEF Keeps, Owned
<1>8. HeldIsComplete'
  <2>1. h.fields \subseteq Fields
    BY Zenon DEF Hash
  <2>2. ASSUME NEW r \in Sessions, "owner" \in hash'[r].fields
        PROVE  /\ hash'[r].fields = Fields
               /\ IF r \in Held THEN hash'[r].ttl /\ r \in index
                  ELSE hash'[r].status = "connecting" /\ conns[r] = {}
    <3>1. CASE r = s
      <4>1. /\ Owned(s) /\ hash[s].fields \subseteq h.fields /\ (hash[s].ttl => h.ttl)
            /\ s \in Held \/ h.status = hash[s].status
        BY Zenon, <1>2, <2>2, <3>1
      <4>2. /\ hash[s].fields = Fields
            /\ IF s \in Held THEN hash[s].ttl /\ s \in index
               ELSE hash[s].status = "connecting" /\ conns[s] = {}
        BY Zenon, <4>1 DEF SInv, HeldIsComplete
      <4>3. h.fields = Fields
        BY Zenon, <2>1, <4>1, <4>2
      <4> QED
        BY Zenon, <1>2, <3>1, <4>1, <4>2, <4>3
    <3>2. CASE r # s
      BY Zenon, <1>2, <2>2, <3>2 DEF SInv, HeldIsComplete, Owned
    <3> QED
      BY Zenon, <3>1, <3>2
  <2> QED
    BY Zenon, <1>5, <2>2 DEF HeldIsComplete, Owned
<1> QED
  BY Zenon, <1>3, <1>4, <1>6, <1>7, <1>8

\* A step that only writes the hash of one session, and goes on.
LEMMA WriteStep ==
  ASSUME SInv, hash' \in [Sessions -> Hash], BornInv', HandshakeFirst', HeldIsComplete',
         UNCHANGED <<conns, index, pg, born, known>>, shaken' \in SUBSET Sessions,
         call' \in [Calls -> Call], \A d \in Calls : CallOK(d)'
  PROVE  SInv'
<1>1. TypeOK'
  BY Zenon DEF SInv, TypeOK
<1> QED
  BY Zenon, <1>1 DEF SInv

\* A step that leaves the session hashes and the index alone, and adds
\* connections only to a session that is held.
LEMMA QuietStep ==
  ASSUME SInv, hash' = hash, index' = index, shaken' = shaken, born' = born, known' = known,
         conns' \in [Sessions -> SUBSET Conns],
         \A s \in Sessions : \/ conns'[s] \subseteq conns[s]
                             \/ s \in born /\ (Owned(s) => s \in Held),
         pg' \in [Sessions -> Statuses \cup {NoStatus}],
         call' \in [Calls -> Call], \A d \in Calls : CallOK(d)'
  PROVE  SInv'
<1>1. TypeOK'
  BY Zenon DEF SInv, TypeOK
<1>2. Held' = Held
  BY Zenon DEF Held
<1>3. HandshakeFirst'
  BY Zenon DEF SInv, HandshakeFirst
<1>4. BornInv'
  BY Zenon, <1>2 DEF SInv, BornInv
<1>5. HeldIsComplete'
  <2>1. \A s \in Sessions : Owned(s) /\ s \notin Held => conns'[s] \subseteq conns[s] /\ conns[s] = {}
    BY Zenon DEF SInv, HeldIsComplete
  <2>2. \A s \in Sessions : Owned(s) /\ s \notin Held => conns'[s] = {}
    BY Zenon, <2>1
  <2> QED
    BY Zenon, <1>2, <2>2 DEF SInv, HeldIsComplete, Owned
<1> QED
  BY Zenon, <1>1, <1>3, <1>4, <1>5 DEF SInv

\* Such a step harms no call in progress.
LEMMA QuietKeeps ==
  ASSUME hash' = hash, index' = index, shaken' = shaken, born' = born, known' = known
  PROVE  Keeps
BY Zenon DEF Keeps, Owned, Held

-----------------------------------------------------------------------------
\* The HSet of CreateSession makes a hash that nobody holds.
LEMMA CreateStep ==
  ASSUME SInv, NEW c \in Calls, NEW s \in Sessions, CreateSession(c, s)
  PROVE  SInv'
<1> DEFINE h == [fields |-> Fields, status |-> "connecting", ttl |-> FALSE]
<1>1. /\ UNCHANGED <<conns, index, pg, known, shaken>>
      /\ s \notin born /\ born' = born \cup {s}
      /\ hash' = [hash EXCEPT ![s] = h]
      /\ Begin(c, s, "none", "none", Following("hset"))
  BY Zenon DEF CreateSession
<1>2. Following("hset") = "expire"
  BY DEF Following
<1>3. h \in Hash /\ h.fields = Fields /\ h.status = "connecting"
  BY Zenon DEF Hash, Statuses
<1>4. hash \in [Sessions -> Hash] /\ born \subseteq Sessions
  BY Zenon DEF SInv, TypeOK
<1> HIDE DEF h
<1>5. /\ hash' \in [Sessions -> Hash]
      /\ hash'[s] = h /\ \A r \in Sessions \ {s} : hash'[r] = hash[r]
  BY Zenon, <1>1, <1>3, <1>4
<1>6. Held' = Held /\ s \notin Held /\ conns[s] = {}
  BY Zenon, <1>1 DEF Held, SInv, BornInv
<1>7. BornInv'
  BY Zenon, <1>1, <1>6 DEF SInv, BornInv
<1>8. HandshakeFirst'
  <2>1. ASSUME NEW r \in Sessions, hash'[r].status \in {"active", "sleeping", "expired"}
        PROVE  r \in shaken
    <3>1. CASE r = s
      BY <1>3, <1>5, <2>1, <3>1
    <3>2. CASE r # s
      BY Zenon, <1>5, <2>1, <3>2 DEF SInv, HandshakeFirst
    <3> QED
      BY Zenon, <3>1, <3>2
  <2> QED
    BY Zenon, <1>1, <2>1 DEF HandshakeFirst
<1>9. HeldIsComplete'
  <2>1. ASSUME NEW r \in Sessions, "owner" \in hash'[r].fields
        PROVE  /\ hash'[r].fields = Fields
               /\ IF r \in Held THEN hash'[r].ttl /\ r \in index
                  ELSE hash'[r].status = "connecting" /\ conns[r] = {}
    <3>1. CASE r = s
      BY Zenon, <1>3, <1>5, <1>6, <3>1
    <3>2. CASE r # s
      BY Zenon, <1>5, <2>1, <3>2 DEF SInv, HeldIsComplete, Owned
    <3> QED
      BY Zenon, <3>1, <3>2
  <2> QED
    BY Zenon, <1>1, <1>6, <2>1 DEF HeldIsComplete, Owned
<1>10. Keeps
  BY Zenon, <1>1, <1>4, <1>5, <1>6 DEF Keeps, Owned
<1>11. call' \in [Calls -> Call] /\ \A d \in Calls : CallOK(d)'
  BY <1>1, <1>2, <1>10, BeginFacts
<1>12. TypeOK'
  BY Zenon, <1>1, <1>4, <1>5, <1>11 DEF SInv, TypeOK
<1> QED
  BY Zenon, <1>7, <1>8, <1>9, <1>11, <1>12 DEF SInv

\* A hash with its TTL renewed.
LEMMA RenewedFacts ==
  ASSUME SInv, NEW s \in Sessions
  PROVE  /\ Renewed(s) \in Hash /\ Renewed(s).fields = hash[s].fields
         /\ Renewed(s).status = hash[s].status
         /\ Owned(s) => Renewed(s).ttl
         /\ hash[s].status \in {"active", "sleeping", "expired"} => s \in shaken
<1>1. hash[s] \in Hash
  BY Zenon DEF SInv, TypeOK
<1>2. Exists(s) \in BOOLEAN /\ (Owned(s) => Exists(s))
  BY Zenon DEF Exists, Owned
<1>3. Renewed(s) = [hash[s] EXCEPT !.ttl = Exists(s)]
  BY Zenon DEF Renewed
<1>4. /\ Renewed(s) \in Hash /\ Renewed(s).fields = hash[s].fields
      /\ Renewed(s).status = hash[s].status /\ Renewed(s).ttl = Exists(s)
  BY Zenon, <1>1, <1>2, <1>3 DEF Hash
<1>5. hash[s].status \in {"active", "sleeping", "expired"} => s \in shaken
  BY Zenon DEF SInv, HandshakeFirst
<1> QED
  BY Zenon, <1>2, <1>4, <1>5

\* The Expire of Create.
LEMMA CreateExpireStep ==
  ASSUME SInv, NEW c \in Calls, CreateExpire(c)
  PROVE  SInv'
<1> DEFINE s == call[c].sid
<1>1. /\ UNCHANGED <<conns, index, pg, born, known, shaken>>
      /\ hash' = [hash EXCEPT ![s] = Renewed(s)] /\ Goto(c, Following("expire"))
      /\ call[c].pc = "expire"
  BY Zenon DEF CreateExpire, At
<1>2. Following("expire") = "sadd"
  BY DEF Following
<1>3. s \in Sessions
  BY Zenon, <1>1 DEF SInv, TypeOK, CallOK
<1>4. "owner" \in hash'[s].fields => hash'[s].ttl
  <2>1. hash'[s] = Renewed(s)
    BY Zenon, <1>1, <1>3 DEF SInv, TypeOK
  <2> QED
    BY Zenon, <1>3, <2>1, RenewedFacts DEF Owned
<1> HIDE DEF s
<1>5. hash' \in [Sessions -> Hash] /\ BornInv' /\ HandshakeFirst' /\ HeldIsComplete' /\ Keeps
  BY Zenon, <1>1, <1>3, RenewedFacts, HashStep DEF Owned
<1>6. call' \in [Calls -> Call] /\ \A d \in Calls : CallOK(d)'
  BY <1>1, <1>2, <1>4, <1>5, GotoFacts DEF s
<1> QED
  BY Zenon, <1>1, <1>5, <1>6, WriteStep DEF SInv, TypeOK

\* The SAdd of Create lists a session that has its TTL.
LEMMA CreateListStep ==
  ASSUME SInv, NEW c \in Calls, CreateList(c)
  PROVE  SInv'
<1> DEFINE s == call[c].sid
<1>1. /\ UNCHANGED <<hash, conns, pg, born, shaken>>
      /\ index' = index \cup {s}
      /\ \/ Goto(c, "pg_create") /\ known' = known
         \/ Finish(c) /\ known' = known \cup {s}
      /\ call[c].pc = "sadd"
  BY Zenon DEF CreateList, At
<1>2. s \in born /\ s \in Sessions /\ (Owned(s) => hash[s].ttl)
  BY Zenon, <1>1 DEF SInv, TypeOK, CallOK
<1> HIDE DEF s
<1>3. Held' = Held \cup {s} /\ known' \subseteq known \cup {s}
  BY Zenon, <1>1 DEF Held
<1>4. Keeps
  BY Zenon, <1>1, <1>3 DEF Keeps, Owned
<1>5. call' \in [Calls -> Call] /\ \A d \in Calls : CallOK(d)'
  BY Zenon, <1>1, <1>4, GotoFacts, FinishFacts
<1>6. BornInv'
  BY Zenon, <1>1, <1>2, <1>3 DEF SInv, BornInv
<1>7. HandshakeFirst'
  BY Zenon, <1>1 DEF SInv, HandshakeFirst
<1>8. HeldIsComplete'
  <2>1. ASSUME NEW r \in Sessions, Owned(r)
        PROVE  /\ hash[r].fields = Fields
               /\ IF r \in Held' THEN hash[r].ttl /\ r \in index'
                  ELSE hash[r].status = "connecting" /\ conns[r] = {}
    <3>1. CASE r = s
      BY Zenon, <1>1, <1>2, <1>3, <2>1, <3>1 DEF SInv, HeldIsComplete
    <3>2. CASE r # s
      BY Zenon, <1>1, <1>3, <2>1, <3>2 DEF SInv, HeldIsComplete
    <3> QED
      BY Zenon, <3>1, <3>2
  <2> QED
    BY Zenon, <1>1, <2>1 DEF HeldIsComplete, Owned
<1>9. TypeOK'
  BY Zenon, <1>1, <1>2, <1>3, <1>5 DEF SInv, TypeOK
<1> QED
  BY Zenon, <1>5, <1>6, <1>7, <1>8, <1>9 DEF SInv

\* The SRem of Delete takes a session off the list that has no owner any more.
LEMMA SRemStep ==
  ASSUME SInv, NEW c \in Calls, SRem(c)
  PROVE  SInv'
<1> DEFINE s == call[c].sid
<1>1. /\ UNCHANGED <<hash, conns, pg, born, known, shaken>>
      /\ index' \in {index, index \ {s}}
      /\ Goto(c, "pg_delete") \/ Finish(c)
      /\ call[c].pc = "srem"
  BY Zenon DEF SRem, At
<1>2. s \in Sessions /\ ~ Owned(s)
  BY Zenon, <1>1 DEF SInv, TypeOK, CallOK
<1> HIDE DEF s
<1>3. Held' \subseteq Held /\ \A r : r # s => (r \in Held' <=> r \in Held) /\ (r \in index' <=> r \in index)
  BY Zenon, <1>1 DEF Held
<1>4. Keeps
  BY Zenon, <1>1, <1>2, <1>3 DEF Keeps, Owned
<1>5. call' \in [Calls -> Call] /\ \A d \in Calls : CallOK(d)'
  <2>1. CASE Goto(c, "pg_delete")
    BY <1>1, <1>4, <2>1, GotoFacts
  <2>2. CASE Finish(c)
    BY Zenon, <1>4, <2>2, FinishFacts
  <2> QED
    BY Zenon, <1>1, <2>1, <2>2
<1>6. BornInv'
  BY Zenon, <1>1, <1>3 DEF SInv, BornInv
<1>7. HandshakeFirst'
  BY Zenon, <1>1 DEF SInv, HandshakeFirst
<1>8. HeldIsComplete'
  <2>1. ASSUME NEW r \in Sessions, Owned(r)
        PROVE  /\ hash[r].fields = Fields
               /\ IF r \in Held' THEN hash[r].ttl /\ r \in index'
                  ELSE hash[r].status = "connecting" /\ conns[r] = {}
    BY Zenon, <1>2, <1>3, <2>1 DEF SInv, HeldIsComplete
  <2> QED
    BY Zenon, <1>1, <2>1 DEF HeldIsComplete, Owned
<1>9. index' \in SUBSET Sessions
  BY Zenon, <1>1 DEF SInv, TypeOK
<1>10. TypeOK'
  BY Zenon, <1>1, <1>5, <1>9 DEF SInv, TypeOK
<1> QED
  BY Zenon, <1>5, <1>6, <1>7, <1>8, <1>10 DEF SInv

\* TransitionSession reads a status and chooses what the call does next.
LEMMA TransitionStep ==
  ASSUME SInv, NEW c \in Calls, NEW s \in Sessions, NEW e \in Events, TransitionSession(c, s, e)
  PROVE  SInv'
<1>1. e \in AllEvents \cup {"none"} /\ "none" \in Conns \cup {"none"}
  BY Zenon, SessionAssumption
<1>2. UNCHANGED <<redis, pg, born, known, shaken>> /\ s \in Held
  BY Zenon DEF TransitionSession
<1>3. hash[s].status \in Statuses \cup {NoStatus}
  BY Zenon DEF SInv, TypeOK, Hash
<1> DEFINE next == Transition(hash[s].status, e)
<1>4. next \in {"active", "sleeping", "expired", "destroyed", "invalid"}
  BY Zenon, <1>3, TransitionFacts
<1>5. \/ call' = call
      \/ Begin(c, s, e, "none", "delete")
      \/ Begin(c, s, e, "none", "status") /\ next \notin {"destroyed", "invalid"}
  BY Zenon DEF TransitionSession
<1>6. Keeps
  BY Zenon, <1>2, QuietKeeps DEF redis
<1>7. s \in Held' /\ s \in born'
  BY Zenon, <1>2 DEF redis, Held, SInv, BornInv
<1>8. call' \in [Calls -> Call] /\ \A d \in Calls : CallOK(d)'
  <2>1. CASE call' = call
    BY Zenon, <1>6, <2>1, CallKept DEF SInv, TypeOK
  <2>2. CASE Begin(c, s, e, "none", "delete")
    BY <1>1, <1>6, <1>7, <2>2, BeginFacts
  <2>3. CASE Begin(c, s, e, "none", "status") /\ next \notin {"destroyed", "invalid"}
    <3>1. next \in Statuses
      BY Zenon, <1>4, <2>3 DEF Statuses
    <3> QED
      BY <1>1, <1>6, <1>7, <2>3, <3>1, BeginFacts
  <2> QED
    BY Zenon, <1>5, <2>1, <2>2, <2>3
<1> QED
  BY Zenon, <1>2, <1>8, QuietStep DEF redis, SInv, TypeOK

\* UpdateStatus writes the status that the call has derived.
LEMMA UpdateStatusStep ==
  ASSUME SInv, NEW c \in Calls, UpdateStatus(c)
  PROVE  SInv'
<1> DEFINE s == call[c].sid
           st == Transition(call[c].found, call[c].event)
<1>1. call[c] \in Call /\ CallOK(c) /\ call[c].pc = "status"
  BY Zenon DEF SInv, TypeOK, UpdateStatus, At
<1>2. s \in Sessions /\ st \in Statuses /\ (Owned(s) => s \in Held)
  BY Zenon, <1>1 DEF CallOK, SInv, TypeOK
<1>3. /\ shaken \subseteq shaken' /\ shaken' \in SUBSET Sessions
      /\ call[c].event = "HandshakeOK" => s \in shaken'
  BY Zenon, <1>2 DEF UpdateStatus, SInv, TypeOK
<1>4. st # "connecting"
  BY Zenon, <1>1, TransitionFacts DEF Call
<1>5. s \in shaken'
  BY Zenon, <1>1, <1>3, <1>4 DEF CallOK
<1>6. hash[s] \in Hash
  BY Zenon, <1>2 DEF SInv, TypeOK
<1> DEFINE h == [HSet(s, "status") EXCEPT !.status = st]
<1>7. /\ h \in Hash /\ h.fields = hash[s].fields \cup {"status"}
      /\ h.ttl = hash[s].ttl /\ h.status = st
  <2> HIDE DEF s, st
  <2> QED
    BY Zenon, <1>2, <1>6 DEF HSet, Hash, Fields
<1>8. hash' = [hash EXCEPT ![s] = h] /\ UNCHANGED <<conns, index, pg, born, known>>
  BY Zenon DEF UpdateStatus
<1>9. hash' \in [Sessions -> Hash] /\ BornInv' /\ HandshakeFirst' /\ HeldIsComplete' /\ Keeps
  <2> HIDE DEF s, st, h
  <2>1. "owner" \in h.fields => /\ Owned(s) /\ hash[s].fields \subseteq h.fields
                                /\ (hash[s].ttl => h.ttl) /\ s \in Held
    BY Zenon, <1>2, <1>7 DEF Owned
  <2> QED
    BY Zenon, <1>2, <1>3, <1>5, <1>7, <1>8, <2>1, HashStep
<1>10. call' \in [Calls -> Call] /\ \A d \in Calls : CallOK(d)'
  <2>1. CASE Goto(c, "last_active")
    BY <1>1, <1>9, <2>1, GotoFacts
  <2>2. CASE Goto(c, "pg_status")
    BY <1>1, <1>9, <2>2, GotoFacts
  <2>3. CASE Finish(c)
    BY Zenon, <1>9, <2>3, FinishFacts
  <2> QED
    BY Zenon, <2>1, <2>2, <2>3 DEF UpdateStatus, AfterUpdate
<1> QED
  BY Zenon, <1>3, <1>8, <1>9, <1>10, WriteStep

\* HSET of a field that says nothing of status or TTL.
LEMMA FieldStep ==
  ASSUME SInv, NEW s \in Sessions, NEW f \in {"crypto_state", "last_active"},
         hash' = [hash EXCEPT ![s] = HSet(s, f)],
         UNCHANGED <<conns, index, born, known, shaken>>
  PROVE  hash' \in [Sessions -> Hash] /\ BornInv' /\ HandshakeFirst' /\ HeldIsComplete' /\ Keeps
<1>1. hash[s] \in Hash /\ f \in Fields /\ f # "owner"
  BY Zenon DEF SInv, TypeOK, Fields
<1> DEFINE h == HSet(s, f)
<1>2. /\ h \in Hash /\ h.fields = hash[s].fields \cup {f}
      /\ h.ttl = hash[s].ttl /\ h.status = hash[s].status
  BY Zenon, <1>1 DEF HSet, Hash
<1>3. hash[s].status \in {"active", "sleeping", "expired"} => s \in shaken'
  BY Zenon DEF SInv, HandshakeFirst
<1> HIDE DEF h
<1>4. "owner" \in h.fields => /\ Owned(s) /\ hash[s].fields \subseteq h.fields
                              /\ (hash[s].ttl => h.ttl) /\ h.status = hash[s].status
  BY Zenon, <1>1, <1>2 DEF Owned
<1> QED
  BY Zenon, <1>2, <1>3, <1>4, HashStep DEF h

\* AfterUpdate.
LEMMA AfterUpdateFacts ==
  ASSUME SInv, NEW c \in Calls, Keeps, AfterUpdate(c), call[c].pc \in {"status", "last_active", "last_ttl"}
  PROVE  call' \in [Calls -> Call] /\ \A d \in Calls : CallOK(d)'
<1>1. CASE Goto(c, "pg_status")
  BY <1>1, GotoFacts
<1>2. CASE Finish(c)
  BY Zenon, <1>2, FinishFacts
<1> QED
  BY Zenon, <1>1, <1>2 DEF AfterUpdate

\* The HSet of UpdateLastActive.
LEMMA UpdateLastActiveStep ==
  ASSUME SInv, NEW c \in Calls, UpdateLastActive(c)
  PROVE  SInv'
<1> DEFINE s == call[c].sid
<1>1. call[c].pc = "last_active" /\ UNCHANGED <<conns, index, pg, born, known, shaken>>
  BY Zenon DEF UpdateLastActive, At
<1>2. s \in Sessions
  BY Zenon, <1>1 DEF SInv, TypeOK, CallOK
<1>3. CASE hash' = [hash EXCEPT ![s] = HSet(s, "last_active")] /\ Goto(c, "last_ttl")
  <2>1. hash' \in [Sessions -> Hash] /\ BornInv' /\ HandshakeFirst' /\ HeldIsComplete' /\ Keeps
    <3> HIDE DEF s
    <3> QED
      BY Zenon, <1>1, <1>2, <1>3, FieldStep
  <2>2. call' \in [Calls -> Call] /\ \A d \in Calls : CallOK(d)'
    BY <1>1, <1>3, <2>1, GotoFacts
  <2> QED
    BY Zenon, <1>1, <2>1, <2>2, WriteStep DEF SInv, TypeOK
<1>4. CASE hash' = hash /\ AfterUpdate(c)
  <2>1. call' \in [Calls -> Call] /\ \A d \in Calls : CallOK(d)'
    BY Zenon, <1>1, <1>4, QuietKeeps, AfterUpdateFacts
  <2> QED
    BY Zenon, <1>1, <1>4, <2>1, QuietStep DEF SInv, TypeOK
<1> QED
  BY Zenon, <1>3, <1>4 DEF UpdateLastActive

\* The Expire of UpdateLastActive.
LEMMA RenewTTLStep ==
  ASSUME SInv, NEW c \in Calls, RenewTTL(c)
  PROVE  SInv'
<1> DEFINE s == call[c].sid
<1>1. call[c].pc = "last_ttl" /\ AfterUpdate(c) /\ UNCHANGED <<conns, index, pg, born, known, shaken>>
  BY Zenon DEF RenewTTL, At
<1>2. s \in Sessions
  BY Zenon, <1>1 DEF SInv, TypeOK, CallOK
<1>3. CASE hash' = [hash EXCEPT ![s] = Renewed(s)]
  <2>1. hash' \in [Sessions -> Hash] /\ BornInv' /\ HandshakeFirst' /\ HeldIsComplete' /\ Keeps
    <3> HIDE DEF s
    <3> QED
      BY Zenon, <1>1, <1>2, <1>3, RenewedFacts, HashStep DEF Owned
  <2>2. call' \in [Calls -> Call] /\ \A d \in Calls : CallOK(d)'
    BY Zenon, <1>1, <2>1, AfterUpdateFacts
  <2> QED
    BY Zenon, <1>1, <2>1, <2>2, WriteStep DEF SInv, TypeOK
<1>4. CASE hash' = hash
  <2>1. call' \in [Calls -> Call] /\ \A d \in Calls : CallOK(d)'
    BY Zenon, <1>1, <1>4, QuietKeeps, AfterUpdateFacts
  <2> QED
    BY Zenon, <1>1, <1>4, <2>1, QuietStep DEF SInv, TypeOK
<1> QED
  BY Zenon, <1>3, <1>4 DEF RenewTTL

\* UpdateCryptoState writes one field.
LEMMA UpdateCryptoStep ==
  ASSUME SInv, NEW c \in Calls, NEW s \in Sessions, UpdateCryptoState(c, s)
  PROVE  SInv'
<1>1. /\ UNCHANGED <<conns, index, pg, born, known, call, shaken>>
      /\ hash' = [hash EXCEPT ![s] = HSet(s, "crypto_state")]
  BY Zenon DEF UpdateCryptoState
<1>2. hash' \in [Sessions -> Hash] /\ BornInv' /\ HandshakeFirst' /\ HeldIsComplete' /\ Keeps
  BY Zenon, <1>1, FieldStep
<1>3. ASSUME NEW d \in Calls PROVE CallOK(d)'
  BY Zenon, <1>1, <1>2, CallKept DEF SInv
<1> QED
  BY Zenon, <1>1, <1>2, <1>3, WriteStep DEF SInv, TypeOK

\* The hash of a session goes, by Delete or by its TTL.
LEMMA HashGone ==
  ASSUME SInv, NEW s \in Sessions, hash' = [hash EXCEPT ![s] = NoHash],
         UNCHANGED <<conns, index, born, known, shaken>>
  PROVE  /\ hash' \in [Sessions -> Hash] /\ BornInv' /\ HandshakeFirst' /\ HeldIsComplete' /\ Keeps
         /\ "owner" \notin hash'[s].fields
<1>1. NoHash \in Hash /\ NoHash.fields = {} /\ NoHash.status = NoStatus
  BY Zenon DEF NoHash, Hash
<1>2. NoStatus \notin {"active", "sleeping", "expired"}
  BY Zenon DEF NoStatus
<1>3. hash'[s] = NoHash
  BY Zenon DEF SInv, TypeOK
<1> QED
  BY Zenon, <1>1, <1>2, <1>3, HashStep

\* Delete removes the hash.
LEMMA DelHashStep ==
  ASSUME SInv, NEW c \in Calls, DelHash(c)
  PROVE  SInv'
<1>1. /\ UNCHANGED <<conns, index, pg, born, known, shaken>>
      /\ hash' = [hash EXCEPT ![call[c].sid] = NoHash]
      /\ Goto(c, Following("del")) /\ call[c].pc = "del"
  BY Zenon DEF DelHash, At
<1>2. Following("del") = "del_conns"
  BY DEF Following
<1>3. call[c].sid \in Sessions
  BY Zenon, <1>1 DEF SInv, TypeOK, CallOK
<1>4. /\ hash' \in [Sessions -> Hash] /\ BornInv' /\ HandshakeFirst' /\ HeldIsComplete' /\ Keeps
      /\ "owner" \notin hash'[call[c].sid].fields
  BY Zenon, <1>1, <1>3, HashGone
<1>5. call' \in [Calls -> Call] /\ \A d \in Calls : CallOK(d)'
  BY <1>1, <1>2, <1>4, GotoFacts
<1> QED
  BY Zenon, <1>1, <1>4, <1>5, WriteStep DEF SInv, TypeOK

\* The TTL of a session key runs out.
LEMMA ExpireStep ==
  ASSUME SInv, NEW s \in Sessions, Expire(s)
  PROVE  SInv'
<1>1. /\ UNCHANGED <<conns, index, pg, born, known, call, shaken>>
      /\ hash' = [hash EXCEPT ![s] = NoHash]
  BY Zenon DEF Expire
<1>2. hash' \in [Sessions -> Hash] /\ BornInv' /\ HandshakeFirst' /\ HeldIsComplete' /\ Keeps
  BY Zenon, <1>1, HashGone
<1>3. ASSUME NEW d \in Calls PROVE CallOK(d)'
  BY Zenon, <1>1, <1>2, CallKept DEF SInv
<1> QED
  BY Zenon, <1>1, <1>2, <1>3, WriteStep DEF SInv, TypeOK

\* The remaining steps of a call in progress.
LEMMA QuietCallStep ==
  ASSUME SInv, NEW c \in Calls,
         \/ PGCreate(c) \/ PGUpdateStatus(c) \/ DeleteGet(c) \/ DelConns(c) \/ PGDelete(c)
         \/ AddConnection(c) \/ Abort(c)
  PROVE  SInv'
<1>1. /\ UNCHANGED <<hash, index, born, known, shaken>>
      /\ call[c].pc # "done"
  BY Zenon DEF PGCreate, PGUpdateStatus, DeleteGet, DelConns, PGDelete, AddConnection, Abort, At, Idling,
     redis
<1>2. call[c] \in Call /\ CallOK(c) /\ call[c].sid \in born /\ call[c].sid \in Sessions
  BY Zenon, <1>1 DEF SInv, TypeOK, CallOK
<1>3. Keeps
  BY Zenon, <1>1, QuietKeeps
<1>4. /\ conns' \in [Sessions -> SUBSET Conns]
      /\ \A s \in Sessions : \/ conns'[s] \subseteq conns[s]
                             \/ s \in born /\ (Owned(s) => s \in Held)
  <2>1. CASE AddConnection(c)
    <3>1. call[c].conn \in Conns /\ (Owned(call[c].sid) => call[c].sid \in Held)
      BY Zenon, <1>2, <2>1 DEF AddConnection, At, CallOK
    <3>2. conns' = [conns EXCEPT ![call[c].sid] = @ \cup {call[c].conn}]
      BY Zenon, <2>1 DEF AddConnection
    <3>3. conns \in [Sessions -> SUBSET Conns]
      BY Zenon DEF SInv, TypeOK
    <3>4. \A s \in Sessions : s # call[c].sid => conns'[s] = conns[s]
      BY Zenon, <3>2, <3>3
    <3> QED
      BY Zenon, <1>2, <3>1, <3>2, <3>3, <3>4
  <2>2. CASE DelConns(c)
    BY Zenon, <1>2, <2>2 DEF DelConns, SInv, TypeOK
  <2>3. CASE conns' = conns
    BY Zenon, <2>3 DEF SInv, TypeOK
  <2> QED
    BY Zenon, <2>1, <2>2, <2>3 DEF PGCreate, PGUpdateStatus, DeleteGet, PGDelete, Abort, redis
<1>5. pg' \in [Sessions -> Statuses \cup {NoStatus}]
  <2>1. CASE PGUpdateStatus(c)
    <3>1. Transition(call[c].found, call[c].event) \in Statuses
      BY Zenon, <1>2, <2>1 DEF PGUpdateStatus, At, CallOK
    <3> QED
      BY Zenon, <1>2, <2>1, <3>1 DEF PGUpdateStatus, SInv, TypeOK
  <2>2. CASE PGDelete(c)
    BY Zenon, <1>2, <2>2 DEF PGDelete, SInv, TypeOK
  <2>3. CASE pg' = pg
    BY Zenon, <2>3 DEF SInv, TypeOK
  <2> QED
    BY Zenon, <2>1, <2>2, <2>3 DEF PGCreate, DeleteGet, DelConns, AddConnection, Abort
<1>6. call' \in [Calls -> Call] /\ \A d \in Calls : CallOK(d)'
  <2>1. CASE Finish(c)
    BY Zenon, <1>3, <2>1, FinishFacts
  <2>2. CASE DeleteGet(c) /\ ~ Finish(c)
    <3> DEFINE o == Owned(call[c].sid)
               r == [call[c] EXCEPT !.pc = "del", !.owned = o]
    <3>1. call' = [call EXCEPT ![c] = r] /\ call[c].pc = "delete"
      BY Zenon, <2>2 DEF DeleteGet, At
    <3>2. o \in BOOLEAN
      BY DEF Owned
    <3>3. /\ r \in Call /\ r.pc = "del" /\ r.sid = call[c].sid
          /\ r.found = call[c].found /\ r.event = call[c].event
      <4> HIDE DEF o
      <4> QED
        BY Zenon, <1>2, <3>2 DEF Call
    <3> HIDE DEF r
    <3> QED
      BY <1>3, <3>1, <3>3, GoFacts
  <2>3. CASE DelConns(c)
    <3>1. Goto(c, Following("del_conns")) /\ call[c].pc = "del_conns"
      BY Zenon, <2>3 DEF DelConns, At
    <3>2. Following("del_conns") = "srem"
      BY DEF Following
    <3>3. "owner" \notin hash'[call[c].sid].fields
      BY Zenon, <1>1, <1>2, <3>1 DEF CallOK, Owned
    <3> QED
      BY <1>3, <3>1, <3>2, <3>3, GotoFacts
  <2> QED
    BY Zenon, <2>1, <2>2, <2>3 DEF PGCreate, PGUpdateStatus, PGDelete, AddConnection, Abort
<1> QED
  BY Zenon, <1>1, <1>4, <1>5, <1>6, QuietStep

\* The first step of RegisterConnection, and UnregisterConnection.
LEMMA ConnectionStep ==
  ASSUME SInv, NEW c \in Calls, NEW s \in Sessions, NEW k \in Conns,
         RegisterConnection(c, s, k) \/ UnregisterConnection(c, s, k)
  PROVE  SInv'
<1>1. CASE RegisterConnection(c, s, k)
  <2>1. UNCHANGED <<redis, pg, born, known, shaken>> /\ s \in Held
    BY Zenon, <1>1 DEF RegisterConnection
  <2>2. Keeps
    BY Zenon, <2>1, QuietKeeps DEF redis
  <2>3. s \in Held' /\ s \in born'
    BY Zenon, <2>1 DEF redis, Held, SInv, BornInv
  <2>4. CASE call' = call
    <3>1. call' \in [Calls -> Call] /\ \A d \in Calls : CallOK(d)'
      BY Zenon, <2>2, <2>4, CallKept DEF SInv, TypeOK
    <3> QED
      BY Zenon, <2>1, <3>1, QuietStep DEF redis, SInv, TypeOK
  <2>5. CASE Begin(c, s, "none", k, "add")
    <3>1. call' \in [Calls -> Call] /\ \A d \in Calls : CallOK(d)'
      BY <2>2, <2>3, <2>5, BeginFacts
    <3> QED
      BY Zenon, <2>1, <3>1, QuietStep DEF redis, SInv, TypeOK
  <2> QED
    BY Zenon, <1>1, <2>4, <2>5 DEF RegisterConnection
<1>2. CASE UnregisterConnection(c, s, k)
  <2>1. UNCHANGED <<hash, index, pg, born, known, call, shaken>>
    BY Zenon, <1>2 DEF UnregisterConnection
  <2>2. conns' \in [Sessions -> SUBSET Conns] /\ \A r \in Sessions : conns'[r] \subseteq conns[r]
    BY Zenon, <1>2 DEF UnregisterConnection, SInv, TypeOK
  <2>3. ASSUME NEW d \in Calls PROVE CallOK(d)'
    BY Zenon, <2>1, QuietKeeps, CallKept DEF SInv
  <2> QED
    BY Zenon, <2>1, <2>2, <2>3, QuietStep DEF SInv, TypeOK
<1> QED
  BY Zenon, <1>1, <1>2

\* Every step keeps the invariant.
LEMMA SInvStep == SInv /\ [Next]_vars => SInv'
<1> SUFFICES ASSUME SInv, [Next]_vars PROVE SInv'
  BY Zenon
<1>1. CASE UNCHANGED vars
  <2>1. UNCHANGED <<hash, conns, index, pg, born, known, call, shaken>>
    BY Zenon, <1>1 DEF vars
  <2>2. ASSUME NEW d \in Calls PROVE CallOK(d)'
    BY Zenon, <2>1, QuietKeeps, CallKept DEF SInv
  <2> QED
    BY Zenon, <2>1, <2>2, QuietStep DEF SInv, TypeOK
<1>2. ASSUME NEW c \in Calls, NEW s \in Sessions, Start(c, s) PROVE SInv'
  BY Zenon, <1>2, CreateStep, TransitionStep, UpdateCryptoStep, ConnectionStep DEF Start
<1>3. ASSUME NEW c \in Calls, Continue(c) PROVE SInv'
  BY Zenon, <1>3, CreateExpireStep, CreateListStep, UpdateStatusStep, UpdateLastActiveStep, RenewTTLStep,
     DelHashStep, SRemStep, QuietCallStep DEF Continue
<1>4. ASSUME NEW s \in Sessions, Expire(s) PROVE SInv'
  BY Zenon, <1>4, ExpireStep
<1> QED
  BY Zenon, <1>1, <1>2, <1>3, <1>4 DEF Next

\* The invariant holds initially.
LEMMA SInvInit == Init => SInv
<1> SUFFICES ASSUME Init PROVE SInv
  BY Zenon
<1>1. Idle \in Call
  BY Zenon DEF Idle, Call, NoStatus
<1>2. NoHash \in Hash /\ NoHash.fields = {} /\ NoHash.status = NoStatus
  BY Zenon DEF NoHash, Hash
<1>3. TypeOK
  BY Zenon, <1>1, <1>2 DEF Init, TypeOK
<1>4. ASSUME NEW c \in Calls PROVE CallOK(c)
  <2>1. call[c].pc = "done"
    BY DEF Init, Idle
  <2> QED
    BY Zenon, <2>1 DEF CallOK
<1>5. HandshakeFirst /\ HeldIsComplete
  BY Zenon, <1>2 DEF Init, HandshakeFirst, HeldIsComplete, Owned, NoStatus
<1>6. BornInv
  BY Zenon DEF Init, BornInv, Held
<1> QED
  BY Zenon, <1>3, <1>4, <1>5, <1>6 DEF SInv

-----------------------------------------------------------------------------
(***************************************************************************)
(* The limit of connections.                                               *)
(***************************************************************************)
\* The sets that are counted are finite.
LEMMA Counts ==
  ASSUME SInv, NEW s \in Sessions
  PROVE  /\ IsFiniteSet(conns[s]) /\ Cardinality(conns[s]) \in Nat
         /\ IsFiniteSet(Pending(s)) /\ Cardinality(Pending(s)) \in Nat
         /\ Cardinality(Pending(s)) <= Cardinality(Calls)
         /\ Cardinality(Calls) \in Nat
<1>1. conns[s] \in SUBSET Conns
  BY Zenon DEF SInv, TypeOK
<1>2. Pending(s) \in SUBSET Calls
  BY Zenon DEF Pending
<1>3. IsFiniteSet(conns[s]) /\ IsFiniteSet(Pending(s))
      /\ Cardinality(Pending(s)) <= Cardinality(Calls)
  BY Zenon, <1>1, <1>2, SessionAssumption, FS_Subset
<1> QED
  BY Zenon, <1>3, SessionAssumption, FS_CardinalityType

\* Nothing is added to the sets of one session.
LEMMA CapShrinks ==
  ASSUME SInv, CapInv, NEW s \in Sessions, conns'[s] \subseteq conns[s],
         Pending(s)' \subseteq Pending(s), SInv'
  PROVE  Cardinality(conns[s])' + Cardinality(Pending(s))' + 1 <= MaxConnections + Cardinality(Calls)
<1>1. /\ Cardinality(conns[s]) + Cardinality(Pending(s)) + 1 <= MaxConnections + Cardinality(Calls)
      /\ MaxConnections \in Nat
  BY Zenon, SessionAssumption DEF CapInv
<1>2. Cardinality(conns'[s]) <= Cardinality(conns[s])
  BY Zenon, Counts, FS_Subset
<1>3. Cardinality(Pending(s)') <= Cardinality(Pending(s))
  BY Zenon, Counts, FS_Subset
<1>4. IsFiniteSet(conns'[s]) /\ IsFiniteSet(Pending(s)')
  BY Zenon, Counts, FS_Subset
<1>5. Cardinality(conns'[s]) \in Nat /\ Cardinality(Pending(s)') \in Nat
  BY Zenon, <1>4, FS_CardinalityType
<1> QED
  BY <1>1, <1>2, <1>3, <1>5, Counts

\* A call that does not come to "add" makes no call pending.
LEMMA NoNewPending ==
  ASSUME NEW c \in Calls, NEW s \in Sessions,
         \A d \in Calls \ {c} : call'[d] = call[d],
         call'[c].pc # "add" \/ call'[c].sid # s
  PROVE  Pending(s)' \subseteq Pending(s) \ {c}
BY Zenon DEF Pending

\* The calls that a call leaves alone, and where it is afterwards.
LEMMA CallMoves ==
  ASSUME SInv, NEW c \in Calls
  PROVE  /\ \A p : Goto(c, p) => call'[c].pc = p /\ \A d \in Calls \ {c} : call'[d] = call[d]
         /\ Finish(c) => call'[c].pc = "done" /\ \A d \in Calls \ {c} : call'[d] = call[d]
         /\ \A s, e, k, p : Begin(c, s, e, k, p) =>
              call'[c].pc = p /\ call'[c].sid = s /\ \A d \in Calls \ {c} : call'[d] = call[d]
<1>1. call \in [Calls -> Call] /\ call[c] \in Call
  BY Zenon DEF SInv, TypeOK
<1>2. ASSUME NEW p, Goto(c, p) PROVE call'[c].pc = p /\ \A d \in Calls \ {c} : call'[d] = call[d]
  BY Zenon, <1>1, <1>2 DEF Goto, Call
<1>3. ASSUME Finish(c)
      PROVE  call'[c].pc = "done" /\ \A d \in Calls \ {c} : call'[d] = call[d]
  BY <1>1, <1>3 DEF Finish, Idle
<1>4. ASSUME NEW s, NEW e, NEW k, NEW p, Begin(c, s, e, k, p)
      PROVE  call'[c].pc = p /\ call'[c].sid = s /\ \A d \in Calls \ {c} : call'[d] = call[d]
  BY Zenon, <1>1, <1>4 DEF Begin
<1> QED
  BY Zenon, <1>2, <1>3, <1>4

\* RegisterConnection: the call becomes pending only below the limit.
LEMMA CapRegister ==
  ASSUME SInv, SInv', CapInv, NEW c \in Calls, NEW s \in Sessions, NEW k \in Conns,
         RegisterConnection(c, s, k)
  PROVE  CapInv'
<1>1. conns' = conns
  BY Zenon DEF RegisterConnection, redis
<1>2. \A d \in Calls \ {c} : call'[d] = call[d]
  BY Zenon, CallMoves DEF RegisterConnection
<1>3. call'[c].sid = s \/ call'[c].pc = "done"
  BY Zenon, CallMoves DEF RegisterConnection, Idling
<1>4. Cardinality(conns[s]) < MaxConnections \/ call'[c].pc = "done"
  <2>1. CASE Cardinality(conns[s]) >= MaxConnections
    BY Zenon, <2>1 DEF RegisterConnection, Idling
  <2>2. CASE ~ (Cardinality(conns[s]) >= MaxConnections)
    BY <2>2, Counts, SessionAssumption
  <2> QED
    BY Zenon, <2>1, <2>2
<1>5. ASSUME NEW r \in Sessions
      PROVE  Cardinality(conns[r])' + Cardinality(Pending(r))' + 1 <= MaxConnections + Cardinality(Calls)
  <2>1. CASE r # s \/ call'[c].pc = "done"
    <3>1. Pending(r)' \subseteq Pending(r)
      BY Zenon, <1>2, <1>3, <2>1, NoNewPending
    <3> QED
      BY Zenon, <1>1, <3>1, CapShrinks
  <2>2. CASE r = s /\ Cardinality(conns[s]) < MaxConnections
    <3>1. Pending(s)' \in SUBSET Calls
      BY Zenon DEF Pending
    <3>2. IsFiniteSet(Pending(s)') /\ Cardinality(Pending(s)') <= Cardinality(Calls)
      BY Zenon, <3>1, SessionAssumption, FS_Subset
    <3>3. Cardinality(Pending(s)') \in Nat
      BY Zenon, <3>2, FS_CardinalityType
    <3>4. Cardinality(conns[s]) \in Nat /\ Cardinality(Calls) \in Nat
      BY Zenon, Counts
    <3>5. Cardinality(conns'[s]) = Cardinality(conns[s])
      BY Zenon, <1>1
    <3> QED
      BY <2>2, <3>2, <3>3, <3>4, <3>5, SessionAssumption
  <2> QED
    BY Zenon, <1>4, <2>1, <2>2
<1> QED
  BY Zenon, <1>5 DEF CapInv

\* AddConnection: a pending call becomes a connection.
LEMMA CapAdd ==
  ASSUME SInv, SInv', CapInv, NEW c \in Calls, AddConnection(c)
  PROVE  CapInv'
<1> DEFINE s == call[c].sid
<1>1. call[c].pc = "add" /\ s \in Sessions /\ c \in Pending(s)
  BY Zenon DEF AddConnection, At, SInv, TypeOK, CallOK, Pending
<1>2. /\ conns'[s] = conns[s] \cup {call[c].conn}
      /\ \A r \in Sessions \ {s} : conns'[r] = conns[r]
  BY Zenon, <1>1 DEF AddConnection, SInv, TypeOK
<1>3. call'[c].pc = "done" /\ \A d \in Calls \ {c} : call'[d] = call[d]
  BY Zenon, CallMoves DEF AddConnection
<1> HIDE DEF s
<1>4. ASSUME NEW r \in Sessions
      PROVE  Cardinality(conns[r])' + Cardinality(Pending(r))' + 1 <= MaxConnections + Cardinality(Calls)
  <2>1. Pending(r)' \subseteq Pending(r) \ {c}
    BY Zenon, <1>3, NoNewPending
  <2>2. CASE r # s
    BY Zenon, <1>2, <2>1, <2>2, CapShrinks
  <2>3. CASE r = s
    <3>1. /\ IsFiniteSet(conns[s]) /\ Cardinality(conns[s]) \in Nat
          /\ IsFiniteSet(Pending(s)) /\ Cardinality(Pending(s)) \in Nat
          /\ Cardinality(Calls) \in Nat
      BY Zenon, <1>1, Counts
    <3>2. /\ IsFiniteSet(conns'[s])
          /\ Cardinality(conns'[s]) \in {Cardinality(conns[s]), Cardinality(conns[s]) + 1}
      <4> DEFINE k == call[c].conn
                 S == conns[s]
      <4>1. /\ IsFiniteSet(S \cup {k})
            /\ Cardinality(S \cup {k}) = IF k \in S THEN Cardinality(S) ELSE Cardinality(S) + 1
        <5> HIDE DEF k
        <5> QED
          BY Zenon, <3>1, FS_AddElement
      <4>2. conns'[s] = S \cup {k}
        BY Zenon, <1>2
      <4> HIDE DEF k, S
      <4>3. Cardinality(S \cup {k}) \in {Cardinality(S), Cardinality(S) + 1}
        BY Zenon, <4>1
      <4> QED
        BY Zenon, <4>1, <4>2, <4>3 DEF S
    <3>3. /\ IsFiniteSet(Pending(s) \ {c})
          /\ Cardinality(Pending(s) \ {c}) = Cardinality(Pending(s)) - 1
      BY Zenon, <1>1, <3>1, FS_RemoveElement
    <3>4. Pending(r)' \in SUBSET (Pending(s) \ {c})
      BY Zenon, <2>1, <2>3
    <3>5. IsFiniteSet(Pending(r)') /\ Cardinality(Pending(r)') <= Cardinality(Pending(s)) - 1
      BY <3>3, <3>4, FS_Subset
    <3>6. Cardinality(Pending(r)') \in Nat /\ Cardinality(conns'[s]) \in Nat
      BY Zenon, <3>2, <3>5, FS_CardinalityType
    <3>7. Cardinality(conns[s]) + Cardinality(Pending(s)) + 1 <= MaxConnections + Cardinality(Calls)
      BY Zenon, <1>1 DEF CapInv
    <3>8. Cardinality(conns'[s]) + Cardinality(Pending(r)') + 1 <= MaxConnections + Cardinality(Calls)
      BY <3>1, <3>2, <3>5, <3>6, <3>7, SessionAssumption
    <3>9. conns'[r] = conns'[s]
      BY Zenon, <2>3
    <3> QED
      BY Zenon, <3>8, <3>9
  <2> QED
    BY Zenon, <2>2, <2>3
<1> QED
  BY Zenon, <1>4 DEF CapInv

\* Every other step of a call adds no connection and makes nothing pending.
LEMMA CapOther ==
  ASSUME SInv, SInv', CapInv, NEW c \in Calls,
         \A s \in Sessions : conns'[s] \subseteq conns[s],
         \A d \in Calls \ {c} : call'[d] = call[d],
         call'[c].pc # "add" \/ call' = call
  PROVE  CapInv'
<1>1. ASSUME NEW s \in Sessions
      PROVE  Cardinality(conns[s])' + Cardinality(Pending(s))' + 1 <= MaxConnections + Cardinality(Calls)
  <2>1. Pending(s)' \subseteq Pending(s)
    BY Zenon, NoNewPending DEF Pending
  <2> QED
    BY Zenon, <2>1, CapShrinks
<1> QED
  BY Zenon, <1>1 DEF CapInv

\* The first steps of calls keep the count.
LEMMA CapStart ==
  ASSUME SInv, SInv', CapInv, NEW c \in Calls, NEW s \in Sessions, Start(c, s)
  PROVE  CapInv'
<1>1. CASE CreateSession(c, s)
  <2>1. conns' = conns
    BY Zenon, <1>1 DEF CreateSession
  <2>2. Following("hset") # "add"
    BY DEF Following
  <2>3. call'[c].pc # "add" /\ \A d \in Calls \ {c} : call'[d] = call[d]
    BY Zenon, <1>1, <2>2, CallMoves DEF CreateSession
  <2> QED
    BY Zenon, <2>1, <2>3, CapOther
<1>2. ASSUME NEW e \in Events, TransitionSession(c, s, e) PROVE CapInv'
  <2>1. conns' = conns
    BY Zenon, <1>2 DEF TransitionSession, redis
  <2>2. \/ call' = call
        \/ Begin(c, s, e, "none", "delete")
        \/ Begin(c, s, e, "none", "status")
    BY Zenon, <1>2 DEF TransitionSession
  <2>3. (call'[c].pc # "add" \/ call' = call) /\ \A d \in Calls \ {c} : call'[d] = call[d]
    BY <2>2, CallMoves
  <2> QED
    BY Zenon, <2>1, <2>3, CapOther
<1>3. CASE UpdateCryptoState(c, s)
  BY Zenon, <1>3, CapOther DEF UpdateCryptoState
<1>4. ASSUME NEW k \in Conns, RegisterConnection(c, s, k) PROVE CapInv'
  BY Zenon, <1>4, CapRegister
<1>5. ASSUME NEW k \in Conns, UnregisterConnection(c, s, k) PROVE CapInv'
  <2>1. call' = call /\ \A r \in Sessions : conns'[r] \subseteq conns[r]
    BY Zenon, <1>5 DEF UnregisterConnection, SInv, TypeOK
  <2> QED
    BY Zenon, <2>1, CapOther
<1> QED
  BY Zenon, <1>1, <1>2, <1>3, <1>4, <1>5 DEF Start

\* The further steps of calls keep the count.
LEMMA CapContinue ==
  ASSUME SInv, SInv', CapInv, NEW c \in Calls, Continue(c)
  PROVE  CapInv'
<1>1. CASE AddConnection(c)
  BY Zenon, <1>1, CapAdd
<1>2. CASE ~ AddConnection(c)
  <2>1. \A s \in Sessions : conns'[s] \subseteq conns[s]
    <3>1. CASE DelConns(c)
      BY Zenon, <3>1 DEF DelConns, SInv, TypeOK
    <3>2. CASE conns' = conns
      BY Zenon, <3>2
    <3> QED
      BY Zenon, <1>2, <3>1, <3>2 DEF Continue, CreateExpire, CreateList, PGCreate, UpdateStatus,
         UpdateLastActive, RenewTTL, PGUpdateStatus, DeleteGet, DelHash, SRem, PGDelete, Abort, redis
  <2>2. CASE DeleteGet(c) /\ Exists(call[c].sid)
    <3>1. call[c] \in Call /\ call \in [Calls -> Call]
      BY Zenon DEF SInv, TypeOK
    <3>2. call'[c].pc = "del" /\ \A d \in Calls \ {c} : call'[d] = call[d]
      BY <2>2, <3>1 DEF DeleteGet, Call
    <3> QED
      BY Zenon, <2>1, <3>2, CapOther
  <2>3. CASE \/ Finish(c)
             \/ \E p \in {"sadd", "pg_create", "last_active", "last_ttl", "pg_status", "del_conns",
                          "srem", "pg_delete"} : Goto(c, p)
    <3>1. call'[c].pc # "add" /\ \A d \in Calls \ {c} : call'[d] = call[d]
      BY Zenon, <2>3, CallMoves
    <3> QED
      BY Zenon, <2>1, <3>1, CapOther
  <2>4. Following("expire") = "sadd" /\ Following("del") = "del_conns" /\ Following("del_conns") = "srem"
    BY DEF Following
  <2> QED
    BY ZenonT(60), <1>2, <2>2, <2>3, <2>4 DEF Continue, CreateExpire, CreateList, PGCreate, UpdateStatus,
       UpdateLastActive, RenewTTL, PGUpdateStatus, DeleteGet, DelHash, DelConns, SRem, PGDelete, Abort,
       AfterUpdate
<1> QED
  BY Zenon, <1>1, <1>2

\* Every step keeps the count.
LEMMA CapStep == SInv /\ SInv' /\ CapInv /\ [Next]_vars => CapInv'
<1> SUFFICES ASSUME SInv, SInv', CapInv, [Next]_vars PROVE CapInv'
  BY Zenon
<1>1. ASSUME conns' = conns, call' = call PROVE CapInv'
  BY Zenon, <1>1, SessionAssumption, CapOther
<1>2. CASE UNCHANGED vars
  BY Zenon, <1>1, <1>2 DEF vars
<1>3. ASSUME NEW s \in Sessions, Expire(s) PROVE CapInv'
  BY Zenon, <1>1, <1>3 DEF Expire
<1> QED
  BY Zenon, <1>2, <1>3, CapStart, CapContinue DEF Next

\* The count is right initially.
LEMMA CapInit == Init => CapInv
<1> SUFFICES ASSUME Init, NEW s \in Sessions
             PROVE  Cardinality(conns[s]) + Cardinality(Pending(s)) + 1
                      <= MaxConnections + Cardinality(Calls)
  BY Zenon DEF CapInv
<1>1. conns[s] = {} /\ Pending(s) = {}
  BY Zenon DEF Init, Idle, Pending
<1>2. Cardinality({}) = 0
  BY Zenon, FS_EmptySet
<1>3. Cardinality(Calls) \in Nat /\ Cardinality(Calls) # 0
  BY Zenon, SessionAssumption, FS_CardinalityType, FS_EmptySet
<1> QED
  BY <1>1, <1>2, <1>3, SessionAssumption

-----------------------------------------------------------------------------
\* The inductive invariants hold in every reachable state.
THEOREM SessionInvariant == Spec => [](SInv /\ CapInv)
<1>1. Init => SInv /\ CapInv
  BY Zenon, SInvInit, CapInit
<1>2. (SInv /\ CapInv) /\ [Next]_vars => (SInv /\ CapInv)'
  BY Zenon, SInvStep, CapStep
<1> QED
  BY <1>1, <1>2, PTL DEF Spec

\* The Redis and PostgreSQL states and the calls always have their types.
THEOREM SessionTyped == Spec => []TypeOK
<1>1. SInv => TypeOK
  BY Zenon DEF SInv
<1> QED
  BY <1>1, SessionInvariant, PTL

\* No overlap of calls of TransitionSession, no abort and no expiry takes a
\* session past "connecting" without a handshake.
THEOREM SessionHandshakeFirst == Spec => []HandshakeFirst
<1>1. SInv => HandshakeFirst
  BY Zenon DEF SInv
<1> QED
  BY <1>1, SessionInvariant, PTL

\* Whatever commands of the pipelines of Create and Delete are carried out, and
\* however those of other calls come between them, a session with its owner has
\* all fields of Create; if a caller can have its id it has a TTL and
\* GetUserSessions lists it, and if not it is as the HSet of Create left it.
THEOREM SessionHeldIsComplete == Spec => []HeldIsComplete
<1>1. SInv => HeldIsComplete
  BY Zenon DEF SInv
<1> QED
  BY <1>1, SessionInvariant, PTL

\* n calls of RegisterConnection at the same time exceed MaxConnections by at
\* most n - 1 connections.
THEOREM SessionConnectionsBounded == Spec => []ConnectionsBounded
<1>1. ASSUME SInv, CapInv, NEW s \in Sessions
      PROVE  Cardinality(conns[s]) + 1 <= MaxConnections + Cardinality(Calls)
  BY <1>1, Counts, SessionAssumption DEF CapInv
<1>2. SInv /\ CapInv => ConnectionsBounded
  BY Zenon, <1>1 DEF ConnectionsBounded
<1> QED
  BY <1>2, SessionInvariant, PTL
=============================================================================
