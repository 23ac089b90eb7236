---------------------------- MODULE StoresProofs ----------------------------
(***************************************************************************)
(* Proofs about the services around a table of their own.  The members of  *)
(* a group are those the commands make, for any users, commands and        *)
(* faults.  A client misses no entry of its inbox without a cause, for any *)
(* entries, page size and times.                                           *)
(***************************************************************************)
EXTENDS Stores, FiniteSetTheorems, WellFoundedInduction, TLAPS

-----------------------------------------------------------------------------
(***************************************************************************)
(* Groups.                                                                 *)
(***************************************************************************)
\* MembershipAsIssued speaks of a topic that has been read to its end.  Before
\* that, what has been read about a user is not after what was last executed
\* about them, and they are a member if that made them one.
UserOK(u) ==
  /\ \A i \in DOMAIN log : u \in About(log[i]) /\ i <= pos[log[i].kind] => i <= executed[u]
  /\ executed[u] # 0 =>
       /\ executed[u] \in DOMAIN log
       /\ u \in About(log[executed[u]])
       /\ u \in members <=> log[executed[u]].kind = "add"

GInv ==
  /\ log \in Seq(Command)
  /\ pos \in [Kinds -> Nat]
  /\ executed \in [Users -> Nat]
  /\ settings = NoGroup => members = {}
  /\ \A u \in Users \ disordered : UserOK(u)

\* A set of naturals that is not empty has a smallest element.
LEMMA SmallestNat ==
  ASSUME NEW T \in SUBSET Nat, T # {}
  PROVE  \E x \in T : \A y \in T : x <= y
<1> DEFINE R == OpToRel(<, Nat)
<1>1. PICK x \in T : \A y \in T : ~ (<<y, x>> \in R)
  <2>1. IsWellFoundedOn(R, Nat)
    BY Zenon, NatLessThanWellFounded
  <2> HIDE DEF R
  <2> QED
    BY Zenon, <2>1, WFMin
<1>2. \A y \in T : ~ (y < x)
  BY Zenon, <1>1 DEF OpToRel
<1> QED
  BY <1>2

\* The next command of a kind is the only one between what has been read of
\* the kind and itself.
LEMMA NextOfFacts ==
  ASSUME GInv, NEW k \in Kinds, Following(k) # {}
  PROVE  /\ NextOf(k) \in DOMAIN log /\ NextOf(k) \in Nat \ {0}
         /\ log[NextOf(k)].kind = k /\ log[NextOf(k)] \in Command
         /\ pos[k] < NextOf(k)
         /\ \A i \in DOMAIN log : log[i].kind = k /\ i <= NextOf(k) => i <= pos[k] \/ i = NextOf(k)
<1>1. /\ DOMAIN log = 1 .. Len(log) /\ Len(log) \in Nat /\ pos[k] \in Nat
      /\ \A i \in DOMAIN log : log[i] \in Command
  BY DEF GInv
<1>2. Following(k) \subseteq Nat
  BY <1>1 DEF Following
<1>3. \E i \in Following(k) : \A j \in Following(k) : i <= j
  BY Zenon, <1>2, SmallestNat
<1>4. NextOf(k) \in Following(k) /\ \A j \in Following(k) : NextOf(k) <= j
  BY Zenon, <1>3 DEF NextOf
<1> HIDE DEF NextOf
<1> QED
  BY <1>1, <1>4 DEF Following

\* What a command does to the group.
LEMMA ProcessFacts ==
  ASSUME GInv, NEW cmd \in Command, ProcessCommand(cmd)
  PROVE  /\ settings' = NoGroup => members' = {}
         /\ \A u \in Users :
              IF u \in About(cmd)
              THEN (cmd.kind = "add" /\ settings = NoGroup) \/ (u \in members' <=> cmd.kind = "add")
              ELSE u \in members' <=> u \in members
<1>1. cmd.payload # NoGroup
  BY Zenon, GroupsAssumption DEF Command, NoGroup, NoPayload
<1>2. NoPayload \notin Users /\ Creator \notin Users
  BY Zenon, GroupsAssumption
<1>3. cmd.kind \in Kinds
  BY Zenon DEF Command
<1>4. CASE cmd.kind = "create"
  BY Zenon, <1>1, <1>2, <1>4 DEF ProcessCommand, CreateGroup, About, GInv
<1>5. CASE cmd.kind = "add"
  BY <1>2, <1>5 DEF ProcessCommand, AddMember, About, GInv
<1>6. CASE cmd.kind \in {"remove", "ban"}
  BY Zenon, <1>2, <1>6 DEF ProcessCommand, RemoveMember, About, GInv
<1>7. CASE cmd.kind = "settings"
  BY Zenon, <1>1, <1>7 DEF ProcessCommand, UpdateSettings, About, GInv
<1>8. CASE cmd.kind = "delete"
  BY Zenon, <1>8 DEF ProcessCommand, Nothing, About, GInv
<1> QED
  BY Zenon, <1>3, <1>4, <1>5, <1>6, <1>7, <1>8 DEF Kinds

\* A command that has been read leaves every user as it should, or disordered.
LEMMA RecordKeeps ==
  ASSUME GInv, NEW k \in Kinds, Following(k) # {}, log' = log,
         NEW failed \in BOOLEAN, Record(NextOf(k), failed), pos' = [pos EXCEPT ![k] = NextOf(k)],
         \A u \in Users :
           IF u \in About(log[NextOf(k)])
           THEN failed \/ (u \in members' <=> log[NextOf(k)].kind = "add")
           ELSE u \in members' <=> u \in members
  PROVE  /\ pos' \in [Kinds -> Nat] /\ executed' \in [Users -> Nat]
         /\ \A u \in Users \ disordered' : UserOK(u)'
<1> DEFINE i == NextOf(k)
<1>1. /\ i \in DOMAIN log /\ i \in Nat \ {0} /\ log[i].kind = k /\ pos[k] < i
      /\ \A j \in DOMAIN log : log[j].kind = k /\ j <= i => j <= pos[k] \/ j = i
  BY Zenon, NextOfFacts
<1>2. /\ log \in Seq(Command) /\ pos \in [Kinds -> Nat] /\ executed \in [Users -> Nat]
      /\ DOMAIN log \subseteq Nat
  BY DEF GInv
<1>3. /\ executed' = [u \in Users |-> IF u \in About(log[i]) THEN i ELSE executed[u]]
      /\ disordered' = disordered \cup {u \in About(log[i]) : failed \/ i < executed[u]}
  BY Zenon DEF Record
<1>4. pos' = [pos EXCEPT ![k] = i]
  BY Zenon
<1>5. \A u \in Users :
         IF u \in About(log[i])
         THEN failed \/ (u \in members' <=> log[i].kind = "add")
         ELSE u \in members' <=> u \in members
  BY Zenon
<1> HIDE DEF i
<1>6. pos' \in [Kinds -> Nat] /\ executed' \in [Users -> Nat]
  BY Zenon, <1>1, <1>2, <1>3, <1>4
<1>7. ASSUME NEW j \in DOMAIN log
      PROVE  j \in Nat /\ pos'[log[j].kind] = IF log[j].kind = k THEN i ELSE pos[log[j].kind]
  <2>1. log[j] \in Command
    BY <1>2
  <2> QED
    BY Zenon, <1>2, <1>4, <2>1 DEF Command
<1>8. ASSUME NEW u \in Users \ disordered' PROVE UserOK(u)'
  <2>1. UserOK(u) /\ executed[u] \in Nat
    BY Zenon, <1>2, <1>3 DEF GInv
  <2>2. CASE u \in About(log[i])
    <3>1. executed'[u] = i /\ ~ failed /\ executed[u] <= i
      BY <1>1, <1>2, <1>3, <2>1, <2>2
    <3>2. ASSUME NEW j \in DOMAIN log, u \in About(log[j]), j <= pos'[log[j].kind] PROVE j <= i
      <4>1. CASE log[j].kind = k
        BY Zenon, <1>7, <3>2, <4>1
      <4>2. CASE log[j].kind # k
        BY <1>1, <1>7, <2>1, <3>1, <3>2, <4>2 DEF UserOK
      <4> QED
        BY Zenon, <4>1, <4>2
    <3>3. u \in members' <=> log[i].kind = "add"
      BY Zenon, <1>5, <2>2, <3>1
    <3> QED
      BY Zenon, <1>1, <2>2, <3>1, <3>2, <3>3 DEF UserOK, About
  <2>3. CASE u \notin About(log[i])
    <3>1. executed'[u] = executed[u] /\ (u \in members' <=> u \in members)
      BY Zenon, <1>3, <1>5, <2>3
    <3>2. ASSUME NEW j \in DOMAIN log, u \in About(log[j]), j <= pos'[log[j].kind] PROVE j <= executed[u]
      BY Zenon, <1>1, <1>7, <2>1, <2>3, <3>2 DEF UserOK
    <3> QED
      BY Zenon, <2>1, <3>1, <3>2 DEF UserOK, About
  <2> QED
    BY Zenon, <2>2, <2>3
<1> QED
  BY Zenon, <1>6, <1>8

\* Every command of the topic has a kind.
LEMMA LogKinds ==
  ASSUME log \in Seq(Command), NEW i \in DOMAIN log
  PROVE  i \in Nat \ {0} /\ log[i].kind \in Kinds
<1>1. log[i] \in Command /\ i \in Nat \ {0}
  OBVIOUS
<1> QED
  BY Zenon, <1>1 DEF Command

\* No command has been issued or read in the beginning.
LEMMA GroupsStarts == GroupsInit => GInv
<1> SUFFICES ASSUME GroupsInit PROVE GInv
  BY Zenon
<1>1. log \in Seq(Command)
  <2>1. PICK n \in 0 .. MaxCommands : log \in [1 .. n -> Issued]
    BY Zenon DEF GroupsInit
  <2> QED
    BY <2>1, GroupsAssumption
<1>2. ASSUME NEW u \in Users PROVE UserOK(u)
  <2>1. executed[u] = 0
    BY Zenon DEF GroupsInit
  <2>2. \A i \in DOMAIN log : i \in Nat \ {0} /\ pos[log[i].kind] = 0
    BY Zenon, <1>1, LogKinds DEF GroupsInit
  <2> QED
    BY Zenon, <2>1, <2>2 DEF UserOK
<1> QED
  BY Zenon, <1>1, <1>2 DEF GroupsInit, GInv

\* Every step of the command service keeps the invariant.
LEMMA GroupsStep ==
  ASSUME GInv, [GroupsNext]_commands
  PROVE  GInv'
<1>1. CASE UNCHANGED commands
  <2>1. \A u \in Users : UserOK(u)' <=> UserOK(u)
    BY Zenon, <1>1 DEF commands, UserOK, About
  <2> QED
    BY Zenon, <1>1, <2>1 DEF commands, GInv
<1>2. ASSUME NEW k \in Kinds, Consume(k) PROVE GInv'
  <2> DEFINE failed == log[NextOf(k)].kind = "add" /\ settings = NoGroup
  <2>1. /\ Following(k) # {} /\ log' = log /\ pos' = [pos EXCEPT ![k] = NextOf(k)]
        /\ ProcessCommand(log[NextOf(k)]) /\ Record(NextOf(k), failed) /\ failed \in BOOLEAN
    BY Zenon, <1>2 DEF Consume
  <2>2. log[NextOf(k)] \in Command
    BY Zenon, <2>1, NextOfFacts
  <2>3. /\ settings' = NoGroup => members' = {}
        /\ \A u \in Users :
             IF u \in About(log[NextOf(k)])
             THEN failed \/ (u \in members' <=> log[NextOf(k)].kind = "add")
             ELSE u \in members' <=> u \in members
    BY Zenon, <2>1, <2>2, ProcessFacts
  <2> HIDE DEF failed
  <2>4. /\ pos' \in [Kinds -> Nat] /\ executed' \in [Users -> Nat]
        /\ \A u \in Users \ disordered' : UserOK(u)'
    BY Zenon, <2>1, <2>3, RecordKeeps
  <2> QED
    BY Zenon, <2>1, <2>3, <2>4 DEF GInv
<1>3. ASSUME NEW k \in Kinds, ConsumeFails(k) PROVE GInv'
  <2>1. /\ Following(k) # {} /\ log' = log /\ pos' = [pos EXCEPT ![k] = NextOf(k)]
        /\ Record(NextOf(k), TRUE) /\ members' = members /\ settings' = settings
    BY Zenon, <1>3 DEF ConsumeFails
  <2>2. /\ pos' \in [Kinds -> Nat] /\ executed' \in [Users -> Nat]
        /\ \A u \in Users \ disordered' : UserOK(u)'
    BY Zenon, <2>1, RecordKeeps
  <2> QED
    BY Zenon, <2>1, <2>2 DEF GInv
<1>4. CASE Claim
  <2>1. /\ UNCHANGED <<log, settings, members, executed, disordered>>
        /\ pos' = [k \in Kinds |-> 0] /\ log \in Seq(Command)
    BY Zenon, <1>4 DEF Claim, GInv
  <2>2. \A i \in DOMAIN log : i \in Nat \ {0} /\ pos'[log[i].kind] = 0
    BY Zenon, <2>1, LogKinds
  <2>3. \A u \in Users \ disordered : UserOK(u)'
    BY <2>1, <2>2 DEF UserOK, About, GInv
  <2> QED
    BY Zenon, <2>1, <2>3 DEF GInv
<1> QED
  BY Zenon, <1>1, <1>2, <1>3, <1>4 DEF GroupsNext

\* When the command service has read the topic to its end, the members are
\* those that the commands in the order of their issue make, except for users
\* some of whose commands failed or were executed after a later one.
THEOREM GroupsMembershipAsIssued == GroupsSpec => []MembershipAsIssued
<1>1. ASSUME GInv, Consumed, NEW u \in Users \ disordered,
             NEW i \in Last(LAMBDA cmd : u \in About(cmd))
      PROVE  u \in members <=> log[i].kind = "add"
  <2>1. /\ log \in Seq(Command) /\ Len(log) \in Nat /\ DOMAIN log = 1 .. Len(log)
        /\ executed[u] \in Nat /\ UserOK(u)
    BY <1>1 DEF GInv
  <2>2. /\ i \in DOMAIN log /\ i \in Nat \ {0} /\ u \in About(log[i])
        /\ \A j \in DOMAIN log : j > i => u \notin About(log[j])
    BY <1>1, <2>1 DEF Last
  <2>3. i <= pos[log[i].kind]
    <3>1. log[i].kind \in Kinds /\ pos[log[i].kind] \in Nat
      BY Zenon, <1>1, <2>1, <2>2, LogKinds DEF GInv
    <3> QED
      BY <1>1, <2>1, <2>2, <3>1 DEF Consumed, Following
  <2>4. i <= executed[u]
    BY Zenon, <2>1, <2>2, <2>3 DEF UserOK
  <2>5. executed[u] = i
    BY <2>1, <2>2, <2>4 DEF UserOK
  <2> QED
    BY Zenon, <2>1, <2>2, <2>5 DEF UserOK
<1>2. GInv => MembershipAsIssued
  BY Zenon, <1>1 DEF MembershipAsIssued
<1> QED
  BY <1>2, GroupsStarts, GroupsStep, PTL DEF GroupsSpec

-----------------------------------------------------------------------------
(***************************************************************************)
(* Offline sync.                                                           *)
(***************************************************************************)
\* What may keep an entry from the client that asks with its cursor.
Tied(m) == \E x \in visible \ {m} : createdAt[x] = createdAt[m]
Accounted(m) == m \in fetched \cup delivered \cup late \/ Tied(m)

\* The client has got what is not after its cursor, but for a cause; the
\* entries of the call under way are not after its cursor.
OInv ==
  /\ clock \in Nat
  /\ createdAt \in [Entries -> Nat]
  /\ visible \subseteq {m \in Entries : createdAt[m] # 0}
  /\ cursor \in visible \cup {NoEntry}
  /\ base \subseteq visible /\ page \subseteq visible
  /\ cursor # NoEntry => \A m \in visible : createdAt[m] <= createdAt[cursor] => Accounted(m)
  /\ paging /\ page # {} => cursor # NoEntry /\ \A x \in page : createdAt[x] <= createdAt[cursor]
  /\ ~ again
  /\ ~ paging => \A m \in base : Accounted(m)

\* What accounts for an entry goes on accounting for it.
LEMMA AccountedStays ==
  ASSUME NEW m, Accounted(m), fetched \subseteq fetched', delivered \subseteq delivered', late \subseteq late',
         visible \subseteq visible', m \in visible, \A x \in visible : createdAt'[x] = createdAt[x]
  PROVE  Accounted(m)'
BY Zenon DEF Accounted, Tied

\* A page has the first entries of its query, and all of them unless there is
\* more.
LEMMA FirstsFacts ==
  ASSUME NEW query \in SUBSET Entries, NEW entries \in Firsts(query)
  PROVE  /\ entries \subseteq query
         /\ \A x \in entries, y \in query \ entries : createdAt[x] <= createdAt[y]
         /\ ~ HasMore(entries, query) => entries = query
<1>1. entries \in SUBSET query /\ \A x \in entries, y \in query \ entries : createdAt[x] <= createdAt[y]
  BY Zenon DEF Firsts
<1>2. IsFiniteSet(query) /\ IsFiniteSet(entries) /\ Cardinality(entries) <= Cardinality(query)
      /\ (Cardinality(entries) = Cardinality(query) => entries = query)
  BY Zenon, <1>1, OfflineAssumption, FS_Subset
<1>3. Cardinality(query) \in Nat /\ Cardinality(entries) \in Nat
  BY Zenon, <1>2, FS_CardinalityType
<1> QED
  BY <1>1, <1>2, <1>3 DEF HasMore

\* One round of GetMissedMessagesPaginated.
LEMMA RoundKeeps ==
  ASSUME OInv, GetMissedMessages
  PROVE  OInv'
<1> DEFINE query == IF cursor = NoEntry THEN GetUndelivered ELSE GetAfterMessageID(cursor)
<1>1. PICK entries \in Firsts(query) :
        /\ page' = page \cup entries
        /\ again' = (again \/ page \cap entries # {})
        /\ fetched' = fetched \cup entries
        /\ paging' = HasMore(entries, query)
        /\ IF entries = {} THEN UNCHANGED cursor
           ELSE \E last \in entries :
                  /\ \A x \in entries : createdAt[x] <= createdAt[last]
                  /\ cursor' = last
  BY Zenon DEF GetMissedMessages
<1>2. paging /\ UNCHANGED <<clock, createdAt, visible, delivered, base, late>>
  BY Zenon DEF GetMissedMessages
<1>3. /\ createdAt \in [Entries -> Nat] /\ visible \subseteq Entries /\ NoEntry \notin Entries
      /\ cursor \in visible \cup {NoEntry} /\ base \subseteq visible /\ page \subseteq visible
      /\ \A m \in visible : createdAt[m] \in Nat
  BY Zenon, OfflineAssumption DEF OInv
<1>4. query \in SUBSET visible
  BY Zenon, <1>3 DEF GetUndelivered, GetAfterMessageID
<1>5. /\ entries \subseteq query
      /\ \A x \in entries, y \in query \ entries : createdAt[x] <= createdAt[y]
      /\ ~ HasMore(entries, query) => entries = query
  <2>1. query \in SUBSET Entries
    BY Zenon, <1>3, <1>4
  <2> HIDE DEF query
  <2> QED
    BY Zenon, <2>1, FirstsFacts
<1>6. ASSUME NEW m \in visible, m \notin query PROVE Accounted(m)'
  <2>1. CASE cursor = NoEntry
    BY Zenon, <1>2, <1>6, <2>1 DEF GetUndelivered, Accounted
  <2>2. CASE cursor # NoEntry
    <3>1. createdAt[m] <= createdAt[cursor]
      BY <1>3, <1>6, <2>2 DEF GetAfterMessageID
    <3>2. Accounted(m)
      BY Zenon, <2>2, <3>1 DEF OInv
    <3> QED
      BY Zenon, <1>1, <1>2, <3>2, AccountedStays
  <2> QED
    BY Zenon, <2>1, <2>2
<1>7. ASSUME NEW m \in entries PROVE Accounted(m)'
  BY Zenon, <1>1, <1>7 DEF Accounted
<1>8. ~ paging' => \A m \in base' : Accounted(m)'
  BY Zenon, <1>1, <1>2, <1>3, <1>5, <1>6, <1>7
<1>9. ~ again'
  <2>1. CASE page = {}
    BY Zenon, <1>1, <2>1 DEF OInv
  <2>2. CASE page # {}
    <3>1. cursor # NoEntry /\ \A x \in page : createdAt[x] <= createdAt[cursor]
      BY Zenon, <1>2, <2>2 DEF OInv
    <3>2. \A x \in query : createdAt[x] > createdAt[cursor]
      BY Zenon, <3>1 DEF GetAfterMessageID
    <3>3. page \cap entries = {}
      BY <1>3, <1>5, <3>1, <3>2
    <3> QED
      BY Zenon, <1>1, <3>3 DEF OInv
  <2> QED
    BY Zenon, <2>1, <2>2
<1>10. CASE entries = {}
  <2>1. cursor' = cursor /\ page' = page /\ fetched' = fetched
    BY Zenon, <1>1, <1>10
  <2>2. cursor' # NoEntry => \A m \in visible' : createdAt'[m] <= createdAt'[cursor'] => Accounted(m)'
    BY Zenon, <1>2, <2>1 DEF OInv, Accounted, Tied
  <2> QED
    BY Zenon, <1>2, <1>8, <1>9, <2>1, <2>2 DEF OInv
<1>11. CASE entries # {}
  <2>1. PICK last \in entries : cursor' = last /\ \A x \in entries : createdAt[x] <= createdAt[last]
    BY Zenon, <1>1, <1>11
  <2>2. last \in visible /\ last # NoEntry
    BY Zenon, <1>3, <1>4, <1>5
  <2>3. ASSUME NEW m \in visible, createdAt[m] <= createdAt[last] PROVE Accounted(m)'
    <3>1. CASE m \in query \ entries
      <4>1. createdAt[last] = createdAt[m] /\ last # m
        BY <1>3, <1>5, <2>1, <2>2, <2>3, <3>1
      <4> QED
        BY Zenon, <1>2, <2>2, <4>1 DEF Accounted, Tied
    <3> QED
      BY Zenon, <1>6, <1>7, <2>3, <3>1
  <2>4. ASSUME NEW x \in page PROVE createdAt[x] <= createdAt[last]
    <3>1. cursor # NoEntry /\ createdAt[x] <= createdAt[cursor]
      BY Zenon, <1>2, <2>4 DEF OInv
    <3>2. createdAt[last] > createdAt[cursor]
      BY Zenon, <1>5, <3>1 DEF GetAfterMessageID
    <3> QED
      BY <1>3, <2>2, <3>1, <3>2
  <2>5. \A x \in page' : createdAt[x] <= createdAt[last]
    BY Zenon, <1>1, <2>1, <2>4
  <2> QED
    BY Zenon, <1>1, <1>2, <1>3, <1>4, <1>5, <1>8, <1>9, <2>1, <2>2, <2>3, <2>5 DEF OInv
<1> QED
  BY Zenon, <1>10, <1>11

\* The inbox is empty in the beginning.
LEMMA OfflineStarts == OfflineInit => OInv
BY OfflineAssumption DEF OfflineInit, OInv

\* Every step of the offline sync keeps the invariant.
LEMMA OfflineStep ==
  ASSUME OInv, [OfflineNext]_inbox
  PROVE  OInv'
<1>0. /\ createdAt \in [Entries -> Nat] /\ visible \subseteq Entries /\ NoEntry \notin Entries
      /\ cursor \in visible \cup {NoEntry} /\ base \subseteq visible /\ page \subseteq visible
  BY Zenon, OfflineAssumption DEF OInv
<1>1. CASE UNCHANGED inbox \/ Tick
  BY <1>1 DEF inbox, Tick, OInv, Accounted, Tied
<1>2. ASSUME NEW m \in Entries, Insert(m) PROVE OInv'
  <2>1. createdAt[m] = 0 /\ createdAt' = [createdAt EXCEPT ![m] = clock]
        /\ UNCHANGED <<clock, visible, delivered, cursor, paging, page, again, base, fetched, late>>
    BY Zenon, <1>2 DEF Insert
  <2>2. m \notin visible /\ \A x \in visible : createdAt'[x] = createdAt[x]
    BY Zenon, <1>0, <2>1 DEF OInv
  <2>3. \A x \in visible : Accounted(x) => Accounted(x)'
    BY Zenon, <2>1, <2>2, AccountedStays
  <2>4. createdAt' \in [Entries -> Nat]
    BY Zenon, <1>0, <2>1 DEF OInv
  <2>5. visible \subseteq {x \in Entries : createdAt'[x] # 0}
    BY Zenon, <2>2 DEF OInv
  <2>6. cursor # NoEntry => \A x \in visible : createdAt'[x] <= createdAt'[cursor] => Accounted(x)'
    BY Zenon, <1>0, <2>2, <2>3 DEF OInv
  <2> QED
    BY Zenon, <1>0, <2>1, <2>2, <2>3, <2>4, <2>5, <2>6 DEF OInv
<1>3. ASSUME NEW m \in Entries, Commit(m) PROVE OInv'
  <2>1. /\ createdAt[m] > 0 /\ m \notin visible /\ visible' = visible \cup {m}
        /\ late' = IF cursor # NoEntry /\ createdAt[m] < createdAt[cursor] THEN late \cup {m} ELSE late
        /\ UNCHANGED <<clock, createdAt, delivered, cursor, paging, page, again, base, fetched>>
    BY Zenon, <1>3 DEF Commit
  <2>2. \A x \in visible : Accounted(x) => Accounted(x)'
    BY Zenon, <2>1, AccountedStays
  <2>3. ASSUME cursor # NoEntry, createdAt[m] <= createdAt[cursor] PROVE Accounted(m)'
    <3>1. CASE createdAt[m] < createdAt[cursor]
      BY Zenon, <2>1, <2>3, <3>1 DEF Accounted
    <3>2. CASE createdAt[m] = createdAt[cursor]
      BY Zenon, <1>0, <2>1, <2>3, <3>2 DEF Accounted, Tied
    <3>3. createdAt[m] \in Nat /\ createdAt[cursor] \in Nat
      BY Zenon, <1>0, <2>3
    <3> QED
      BY <2>3, <3>1, <3>2, <3>3
  <2>4. cursor' # NoEntry => \A x \in visible' : createdAt'[x] <= createdAt'[cursor'] => Accounted(x)'
    BY Zenon, <2>1, <2>2, <2>3 DEF OInv
  <2>5. visible' \subseteq {x \in Entries : createdAt[x] # 0}
    BY <1>0, <2>1 DEF OInv
  <2> QED
    BY Zenon, <1>0, <2>1, <2>2, <2>4, <2>5 DEF OInv
<1>4. ASSUME NEW m \in Entries, MarkDelivered(m) PROVE OInv'
  <2>1. delivered' = delivered \cup {m}
        /\ UNCHANGED <<clock, createdAt, visible, cursor, paging, page, again, base, fetched, late>>
    BY Zenon, <1>4 DEF MarkDelivered
  <2>2. \A x \in visible : Accounted(x) => Accounted(x)'
    BY Zenon, <2>1, AccountedStays
  <2> QED
    BY Zenon, <1>0, <2>1, <2>2 DEF OInv
<1>5. CASE Sync
  <2>1. \A x : Accounted(x)' <=> Accounted(x)
    BY Zenon, <1>5 DEF Sync, Accounted, Tied
  <2> QED
    BY Zenon, <1>0, <1>5, <2>1 DEF Sync, OInv
<1>6. CASE SyncFails
  <2>1. \A x : Accounted(x)' <=> Accounted(x)
    BY <1>6 DEF SyncFails, Accounted, Tied
  <2> QED
    BY Zenon, <1>0, <1>6, <2>1 DEF SyncFails, OInv
<1> QED
  BY Zenon, <1>1, <1>2, <1>3, <1>4, <1>5, <1>6, RoundKeeps DEF OfflineNext

\* A call of GetMissedMessagesPaginated returns no entry twice, and one that
\* has ended has given the client every entry visible when it began, except
\* those marked delivered, those with the created_at of another entry, and
\* those whose insert committed behind the cursor.
THEOREM OfflineMissedForCause == OfflineSpec => []MissedForCause
<1>1. OInv => MissedForCause
  BY Zenon DEF OInv, MissedForCause, Accounted, Tied
<1> QED
  BY <1>1, OfflineStarts, OfflineStep, PTL DEF OfflineSpec
=============================================================================
