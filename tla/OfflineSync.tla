---------------------------- MODULE OfflineSync ----------------------------
(***************************************************************************)
(* The inbox of one user and the pages in which a client that was offline  *)
(* gets the messages it has missed.  An insert takes its created_at when   *)
(* it begins and is seen when it commits.  Equal times are possible.       *)
(***************************************************************************)
EXTENDS Naturals, FiniteSets

CONSTANTS
  Entries,   \* messages for the user
  PageSize,
  MaxClock,
  MaxSyncs   \* calls of GetMissedMessagesPaginated

NoEntry == "none"

ASSUME OfflineAssumption ==
  /\ PageSize \in Nat \ {0} /\ MaxClock \in Nat /\ MaxSyncs \in Nat
  /\ IsFiniteSet(Entries) /\ NoEntry \notin Entries

VARIABLES
  clock,
  createdAt,  \* of each entry, 0 for none
  visible,    \* the entries whose insert has committed
  delivered,  \* the entries with delivered = TRUE
  cursor,     \* the last message the client has seen
  paging,     \* GetMissedMessagesPaginated is under way
  page,       \* history: what it has returned so far
  again,      \* history: an entry was returned twice by one call
  base,       \* history: the entries that were visible when it began
  fetched,    \* history: the entries the client has got
  syncs,
  late        \* history: entries that became visible behind the cursor

inbox == <<clock, createdAt, visible, delivered, cursor, paging, page, again, base, fetched, syncs, late>>

OfflineInit ==
  /\ clock = 1
  /\ createdAt = [m \in Entries |-> 0]
  /\ visible = {} /\ delivered = {}
  /\ cursor = NoEntry /\ paging = FALSE
  /\ page = {} /\ again = FALSE /\ base = {} /\ fetched = {} /\ late = {}
  /\ syncs = 0

Tick ==
  /\ clock < MaxClock
  /\ clock' = clock + 1
  /\ UNCHANGED <<createdAt, visible, delivered, cursor, paging, page, again, base, fetched, syncs, late>>

\* Insert: NOW().
Insert(m) ==
  /\ createdAt[m] = 0
  /\ createdAt' = [createdAt EXCEPT ![m] = clock]
  /\ UNCHANGED <<clock, visible, delivered, cursor, paging, page, again, base, fetched, syncs, late>>

\* Insert: the commit.
Commit(m) ==
  /\ createdAt[m] > 0 /\ m \notin visible
  /\ visible' = visible \cup {m}
  /\ late' = IF cursor # NoEntry /\ createdAt[m] < createdAt[cursor] THEN late \cup {m} ELSE late
  /\ UNCHANGED <<clock, createdAt, delivered, cursor, paging, page, again, base, fetched, syncs>>

MarkDelivered(m) ==
  /\ m \in visible \ delivered
  /\ delivered' = delivered \cup {m}
  /\ UNCHANGED <<clock, createdAt, visible, cursor, paging, page, again, base, fetched, syncs, late>>

GetUndelivered == visible \ delivered

GetAfterMessageID(m) == {x \in visible : createdAt[x] > createdAt[m]}

\* The first entries of a query in the order of created_at; a tie is broken
\* in any way.
Firsts(query) ==
  {some \in SUBSET query :
     /\ Cardinality(some) = IF Cardinality(query) < PageSize THEN Cardinality(query) ELSE PageSize
     /\ \A x \in some, y \in query \ some : createdAt[x] <= createdAt[y]}

\* GetMissedMessagesPaginated is called with the client's cursor.
Sync ==
  /\ ~ paging /\ syncs < MaxSyncs
  /\ paging' = TRUE /\ syncs' = syncs + 1
  /\ page' = {} /\ base' = visible
  /\ UNCHANGED <<clock, createdAt, visible, delivered, cursor, again, fetched, late>>

\* Mutant: a full page is the last one.
MissedNoMore(entries, query) == FALSE

\* hasMore: the query asks for one entry more than the page has.
HasMore(entries, query) == Cardinality(query) > Cardinality(entries)

\* GetMissedMessages and the callback: one round of the loop.  The last entry
\* of the page is the next cursor.
GetMissedMessages ==
  LET query == IF cursor = NoEntry THEN GetUndelivered ELSE GetAfterMessageID(cursor)
  IN /\ paging
     /\ \E entries \in Firsts(query) :
          /\ page' = page \cup entries
          /\ again' = (again \/ page \cap entries # {})
          /\ fetched' = fetched \cup entries
          /\ paging' = HasMore(entries, query)
          /\ IF entries = {} THEN UNCHANGED cursor
             ELSE \E last \in entries :
                    /\ \A x \in entries : createdAt[x] <= createdAt[last]
                    /\ cursor' = last
     /\ UNCHANGED <<clock, createdAt, visible, delivered, base, syncs, late>>

\* A query or the callback fails; the client keeps the cursor of its last page.
SyncFails ==
  /\ paging
  /\ paging' = FALSE /\ base' = {}
  /\ UNCHANGED <<clock, createdAt, visible, delivered, cursor, page, again, fetched, syncs, late>>

OfflineNext ==
  \/ Tick \/ Sync \/ GetMissedMessages \/ SyncFails
  \/ \E m \in Entries : Insert(m) \/ Commit(m) \/ MarkDelivered(m)

OfflineSpec == OfflineInit /\ [][OfflineNext]_inbox

\* A call returns no entry twice, and one that has ended has given the client
\* every entry that was visible when it began, except those marked delivered,
\* those with the created_at of another entry, and those that had become visible
\* behind the cursor.
MissedForCause ==
  /\ ~ again
  /\ ~ paging => \A m \in base :
       \/ m \in fetched \cup delivered \cup late
       \/ \E x \in visible \ {m} : createdAt[x] = createdAt[m]
=============================================================================
