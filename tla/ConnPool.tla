------------------------------ MODULE ConnPool ------------------------------
(***************************************************************************)
(* The connection pool of a session: Add, Remove, UpdateSeq and Best.      *)
(* Best ranges over the map, in any order; the pool cannot change while it *)
(* does, as it holds the lock for reading.                                 *)
(***************************************************************************)
EXTENDS Naturals, FiniteSets

CONSTANTS
  Ids,       \* connection IDs
  TypeOf,    \* the transport of the connection with an ID
  MaxConns,  \* the capacity NewConnPool was given
  MaxSeq

DefaultMaxConns == 5
maxConns == IF MaxConns <= 0 THEN DefaultMaxConns ELSE MaxConns

Types == {"quic", "websocket", "grpc"}
transportPriority == [t \in Types |-> CASE t = "quic" -> 3 [] t = "websocket" -> 2 [] t = "grpc" -> 1]

NoConn == "none"

ASSUME PoolAssumption ==
  /\ TypeOf \in [Ids -> Types] /\ NoConn \notin Ids
  /\ MaxConns \in Nat /\ MaxSeq \in Nat

VARIABLES
  conns,  \* the IDs in the map
  seqOf,  \* lastPacketSeq
  rest,   \* the part of the map that Best has still to visit
  best,   \* bestID of Best
  pushed  \* the ID that Best has returned last

pool == <<conns, seqOf, rest, best, pushed>>

Ranging == rest # {} \/ best # NoConn

PoolTypeOK ==
  /\ conns \subseteq Ids /\ IsFiniteSet(conns)
  /\ seqOf \in [Ids -> 0 .. MaxSeq]
  /\ rest \subseteq conns
  /\ best \in conns \cup {NoConn}
  /\ pushed \in Ids \cup {NoConn}

PoolInit ==
  /\ conns = {}
  /\ seqOf = [i \in Ids |-> 0]
  /\ rest = {} /\ best = NoConn /\ pushed = NoConn

\* Add: refused when the pool is full, even if the ID is in it.
Add(i) ==
  /\ ~ Ranging /\ Cardinality(conns) < maxConns
  /\ conns' = conns \cup {i}
  /\ seqOf' = [seqOf EXCEPT ![i] = 0]
  /\ UNCHANGED <<rest, best, pushed>>

Remove(i) ==
  /\ ~ Ranging
  /\ conns' = conns \ {i}
  /\ UNCHANGED <<seqOf, rest, best, pushed>>

\* UpdateSeq: any number, also a smaller one.
UpdateSeq(i, n) ==
  /\ ~ Ranging /\ i \in conns
  /\ seqOf' = [seqOf EXCEPT ![i] = n]
  /\ UNCHANGED <<conns, rest, best, pushed>>

\* Best takes the lock.
BestStarts ==
  /\ ~ Ranging /\ conns # {}
  /\ rest' = conns
  /\ UNCHANGED <<conns, seqOf, best, pushed>>

\* Mutant: a tie goes to the connection that was visited last.
BetterLastOnTie(i, j) == seqOf[i] >= seqOf[j]

\* Entry i replaces entry j.
Better(i, j) ==
  \/ seqOf[i] > seqOf[j]
  \/ seqOf[i] = seqOf[j] /\ transportPriority[TypeOf[i]] > transportPriority[TypeOf[j]]

\* Best: the next entry of the map.
BestVisits(i) ==
  /\ i \in rest
  /\ rest' = rest \ {i}
  /\ best' = IF best = NoConn \/ Better(i, best) THEN i ELSE best
  /\ UNCHANGED <<conns, seqOf, pushed>>

\* Best returns.
BestReturns ==
  /\ rest = {} /\ best # NoConn
  /\ pushed' = best /\ best' = NoConn
  /\ UNCHANGED <<conns, seqOf, rest>>

PoolNext ==
  \/ \E i \in Ids : Add(i) \/ Remove(i) \/ BestVisits(i) \/ \E n \in 0 .. MaxSeq : UpdateSeq(i, n)
  \/ BestStarts \/ BestReturns

PoolSpec == PoolInit /\ [][PoolNext]_pool

\* A pool never holds more connections than its capacity, although Add
\* replaces an entry without counting it.
PoolBounded == Cardinality(conns) <= maxConns

\* When Best returns, no connection of the pool has a higher packet number,
\* and none with the same number a transport of higher priority, whatever the
\* order in which the map was visited.
BestIsBest ==
  (rest = {} /\ best # NoConn) =>
    \A i \in conns :
      \/ seqOf[i] < seqOf[best]
      \/ /\ seqOf[i] = seqOf[best]
         /\ transportPriority[TypeOf[i]] <= transportPriority[TypeOf[best]]
=============================================================================
