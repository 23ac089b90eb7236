------------------------------ MODULE Session -------------------------------
(***************************************************************************)
(* The session manager: calls of session.Manager, of any number of         *)
(* processes at the same time, on sessions kept in Redis and, when the     *)
(* manager has a PGStore, in PostgreSQL.                                   *)
(*                                                                         *)
(* Each command of Redis and each statement of PostgreSQL is one step, the *)
(* commands of a pipeline too: client.Pipeline() is no transaction, and    *)
(* Redis runs commands of other clients between them.  Nothing locks a     *)
(* session between the steps of a call.  A call may be aborted between any *)
(* two of them (the connection breaks, the context is cancelled, the       *)
(* process stops), in the middle of a pipeline as well; Redis does not     *)
(* refuse one command of a pipeline and run the next.  Redis drops a key   *)
(* when its TTL runs out.  The fields of a session hash that only Create   *)
(* writes are one field, "owner".                                          *)
(***************************************************************************)
EXTENDS Naturals, FiniteSets

CONSTANTS
  Sessions,        \* session ids
  Conns,           \* connection ids
  Calls,           \* calls that may be in progress at the same time
  Events,          \* the events the callers raise
  MaxConnections,  \* Config.MaxConnections
  Durable          \* the calls whose manager has a PGStore

AllEvents == {"HandshakeOK", "HandshakeFail", "PacketReceived", "IdleTimeout",
              "ExpiryTimeout", "ExplicitLogout"}

ASSUME SessionAssumption ==
  /\ IsFiniteSet(Calls) /\ Calls # {}
  /\ IsFiniteSet(Conns)
  /\ Events \subseteq AllEvents
  /\ MaxConnections \in Nat
  /\ Durable \subseteq Calls

Statuses == {"connecting", "active", "sleeping", "expired"}
NoStatus == "none"

VARIABLES
  hash,    \* Redis: session:<id>
  conns,   \* Redis: session:<id>:connections
  index,   \* Redis: the sessions in the user:<uid>:sessions of their user
  pg,      \* the status in the row of each session
  born,    \* the ids that CreateSession has generated
  known,   \* the ids that CreateSession has returned
  call,    \* the calls in progress
  shaken   \* history: the sessions that went through EventHandshakeOK

redis == <<hash, conns, index>>
vars == <<hash, conns, index, pg, born, known, call, shaken>>

Fields == {"owner", "status", "crypto_state", "last_active"}
Hash == [fields : SUBSET Fields, status : Statuses \cup {NoStatus}, ttl : BOOLEAN]
NoHash == [fields |-> {}, status |-> NoStatus, ttl |-> FALSE]

\* "found" is what the last Get of the call returned, "owned" whether it had
\* the fields of Create.  A call that has returned leaves nothing behind.
Call ==
  [pc : {"done", "expire", "sadd", "pg_create", "status", "last_active", "last_ttl", "pg_status",
         "delete", "del", "del_conns", "srem", "pg_delete", "add"},
   sid : Sessions \cup {"none"}, event : AllEvents \cup {"none"}, conn : Conns \cup {"none"},
   found : Statuses \cup {NoStatus}, owned : BOOLEAN]
Idle == [pc |-> "done", sid |-> "none", event |-> "none", conn |-> "none",
         found |-> NoStatus, owned |-> FALSE]

Exists(s) == hash[s].fields # {}
Owned(s) == "owner" \in hash[s].fields

TypeOK ==
  /\ hash \in [Sessions -> Hash]
  /\ conns \in [Sessions -> SUBSET Conns]
  /\ index \in SUBSET Sessions
  /\ pg \in [Sessions -> Statuses \cup {NoStatus}]
  /\ born \in SUBSET Sessions /\ known \in SUBSET Sessions
  /\ call \in [Calls -> Call]
  /\ shaken \in SUBSET Sessions

Init ==
  /\ hash = [s \in Sessions |-> NoHash]
  /\ conns = [s \in Sessions |-> {}]
  /\ index = {}
  /\ pg = [s \in Sessions |-> NoStatus]
  /\ born = {} /\ known = {}
  /\ call = [c \in Calls |-> Idle]
  /\ shaken = {}

-----------------------------------------------------------------------------
(***************************************************************************)
(* The state machine.                                                      *)
(***************************************************************************)
\* Mutant: a packet is enough to make a session active.
TransitionOnPacket(current, event) ==
  CASE current = "connecting" /\ event \in {"HandshakeOK", "PacketReceived"} -> "active"
    [] current = "connecting" /\ event = "HandshakeFail"  -> "destroyed"
    [] current = "active"     /\ event = "PacketReceived" -> "active"
    [] current = "active"     /\ event = "IdleTimeout"    -> "sleeping"
    [] current = "active"     /\ event = "ExplicitLogout" -> "expired"
    [] current = "sleeping"   /\ event = "PacketReceived" -> "active"
    [] current = "sleeping"   /\ event = "ExpiryTimeout"  -> "expired"
    [] OTHER -> "invalid"

\* Mutant: a packet wakes an expired session.
TransitionWakes(current, event) ==
  CASE current = "connecting" /\ event = "HandshakeOK"    -> "active"
    [] current = "connecting" /\ event = "HandshakeFail"  -> "destroyed"
    [] current = "active"     /\ event = "PacketReceived" -> "active"
    [] current = "active"     /\ event = "IdleTimeout"    -> "sleeping"
    [] current = "active"     /\ event = "ExplicitLogout" -> "expired"
    [] current \in {"sleeping", "expired"} /\ event = "PacketReceived" -> "active"
    [] current = "sleeping"   /\ event = "ExpiryTimeout"  -> "expired"
    [] OTHER -> "invalid"

Transition(current, event) ==
  CASE current = "connecting" /\ event = "HandshakeOK"    -> "active"
    [] current = "connecting" /\ event = "HandshakeFail"  -> "destroyed"
    [] current = "active"     /\ event = "PacketReceived" -> "active"
    [] current = "active"     /\ event = "IdleTimeout"    -> "sleeping"
    [] current = "active"     /\ event = "ExplicitLogout" -> "expired"
    [] current = "sleeping"   /\ event = "PacketReceived" -> "active"
    [] current = "sleeping"   /\ event = "ExpiryTimeout"  -> "expired"
    [] OTHER -> "invalid"

\* The status a client of the gRPC service asks for, as an event.
statusToEvent(status) ==
  CASE status = "active" -> "HandshakeOK"
    [] status = "sleeping" -> "IdleTimeout"
    [] status = "expired" -> "ExplicitLogout"

APIEvents == {statusToEvent(status) : status \in Statuses \ {"connecting"}}

-----------------------------------------------------------------------------
(***************************************************************************)
(* The steps of calls.                                                     *)
(***************************************************************************)
Idling(c) == call[c].pc = "done"
At(c, pc) == call[c].pc = pc
Goto(c, pc) == call' = [call EXCEPT ![c].pc = pc]
Finish(c) == call' = [call EXCEPT ![c] = Idle]

\* A call on session s begins, and is at pc after its first command.
Begin(c, s, event, conn, pc) ==
  call' = [call EXCEPT ![c] = [pc |-> pc, sid |-> s, event |-> event, conn |-> conn,
                               found |-> hash[s].status, owned |-> FALSE]]

\* The ids that callers have, from CreateSession or from GetUserSessions.
Held == known \cup index

\* HSET of one field, which makes a hash (without TTL) where there is none.
HSet(s, field) == [hash[s] EXCEPT !.fields = @ \cup {field}]

\* Mutant: the pipeline of Create lacks the Expire.
FollowingNoExpire(command) ==
  CASE command = "hset" -> "sadd"
    [] command = "expire" -> "sadd"
    [] command = "del" -> "del_conns"
    [] command = "del_conns" -> "srem"

\* The commands in the pipelines of RedisStore.Create and RedisStore.Delete.
Following(command) ==
  CASE command = "hset" -> "expire"
    [] command = "expire" -> "sadd"
    [] command = "del" -> "del_conns"
    [] command = "del_conns" -> "srem"

\* EXPIRE, which does nothing where there is no hash.
Renewed(s) == [hash[s] EXCEPT !.ttl = Exists(s)]

\* Manager.CreateSession: redis.Create, the HSet of its pipeline.
CreateSession(c, s) ==
  /\ Idling(c)
  /\ s \notin born
  /\ born' = born \cup {s}
  /\ hash' = [hash EXCEPT ![s] = [fields |-> Fields, status |-> "connecting", ttl |-> FALSE]]
  /\ Begin(c, s, "none", "none", Following("hset"))
  /\ UNCHANGED <<conns, index, pg, known, shaken>>

\* redis.Create: the Expire.
CreateExpire(c) ==
  /\ At(c, "expire")
  /\ hash' = [hash EXCEPT ![call[c].sid] = Renewed(call[c].sid)]
  /\ Goto(c, Following("expire"))
  /\ UNCHANGED <<conns, index, pg, born, known, shaken>>

\* redis.Create: the SAdd; without a PGStore CreateSession returns.
CreateList(c) ==
  LET s == call[c].sid
  IN /\ At(c, "sadd")
     /\ index' = index \cup {s}
     /\ IF c \in Durable
        THEN Goto(c, "pg_create") /\ UNCHANGED known
        ELSE Finish(c) /\ known' = known \cup {s}
     /\ UNCHANGED <<hash, conns, pg, born, shaken>>

\* Manager.CreateSession: pg.Create.  CryptoState is nil, which the driver
\* sends as NULL, and the column crypto_state is NOT NULL.
PGCreate(c) ==
  /\ At(c, "pg_create")
  /\ Finish(c)
  /\ UNCHANGED <<redis, pg, born, known, shaken>>

\* Manager.TransitionSession: redis.Get, then Transition.
TransitionSession(c, s, event) ==
  /\ Idling(c)
  /\ s \in Held
  /\ LET next == Transition(hash[s].status, event)
     IN CASE ~ Exists(s) \/ next = "invalid" -> UNCHANGED call
          [] Exists(s) /\ next = "destroyed" -> Begin(c, s, event, "none", "delete")
          [] OTHER                           -> Begin(c, s, event, "none", "status")
  /\ UNCHANGED <<redis, pg, born, known, shaken>>

\* What is left after the update of the status and of last_active.
AfterUpdate(c) == IF c \in Durable THEN Goto(c, "pg_status") ELSE Finish(c)

\* TransitionSession: redis.UpdateStatus.
UpdateStatus(c) ==
  LET s == call[c].sid
  IN /\ At(c, "status")
     /\ hash' = [hash EXCEPT ![s] = [HSet(s, "status") EXCEPT
                                       !.status = Transition(call[c].found, call[c].event)]]
     /\ shaken' = IF call[c].event = "HandshakeOK" THEN shaken \cup {s} ELSE shaken
     /\ IF call[c].event = "PacketReceived" THEN Goto(c, "last_active") ELSE AfterUpdate(c)
     /\ UNCHANGED <<conns, index, pg, born, known>>

\* TransitionSession: redis.UpdateLastActive, the error of which is ignored:
\* its HSet ...
UpdateLastActive(c) ==
  LET s == call[c].sid
  IN /\ At(c, "last_active")
     /\ \/ hash' = [hash EXCEPT ![s] = HSet(s, "last_active")] /\ Goto(c, "last_ttl")
        \/ UNCHANGED hash /\ AfterUpdate(c)
     /\ UNCHANGED <<conns, index, pg, born, known, shaken>>

\* ... and its Expire.
RenewTTL(c) ==
  LET s == call[c].sid
  IN /\ At(c, "last_ttl")
     /\ hash' = [hash EXCEPT ![s] = Renewed(s)] \/ UNCHANGED hash
     /\ AfterUpdate(c)
     /\ UNCHANGED <<conns, index, pg, born, known, shaken>>

\* TransitionSession: pg.UpdateStatus of the row, if there is one; its error
\* is ignored.
PGUpdateStatus(c) ==
  LET s == call[c].sid
  IN /\ At(c, "pg_status")
     /\ pg' = [pg EXCEPT ![s] = IF @ = NoStatus THEN @
                                ELSE Transition(call[c].found, call[c].event)]
     /\ Finish(c)
     /\ UNCHANGED <<redis, born, known, shaken>>

\* RedisStore.Delete: Get, for the user id.
DeleteGet(c) ==
  LET s == call[c].sid
  IN /\ At(c, "delete")
     /\ IF Exists(s)
        THEN call' = [call EXCEPT ![c].pc = "del", ![c].owned = Owned(s)]
        ELSE Finish(c)
     /\ UNCHANGED <<redis, pg, born, known, shaken>>

\* RedisStore.Delete: the Del of the session key.
DelHash(c) ==
  /\ At(c, "del")
  /\ hash' = [hash EXCEPT ![call[c].sid] = NoHash]
  /\ Goto(c, Following("del"))
  /\ UNCHANGED <<conns, index, pg, born, known, shaken>>

\* RedisStore.Delete: the Del of the connections.
DelConns(c) ==
  /\ At(c, "del_conns")
  /\ conns' = [conns EXCEPT ![call[c].sid] = {}]
  /\ Goto(c, Following("del_conns"))
  /\ UNCHANGED <<hash, index, pg, born, known, shaken>>

\* RedisStore.Delete: the SRem from the set of the user that Get returned.
SRem(c) ==
  /\ At(c, "srem")
  /\ index' = IF call[c].owned THEN index \ {call[c].sid} ELSE index
  /\ IF c \in Durable THEN Goto(c, "pg_delete") ELSE Finish(c)
  /\ UNCHANGED <<hash, conns, pg, born, known, shaken>>

\* TransitionSession: pg.Delete, the error of which is ignored.
PGDelete(c) ==
  /\ At(c, "pg_delete")
  /\ pg' = [pg EXCEPT ![call[c].sid] = NoStatus]
  /\ Finish(c)
  /\ UNCHANGED <<redis, born, known, shaken>>

\* Manager.UpdateCryptoState; the row's crypto_state is not modelled.
UpdateCryptoState(c, s) ==
  /\ Idling(c)
  /\ s \in Held
  /\ hash' = [hash EXCEPT ![s] = HSet(s, "crypto_state")]
  /\ UNCHANGED <<conns, index, pg, born, known, call, shaken>>

\* Mutant: the limit itself is let through.
RegisterConnectionAtLimit(c, s, conn) ==
  /\ Idling(c)
  /\ s \in Held
  /\ IF Cardinality(conns[s]) > MaxConnections
     THEN UNCHANGED call
     ELSE Begin(c, s, "none", conn, "add")
  /\ UNCHANGED <<redis, pg, born, known, shaken>>

\* Manager.RegisterConnection: redis.GetConnections.
RegisterConnection(c, s, conn) ==
  /\ Idling(c)
  /\ s \in Held
  /\ IF Cardinality(conns[s]) >= MaxConnections
     THEN UNCHANGED call
     ELSE Begin(c, s, "none", conn, "add")
  /\ UNCHANGED <<redis, pg, born, known, shaken>>

\* Manager.RegisterConnection: redis.AddConnection.
AddConnection(c) ==
  LET s == call[c].sid
  IN /\ At(c, "add")
     /\ conns' = [conns EXCEPT ![s] = @ \cup {call[c].conn}]
     /\ Finish(c)
     /\ UNCHANGED <<hash, index, pg, born, known, shaken>>

\* Manager.UnregisterConnection.
UnregisterConnection(c, s, conn) ==
  /\ Idling(c)
  /\ conn \in conns[s]
  /\ conns' = [conns EXCEPT ![s] = @ \ {conn}]
  /\ UNCHANGED <<hash, index, pg, born, known, call, shaken>>

\* The call ends before its next command has an effect.
Abort(c) ==
  /\ ~ Idling(c)
  /\ Finish(c)
  /\ UNCHANGED <<redis, pg, born, known, shaken>>

\* Redis: the TTL of the session key runs out.
Expire(s) ==
  /\ hash[s].ttl
  /\ hash' = [hash EXCEPT ![s] = NoHash]
  /\ UNCHANGED <<conns, index, pg, born, known, call, shaken>>

-----------------------------------------------------------------------------
Start(c, s) ==
  \/ CreateSession(c, s)
  \/ \E event \in Events : TransitionSession(c, s, event)
  \/ UpdateCryptoState(c, s)
  \/ \E conn \in Conns : RegisterConnection(c, s, conn) \/ UnregisterConnection(c, s, conn)

Continue(c) ==
  \/ CreateExpire(c) \/ CreateList(c) \/ PGCreate(c)
  \/ UpdateStatus(c) \/ UpdateLastActive(c) \/ RenewTTL(c) \/ PGUpdateStatus(c)
  \/ DeleteGet(c) \/ DelHash(c) \/ DelConns(c) \/ SRem(c) \/ PGDelete(c)
  \/ AddConnection(c)
  \/ Abort(c)

Next ==
  \/ \E c \in Calls, s \in Sessions : Start(c, s)
  \/ \E c \in Calls : Continue(c)
  \/ \E s \in Sessions : Expire(s)

Spec == Init /\ [][Next]_vars

-----------------------------------------------------------------------------
\* Nobody gets past "connecting" without a successful handshake, whatever
\* calls overlap, are aborted half way, or write to a session that is gone:
\* TransitionSession writes what follows from a status that the session had.
HandshakeFirst ==
  \A s \in Sessions : hash[s].status \in {"active", "sleeping", "expired"} => s \in shaken

\* The pipelines of Create and Delete are no transactions, and may be cut off
\* after any command.  All the same a session that still has its owner has
\* every field of Create; once its id can be had from CreateSession or
\* GetUserSessions it also has a TTL and is listed for its user, whatever
\* updates, deletions and expiries overlap; and if it cannot (CreateSession is
\* under way or was cut off) nobody has given it a status or a connection.
HeldIsComplete ==
  \A s \in Sessions :
    Owned(s) => /\ hash[s].fields = Fields
                /\ IF s \in Held THEN hash[s].ttl /\ s \in index
                   ELSE hash[s].status = "connecting" /\ conns[s] = {}

\* RegisterConnection checks the limit in one command and adds in the next.
\* All calls together exceed it by less than their number; a single caller
\* never does.
ConnectionsBounded ==
  \A s \in Sessions : Cardinality(conns[s]) + 1 <= MaxConnections + Cardinality(Calls)
=============================================================================
