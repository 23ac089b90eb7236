# FProto: a TLA+ verification project

FProto is a messaging protocol and its server: clients speak an encrypted frame
protocol to a gateway, the gateway hands messages to a dispatcher, a transactional
outbox carries them to Kafka, and services behind Kafka store them in inboxes,
execute group commands and push them to connected devices. Session state lives in
Redis and PostgreSQL. Client SDKs in four languages, starter packs in seven and
four example applications come with it. This directory holds TLA+ models of the parts whose
correctness depends on the order in which things happen, the TLC configurations
that check them, and TLAPS proofs of what matters most. `PROJECT.json` maps every
definition to the lines it models and lists runs, mutants, findings, hazards and
theorems.

## 1. The system

Paths are relative to `src/`.

| Part | Code | State | Operations | Model |
|---|---|---|---|---|
| Go client SDK | `sdk/go` | connection, Noise session, closed flag | `Connect`, `ConnectWithReconnect`, `Send`, `Receive`, `Close` | `Client`, `Link` |
| Other SDKs | `sdk/typescript`, `kotlin`, `swift` | socket, queue, waiting calls | `connect`, `receive`, `close`, callbacks | `SocketClients` |
| Gateway, echo server | `server/cmd/gateway`, `echo-server` | one Noise session per connection | accept, handshake, decrypt, dispatch, ack or echo | `Gateway`, `Link` |
| Transports | `proto-core/transport` | sockets, channels of a gRPC stream | `ReadMessage`, `WriteMessage`, `Close`, `Feed`, `Drain` | `Link`, `StreamConn` |
| Connection pool | `proto-core/transport/pool.go` | `ConnPool.conns` | `Add`, `Remove`, `UpdateSeq`, `Best` | `ConnPool` |
| Crypto core | `proto-core/crypto` | cipher states with counter nonces | handshakes, `Encrypt`, `Decrypt` | nonces, in `Link` |
| Crypto handler | `server/internal/cryptogrpc` | map of handshakes in progress | `InitiateHandshake`, `ProcessHandshake` | `CryptoHandler` |
| Dispatcher | `server/internal/dispatcher` | none of its own | `RouteMessage`, `Dispatch` | `Router`, `Routing`, `Outbox` |
| Outbox, relay | `server/internal/outbox` | table `outbox`, the fetched batch | `Insert`, `poll`, `publish`, `sendToDeadLetter` | `Outbox` |
| Kafka wrappers | `server/internal/kafka` | topics (external) | `Send`, topic names | `Outbox`, `Router` |
| Sync service | `server/internal/sync` | dedup keys in Redis, subscribed topics | `DiscoverTopics`, `Run`, `Handle`, `IsDuplicate` | `SyncService` |
| Inbox, offline sync | `server/internal/inbox`, `sync/offline.go` | table `inbox` | `Insert`, `MarkDelivered`, `GetUndelivered`, `GetAfterMessageID`, pages | `SyncService`, `OfflineSync` |
| Session manager | `proto-core/session`, `server/internal/sessiongrpc` | Redis hash, index and connections, PostgreSQL row | `CreateSession`, `TransitionSession`, `UpdateCryptoState`, `RegisterConnection`, `UnregisterConnection` | `Session` |
| Commands, groups | `server/internal/commands`, `groups` | tables `groups`, `group_members` | create, delete, add, remove, ban, settings | `Groups` |
| Sender keys | `server/internal/senderkeys` | chain keys | `Ratchet`, `Encrypt`, `Decrypt`, distribution, rotation | `SenderKeys` |
| Media service | `server/internal/media` | table `media_uploads`, S3 objects (external) | `InitUpload`, `CompleteUpload`, `GetDownloadURL` | `Media` |
| Processes | `server/cmd/*/main.go` | what `main` has opened, calls in flight | start, signal, graceful stop, deferred closes | `Process` |
| Examples | `examples` | order book, readings, game world, hub | the loops of the four servers | `Serving`, `OrderBook`, `Telemetry`, `GameWorld`, `NotifyHub` |
| Starters | `starters` | session status; Node connection | `Transition` in seven languages; Node echo | `Starters` |

### How the parts interact

A client's message takes this path. The client dials, runs the Noise handshake and
sends encrypted frames (`Channel`). The gateway decrypts a frame and calls
`Dispatch`; the dispatcher computes topic and key (`RouteMessage`) and inserts a
row into `outbox`. If that succeeds the gateway answers with an ack, otherwise it
echoes the frame. The relay goroutine of each dispatcher process polls pending
rows every 500 ms, sends them to Kafka and marks them published; a row whose send
or mark fails five times goes to the dead-letter topic (`Outbox`). The sync service
consumes the topics `user-*` and `group-*`, sets a dedup key with SETNX, inserts an
inbox row and pushes to the recipient (`SyncService`); a client that was offline
gets its rows in pages (`OfflineSync`). The command service consumes the topic of
commands and changes groups (`Groups`). The session manager is beside this path: a
gRPC service over a Redis hash, with PostgreSQL as its second store (`Session`). The
remaining parts are called by nothing else in the repository.

### What makes it hard

- Every store call can fail, and can fail after it took effect.
- No call to a store holds a lock over a read and the write derived from it:
  `FetchPending` and the marks, SETNX and insert, `Get` and `UpdateStatus`,
  `GetConnections` and `AddConnection`, `ObjectExists` and `MarkCompleted` are
  separate commands.
- There may be several processes of each service.
- Kafka offsets are never committed (`AutoCommit.Enable = false` and no call of
  `Commit`), so every new claim replays its topic from the oldest message.
- Redis keys expire on their own: dedup keys after 48 hours, session hashes after
  their TTL, but connections and the index of a user's sessions never.
- Noise nonces are counters: the two ends must take them in the same order, over
  failed writes, reconnects and concurrent callers.
- Locks cover less than an operation: `Connect` sets the connection before the
  handshake, `Receive` reads without the lock, Swift's `receive` unlocks between
  its look at the queue and its wait, broadcasts share a read lock.
- A signal may come at any line of `main`.

The list of hazards in `PROJECT.json` gives the line at which each of these bites.

## 2. Modules

| Module | Models | Main abstractions |
|---|---|---|
| `Link` | connections and Noise sessions between a client and the gateway | a packet is type, session key, nonce and message; a connection loses a tail of what was sent |
| `Client`, `Gateway` | the Go SDK; the gateway's listeners and `handleConn` | one application goroutine calls `Receive`, others the rest |
| `Channel` | `Client`, `Link` and `Gateway` together | |
| `Outbox` | `Dispatch`, table, relays, Kafka topics | a message is a model value; the table is a sequence in the order of the commits, a row's id is its index; `created_at` is the number of rows committed when the INSERT began |
| `Delivery` | what `Outbox` promises: accept, deliver, abandon, settle | four sets of messages; no rows, relays or retries |
| `Router`, `Routing` | `RouteMessage`, topic names, the sync handler's `extract*` functions; one message through them | ids are model values, `NoId` is an empty one |
| `SyncService` | discovery, consumer group, claims, dedup, inbox, push | a claim is a (process, topic) pair, as a topic's messages share a key and so a partition |
| `Session` | gRPC handlers, manager, Redis and PostgreSQL stores | the fields of a hash only `Create` writes are one field, `owner`; the status is kept by value |
| `Media`, `Groups`, `OfflineSync` | a service and its table each | sizes, payloads and times are small sets |
| `Stores` | `Groups` or `OfflineSync` | they share nothing |
| `StreamConn`, `ConnPool` | the gRPC stream connections; the pool | a channel is the number of messages in it; `Best` visits the map in any order |
| `Process` | seven `main` functions | `main` is a list of steps with what each defers and does on error |
| `Starters` | seven session machines; Node's connections with the echo example | |
| `Runtime` | one of `StreamConn`, `ConnPool`, `Process`, `Routing`, `Starters` at a time | |
| `CryptoHandler`, `SenderKeys` | handshakes over gRPC; group keys | a key is its id and a number of ratchet steps |
| `Serving`, `OrderBook`, `Telemetry`, `GameWorld`, `NotifyHub` | the example servers and clients | `Serving` is the request loop of three of them |
| `SocketClients` | the TypeScript, Kotlin and Swift clients | each socket has a queue of events its callbacks will see |
| `Standalone` | one of these parts at a time | |
| `ChannelProofs`, `OutboxProofs`, `SyncProofs`, `SessionProofs`, `StoresProofs`, `RuntimeProofs`, `CryptoProofs`, `SocketProofs` | | theorems (section 5) |
| `MC*` | | values of function constants, scenes, symmetry |

In the server modules a step is one call to PostgreSQL, Redis, Kafka, S3 or the
push service, together with the local computation up to the next call. In modules
of concurrent code a step is what runs under one hold of a lock, between two
awaits, or in one callback. The variable `pc` (or the field `pc` of a call) says
which step comes next, so that other processes may step in between any two.

`Stores`, `Runtime` and `Standalone` put parts that do not interact into one
specification: a variable selects the part of a behaviour, and the others stay in
one initial state. The state space is the sum of the parts' and not their product.

**Channel.** `Connect`, `Dial`, `WriteInit`, `Established` and `HandshakeFails` are
the steps of `Connect` under the mutex, `Backoff` and `Cancel` the wait of
`ConnectWithReconnect`, with its configuration and the delay kept as the code computes
it; a configuration without `InitialDelay` is replaced by `DefaultReconnectConfig`. `Send` takes
session and connection as they are (after a failed handshake they are of different
calls of `Connect`) and panics without a session. `Receive` copies both and reads
later. On the other side `Upgrade`, `AcceptQUIC`, `AcceptStream` and
`AcceptStreamFails` are the listeners; `AnswerInit` and `Finish` the handshake;
`ReadMessage`, `Dispatch`, `DispatchFails`, `Echo` and `WriteFailsAndReturns` the loop. `Cut`
and `IdleTimeout` are the network.

**Outbox.** `DispatchUnroutable` is a message without a route. `DispatchBegins` starts
the INSERT, which takes its `created_at` then, so that inserts of concurrent calls
may commit in another order; `DispatchAccept`, `DispatchConflict` and `DispatchFault`
are its outcomes: committed, refused by the UNIQUE constraint on `message_id`, failed
with or without effect. `FetchPending` may return rows whose inserts overlapped in
either order (`Precedes`, `Oldest`). `Poll` is a tick
of `Run` with `FetchPending`; then for each entry `SendOk` or `SendFail`,
`MarkPublished` or `MarkPublishedFail`, and on failure `IncrementRetry`, or
`SendToDeadLetter` and `MarkFailed`. `Crash` forgets the batch.

**SyncService.** `Start` and `Open` are `main` and `New` with the single call of
`DiscoverTopics`. `Assign`, `Rebalance` and `Revoke` are the consumer group: after a
rebalance the old claim may still be inside `Handle` while the new one begins.
`FirstSight`, `Duplicate` and `DedupFail` are the outcomes of SETNX, `InsertOk`,
`InsertReject` and `InsertFail` those of the insert: a row is refused when the
sender is nil, because the column is NOT NULL. A failing push changes nothing the
model sees, so `Push` covers it. `MarkMessage` has no effect, as marked offsets
are never committed. Messages that cannot be unmarshalled are left out.

**Session.** `Start(c, s)` is a gRPC call reaching the manager, `Continue(c)` its
later store calls, `Abort` the failure of a call or the end of its process,
`Expire` the TTL of a session hash. Pipelines are one step per command (`Following`):
`client.Pipeline()` is no transaction, other clients' commands come between and a
broken connection cuts it off. HSET on a missing key makes a hash that has just that field and no TTL. `Create` passes a nil
`CryptoState`, which pgx encodes as NULL; the column is NOT NULL, so `PGCreate`
always fails and the table stays empty. What its `crypto_state` would hold is
therefore not modelled. `Durable` is the set of calls that reach a manager with a
PostgreSQL store.

**Media, Groups, OfflineSync.** `CompleteUpload` is three steps (row, object, mark),
and the client may `Put` the object at any time its URL allows. `s3_url` is NULL
until an upload is completed and `GetByStreamID` scans it into a string, which pgx
refuses: no upload is ever completed, and only the run of section 4 is about it. In
`Groups` the topic is fixed at the start, each type of command has its own position
in it (the key is the type), and `Claim` starts all over. `OfflineSync` has inserts
that take `created_at` when they begin and become visible when they commit.

**StreamConn, ConnPool, Process.** A `select` with several ready cases takes any of
them. A stream connection has callers of `ReadMessage` and `WriteMessage` and pumps
that call `Feed` and `Drain`; the pumps are not in the repository, so any goroutine
may make any of the four calls at any time, and waits in it until its channel is ready
or the connection is closed. A step of `main`
that fails ends the process (`logger.Fatal`) or is passed over (a warning), as in
the code; `Return` and `CloseDeferred` run the deferred calls, last one first.

**SenderKeys.** The server changes the group (`RemoveMember`, `AddMember`) and tells the
sender with a rotation event, on which the sender later acts as `NeedsFullRotation`
and `NeedsDistribution` say (`Rotate`, `Welcome`). `Encrypt` returns the next chain key and
does not change the `SenderKey`. Its callers are not in the repository; `stores` says
whether they put that key into the `SenderKey`, from which `ToDistribution` takes it.
If they do not, a new member gets the first chain key and can read what was sent
before; the properties are about callers that do.

**NotifyHub.** `Ends` is the end of a subscriber's connection: what is under way is
lost, the next write fails and is passed over, and `handleClient` removes the
subscriber when it gets the lock. `Encrypt` and `WriteMessage` of a broadcast are
two steps, between which another broadcast may come.

**SocketClients.** `DialEnds`, `Breaks` and `ServerSends` put events into a socket's
queue, `OnOpen`, `OnEnd`, `OnOther` and `OnMessage` are the callbacks, `Receive`, `Suspend` (Swift's
second lock) and `Poll` (Kotlin) the calls of the application. TypeScript has a queue
per transport, the other two one per client.

**Starters.** `PortsStep` gives one event to the machine of each of the seven languages.
Node's `readMessage` returns a promise, which a message or the end of the connection
resolves; `EchoStep` is one turn of the event loop of a program.

## 3. Runs that pass

| Run | Instance | Properties |
|---|---|---|
| `channel` | WebSocket and QUIC, a dispatcher, 2 connections, 2 messages (a frame and other data); three scenes: one connect with 1 fault; reconnects, with 1 fault and a send or none and 2; dials that fail up to 5 times, with 4 configurations (capped, first delay above the cap, multiplier 1, no first delay); fair | `AnswersInOrder`, `NoncesAgree`, `DelayIsNextDelay`, `ConnectReturns`, `SentIsAnswered` |
| `outbox` | five scenes, each with messages for one user (m1, m2), for an unavailable topic (m3) or without route (m4): 1 relay, m1, m2, m3 in batches of 2, 1 fault; 1 relay, m1, m2, 2 faults; 2 relays, m1, m3, 1 fault; 2 relays, m1 and m2 dispatched at once, 1 fault; 1 relay, m3, m4, 1 fault; fair | `NothingLost`, `DeadLetterOnlyExhausted`, `DuplicateNeedsFault`, `OvertakenOnlyAfterFailure`, `ImplementsDelivery`, `AcceptedReachesKafka` |
| `sync` | 2 processes, two scenes: a chat and a signaling message, 2 copies of each, 1 expiry, 1 fault; 2 chat messages and 1 group message, 2 faults; fair | `LostOnlyByFailure`, `InboxSound`, `PushedOncePerKey`, `OrderNeedsFault`, `EventuallyStored` |
| `session` | 1 session, 3 connections, limit 1, 2 calls at a time, one with PostgreSQL, all events | `HandshakeFirst`, `HeldIsComplete`, `ConnectionsBounded`, `StatusSteps` |
| `stores` | 4 commands of any kind about 1 user, 2 failures; 3 inbox entries, pages of 1, 2 calls of the offline sync | `MembershipAsIssued`, `MissedForCause` |
| `runtime` | channels of 2, 3 goroutines; pool of 2 for 3 ids; 7 programs with 2 calls and 1 failing step; all message bodies over 2 users and a group; 7 session machines; 3 echoes; fair | `BestIsBest`, `UsedWhileOpen`, `RowMatchesMessage`, `ConversationInOnePartition`, `PortsAgree`, `CloseReleases`, `SignalEnds`, `EchoEnds` |
| `standalone` | 3 calls on a handshake; group of 2, 2 keys, 3 messages, 2 rotation events on their way, 1 fault; 2 clients of each example, started twice (of the traders one); 2 subscribers, 2 broadcasts; 2 sockets, 2 receivers, 2 messages for each SDK | `OneExchange`, `ReadersWereMembers`, `UnreadForCause`, `AcknowledgedIsKept`, `KillsCredited`, `ListenersReached`, `HandedInOrder`, `NoMissedWakeup`, `FlagIsTold` |

What they show:

- Between client and gateway the two ends' nonces never part, over failed
  handshakes, reconnects and broken connections; answers come in the order of the
  messages; an ack means that the dispatcher has the message; a handshake that has
  begun ends, because the idle timeout frees a blocked accept loop.
- Between `Dispatch` and Kafka no acknowledged message is lost and none is given up
  before `MaxRetries` failed attempts, whatever relays do to each other's rows; a message
  is overtaken by one dispatched after its ack only if an attempt to publish it failed.
  Dispatcher, table, relays and topics together implement `Delivery`: messages are
  accepted once, stay due until they are in their topic or in the dead-letter topic,
  and what is settled never becomes due again.
- Between Kafka and the inbox a message is lost only if a `Handle` of it failed or
  was cut off; inboxes hold no duplicates; a message is pushed at most once per life
  of its dedup key.
- No session gets past `connecting` without a handshake even when calls overlap, and
  overlapping calls exceed the limit on connections by at most the number of calls
  minus one. Pipelines that are cut off leave no session that callers can have without
  fields, TTL or a place in its user's list. A status change outside the diagram needs two calls that overlapped.
- The members of a group are as issued over replays, unless a command
  failed or was overtaken. The offline sync returns nothing twice and misses only what
  `MissedForCause` lists.
- In every service but the gateway calls in flight are answered before what they
  use is closed, whenever the signal comes; and a signal always ends the process. `Close`
  of a stream connection gets every waiting call out of it.
- Group messages are read only by users whom the sender took for members; a member fails to read one
  only when a message was lost or a key came late or early, and doubled ones do no harm. A handshake of the crypto
  handler is one exchange unless two calls for it overlap. A broadcast reaches every
  listener whose connection lives, although others end; only a subscriber in whose session
  two broadcasts met may be cut off. The SDK clients hand messages out in order, but for a gap
  between Swift's two locks.

**Bounds.** Two relays, processes, calls, broadcasts or receivers are what a race in
this code needs, since each race is between a read of one actor and a write of
another; three calls on a handshake let two overlap after a first. Two messages of
one topic, connection or socket are what a change of order needs, two connections
what a stale one needs. `MaxRetries` is 2 where the code's value is 5: only "below
the limit" and "at the limit" matter; in the same way `Capacity` is 2 for 16, `Keep` 2
for 1000 and `Hits` 2 for 10. `MaxFaults` and `MaxFailures` bound failing calls, rebalances and stops;
`MaxCopies` how often relays publish a message; `MaxExpiries` the expiries of a
dedup key; `MaxDials`, `MaxSends`, `MaxSent`, `MaxSockets`, `MaxRuns`,
`MaxMessages`, `MaxKeys`, `MaxEvents`, `MaxCommands` and `MaxSyncs` what applications do; `MaxClock` and `MaxSeq`
the values of a clock and a counter. `Session` needs no such bound: an aborted call
leaves no trace but its effects. Three connections with a limit of one let the
limit be exceeded by two if the code allowed it. A delay that starts at 2, doubles
and is capped at 3 meets the cap on the second repetition, and five failed dials bring
the default configuration (1, 2, 4, 8, 16) to its fifth wait. The scenes of `MCChannel`,
`MCOutbox` and `MCStandalone` restrict only what nothing forces to happen: which calls
are made, how many faults there are, and what a second, equal user, subscriber or
receiver does.

**Deadlock** is checked in `outbox`, where the relays poll for ever. Everywhere else
the system really stops: an application has made its calls, topics are read to
their end, a process has exited, a session is gone.

**Fairness.** Only steps that the code's own scheduling brings about are fair, each
weakly.
`Outbox`: each relay's steps, as the ticker of `Run` fires for ever and every call
returns. `SyncService`: each claim's handling and the group's assignments, as `Run`
calls `Consume` in a loop. `Channel`: the goroutines of client and gateway, the
application's loop around `Receive`, the listeners, and QUIC's idle timeout.
`Runtime`: the calls that wait in a `select` with a ready case, the goroutines of a process with its calls and the database's answers,
the event loops of Node. Faults, senders, signals, expiries and the start of processes are not
fair. Faults are finitely many by their bound, which is the assumption that
failures stop some day.

## 4. Runs that end in a violation

Each states what a document, comment or test says and shows that the code does
otherwise. The findings in `PROJECT.json` quote the lines.

| Run | Property | What happens |
|---|---|---|
| `outbox_no_lock` | `PublishedOnce` | two relays publish one row, as `FetchPending` locks nothing |
| `routing_group` | `GroupMessageDelivered` | a group message has no recipient and is skipped |
| `sync_discovery` | `TopicsDiscovered` | topics made after the start are never consumed |
| `session_final` | `ExpiredIsFinal` | an overlapping call overwrites `expired` |
| `media_uploads` | `NotFoundMeansMissing` | the row of an upload in progress cannot be scanned, and is reported as not found |

Other behaviours of the code that the models contain, and that the properties of
the passing runs are worded around:

Messages and stores

- A failed attempt lets a later message overtake (`OvertakenOnlyAfterFailure`), and
  a topic that changes hands lets the old and the new claim insert in the wrong
  order (`OrderNeedsFault` of `SyncService`).
- After five failed polls a message is in the dead-letter topic only
  (`AcceptedReachesKafka` has that alternative).
- The dedup key is set before the insert, where `docs/LLD.md` (lines 605 and 611)
  has the insert first: a message whose insert fails is a duplicate from then on
  (`LostOnlyByFailure`).
- A signaling message has no sender for the sync handler, so its row is refused
  (`Reject`, `InsertReject`).
- A replay after the expiry of a dedup key pushes again (`PushedOncePerKey`).
- Overlapping `RegisterConnection` calls exceed the limit (`ConnectionsBounded`).
- HSET on an expired session leaves a hash without TTL and without owner, and a
  `Create` cut off after its first command one without TTL that nobody can name
  (`HeldIsComplete`). Connections and index outlive the hash.
- With a PostgreSQL store `CreateSession` fails after Redis holds the session.
- `statusToEvent` has no event that wakes a sleeping session.
- Go's machine returns an empty status for a destroyed session, where the comment on
  `Transition` and the ports say `StatusExpired` (`PortsAgree` leaves that status out).
- Commands of different types overtake each other, and a failed one is passed over
  (`MembershipAsIssued`). The cursor of the offline sync skips equal times and late
  commits (`MissedForCause`).

Processes

- The gateway waits for no connection on SIGTERM, where section 5.4 of
  `docs/Network-Architecture.md` describes a drain (`UsedWhileOpen` excepts it). A signal
  before `signal.Notify` kills the process; one between it and `Serve` ends in
  `logger.Fatal`.
- The dispatcher closes its producer while the relay may still send, which panics;
  `UsedWhileOpen` says only that no call is left unanswered then.
- Without topics the `Run` of the sync service returns after five seconds, where its
  comment says "Blocks until ctx is cancelled", and `main` logs "will retry" but does not.
- `AcceptQUIC` waits for a stream inside the accept loop (`ConnectReturns` rests on the
  idle timeout).

Clients

- Go: `Send` panics after a first `Connect` that failed in the handshake. `Connect` does
  not close the connection it replaces, on which a `Receive` stays. `Close` during a
  backoff does not stop `ConnectWithReconnect`. An `InitialDelay` of 0 discards the
  whole `ReconnectConfig`, and one above `MaxDelay` is waited once before the cap holds,
  unlike `NextDelay(0)` (`DelayIsNextDelay`).
- Swift: a message that comes between the two locks of `receive` waits for the next
  call; an error after the open resumes the continuation of `connect` twice; a
  client closed while connecting waits for ever.
- Kotlin: late callbacks of an old socket clear `isConnected`; a latch that times out
  is taken for success.
- TypeScript: `close` forgets a transport that a concurrent `connect` has set;
  `isConnected` is true after a failed `connect`; calls waiting in `receive` are never
  rejected.
- Node starter: a waiting `readMessage` resolves with an empty buffer on close.

## 5. Proofs

The theorems hold for every value of the constants that satisfies the named
assumptions of the modules (`OutboxAssumption`, `SyncAssumption`, `LinkAssumption` and
so on): functions have their domains, "none" values are none of the real ones,
bounds are naturals, relays, processes and entries are finitely many where the
property counts them. Each proof has the usual three parts: the initial states
satisfy an inductive invariant, every action preserves it, and it implies the
property. What follows is why the property alone is not inductive.

- **`ChannelProofs`**: `ChannelSafe`, `ChannelAnswersInOrder`, `ChannelNoncesAgree`.
  `ChannelInv` says of each connection what is on the wires at each point of
  `handleConn` and of `Connect` (`Inbound`, `Outbound`), that the counters are the lengths
  of the histories (`Counted`), and when `c.conn` and `c.session` belong together
  (`FieldsMatch`): without that a `Send` or a `Receive` could mix two connections.
  A step about one connection does nothing to the others but lose what is on their
  wires (`KeepsAgreeing`).
- **`OutboxProofs`**: `OutboxTyped`, `OutboxNothingLost`, `OutboxDeadLetterOnlyExhausted`,
  `OutboxImplementsDelivery`, `OutboxOvertakenOnlyAfterFailure`, `OutboxDuplicateNeedsFault`.
  `NothingLost` is not inductive: `MarkPublished` needs to know that its own `Send` has
  happened. `IInv` adds what each relay knows at its `pc` (`RelayOK`: its entry is a row;
  before `mark` the topic holds the message; before `fail` the dead-letter topic does; in
  `dead` the attempts are exhausted) and that a row's retry count is at most the attempts
  made (`RowInv`). That knowledge survives the steps of other relays because logs, the
  table, and retry counts only grow (`Grows`). For the refinement, `D` maps the rows to
  what is accepted and due, and the topics to what is delivered and abandoned; each
  action is shown to be a step of `Delivery` or to leave the four sets alone. `Settle`
  needs `IInv`: a mark is a legal step only because the message is in a topic by then.
  For the order, a relay has tried all rows that precede its entry, and what precedes
  another row of its batch has been tried or is in the batch too (`InTurn`). For the duplicates, every relay that may still publish a row is
  counted as a copy already made (`Could`, `CopyOK`): a relay uses up its place by
  publishing, and only a fault gives it a new one.
- **`SyncProofs`**: `SyncTyped`, `SyncLostOnlyByFailure`, `SyncPushedIsStored`, `SyncInboxSound`,
  `SyncOrderNeedsFault`, `SyncPushedOncePerKey`. `SInv` adds to the properties what each
  claim knows: past the dedup check its message is in the log and has a recipient, and at
  `push` it is stored; and that a topic holds only messages published to it. For the order,
  the only claim of a topic has stored what it has passed and nothing else of the topic
  is stored (`Swept`). For the pushes, claims that have passed the check and have yet
  to push are counted against the lives of the key (`KeyInv`).
- **`SessionProofs`**: `SessionTyped`, `SessionHandshakeFirst`, `SessionHeldIsComplete`,
  `SessionConnectionsBounded`. `SInv` adds what a call in progress knows of the status it
  has read: it may write only a status that is legal for a session with a handshake, even
  if the session has changed since. It also says how far the pipelines of `Create` and
  `Delete` under way have come (`CallOK`), and that no step gives a session an owner again
  or takes its TTL and leaves the owner (`Keeps`). The bound on connections needs counting: `CapInv`
  takes each call between check and `AddConnection` for a connection that is there already.
- **`StoresProofs`**: `GroupsMembershipAsIssued`, `OfflineMissedForCause`. `GInv` says that nothing read about a user comes after the command
  last executed about them, which decides whether they are a member. `OInv` says that the
  client has got what is not after its cursor, but for a cause.
- **`RuntimeProofs`**: `PoolTyped`, `PoolStaysBounded`, `PoolBestIsBest`, `ProcessUsedWhileOpen`,
  `RoutingRowMatchesMessage`, `RoutingConversationInOnePartition`, `PortsAlwaysAgree`.
  `BestSoFar` says that the choice of `Best` is as good as every entry it has visited, for
  any order of the visits. `UsedWhileOpen` is proved from the shape that all seven `main`
  functions have (`Shape`: the last step blocks, and what the handlers need is there before
  it) and from when calls may run (`CallsInv`).
- **`CryptoProofs`**: `SenderReadersWereMembers`, `SenderReadWithoutGap`, `SenderUnreadForCause`,
  `HandlerInvariant`, `HandlerOneExchange`. Who can read is not inductive, as keys are
  under way: `SKInv` says that every key a user has or will get is `Good`, that is, leads
  to no message encrypted while the sender did not take the user for a member; the steps
  of the server touch none of this (`ServerFrame`). For the second, the last
  message read is the one just before the user's chain key; for the third, from the
  chain key and every key on its way the messages of that key follow without a gap
  (`LeadsOn`), unless there is an excuse. `HandlerInv` ties the index of a handshake to the
  messages written, read and brought (`ExchangeOK`, `OnceOK`).
- **`SocketProofs`**: `SocketsNoMissedWakeup`, `SocketsFlagIsTold`, `SocketsHandedInOrder`, for any
  number of sockets and receivers. Of the messages of a socket the calls of `receive` have
  the first, the queue the next and the callbacks to come the rest (`Chain`).

Only model-checked:

- the liveness properties (`AcceptedReachesKafka`, `EventuallyStored`, `ConnectReturns`,
  `SentIsAnswered`, `CloseReleases`, `SignalEnds`, `EchoEnds`), which need fairness and are
  out of the prover's reach;
- `DelayIsNextDelay`, which compares a repeated doubling with a power, and `KillsCredited`,
  which sums over the players: both need induction over data, which is out of its
  reach too;
- `StatusSteps`, which is about the history variable of `MCSession`, and
  `AcknowledgedIsKept` and `ListenersReached` of the examples, whose proofs have not been
  written.

## 6. What is not modelled

- Functions on bytes that keep no state: AEAD, rekeying and zeroing in
  `proto-core/crypto`, the `Encrypt`, `Decrypt` and `Rekey` calls of the crypto handler,
  the crypto ports of the starters. Cryptographic primitives are library code, and
  payloads are opaque. The crypto state in a handshake's answer is random bytes
  (`serializeCipherStates`), so nothing can be said of its use.
- What nothing calls: Kafka's `ConsumerGroup` wrapper, the Redis cache of sender keys,
  `RatchetN`, `GetHistory`, `MarkRead` and `Count` of the inbox, `MarkFailed` of the media store.
- Handshakes of the crypto handler that are never finished stay in its map; no code
  removes them, and the model has only the ones it bounds.
- `send` of the TypeScript, Kotlin and Swift SDKs, which changes no state, and the
  length of their reconnect delays.
- The echo programs of the starters other than Node, which do what `EchoConn` of
  `Gateway` does, over the transports of their languages.
- Fractional multipliers of a `ReconnectConfig`: delays and multipliers are whole numbers.
- A peer that stays alive and never answers: without a deadline a `Connect` would wait
  in its handshake for ever.
- Rotation by the timer (`RotationTimerExpired`), which neither `NeedsFullRotation` nor
  `NeedsDistribution` asks anything for.
- Observability, configuration, TLS, deployment and generated code.
- Kafka's and sarama's own protocols are represented by what the code sees of them:
  appended messages, claims that begin at the oldest message, rebalances.

## 7. Where to go on

1. `Outbox` and `SyncService` composed over shared topics, with `Delivery` extended to
   the inbox (stored at most once, pushed at least once unless failed). The two are
   checked apart now: `SyncService` takes up to `MaxCopies` publications of a message,
   in any order, from what `Outbox` shows a relay may do.
2. `ListenersReached`, `AcknowledgedIsKept` and `StatusSteps` as theorems.
3. Liveness of the SDK clients.
