---------------------------- MODULE SocketClients ----------------------------
(***************************************************************************)
(* The clients of the TypeScript, Kotlin and Swift SDKs.  Each wraps a     *)
(* WebSocket library that runs callbacks: on the one thread of JavaScript, *)
(* on a thread for each socket in Kotlin, on a queue of its own in Swift.  *)
(* A client may connect again (connectWithReconnect does so after a        *)
(* failure) without closing its old socket, whose callbacks still come.    *)
(***************************************************************************)
EXTENDS Naturals, Sequences

LOCAL INSTANCE Functions

CONSTANTS
  Receivers,   \* calls of receive at the same time
  MaxSockets,  \* sockets a client makes
  MaxSent      \* messages the server sends on all of them

ASSUME SocketAssumption == MaxSockets \in Nat \ {0} /\ MaxSent \in Nat

Sockets == 1 .. MaxSockets
NoSocket == 0

VARIABLES
  sdk,        \* the language
  current,    \* the socket in the client's field
  shut,       \* TypeScript: closed
  closing,    \* TypeScript: a call of close awaits the transport
  released,   \* the sockets the client has closed
  connected,  \* Kotlin, Swift: isConnected
  connect,    \* the call of connect: its socket and how far it is
  link,       \* each socket, as the network has it
  events,     \* the callbacks to come
  inbox,      \* messageQueue
  waiters,    \* waiters, continuations
  receiver,   \* the calls of receive
  trapped,    \* Swift: a continuation was resumed twice
  told,       \* history: what the callbacks have said of each socket
  handed,     \* history: the messages of each socket in the order receive got them
  slipped,    \* history: a message came between the two locks of Swift's receive
  stale,      \* history: an older socket's callback has cleared isConnected
  crossed  \* history: connect and close have been under way together

sockets == <<sdk, current, shut, closing, released, connected, connect, link, events, inbox,
             waiters, receiver, trapped, told, handed, slipped, stale, crossed>>

closeVars == <<closing, released, crossed>>

SocketsInit ==
  /\ sdk \in {"typescript", "kotlin", "swift"}
  /\ current = NoSocket /\ shut = FALSE /\ connected = FALSE
  /\ closing = FALSE /\ released = {} /\ crossed = FALSE
  /\ connect = [socket |-> NoSocket, state |-> "idle"]
  /\ link = [s \in Sockets |-> [phase |-> "none", sent |-> 0]]
  /\ events = [s \in Sockets |-> <<>>]
  /\ inbox = [s \in Sockets |-> <<>>] /\ waiters = [s \in Sockets |-> <<>>]
  /\ receiver = [r \in Receivers |-> "idle"]
  /\ trapped = FALSE
  /\ told = [s \in Sockets |-> "none"]
  /\ handed = [s \in Sockets |-> <<>>]
  /\ slipped = FALSE /\ stale = FALSE

\* A TypeScript transport has a queue of its own, the others one for all sockets.
Box(s) == IF sdk = "typescript" THEN s ELSE 1

-----------------------------------------------------------------------------
(***************************************************************************)
(* The network and the library.                                            *)
(***************************************************************************)
Happens(s, from, to, e) ==
  /\ link[s].phase = from
  /\ link' = [link EXCEPT ![s].phase = to]
  /\ events' = [events EXCEPT ![s] = Append(@, e)]
  /\ UNCHANGED <<sdk, current, shut, closeVars, connected, connect, inbox, waiters, receiver, trapped,
                 told, handed, slipped, stale>>

DialEnds(s) ==
  Happens(s, "opening", "open", [type |-> "open"]) \/ Happens(s, "opening", "over", [type |-> "error"])

\* OkHttp calls onClosed only for a socket that its client has closed as well.
Breaks(s) ==
  \E e \in {"error", "other"} \union (IF sdk # "kotlin" \/ s \in released THEN {"closed"} ELSE {}) :
    Happens(s, "open", "over", [type |-> e])

ServerSends(s) ==
  /\ link[s].phase = "open"
  /\ SumFunction([i \in Sockets |-> link[i].sent]) < MaxSent
  /\ link' = [link EXCEPT ![s].sent = @ + 1]
  /\ events' = [events EXCEPT ![s] = Append(@, [type |-> "message", n |-> link[s].sent + 1])]
  /\ UNCHANGED <<sdk, current, shut, closeVars, connected, connect, inbox, waiters, receiver, trapped,
                 told, handed, slipped, stale>>

-----------------------------------------------------------------------------
(***************************************************************************)
(* connect and close.                                                      *)
(***************************************************************************)
Dial ==
  /\ ~ trapped /\ connect.state = "idle" /\ connect.socket < MaxSockets
  /\ LET s == connect.socket + 1
     IN /\ connect' = [socket |-> s, state |-> "waiting"]
        /\ current' = s
        /\ link' = [link EXCEPT ![s].phase = "opening"]
  /\ crossed' = (crossed \/ closing)
  /\ UNCHANGED <<sdk, shut, closing, released, connected, events, inbox, waiters, receiver, trapped, told, handed,
                 slipped, stale>>

\* connect returns, or throws; Kotlin's also returns when its latch has timed
\* out.
ConnectReturns ==
  /\ ~ trapped
  /\ connect.state \in {"opened", "failed"} \/ (sdk = "kotlin" /\ connect.state = "waiting")
  /\ connect' = [connect EXCEPT !.state = "idle"]
  /\ shut' = (shut /\ connect.state # "opened")
  /\ UNCHANGED <<sdk, current, closeVars, connected, link, events, inbox, waiters, receiver, trapped, told,
                 handed, slipped, stale>>

\* A socket that is opening is given up: the ws library reports an error,
\* Starscream an event that connect ignores; OkHttp opens it first.
GiveUp(s) ==
  IF s # NoSocket /\ link[s].phase = "opening" /\ sdk # "kotlin"
  THEN /\ link' = [link EXCEPT ![s].phase = "over"]
       /\ events' = [events EXCEPT ![s] = Append(@, [type |-> IF sdk = "swift" THEN "other" ELSE "error"])]
  ELSE UNCHANGED <<link, events>>

\* close, in TypeScript up to its await.
CloseClient ==
  /\ ~ trapped /\ ~ closing
  /\ shut' = TRUE
  /\ closing' = (sdk = "typescript" /\ current # NoSocket)
  /\ current' = IF sdk = "typescript" THEN current ELSE NoSocket
  /\ connected' = FALSE
  /\ released' = released \union ({current} \ {NoSocket})
  /\ crossed' = (crossed \/ connect.state # "idle")
  /\ GiveUp(current)
  /\ UNCHANGED <<sdk, connect, inbox, waiters, receiver, trapped, told, handed, slipped, stale>>

\* TypeScript: what is the transport by now is forgotten.
CloseReturns ==
  /\ closing
  /\ closing' = FALSE /\ current' = NoSocket
  /\ UNCHANGED <<sdk, shut, released, connected, connect, link, events, inbox, waiters, receiver,
                 trapped, told, handed, slipped, stale, crossed>>

-----------------------------------------------------------------------------
(***************************************************************************)
(* The callbacks.                                                          *)
(***************************************************************************)
Callback(s, type) ==
  /\ ~ trapped
  /\ events[s] # <<>> /\ Head(events[s]).type = type
  /\ events' = [events EXCEPT ![s] = Tail(@)]
  /\ UNCHANGED <<sdk, current, shut, closeVars, link, slipped>>

Awaited(s, states) == connect.socket = s /\ connect.state \in states

OnOpen(s) ==
  /\ Callback(s, "open")
  /\ connected' = TRUE
  /\ told' = [told EXCEPT ![s] = "open"]
  /\ connect' = IF Awaited(s, {"waiting"}) THEN [connect EXCEPT !.state = "opened"] ELSE connect
  /\ UNCHANGED <<inbox, waiters, receiver, trapped, handed, stale>>

\* Mutant: isConnected is not cleared.
OnEndUncleared(s, type) ==
  /\ Callback(s, type)
  /\ told' = [told EXCEPT ![s] = "over"]
  /\ connect' = IF type = "error" /\ Awaited(s, {"waiting"})
                THEN [connect EXCEPT !.state = "failed"] ELSE connect
  /\ UNCHANGED <<connected, stale, inbox, waiters, receiver, handed, trapped>>

\* The socket fails or is closed.  A connect that waits for it throws, and
\* Kotlin's throws also when the socket has opened before and the thread has
\* not gone on.  Swift's connect has been resumed already: the second time the
\* process traps.
OnEnd(s, type) ==
  /\ Callback(s, type)
  /\ told' = [told EXCEPT ![s] = "over"]
  /\ connected' = FALSE
  /\ stale' = (stale \/ s # current)
  /\ connect' = IF type = "error" /\ Awaited(s, IF sdk = "kotlin" THEN {"waiting", "opened"} ELSE {"waiting"})
                THEN [connect EXCEPT !.state = "failed"] ELSE connect
  /\ trapped' = (sdk = "swift" /\ type = "error" /\ told[s] = "open")
  /\ UNCHANGED <<inbox, waiters, receiver, handed>>

OnOther(s) ==
  /\ Callback(s, "other")
  /\ UNCHANGED <<connected, connect, inbox, waiters, receiver, trapped, told, handed, stale>>

Hand(m) == handed' = [handed EXCEPT ![m.socket] = Append(@, m.n)]

\* Mutant: the queue is filled without a look at the waiters.
OnMessageQueues(s) ==
  /\ Callback(s, "message")
  /\ inbox' = [inbox EXCEPT ![Box(s)] = Append(@, [socket |-> s, n |-> Head(events[s]).n])]
  /\ UNCHANGED <<connected, connect, waiters, receiver, trapped, told, handed, stale>>

\* A message goes to the first one who waits, or to the queue.
OnMessage(s) ==
  /\ Callback(s, "message")
  /\ LET m == [socket |-> s, n |-> Head(events[s]).n]
         b == Box(s)
     IN IF waiters[b] # <<>>
        THEN /\ waiters' = [waiters EXCEPT ![b] = Tail(@)]
             /\ receiver' = [receiver EXCEPT ![Head(waiters[b])] = "idle"]
             /\ Hand(m)
             /\ UNCHANGED inbox
        ELSE /\ inbox' = [inbox EXCEPT ![b] = Append(@, m)]
             /\ UNCHANGED <<waiters, receiver, handed>>
  /\ UNCHANGED <<connected, connect, trapped, told, stale>>

-----------------------------------------------------------------------------
(***************************************************************************)
(* receive.                                                                *)
(***************************************************************************)
\* The message at the head of the queue is taken.
Take(b) ==
  /\ Hand(Head(inbox[b]))
  /\ inbox' = [inbox EXCEPT ![b] = Tail(@)]

\* Mutant: the last message is taken.
ReceiveLast(r) ==
  /\ ~ trapped /\ receiver[r] = "idle"
  /\ sdk = "typescript" => current # NoSocket /\ ~ shut
  /\ LET b == Box(current)
     IN /\ inbox[b] # <<>>
        /\ Hand(inbox[b][Len(inbox[b])])
        /\ inbox' = [inbox EXCEPT ![b] = SubSeq(@, 1, Len(@) - 1)]
        /\ UNCHANGED <<receiver, waiters>>
  /\ UNCHANGED <<sdk, current, shut, closeVars, connected, connect, link, events, trapped, told, slipped, stale>>

\* receive: TypeScript refuses without a connection.  With an empty queue it
\* waits at once, Kotlin polls, and Swift has yet to take its lock again.
Receive(r) ==
  /\ ~ trapped /\ receiver[r] = "idle"
  /\ sdk = "typescript" => current # NoSocket /\ ~ shut
  /\ LET b == Box(current)
     IN IF inbox[b] # <<>>
        THEN Take(b) /\ UNCHANGED <<receiver, waiters>>
        ELSE /\ receiver' = [receiver EXCEPT ![r] = CASE sdk = "typescript" -> "waiting"
                                                      [] sdk = "kotlin" -> "polling"
                                                      [] sdk = "swift" -> "unlocked"]
             /\ waiters' = IF sdk = "typescript" THEN [waiters EXCEPT ![b] = Append(@, r)] ELSE waiters
             /\ UNCHANGED <<inbox, handed>>
  /\ UNCHANGED <<sdk, current, shut, closeVars, connected, connect, link, events, trapped, told, slipped, stale>>

\* Swift: the continuation is appended, whatever is in the queue by now.
Suspend(r) ==
  /\ ~ trapped /\ receiver[r] = "unlocked"
  /\ receiver' = [receiver EXCEPT ![r] = "waiting"]
  /\ waiters' = [waiters EXCEPT ![1] = Append(@, r)]
  /\ slipped' = (slipped \/ inbox[1] # <<>>)
  /\ UNCHANGED <<sdk, current, shut, closeVars, connected, connect, link, events, inbox, trapped, told, handed, stale>>

\* Kotlin: poll returns a message, or nothing after its timeout.
Poll(r) ==
  /\ receiver[r] = "polling"
  /\ receiver' = [receiver EXCEPT ![r] = "idle"]
  /\ IF inbox[1] # <<>> THEN Take(1) ELSE UNCHANGED <<inbox, handed>>
  /\ UNCHANGED <<sdk, current, shut, closeVars, connected, connect, link, events, waiters, trapped, told, slipped, stale>>

OnAnyEnd(s) == \E type \in {"error", "closed"} : OnEnd(s, type)

Callbacks(s) == OnOpen(s) \/ OnAnyEnd(s) \/ OnOther(s) \/ OnMessage(s)

SocketsNext ==
  \/ Dial \/ ConnectReturns \/ CloseClient \/ CloseReturns
  \/ \E s \in Sockets : DialEnds(s) \/ Breaks(s) \/ ServerSends(s) \/ Callbacks(s)
  \/ \E r \in Receivers : Receive(r) \/ Suspend(r) \/ Poll(r)

SocketsSpec == SocketsInit /\ [][SocketsNext]_sockets

-----------------------------------------------------------------------------
\* The messages of a socket are handed to the calls of receive in the order
\* they came, none left out, however many calls wait and whichever sockets
\* follow, unless one came between the two locks of Swift's receive.
HandedInOrder ==
  slipped \/ \A s \in Sockets : \A i \in 1 .. Len(handed[s]) : handed[s][i] = i

\* Nobody waits while a message is queued that they could have, unless it came
\* between the two locks of Swift's receive.
NoMissedWakeup == slipped \/ \A s \in Sockets : waiters[s] = <<>> \/ inbox[s] = <<>>

\* isConnected (Kotlin, Swift) is set only while the callbacks have reported an
\* open socket, and is cleared under an open one only by the late callback of
\* an older socket.  A TypeScript client that has connected and is not closed
\* has a transport, unless connect and close were under way together: close
\* forgets, after its await, the transport a new connect has set.
FlagIsTold ==
  /\ sdk # "typescript" /\ ~ trapped =>
       /\ connected => \E s \in Sockets : told[s] = "open"
       /\ ~ connected /\ current # NoSocket => told[current] # "open" \/ stale
  /\ sdk = "typescript" /\ current = NoSocket /\ ~ shut => connect.socket = NoSocket \/ crossed
=============================================================================
