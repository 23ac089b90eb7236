---------------------------- MODULE SocketProofs -----------------------------
(***************************************************************************)
(* Proofs about the clients of the SDKs, for any number of receivers,      *)
(* sockets and messages: no call of receive waits while a message is       *)
(* queued for it, and messages are handed over in order, up to the gap     *)
(* between the two locks of Swift's receive; and what the client's flags   *)
(* say of its sockets.                                                     *)
(***************************************************************************)
EXTENDS SocketClients, TLAPS

Letters == [socket : Sockets, n : Nat]
Events == [type : {"open", "error", "closed", "other"}] \cup [type : {"message"}, n : Nat]

\* The types of what the queue and the waiters are made from.
WakeInv ==
  /\ sdk \in {"typescript", "kotlin", "swift"}
  /\ current \in Sockets \cup {NoSocket}
  /\ connect \in [socket : Sockets \cup {NoSocket}, state : {"idle", "waiting", "opened", "failed"}]
  /\ link \in [Sockets -> [phase : {"none", "opening", "open", "over"}, sent : Nat]]
  /\ events \in [Sockets -> Seq(Events)]
  /\ inbox \in [Sockets -> Seq(Letters)]
  /\ waiters \in [Sockets -> Seq(Receivers)]
  /\ NoMissedWakeup

-----------------------------------------------------------------------------
\* There is a first socket, and a mailbox for each.
LEMMA BoxIsSocket == ASSUME NEW s \in Sockets PROVE Box(s) \in Sockets /\ 1 \in Sockets
BY SocketAssumption DEF Box, Sockets

\* There is a first socket.
LEMMA FirstSocket == 1 \in Sockets
BY SocketAssumption DEF Sockets

\* A new client.
LEMMA SocketsStart == SocketsInit => WakeInv
BY DEF SocketsInit, WakeInv, NoMissedWakeup, NoSocket

\* An event is appended.
LEMMA EventAppended ==
  ASSUME WakeInv, NEW s \in Sockets, NEW e \in Events, events' = [events EXCEPT ![s] = Append(@, e)]
  PROVE  events' \in [Sockets -> Seq(Events)]
BY DEF WakeInv

\* The network adds to the events of a socket.
LEMMA HappensKeeps ==
  ASSUME WakeInv, NEW s \in Sockets, NEW from, NEW to \in {"open", "over"}, NEW e \in Events,
         Happens(s, from, to, e)
  PROVE  WakeInv'
<1>1. events' \in [Sockets -> Seq(Events)]
  BY Zenon, EventAppended DEF Happens
<1>2. link' \in [Sockets -> [phase : {"none", "opening", "open", "over"}, sent : Nat]]
  BY Zenon DEF WakeInv, Happens
<1> QED
  BY Zenon, <1>1, <1>2 DEF WakeInv, Happens, NoMissedWakeup

\* The end of a dial or of a socket is an event to come.
LEMMA NetworkKeeps ==
  ASSUME WakeInv, NEW s \in Sockets, DialEnds(s) \/ Breaks(s)
  PROVE  WakeInv'
<1>1. \A t \in {"open", "error", "closed", "other"} : [type |-> t] \in Events
  BY Zenon DEF Events
<1>2. CASE DialEnds(s)
  BY Zenon, <1>1, <1>2, HappensKeeps DEF DialEnds
<1>3. CASE Breaks(s)
  <2>1. PICK t \in {"error", "other", "closed"} : Happens(s, "open", "over", [type |-> t])
    BY Zenon, <1>3 DEF Breaks
  <2> QED
    BY Zenon, <1>1, <2>1, HappensKeeps
<1> QED
  BY Zenon, <1>2, <1>3

\* A message of the server is an event to come.
LEMMA ServerSendsKeeps == ASSUME WakeInv, NEW s \in Sockets, ServerSends(s) PROVE WakeInv'
<1>1. link[s].sent \in Nat
  BY Zenon DEF WakeInv
<1>2. [type |-> "message", n |-> link[s].sent + 1] \in Events
  BY <1>1 DEF Events
<1>3. events' \in [Sockets -> Seq(Events)]
  BY Zenon, <1>2, EventAppended DEF ServerSends
<1>4. link' \in [Sockets -> [phase : {"none", "opening", "open", "over"}, sent : Nat]]
  BY <1>1 DEF WakeInv, ServerSends
<1> QED
  BY Zenon, <1>3, <1>4 DEF WakeInv, ServerSends, NoMissedWakeup

\* connect and close leave queue and waiters alone.
LEMMA DialKeeps == ASSUME WakeInv, Dial PROVE WakeInv'
<1> DEFINE s == connect.socket + 1
<1>1. s \in Sockets
  BY SocketAssumption DEF WakeInv, Dial, Sockets, NoSocket
<1>2. connect' = [socket |-> s, state |-> "waiting"] /\ current' = s
      /\ link' = [link EXCEPT ![s].phase = "opening"]
  BY Zenon DEF Dial
<1> HIDE DEF s
<1>3. link' \in [Sockets -> [phase : {"none", "opening", "open", "over"}, sent : Nat]]
  BY ZenonT(60), <1>1, <1>2 DEF WakeInv
<1>4. UNCHANGED <<sdk, events, inbox, waiters, slipped>>
  BY Zenon DEF Dial
<1>5. connect' \in [socket : Sockets \cup {NoSocket}, state : {"idle", "waiting", "opened", "failed"}]
  BY Zenon, <1>1, <1>2
<1> QED
  BY Zenon, <1>1, <1>2, <1>3, <1>4, <1>5 DEF WakeInv, NoMissedWakeup

\* The return of connect leaves queue and waiters alone.
LEMMA ConnectReturnsKeeps == ASSUME WakeInv, ConnectReturns PROVE WakeInv'
BY Zenon DEF WakeInv, ConnectReturns, NoMissedWakeup

\* close leaves queue and waiters alone.
LEMMA CloseKeeps == ASSUME WakeInv, CloseClient \/ CloseReturns PROVE WakeInv'
<1>1. CASE CloseReturns
  BY Zenon, <1>1 DEF WakeInv, CloseReturns, NoMissedWakeup
<1>2. CASE CloseClient
  <2>1. UNCHANGED <<sdk, connect, inbox, waiters, slipped>> /\ current' \in Sockets \cup {NoSocket}
        /\ GiveUp(current)
    BY Zenon, <1>2 DEF WakeInv, CloseClient
  <2>2. events' \in [Sockets -> Seq(Events)]
        /\ link' \in [Sockets -> [phase : {"none", "opening", "open", "over"}, sent : Nat]]
    <3>1. CASE current # NoSocket /\ link[current].phase = "opening" /\ sdk # "kotlin"
      <4> DEFINE e == [type |-> IF sdk = "swift" THEN "other" ELSE "error"]
      <4>1. current \in Sockets /\ e \in Events
        BY Zenon, <3>1 DEF WakeInv, Events
      <4>2. events' = [events EXCEPT ![current] = Append(@, e)]
            /\ link' = [link EXCEPT ![current].phase = "over"]
        BY Zenon, <2>1, <3>1 DEF GiveUp
      <4> HIDE DEF e
      <4> QED
        BY ZenonT(60), <4>1, <4>2, EventAppended DEF WakeInv
    <3>2. CASE ~ (current # NoSocket /\ link[current].phase = "opening" /\ sdk # "kotlin")
      BY Zenon, <2>1, <3>2 DEF GiveUp, WakeInv
    <3> QED
      BY Zenon, <3>1, <3>2
  <2> QED
    BY Zenon, <2>1, <2>2 DEF WakeInv, NoMissedWakeup
<1> QED
  BY Zenon, <1>1, <1>2

-----------------------------------------------------------------------------
\* A callback takes its event.
LEMMA EventTaken ==
  ASSUME WakeInv, NEW s \in Sockets, NEW type, Callback(s, type)
  PROVE  /\ events' \in [Sockets -> Seq(Events)] /\ Head(events[s]) \in Events
         /\ UNCHANGED <<sdk, current, link, slipped>>
BY DEF WakeInv, Callback

\* The callbacks for open and end leave queue and waiters alone.
LEMMA OpenOrEndKeeps ==
  ASSUME WakeInv, NEW s \in Sockets,
         OnOpen(s) \/ OnOther(s) \/ \E type \in {"error", "closed"} : OnEnd(s, type)
  PROVE  WakeInv'
<1>1. PICK type : Callback(s, type)
  BY Zenon DEF OnOpen, OnOther, OnEnd
<1>2. connect' \in [socket : Sockets \cup {NoSocket}, state : {"idle", "waiting", "opened", "failed"}]
  BY Zenon DEF WakeInv, OnOpen, OnOther, OnEnd
<1>3. UNCHANGED <<inbox, waiters>>
  BY Zenon DEF OnOpen, OnOther, OnEnd
<1> QED
  BY Zenon, <1>1, <1>2, <1>3, EventTaken DEF WakeInv, NoMissedWakeup

\* A message is queued only where nobody waits.
LEMMA OnMessageKeeps == ASSUME WakeInv, NEW s \in Sockets, OnMessage(s) PROVE WakeInv'
<1> DEFINE m == [socket |-> s, n |-> Head(events[s]).n]
           b == Box(s)
<1>1. /\ events' \in [Sockets -> Seq(Events)] /\ Head(events[s]) \in Events
      /\ UNCHANGED <<sdk, current, link, slipped, connect>>
  BY Zenon, EventTaken DEF OnMessage
<1>2. m \in Letters /\ b \in Sockets
  <2>1. Head(events[s]).n \in Nat
    BY Zenon, <1>1 DEF OnMessage, Callback, Events
  <2> QED
    BY Zenon, <2>1, BoxIsSocket DEF Letters
<1>3. CASE waiters[b] # <<>>
  <2>1. waiters' = [waiters EXCEPT ![b] = Tail(@)] /\ inbox' = inbox
    BY Zenon, <1>3 DEF OnMessage
  <2> HIDE DEF b
  <2>2. waiters' \in [Sockets -> Seq(Receivers)]
    BY <1>2, <1>3, <2>1 DEF WakeInv
  <2>3. slipped \/ inbox[b] = <<>>
    BY Zenon, <1>2, <1>3 DEF WakeInv, NoMissedWakeup
  <2>4. NoMissedWakeup'
    BY Zenon, <1>1, <1>2, <2>1, <2>3 DEF WakeInv, NoMissedWakeup
  <2> QED
    BY Zenon, <1>1, <2>1, <2>2, <2>4 DEF WakeInv
<1>4. CASE waiters[b] = <<>>
  <2>1. inbox' = [inbox EXCEPT ![b] = Append(@, m)] /\ waiters' = waiters
    BY Zenon, <1>4 DEF OnMessage
  <2> HIDE DEF b, m
  <2>2. inbox' \in [Sockets -> Seq(Letters)]
    BY <1>2, <2>1 DEF WakeInv
  <2>3. NoMissedWakeup'
    BY Zenon, <1>1, <1>2, <1>4, <2>1 DEF WakeInv, NoMissedWakeup
  <2> QED
    BY Zenon, <1>1, <2>1, <2>2, <2>3 DEF WakeInv
<1> QED
  BY Zenon, <1>3, <1>4

\* The head of the queue is taken.
LEMMA TakeKeeps ==
  ASSUME WakeInv, NEW b \in Sockets, inbox[b] # <<>>, Take(b),
         UNCHANGED <<sdk, current, connect, link, events, waiters, slipped>>
  PROVE  WakeInv'
<1>1. inbox' = [inbox EXCEPT ![b] = Tail(@)] /\ inbox' \in [Sockets -> Seq(Letters)]
  BY DEF WakeInv, Take
<1>2. slipped \/ waiters[b] = <<>>
  BY Zenon DEF WakeInv, NoMissedWakeup
<1>3. NoMissedWakeup'
  BY Zenon, <1>1, <1>2 DEF WakeInv, NoMissedWakeup
<1> QED
  BY Zenon, <1>1, <1>3 DEF WakeInv

\* receive waits only where nothing is queued.
LEMMA ReceiveKeeps == ASSUME WakeInv, NEW r \in Receivers, Receive(r) PROVE WakeInv'
<1> DEFINE b == Box(current)
<1>1. b \in Sockets
  BY Zenon, FirstSocket DEF WakeInv, Receive, Box
<1>2. UNCHANGED <<sdk, current, connect, link, events, slipped>>
  BY Zenon DEF Receive, closeVars
<1>3. CASE inbox[b] # <<>>
  <2>1. Take(b) /\ waiters' = waiters
    BY Zenon, <1>3 DEF Receive
  <2> HIDE DEF b
  <2> QED
    BY Zenon, <1>1, <1>2, <1>3, <2>1, TakeKeeps
<1>4. CASE inbox[b] = <<>>
  <2>1. inbox' = inbox /\ waiters' \in {waiters, [waiters EXCEPT ![b] = Append(@, r)]}
    BY Zenon, <1>4 DEF Receive
  <2> HIDE DEF b
  <2>2. waiters' \in [Sockets -> Seq(Receivers)]
    <3>1. waiters \in [Sockets -> Seq(Receivers)] /\ waiters[b] \in Seq(Receivers)
      BY Zenon, <1>1 DEF WakeInv
    <3>2. Append(waiters[b], r) \in Seq(Receivers)
      BY <3>1
    <3> QED
      BY Zenon, <1>1, <2>1, <3>1, <3>2
  <2>3. NoMissedWakeup'
    BY Zenon, <1>1, <1>2, <1>4, <2>1 DEF WakeInv, NoMissedWakeup
  <2> QED
    BY Zenon, <1>2, <2>1, <2>2, <2>3 DEF WakeInv
<1> QED
  BY Zenon, <1>3, <1>4

\* Swift appends its continuation, and what has come meanwhile is noted.
LEMMA SuspendKeeps == ASSUME WakeInv, NEW r \in Receivers, Suspend(r) PROVE WakeInv'
<1>1. /\ waiters' = [waiters EXCEPT ![1] = Append(@, r)] /\ slipped' = (slipped \/ inbox[1] # <<>>)
      /\ UNCHANGED <<sdk, current, connect, link, events, inbox>>
  BY Zenon DEF Suspend
<1>2. waiters' \in [Sockets -> Seq(Receivers)]
  BY <1>1, FirstSocket DEF WakeInv
<1>3. NoMissedWakeup'
  BY Zenon, <1>1, FirstSocket DEF WakeInv, NoMissedWakeup
<1> QED
  BY Zenon, <1>1, <1>2, <1>3 DEF WakeInv

\* A poll takes the first message of the queue, if there is one.
LEMMA PollKeeps == ASSUME WakeInv, NEW r \in Receivers, Poll(r) PROVE WakeInv'
<1>1. UNCHANGED <<sdk, current, connect, link, events, waiters, slipped>>
  BY Zenon DEF Poll
<1>2. CASE inbox[1] # <<>>
  BY Zenon, <1>1, <1>2, FirstSocket, TakeKeeps DEF Poll
<1>3. CASE inbox[1] = <<>>
  BY <1>1, <1>3 DEF Poll, WakeInv, NoMissedWakeup
<1> QED
  BY Zenon, <1>2, <1>3

-----------------------------------------------------------------------------
\* Every step keeps the invariant of queue and waiters.
LEMMA WakeKept == ASSUME WakeInv, [SocketsNext]_sockets PROVE WakeInv'
<1>1. CASE UNCHANGED sockets
  BY Zenon, <1>1 DEF sockets, WakeInv, NoMissedWakeup
<1>2. CASE Dial
  BY Zenon, <1>2, DialKeeps
<1>3. CASE ConnectReturns
  BY Zenon, <1>3, ConnectReturnsKeeps
<1>4. CASE CloseClient \/ CloseReturns
  BY Zenon, <1>4, CloseKeeps
<1>5. ASSUME NEW s \in Sockets, DialEnds(s) \/ Breaks(s) PROVE WakeInv'
  BY Zenon, <1>5, NetworkKeeps
<1>6. ASSUME NEW s \in Sockets, ServerSends(s) PROVE WakeInv'
  BY Zenon, <1>6, ServerSendsKeeps
<1>7. ASSUME NEW s \in Sockets, OnOpen(s) \/ OnAnyEnd(s) \/ OnOther(s) PROVE WakeInv'
  BY Zenon, <1>7, OpenOrEndKeeps DEF OnAnyEnd
<1>8. ASSUME NEW s \in Sockets, OnMessage(s) PROVE WakeInv'
  BY Zenon, <1>8, OnMessageKeeps
<1>9. ASSUME NEW r \in Receivers, Receive(r) PROVE WakeInv'
  BY Zenon, <1>9, ReceiveKeeps
<1>10. ASSUME NEW r \in Receivers, Suspend(r) PROVE WakeInv'
  BY Zenon, <1>10, SuspendKeeps
<1>11. ASSUME NEW r \in Receivers, Poll(r) PROVE WakeInv'
  BY Zenon, <1>11, PollKeeps
<1> QED
  BY Zenon, <1>1, <1>2, <1>3, <1>4, <1>5, <1>6, <1>7, <1>8, <1>9, <1>10, <1>11
     DEF SocketsNext, Callbacks

\* The types hold, and nobody misses a message.
LEMMA WakeInvariant == SocketsSpec => []WakeInv
BY SocketsStart, WakeKept, PTL DEF SocketsSpec

\* Nobody waits while a message is queued that they could have, unless it came
\* between the two locks of Swift's receive.
THEOREM SocketsNoMissedWakeup == SocketsSpec => []NoMissedWakeup
<1>1. WakeInv => NoMissedWakeup
  BY Zenon DEF WakeInv
<1> QED
  BY <1>1, WakeInvariant, PTL

-----------------------------------------------------------------------------
(***************************************************************************)
(* The flags.  A socket that has not been dialled has no history; the      *)
(* client's field holds a socket that connect has made; and in TypeScript, *)
(* unless connect and close have been under way together, close runs after *)
(* connect has returned, so that the field is empty only before the first  *)
(* connect or after a close.                                               *)
(***************************************************************************)
Undialled(s) == told[s] = "none" /\ link[s].phase = "none" /\ events[s] = <<>>

FlagInv ==
  /\ told \in [Sockets -> {"none", "open", "over"}]
  /\ \A s \in Sockets : s > connect.socket => Undialled(s)
  /\ current <= connect.socket
  /\ connected => \E s \in Sockets : told[s] = "open"
  /\ sdk # "typescript" /\ ~ connected /\ current # NoSocket => told[current] # "open" \/ stale
  /\ sdk = "typescript" =>
       /\ closing => crossed \/ (connect.state = "idle" /\ shut)
       /\ current = NoSocket /\ connect.state # "idle" => crossed
       /\ current = NoSocket /\ ~ shut => connect.socket = NoSocket \/ crossed

\* A new client has no socket, and its flags are clear.
LEMMA FlagStart == SocketsInit => FlagInv
<1> SUFFICES ASSUME SocketsInit PROVE FlagInv
  BY Zenon
<1>1. \A s \in Sockets : Undialled(s)
  BY Zenon DEF SocketsInit, Undialled
<1> QED
  BY <1>1 DEF SocketsInit, FlagInv, NoSocket

\* connect makes the next socket, of which nothing has been told.
LEMMA DialFlags == ASSUME WakeInv, FlagInv, Dial PROVE FlagInv'
<1>1. /\ connect.socket \in Nat /\ connect.socket + 1 \in Sockets
      /\ current \in Nat
  BY SocketAssumption DEF WakeInv, Dial, Sockets, NoSocket
<1>2. /\ connect' = [socket |-> connect.socket + 1, state |-> "waiting"] /\ current' = connect.socket + 1
      /\ link' = [link EXCEPT ![connect.socket + 1].phase = "opening"]
      /\ crossed' = (crossed \/ closing)
      /\ UNCHANGED <<sdk, shut, closing, connected, events, told, stale>>
  BY Zenon DEF Dial
<1>3. connect'.socket = connect.socket + 1 /\ connect'.state = "waiting"
  BY Zenon, <1>2
<1>4. told[connect.socket + 1] = "none"
  BY <1>1 DEF FlagInv, Undialled
<1>5. ASSUME NEW s \in Sockets, s > connect'.socket PROVE Undialled(s)'
  <2>1. s > connect.socket /\ s # connect.socket + 1
    BY <1>1, <1>3, <1>5 DEF Sockets
  <2>2. link'[s] = link[s]
    BY Zenon, <1>1, <1>2, <2>1 DEF WakeInv
  <2> QED
    BY Zenon, <1>2, <2>1, <2>2 DEF FlagInv, Undialled
<1>6. current' # NoSocket /\ current' <= connect'.socket
  BY <1>1, <1>2, <1>3 DEF NoSocket
<1> QED
  BY Zenon, <1>2, <1>3, <1>4, <1>5, <1>6 DEF FlagInv

\* connect clears the mark of close only when its socket has opened.
LEMMA ConnectReturnsFlags == ASSUME WakeInv, FlagInv, ConnectReturns PROVE FlagInv'
<1>1. connect'.socket = connect.socket /\ connect'.state = "idle"
  BY Zenon DEF WakeInv, ConnectReturns
<1>2. /\ shut' = (shut /\ connect.state # "opened")
      /\ UNCHANGED <<sdk, current, closing, crossed, connected, link, events, told, stale>>
  BY Zenon DEF ConnectReturns, closeVars
<1> QED
  BY Zenon, <1>1, <1>2 DEF FlagInv, Undialled

\* close forgets the socket; in TypeScript it does so after its await.
LEMMA CloseFlags == ASSUME WakeInv, FlagInv, CloseClient \/ CloseReturns PROVE FlagInv'
<1>1. CASE CloseReturns
  BY <1>1 DEF CloseReturns, FlagInv, Undialled, WakeInv, NoSocket, Sockets
<1>2. CASE CloseClient
  <2>1. /\ shut' = TRUE /\ current' = IF sdk = "typescript" THEN current ELSE NoSocket
        /\ connected' = FALSE /\ crossed' = (crossed \/ connect.state # "idle")
        /\ UNCHANGED <<sdk, connect, told, stale>>
    BY Zenon, <1>2 DEF CloseClient
  <2>2. connect.socket \in Nat /\ current \in Nat
    BY DEF WakeInv, Sockets, NoSocket
  <2>3. ASSUME NEW s \in Sockets, s > connect.socket PROVE Undialled(s)'
    <3>1. s # current
      BY <2>2, <2>3 DEF FlagInv, Sockets
    <3>2. link'[s] = link[s] /\ events'[s] = events[s]
      BY Zenon, <1>2, <3>1 DEF CloseClient, GiveUp, WakeInv
    <3> QED
      BY Zenon, <2>1, <2>3, <3>2 DEF FlagInv, Undialled
  <2>4. current' <= connect'.socket
    BY <2>1, <2>2 DEF FlagInv, NoSocket
  <2>5. told' \in [Sockets -> {"none", "open", "over"}]
    BY Zenon, <2>1 DEF FlagInv
  <2>6. \A s \in Sockets : s > connect'.socket => Undialled(s)'
    BY Zenon, <2>1, <2>3
  <2>7. sdk' # "typescript" => current' = NoSocket
    BY Zenon, <2>1
  <2>8. sdk' = "typescript" => /\ shut' /\ (crossed' \/ connect'.state = "idle")
    BY Zenon, <2>1
  <2> QED
    BY Zenon, <2>1, <2>4, <2>5, <2>6, <2>7, <2>8 DEF FlagInv
<1> QED
  BY Zenon, <1>1, <1>2

\* What happens to a socket that connect has made leaves the flags alone.
LEMMA LinkFlags ==
  ASSUME WakeInv, FlagInv, NEW s \in Sockets, link[s].phase # "none" \/ events[s] # <<>>,
         \A u \in Sockets \ {s} : link'[u] = link[u] /\ events'[u] = events[u],
         connect'.socket = connect.socket, \A u \in Sockets \ {s} : told'[u] = told[u]
  PROVE  \A u \in Sockets : u > connect'.socket => Undialled(u)'
<1> SUFFICES ASSUME NEW u \in Sockets, u > connect.socket PROVE Undialled(u)'
  BY Zenon
<1>1. Undialled(u)
  BY Zenon DEF FlagInv
<1>2. u # s
  BY Zenon, <1>1 DEF Undialled
<1> QED
  BY Zenon, <1>1, <1>2 DEF Undialled

\* The network changes no flag.
LEMMA NetworkFlags ==
  ASSUME WakeInv, FlagInv, NEW s \in Sockets, DialEnds(s) \/ Breaks(s) \/ ServerSends(s)
  PROVE  FlagInv'
<1>1. link[s].phase # "none"
  BY Zenon DEF DialEnds, Breaks, Happens, ServerSends
<1>2. UNCHANGED <<sdk, current, shut, closing, crossed, connected, connect, told, stale>>
  BY Zenon DEF DialEnds, Breaks, Happens, ServerSends, closeVars
<1>3. \A u \in Sockets \ {s} : link'[u] = link[u] /\ events'[u] = events[u]
  BY Zenon DEF DialEnds, Breaks, Happens, ServerSends, WakeInv
<1>4. \A u \in Sockets : u > connect'.socket => Undialled(u)'
  BY Zenon, <1>1, <1>2, <1>3, LinkFlags
<1> QED
  BY Zenon, <1>2, <1>4 DEF FlagInv

\* A callback is about a socket that has been dialled.
LEMMA CallbackFlags ==
  ASSUME WakeInv, FlagInv, NEW s \in Sockets, NEW type, Callback(s, type),
         connect'.socket = connect.socket, \A u \in Sockets \ {s} : told'[u] = told[u]
  PROVE  \A u \in Sockets : u > connect'.socket => Undialled(u)'
<1>1. events[s] # <<>> /\ \A u \in Sockets \ {s} : link'[u] = link[u] /\ events'[u] = events[u]
  BY Zenon DEF Callback, WakeInv
<1> QED
  BY Zenon, <1>1, LinkFlags

\* A socket opens: the flag is set with what is told.
LEMMA OnOpenFlags == ASSUME WakeInv, FlagInv, NEW s \in Sockets, OnOpen(s) PROVE FlagInv'
<1>1. /\ Callback(s, "open") /\ connected' = TRUE /\ told' = [told EXCEPT ![s] = "open"]
      /\ stale' = stale
  BY Zenon DEF OnOpen
<1>2. connect'.socket = connect.socket /\ (connect'.state = "idle" <=> connect.state = "idle")
  BY Zenon DEF OnOpen, WakeInv, Awaited
<1>3. UNCHANGED <<sdk, current, shut, closing, crossed>>
  BY Zenon, <1>1 DEF Callback, closeVars
<1>4. told' \in [Sockets -> {"none", "open", "over"}] /\ told'[s] = "open"
      /\ \A u \in Sockets \ {s} : told'[u] = told[u]
  BY Zenon, <1>1 DEF FlagInv
<1>5. \A u \in Sockets : u > connect'.socket => Undialled(u)'
  BY Zenon, <1>1, <1>2, <1>4, CallbackFlags
<1> QED
  BY Zenon, <1>1, <1>2, <1>3, <1>4, <1>5 DEF FlagInv

\* A socket ends: the flag is cleared, also by a socket that is not current.
LEMMA OnEndFlags ==
  ASSUME WakeInv, FlagInv, NEW s \in Sockets, NEW type \in {"error", "closed"}, OnEnd(s, type)
  PROVE  FlagInv'
<1>1. /\ Callback(s, type) /\ connected' = FALSE /\ told' = [told EXCEPT ![s] = "over"]
      /\ stale' = (stale \/ s # current)
  BY Zenon DEF OnEnd
<1>2. connect'.socket = connect.socket /\ (connect'.state = "idle" <=> connect.state = "idle")
  BY Zenon DEF OnEnd, WakeInv, Awaited
<1>3. UNCHANGED <<sdk, current, shut, closing, crossed>>
  BY Zenon, <1>1 DEF Callback, closeVars
<1>4. told' \in [Sockets -> {"none", "open", "over"}] /\ told'[s] = "over"
      /\ \A u \in Sockets \ {s} : told'[u] = told[u]
  BY Zenon, <1>1 DEF FlagInv
<1>5. \A u \in Sockets : u > connect'.socket => Undialled(u)'
  BY Zenon, <1>1, <1>2, <1>4, CallbackFlags
<1>6. told'[current'] # "open" \/ stale'
  BY Zenon, <1>1, <1>3, <1>4
<1> QED
  BY Zenon, <1>1, <1>2, <1>3, <1>4, <1>5, <1>6 DEF FlagInv

\* The other callbacks, and receive, leave the flags alone.
LEMMA OtherFlags ==
  ASSUME WakeInv, FlagInv, NEW s \in Sockets, OnOther(s) \/ OnMessage(s)
  PROVE  FlagInv'
<1>1. PICK type : Callback(s, type)
  BY Zenon DEF OnOther, OnMessage
<1>2. UNCHANGED <<connected, connect, told, stale>>
  BY Zenon DEF OnOther, OnMessage
<1>3. UNCHANGED <<sdk, current, shut, closing, crossed>>
  BY Zenon, <1>1 DEF Callback, closeVars
<1>4. \A u \in Sockets : u > connect'.socket => Undialled(u)'
  BY Zenon, <1>1, <1>2, CallbackFlags
<1> QED
  BY Zenon, <1>2, <1>3, <1>4 DEF FlagInv

\* Every step keeps the invariant of the flags.
LEMMA FlagKept == ASSUME WakeInv, FlagInv, [SocketsNext]_sockets PROVE FlagInv'
<1>1. CASE UNCHANGED sockets
  BY Zenon, <1>1 DEF sockets, FlagInv, Undialled
<1>2. CASE Dial
  BY Zenon, <1>2, DialFlags
<1>3. CASE ConnectReturns
  BY Zenon, <1>3, ConnectReturnsFlags
<1>4. CASE CloseClient \/ CloseReturns
  BY Zenon, <1>4, CloseFlags
<1>5. ASSUME NEW s \in Sockets, DialEnds(s) \/ Breaks(s) \/ ServerSends(s) PROVE FlagInv'
  BY Zenon, <1>5, NetworkFlags
<1>6. ASSUME NEW s \in Sockets, Callbacks(s) PROVE FlagInv'
  BY Zenon, <1>6, OnOpenFlags, OnEndFlags, OtherFlags DEF Callbacks, OnAnyEnd
<1>7. ASSUME NEW r \in Receivers, Receive(r) \/ Suspend(r) \/ Poll(r) PROVE FlagInv'
  <2>1. UNCHANGED <<sdk, current, shut, closing, crossed, connected, connect, link, events, told, stale>>
    BY Zenon, <1>7 DEF Receive, Suspend, Poll, closeVars
  <2> QED
    BY Zenon, <2>1 DEF FlagInv, Undialled
<1> QED
  BY Zenon, <1>1, <1>2, <1>3, <1>4, <1>5, <1>6, <1>7 DEF SocketsNext

\* isConnected follows what the callbacks have told, and a TypeScript client
\* that has connected and is not closed has its transport, unless connect and
\* close were under way together.
THEOREM SocketsFlagIsTold == SocketsSpec => []FlagIsTold
<1>1. FlagInv => FlagIsTold
  BY Zenon DEF FlagInv, FlagIsTold
<1>2. SocketsInit => FlagInv
  BY Zenon, FlagStart
<1>3. WakeInv /\ FlagInv /\ [SocketsNext]_sockets => FlagInv'
  BY Zenon, FlagKept
<1> QED
  BY <1>1, <1>2, <1>3, WakeInvariant, PTL DEF SocketsSpec

-----------------------------------------------------------------------------
(***************************************************************************)
(* The order of the messages.  Of the messages 1 .. sent of a socket, the  *)
(* calls of receive have the first; those that follow are in the queue,    *)
(* and the rest are events to come.                                        *)
(***************************************************************************)
In(q, x) == \E i \in 1 .. Len(q) : q[i] = x

Sorted(q, S) == \A i, j \in 1 .. Len(q) : i < j /\ q[i] \in S /\ q[j] \in S => q[i].n < q[j].n

Letter(s, n) == [socket |-> s, n |-> n]
Message(n) == [type |-> "message", n |-> n]
LettersOf(s) == {m \in Letters : m.socket = s}
Messages == {e \in Events : e.type = "message"}

Chain(s, q, e, h, sent) ==
  /\ h \in Seq(Nat) /\ \A i \in 1 .. Len(h) : h[i] = i
  /\ Len(h) <= sent
  /\ \A n \in Nat : In(q, Letter(s, n)) \/ In(e, Message(n)) <=> Len(h) < n /\ n <= sent
  /\ Sorted(q, LettersOf(s)) /\ Sorted(e, Messages)
  /\ \A m, n \in Nat : In(q, Letter(s, m)) /\ In(e, Message(n)) => m < n

HandInv(s) == Chain(s, inbox[Box(s)], events[s], handed[s], link[s].sent)

\* A queue holds the letters of the sockets it is for.
Boxed == \A b \in Sockets : \A m \in Letters : In(inbox[b], m) => Box(m.socket) = b

Orderly == handed \in [Sockets -> Seq(Nat)] /\ Boxed /\ \A s \in Sockets : HandInv(s)
OrderInv == slipped \/ Orderly

-----------------------------------------------------------------------------
\* What is in a sequence, and how it is sorted, after Append and after Tail.
LEMMA InAppend ==
  ASSUME NEW T, NEW q \in Seq(T), NEW x \in T, NEW y
  PROVE  In(Append(q, x), y) <=> In(q, y) \/ x = y
<1> DEFINE p == Append(q, x)
<1>1. Len(p) = Len(q) + 1 /\ p[Len(q) + 1] = x /\ \A i \in 1 .. Len(q) : p[i] = q[i]
  OBVIOUS
<1>2. Len(q) \in Nat
  OBVIOUS
<1> HIDE DEF p
<1>3. In(q, y) => In(p, y)
  BY <1>1, <1>2 DEF In
<1>4. x = y => In(p, y)
  BY <1>1, <1>2 DEF In
<1>5. ASSUME NEW i \in 1 .. Len(p), p[i] = y, x # y PROVE In(q, y)
  BY <1>1, <1>2, <1>5 DEF In
<1> QED
  BY Zenon, <1>3, <1>4, <1>5 DEF In, p

\* A sequence stays sorted when a later message is appended.
LEMMA SortedAppend ==
  ASSUME NEW T, NEW q \in Seq(T), NEW x \in T, NEW S, Sorted(q, S),
         x \in S => \A y \in S : In(q, y) => y.n < x.n
  PROVE  Sorted(Append(q, x), S)
<1> DEFINE p == Append(q, x)
<1>1. Len(p) = Len(q) + 1 /\ p[Len(q) + 1] = x /\ \A i \in 1 .. Len(q) : p[i] = q[i]
  OBVIOUS
<1>2. Len(q) \in Nat
  OBVIOUS
<1> HIDE DEF p
<1>3. ASSUME NEW i \in 1 .. Len(p), NEW j \in 1 .. Len(p), i < j, p[i] \in S, p[j] \in S
      PROVE  p[i].n < p[j].n
  <2>1. i \in 1 .. Len(q) /\ p[i] = q[i]
    BY <1>1, <1>2, <1>3
  <2>2. CASE j = Len(q) + 1
    BY Zenon, <1>1, <1>3, <2>1, <2>2 DEF In
  <2>3. CASE j # Len(q) + 1
    <3>1. j \in 1 .. Len(q) /\ p[j] = q[j]
      BY <1>1, <1>2, <2>3
    <3> QED
      BY Zenon, <1>3, <2>1, <3>1 DEF Sorted
  <2> QED
    BY Zenon, <2>2, <2>3
<1>4. Sorted(p, S)
  BY Zenon, <1>3 DEF Sorted
<1> QED
  BY Zenon, <1>4 DEF p

\* A sequence has its first element and those of its tail.
LEMMA InTail ==
  ASSUME NEW T, NEW q \in Seq(T), q # <<>>, NEW y
  PROVE  In(q, y) <=> In(Tail(q), y) \/ y = Head(q)
<1> DEFINE p == Tail(q)
<1>1. /\ Len(q) \in Nat /\ Len(q) > 0 /\ Len(p) = Len(q) - 1 /\ Head(q) = q[1]
      /\ \A i \in 1 .. Len(p) : p[i] = q[i + 1]
  OBVIOUS
<1> HIDE DEF p
<1>2. y = Head(q) => In(q, y)
  BY <1>1 DEF In
<1>3. ASSUME NEW i \in 1 .. Len(p), p[i] = y PROVE In(q, y)
  <2>1. i + 1 \in 1 .. Len(q) /\ q[i + 1] = y
    BY <1>1, <1>3
  <2> QED
    BY Zenon, <2>1 DEF In
<1>4. ASSUME NEW i \in 1 .. Len(q), q[i] = y, y # Head(q) PROVE In(p, y)
  <2>1. i - 1 \in 1 .. Len(p) /\ (i - 1) + 1 = i
    BY <1>1, <1>4
  <2>2. p[i - 1] = y
    BY Zenon, <1>1, <1>4, <2>1
  <2> QED
    BY Zenon, <2>1, <2>2 DEF In
<1> QED
  BY Zenon, <1>2, <1>3, <1>4 DEF In, p

\* The tail of a sorted sequence is sorted and after the first element.
LEMMA SortedTail ==
  ASSUME NEW T, NEW q \in Seq(T), q # <<>>, NEW S, Sorted(q, S)
  PROVE  /\ Sorted(Tail(q), S)
         /\ Head(q) \in S => \A y \in S : In(Tail(q), y) => Head(q).n < y.n
<1> DEFINE p == Tail(q)
<1>1. /\ Len(q) \in Nat /\ Len(q) > 0 /\ Len(p) = Len(q) - 1 /\ Head(q) = q[1]
      /\ \A i \in 1 .. Len(p) : p[i] = q[i + 1]
  OBVIOUS
<1> HIDE DEF p
<1>2. \A i \in 1 .. Len(p) : i + 1 \in 1 .. Len(q) /\ 1 < i + 1
  BY <1>1
<1>3. 1 \in 1 .. Len(q)
  BY <1>1
<1>4. ASSUME NEW i \in 1 .. Len(p), NEW j \in 1 .. Len(p), i < j, p[i] \in S, p[j] \in S
      PROVE  p[i].n < p[j].n
  <2>1. i + 1 < j + 1
    BY <1>1, <1>4
  <2> QED
    BY Zenon, <1>1, <1>2, <1>4, <2>1 DEF Sorted
<1>5. ASSUME Head(q) \in S, NEW y \in S, NEW i \in 1 .. Len(p), p[i] = y PROVE Head(q).n < y.n
  BY Zenon, <1>1, <1>2, <1>3, <1>5 DEF Sorted
<1>6. Sorted(p, S)
  BY Zenon, <1>4 DEF Sorted
<1> QED
  BY Zenon, <1>5, <1>6 DEF In, p

\* Letters and messages are known by their numbers.
LEMMA LetterFacts ==
  ASSUME NEW s \in Sockets
  PROVE  /\ \A n \in Nat : Letter(s, n) \in LettersOf(s) /\ Letter(s, n) \in Letters /\ Letter(s, n).n = n
         /\ \A y \in LettersOf(s) : y.n \in Nat /\ y = Letter(s, y.n)
         /\ \A m, n \in Nat : Letter(s, m) = Letter(s, n) => m = n
<1>1. \A n \in Nat : Letter(s, n) \in Letters /\ Letter(s, n).n = n /\ Letter(s, n).socket = s
  BY Zenon DEF Letter, Letters
<1>2. \A y \in Letters : y.n \in Nat /\ y = [socket |-> y.socket, n |-> y.n]
  BY DEF Letters
<1> QED
  BY Zenon, <1>1, <1>2 DEF LettersOf, Letter

\* Events and letters with the number of a message.
LEMMA MessageFacts ==
  /\ \A n \in Nat : Message(n) \in Messages /\ Message(n) \in Events /\ Message(n).n = n
  /\ \A y \in Messages : y.n \in Nat /\ y = Message(y.n)
  /\ \A m, n \in Nat : Message(m) = Message(n) => m = n
<1>1. \A n \in Nat : Message(n) \in Events /\ Message(n).n = n /\ Message(n).type = "message"
  BY Zenon DEF Message, Events
<1>2. \A y \in Messages : y.n \in Nat /\ y = [type |-> "message", n |-> y.n]
  BY DEF Messages, Events
<1> QED
  BY Zenon, <1>1, <1>2 DEF Messages, Message

-----------------------------------------------------------------------------
\* The server sends the next message.
LEMMA ChainSends ==
  ASSUME NEW s \in Sockets, NEW q \in Seq(Letters), NEW e \in Seq(Events), NEW h, NEW sent \in Nat,
         Chain(s, q, e, h, sent)
  PROVE  Chain(s, q, Append(e, Message(sent + 1)), h, sent + 1)
<1> DEFINE x == Message(sent + 1)
           p == Append(e, x)
<1>1. x \in Messages /\ x \in Events /\ x.n = sent + 1
  BY MessageFacts
<1>2. \A n \in Nat : In(p, Message(n)) <=> In(e, Message(n)) \/ n = sent + 1
  <2>1. \A n \in Nat : x = Message(n) <=> n = sent + 1
    BY MessageFacts
  <2> QED
    BY <1>1, <2>1, InAppend
<1>3. Sorted(p, Messages)
  <2>1. \A y \in Messages : In(e, y) => y.n < sent + 1
    <3> SUFFICES ASSUME NEW y \in Messages, In(e, y) PROVE y.n < sent + 1
      BY Zenon
    <3>1. y.n \in Nat /\ In(e, Message(y.n))
      BY Zenon, MessageFacts
    <3>2. y.n <= sent
      BY Zenon, <3>1 DEF Chain
    <3> QED
      BY <3>1, <3>2
  <2>2. Sorted(e, Messages)
    BY Zenon DEF Chain
  <2> QED
    BY Zenon, <1>1, <2>1, <2>2, SortedAppend
<1> HIDE DEF x, p
<1>4. Len(h) \in Nat /\ Len(h) <= sent
  BY DEF Chain
<1>5. \A n \in Nat : In(q, Letter(s, n)) \/ In(p, Message(n)) <=> Len(h) < n /\ n <= sent + 1
  <2>1. \A n \in Nat : In(q, Letter(s, n)) \/ In(e, Message(n)) <=> Len(h) < n /\ n <= sent
    BY Zenon DEF Chain
  <2> QED
    BY <1>2, <1>4, <2>1
<1>6. \A m, n \in Nat : In(q, Letter(s, m)) /\ In(p, Message(n)) => m < n
  <2>1. \A m \in Nat : In(q, Letter(s, m)) => m <= sent
    BY Zenon DEF Chain
  <2>2. \A m, n \in Nat : In(q, Letter(s, m)) /\ In(e, Message(n)) => m < n
    BY Zenon DEF Chain
  <2> QED
    BY <1>2, <2>1, <2>2
<1>7. Chain(s, q, p, h, sent + 1)
  BY <1>3, <1>4, <1>5, <1>6 DEF Chain
<1> QED
  BY Zenon, <1>7 DEF x, p

\* Another event comes, or is called back.
LEMMA ChainOther ==
  ASSUME NEW s \in Sockets, NEW q, NEW e \in Seq(Events), NEW h, NEW sent, Chain(s, q, e, h, sent)
  PROVE  /\ \A x \in Events \ Messages : Chain(s, q, Append(e, x), h, sent)
         /\ e # <<>> /\ Head(e) \notin Messages => Chain(s, q, Tail(e), h, sent)
<1>1. ASSUME NEW x \in Events \ Messages PROVE Chain(s, q, Append(e, x), h, sent)
  <2> DEFINE p == Append(e, x)
  <2>1. \A n \in Nat : In(p, Message(n)) <=> In(e, Message(n))
    <3>1. \A n \in Nat : x # Message(n)
      BY Zenon, MessageFacts
    <3> QED
      BY <3>1, InAppend
  <2>2. Sorted(p, Messages)
    BY Zenon, SortedAppend DEF Chain
  <2> HIDE DEF p
  <2>3. Chain(s, q, p, h, sent)
    BY Zenon, <2>1, <2>2 DEF Chain
  <2> QED
    BY Zenon, <2>3 DEF p
<1>2. ASSUME e # <<>>, Head(e) \notin Messages PROVE Chain(s, q, Tail(e), h, sent)
  <2> DEFINE p == Tail(e)
  <2>1. \A n \in Nat : In(p, Message(n)) <=> In(e, Message(n))
    <3>1. \A n \in Nat : Head(e) # Message(n)
      BY Zenon, <1>2, MessageFacts
    <3> QED
      BY Zenon, <1>2, <3>1, InTail
  <2>2. Sorted(p, Messages)
    BY Zenon, <1>2, SortedTail DEF Chain
  <2> HIDE DEF p
  <2>3. Chain(s, q, p, h, sent)
    BY Zenon, <2>1, <2>2 DEF Chain
  <2> QED
    BY Zenon, <2>3 DEF p
<1> QED
  BY Zenon, <1>1, <1>2

\* A letter of another socket comes to the queue, or goes from it.
LEMMA ChainElse ==
  ASSUME NEW s \in Sockets, NEW q \in Seq(Letters), NEW e, NEW h, NEW sent, Chain(s, q, e, h, sent)
  PROVE  /\ \A x \in Letters \ LettersOf(s) : Chain(s, Append(q, x), e, h, sent)
         /\ q # <<>> /\ Head(q) \notin LettersOf(s) => Chain(s, Tail(q), e, h, sent)
<1>1. ASSUME NEW x \in Letters \ LettersOf(s) PROVE Chain(s, Append(q, x), e, h, sent)
  <2> DEFINE p == Append(q, x)
  <2>1. \A n \in Nat : In(p, Letter(s, n)) <=> In(q, Letter(s, n))
    <3>1. \A n \in Nat : x # Letter(s, n)
      BY LetterFacts
    <3> QED
      BY Zenon, <3>1, InAppend
  <2>2. Sorted(p, LettersOf(s))
    BY Zenon, SortedAppend DEF Chain
  <2> HIDE DEF p
  <2>3. Chain(s, p, e, h, sent)
    BY Zenon, <2>1, <2>2 DEF Chain
  <2> QED
    BY Zenon, <2>3 DEF p
<1>2. ASSUME q # <<>>, Head(q) \notin LettersOf(s) PROVE Chain(s, Tail(q), e, h, sent)
  <2> DEFINE p == Tail(q)
  <2>1. \A n \in Nat : In(p, Letter(s, n)) <=> In(q, Letter(s, n))
    <3>1. \A n \in Nat : Head(q) # Letter(s, n)
      BY <1>2, LetterFacts
    <3> QED
      BY Zenon, <1>2, <3>1, InTail
  <2>2. Sorted(p, LettersOf(s))
    BY Zenon, <1>2, SortedTail DEF Chain
  <2> HIDE DEF p
  <2>3. Chain(s, p, e, h, sent)
    BY Zenon, <2>1, <2>2 DEF Chain
  <2> QED
    BY Zenon, <2>3 DEF p
<1> QED
  BY Zenon, <1>1, <1>2

\* A message that is called back goes to the end of the queue.
LEMMA ChainQueues ==
  ASSUME NEW s \in Sockets, NEW q \in Seq(Letters), NEW e \in Seq(Events), NEW h, NEW sent \in Nat,
         Chain(s, q, e, h, sent), e # <<>>, NEW k \in Nat, Head(e) = Message(k)
  PROVE  Chain(s, Append(q, Letter(s, k)), Tail(e), h, sent)
<1> DEFINE p == Append(q, Letter(s, k))
           t == Tail(e)
<1>1. \A n \in Nat : In(p, Letter(s, n)) <=> In(q, Letter(s, n)) \/ n = k
  BY InAppend, LetterFacts
<1>2. \A n \in Nat : In(e, Message(n)) <=> In(t, Message(n)) \/ n = k
  BY Zenon, InTail, MessageFacts
<1>3. Sorted(t, Messages) /\ \A n \in Nat : In(t, Message(n)) => k < n
  <2>1. Sorted(e, Messages)
    BY Zenon DEF Chain
  <2>2. Head(e) \in Messages /\ Head(e).n = k
    BY Zenon, MessageFacts
  <2>3. \A y \in Messages : In(t, y) => k < y.n
    BY Zenon, <2>1, <2>2, SortedTail
  <2> QED
    BY <2>1, <2>3, SortedTail, MessageFacts
<1>4. Sorted(p, LettersOf(s))
  <2>1. \A y \in LettersOf(s) : In(q, y) => y.n < k
    <3> SUFFICES ASSUME NEW y \in LettersOf(s), In(q, y) PROVE y.n < k
      BY Zenon
    <3>1. y.n \in Nat /\ In(q, Letter(s, y.n))
      BY Zenon, LetterFacts
    <3>2. In(e, Message(k))
      BY Zenon, <1>2
    <3> QED
      BY Zenon, <3>1, <3>2 DEF Chain
  <2>2. Letter(s, k) \in Letters /\ Letter(s, k).n = k
    BY Zenon, LetterFacts
  <2> QED
    BY Zenon, <2>1, <2>2, SortedAppend DEF Chain
<1> HIDE DEF p, t
<1>5. \A n \in Nat : In(p, Letter(s, n)) \/ In(t, Message(n)) <=> Len(h) < n /\ n <= sent
  BY Zenon, <1>1, <1>2 DEF Chain
<1>6. \A m, n \in Nat : In(p, Letter(s, m)) /\ In(t, Message(n)) => m < n
  BY Zenon, <1>1, <1>2, <1>3 DEF Chain
<1>7. Chain(s, p, t, h, sent)
  BY Zenon, <1>3, <1>4, <1>5, <1>6 DEF Chain
<1> QED
  BY Zenon, <1>7 DEF p, t

\* The next number is appended to 1 .. Len(h).
LEMMA Counted ==
  ASSUME NEW h \in Seq(Nat), \A i \in 1 .. Len(h) : h[i] = i, NEW k \in Nat, k = Len(h) + 1
  PROVE  /\ Append(h, k) \in Seq(Nat) /\ Len(Append(h, k)) = k
         /\ \A i \in 1 .. Len(Append(h, k)) : Append(h, k)[i] = i
OBVIOUS

\* A message that is called back goes to a waiter when none of the socket is
\* queued.
LEMMA ChainHands ==
  ASSUME NEW s \in Sockets, NEW q, NEW e \in Seq(Events), NEW h, NEW sent \in Nat,
         Chain(s, q, e, h, sent), e # <<>>, NEW k \in Nat, Head(e) = Message(k),
         \A n \in Nat : ~ In(q, Letter(s, n))
  PROVE  Chain(s, q, Tail(e), Append(h, k), sent)
<1> DEFINE t == Tail(e)
           g == Append(h, k)
<1>1. \A n \in Nat : In(e, Message(n)) <=> In(t, Message(n)) \/ n = k
  BY Zenon, InTail, MessageFacts
<1>2. Sorted(t, Messages) /\ \A n \in Nat : In(t, Message(n)) => k < n
  <2>1. Sorted(e, Messages)
    BY Zenon DEF Chain
  <2>2. Head(e) \in Messages /\ Head(e).n = k
    BY Zenon, MessageFacts
  <2>3. \A y \in Messages : In(t, y) => k < y.n
    BY Zenon, <2>1, <2>2, SortedTail
  <2> QED
    BY <2>1, <2>3, SortedTail, MessageFacts
<1>3. h \in Seq(Nat) /\ Len(h) \in Nat /\ \A i \in 1 .. Len(h) : h[i] = i
  BY DEF Chain
<1>4. \A n \in Nat : In(e, Message(n)) <=> Len(h) < n /\ n <= sent
  BY Zenon DEF Chain
<1> HIDE DEF t
<1>5. k = Len(h) + 1 /\ k <= sent
  <2>1. Len(h) < k /\ k <= sent
    BY Zenon, <1>1, <1>4
  <2>2. In(e, Message(Len(h) + 1))
    BY <1>3, <1>4, <2>1
  <2> QED
    BY <1>1, <1>2, <1>3, <2>1, <2>2
<1>6. g \in Seq(Nat) /\ Len(g) = k /\ \A i \in 1 .. Len(g) : g[i] = i
  BY Zenon, <1>3, <1>5, Counted
<1> HIDE DEF g
<1>7. \A n \in Nat : In(t, Message(n)) <=> k < n /\ n <= sent
  BY <1>1, <1>2, <1>3, <1>4, <1>5
<1>8. Sorted(q, LettersOf(s))
  BY Zenon DEF Chain
<1>9. Chain(s, q, t, g, sent)
  BY Zenon, <1>2, <1>5, <1>6, <1>7, <1>8 DEF Chain
<1> QED
  BY Zenon, <1>9 DEF t, g

\* The letter at the head of the queue is taken.
LEMMA ChainTakes ==
  ASSUME NEW s \in Sockets, NEW q \in Seq(Letters), NEW e, NEW h, NEW sent \in Nat,
         Chain(s, q, e, h, sent), q # <<>>, NEW k \in Nat, Head(q) = Letter(s, k)
  PROVE  Chain(s, Tail(q), e, Append(h, k), sent)
<1> DEFINE t == Tail(q)
           g == Append(h, k)
<1>1. \A n \in Nat : In(q, Letter(s, n)) <=> In(t, Letter(s, n)) \/ n = k
  BY Zenon, InTail, LetterFacts
<1>2. Sorted(t, LettersOf(s)) /\ \A n \in Nat : In(t, Letter(s, n)) => k < n
  <2>1. Sorted(q, LettersOf(s))
    BY Zenon DEF Chain
  <2>2. Head(q) \in LettersOf(s) /\ Head(q).n = k
    BY LetterFacts
  <2>3. \A y \in LettersOf(s) : In(t, y) => k < y.n
    BY Zenon, <2>1, <2>2, SortedTail
  <2> QED
    BY <2>1, <2>3, SortedTail, LetterFacts
<1>3. h \in Seq(Nat) /\ Len(h) \in Nat /\ \A i \in 1 .. Len(h) : h[i] = i
  BY DEF Chain
<1>4. \A n \in Nat : In(q, Letter(s, n)) \/ In(e, Message(n)) <=> Len(h) < n /\ n <= sent
  BY Zenon DEF Chain
<1>5. \A m, n \in Nat : In(q, Letter(s, m)) /\ In(e, Message(n)) => m < n
  BY Zenon DEF Chain
<1> HIDE DEF t
<1>6. k = Len(h) + 1 /\ k <= sent
  <2>1. Len(h) < k /\ k <= sent
    BY Zenon, <1>1, <1>4
  <2>2. Len(h) + 1 \in Nat
        /\ (In(q, Letter(s, Len(h) + 1)) \/ In(e, Message(Len(h) + 1)))
    BY <1>3, <1>4, <2>1
  <2>3. CASE In(e, Message(Len(h) + 1))
    BY <1>1, <1>3, <1>5, <2>1, <2>2, <2>3
  <2>4. CASE In(q, Letter(s, Len(h) + 1))
    BY <1>1, <1>2, <1>3, <2>1, <2>2, <2>4
  <2> QED
    BY Zenon, <2>2, <2>3, <2>4
<1>7. g \in Seq(Nat) /\ Len(g) = k /\ \A i \in 1 .. Len(g) : g[i] = i
  BY Zenon, <1>3, <1>6, Counted
<1> HIDE DEF g
<1>8. \A n \in Nat : In(t, Letter(s, n)) \/ In(e, Message(n)) <=> k < n /\ n <= sent
  <2>1. \A n \in Nat : In(e, Message(n)) => k < n
    BY Zenon, <1>1, <1>5
  <2> QED
    BY <1>1, <1>2, <1>3, <1>4, <1>6, <2>1
<1>9. \A m, n \in Nat : In(t, Letter(s, m)) /\ In(e, Message(n)) => m < n
  BY Zenon, <1>1, <1>5
<1>10. Sorted(e, Messages)
  BY Zenon DEF Chain
<1>11. Chain(s, t, e, g, sent)
  BY Zenon, <1>2, <1>6, <1>7, <1>8, <1>9, <1>10 DEF Chain
<1> QED
  BY Zenon, <1>11 DEF t, g

-----------------------------------------------------------------------------
\* Nothing has been sent.
LEMMA OrderStart == SocketsInit => Orderly
<1> SUFFICES ASSUME SocketsInit PROVE Orderly
  BY Zenon
<1>1. handed \in [Sockets -> Seq(Nat)] /\ \A s \in Sockets : handed[s] = <<>>
  BY DEF SocketsInit
<1>2. \A s \in Sockets : inbox[s] = <<>> /\ events[s] = <<>> /\ link[s].sent = 0
  BY Zenon DEF SocketsInit
<1>3. \A x : ~ In(<<>>, x)
  BY DEF In
<1>4. Boxed
  BY Zenon, <1>2, <1>3 DEF Boxed
<1>5. ASSUME NEW s \in Sockets PROVE HandInv(s)
  <2>1. \A S : Sorted(<<>>, S)
    BY DEF Sorted
  <2>2. <<>> \in Seq(Nat) /\ Len(<<>>) = 0
    OBVIOUS
  <2>3. Chain(s, <<>>, <<>>, <<>>, 0)
    BY <1>3, <2>1, <2>2 DEF Chain
  <2> QED
    BY Zenon, <1>1, <1>2, <2>3, BoxIsSocket DEF HandInv
<1> QED
  BY Zenon, <1>1, <1>4, <1>5 DEF Orderly

\* The types of what a chain is made of.
LEMMA ChainTypes ==
  ASSUME WakeInv, NEW s \in Sockets
  PROVE  /\ inbox[Box(s)] \in Seq(Letters) /\ events[s] \in Seq(Events) /\ link[s].sent \in Nat
         /\ Box(s) \in Sockets
BY Zenon, BoxIsSocket DEF WakeInv

\* A step that leaves the queues and what was handed, and the order of the
\* messages to come.
LEMMA QueuesStay ==
  ASSUME Orderly, UNCHANGED <<sdk, inbox, handed>>,
         \A u \in Sockets : HandInv(u) => Chain(u, inbox[Box(u)], events'[u], handed[u], link'[u].sent)
  PROVE  Orderly'
<1>1. \A u \in Sockets : HandInv(u)'
  BY Zenon DEF Orderly, HandInv, Box
<1> QED
  BY Zenon, <1>1 DEF Orderly, Boxed, Box

\* An event that is no message does not change the order.
LEMMA HappensOrder ==
  ASSUME WakeInv, Orderly, NEW s \in Sockets, NEW to, NEW e \in Events \ Messages,
         link' = [link EXCEPT ![s].phase = to], events' = [events EXCEPT ![s] = Append(@, e)],
         UNCHANGED <<sdk, inbox, handed>>
  PROVE  Orderly'
<1>1. \A u \in Sockets : link'[u].sent = link[u].sent
  BY Zenon DEF WakeInv
<1>2. ASSUME NEW u \in Sockets, HandInv(u)
      PROVE  Chain(u, inbox[Box(u)], events'[u], handed[u], link'[u].sent)
  <2>1. Chain(u, inbox[Box(u)], events[u], handed[u], link[u].sent)
    BY Zenon, <1>2 DEF HandInv
  <2>2. Chain(u, inbox[Box(u)], Append(events[u], e), handed[u], link[u].sent)
    BY Zenon, <2>1, ChainTypes, ChainOther
  <2>3. events'[u] = events[u] \/ events'[u] = Append(events[u], e)
    BY Zenon DEF WakeInv
  <2> QED
    BY Zenon, <1>1, <2>1, <2>2, <2>3
<1> QED
  BY Zenon, <1>2, QueuesStay

\* The end of a dial or of a socket does not change the order.
LEMMA NetworkOrder == ASSUME WakeInv, Orderly, NEW s \in Sockets, DialEnds(s) \/ Breaks(s) PROVE Orderly'
<1>1. \A t \in {"open", "error", "closed", "other"} : [type |-> t] \in Events \ Messages
  BY Zenon DEF Events, Messages
<1>2. ASSUME NEW e \in Events \ Messages, NEW from, NEW to, Happens(s, from, to, e) PROVE Orderly'
  <2>1. /\ link' = [link EXCEPT ![s].phase = to] /\ events' = [events EXCEPT ![s] = Append(@, e)]
        /\ UNCHANGED <<sdk, inbox, handed>>
    BY Zenon, <1>2 DEF Happens
  <2> QED
    BY Zenon, <2>1, HappensOrder
<1>3. CASE DialEnds(s)
  BY Zenon, <1>1, <1>2, <1>3 DEF DialEnds
<1>4. CASE Breaks(s)
  <2>1. PICK t \in {"error", "other", "closed"} : Happens(s, "open", "over", [type |-> t])
    BY Zenon, <1>4 DEF Breaks
  <2> QED
    BY Zenon, <1>1, <1>2, <2>1
<1> QED
  BY Zenon, <1>3, <1>4

\* The next message comes after all before it.
LEMMA ServerSendsOrder == ASSUME WakeInv, Orderly, NEW s \in Sockets, ServerSends(s) PROVE Orderly'
<1>1. /\ link' = [link EXCEPT ![s].sent = @ + 1]
      /\ events' = [events EXCEPT ![s] = Append(@, Message(link[s].sent + 1))]
      /\ UNCHANGED <<sdk, inbox, handed>>
  BY Zenon DEF ServerSends, Message
<1>2. ASSUME NEW u \in Sockets, HandInv(u)
      PROVE  Chain(u, inbox[Box(u)], events'[u], handed[u], link'[u].sent)
  <2>1. Chain(u, inbox[Box(u)], events[u], handed[u], link[u].sent)
    BY Zenon, <1>2 DEF HandInv
  <2>2. CASE u # s
    <3>1. events'[u] = events[u] /\ link'[u].sent = link[u].sent
      BY Zenon, <1>1, <2>2 DEF WakeInv
    <3> QED
      BY Zenon, <2>1, <3>1
  <2>3. CASE u = s
    <3>1. events'[u] = Append(events[u], Message(link[u].sent + 1)) /\ link'[u].sent = link[u].sent + 1
      BY Zenon, <1>1, <2>3 DEF WakeInv
    <3>2. Chain(u, inbox[Box(u)], Append(events[u], Message(link[u].sent + 1)), handed[u], link[u].sent + 1)
      BY Zenon, <2>1, ChainTypes, ChainSends
    <3> QED
      BY Zenon, <3>1, <3>2
  <2> QED
    BY Zenon, <2>2, <2>3
<1> QED
  BY Zenon, <1>1, <1>2, QueuesStay

\* connect and close: no message comes or goes.
LEMMA CloseOrder == ASSUME WakeInv, Orderly, CloseClient PROVE Orderly'
<1>1. UNCHANGED <<sdk, inbox, handed>> /\ GiveUp(current)
  BY Zenon DEF CloseClient
<1>2. CASE current # NoSocket /\ link[current].phase = "opening" /\ sdk # "kotlin"
  <2> DEFINE e == [type |-> IF sdk = "swift" THEN "other" ELSE "error"]
  <2>1. current \in Sockets /\ e \in Events \ Messages
    BY Zenon, <1>2 DEF WakeInv, Events, Messages
  <2>2. events' = [events EXCEPT ![current] = Append(@, e)] /\ link' = [link EXCEPT ![current].phase = "over"]
    BY Zenon, <1>1, <1>2 DEF GiveUp
  <2> HIDE DEF e
  <2> QED
    BY Zenon, <1>1, <2>1, <2>2, HappensOrder
<1>3. CASE ~ (current # NoSocket /\ link[current].phase = "opening" /\ sdk # "kotlin")
  <2>1. UNCHANGED <<link, events>>
    BY Zenon, <1>1, <1>3 DEF GiveUp
  <2> QED
    BY Zenon, <1>1, <2>1, QueuesStay DEF HandInv
<1> QED
  BY Zenon, <1>2, <1>3

\* A new socket has no message yet.
LEMMA DialOrder == ASSUME WakeInv, Orderly, Dial PROVE Orderly'
<1> DEFINE s == connect.socket + 1
<1>1. link' = [link EXCEPT ![s].phase = "opening"] /\ UNCHANGED <<sdk, events, inbox, handed>>
  BY Zenon DEF Dial
<1> HIDE DEF s
<1>2. \A u \in Sockets : link'[u].sent = link[u].sent
  BY Zenon, <1>1 DEF WakeInv
<1> QED
  BY Zenon, <1>1, <1>2, QueuesStay DEF HandInv

\* A callback that is not a message's.
LEMMA OtherOrder ==
  ASSUME WakeInv, Orderly, NEW s \in Sockets,
         OnOpen(s) \/ OnOther(s) \/ \E type \in {"error", "closed"} : OnEnd(s, type)
  PROVE  Orderly'
<1>1. PICK type \in {"open", "other", "error", "closed"} : Callback(s, type)
  BY Zenon DEF OnOpen, OnOther, OnEnd
<1>2. UNCHANGED <<inbox, handed>>
  BY Zenon DEF OnOpen, OnOther, OnEnd
<1>3. /\ events[s] # <<>> /\ Head(events[s]).type = type
      /\ events' = [events EXCEPT ![s] = Tail(@)] /\ UNCHANGED <<sdk, link>>
  BY Zenon, <1>1 DEF Callback
<1>4. Head(events[s]) \notin Messages
  BY Zenon, <1>3 DEF Messages
<1>5. ASSUME NEW u \in Sockets, HandInv(u)
      PROVE  Chain(u, inbox[Box(u)], events'[u], handed[u], link'[u].sent)
  <2>1. Chain(u, inbox[Box(u)], events[u], handed[u], link[u].sent) /\ link'[u].sent = link[u].sent
    BY Zenon, <1>3, <1>5 DEF HandInv
  <2>2. CASE u # s
    <3>1. events'[u] = events[u]
      BY Zenon, <1>3, <2>2 DEF WakeInv
    <3> QED
      BY Zenon, <2>1, <3>1
  <2>3. CASE u = s
    <3>1. events'[u] = Tail(events[u])
      BY Zenon, <1>3, <2>3 DEF WakeInv
    <3>2. Chain(u, inbox[Box(u)], Tail(events[u]), handed[u], link[u].sent)
      BY Zenon, <1>3, <1>4, <2>1, <2>3, ChainTypes, ChainOther
    <3> QED
      BY Zenon, <2>1, <3>1, <3>2
  <2> QED
    BY Zenon, <2>2, <2>3
<1> QED
  BY Zenon, <1>2, <1>3, <1>5, QueuesStay

\* A message is called back: to a waiter when the queue is empty, or to the
\* queue of its socket.
LEMMA OnMessageOrder ==
  ASSUME WakeInv, Orderly, ~ slipped, NEW s \in Sockets, OnMessage(s)
  PROVE  Orderly'
<1> DEFINE b == Box(s)
           k == Head(events[s]).n
           m == Letter(s, k)
<1>1. /\ events[s] # <<>> /\ Head(events[s]).type = "message"
      /\ events' = [events EXCEPT ![s] = Tail(@)] /\ UNCHANGED <<sdk, link>>
  BY Zenon DEF OnMessage, Callback
<1>2. Head(events[s]) = Message(k) /\ k \in Nat
  <2>1. Head(events[s]) \in Events
    BY <1>1 DEF WakeInv
  <2>2. Head(events[s]) \in Messages
    BY Zenon, <1>1, <2>1 DEF Messages
  <2> QED
    BY Zenon, <2>2, MessageFacts
<1>3. b \in Sockets /\ m \in Letters /\ m.socket = s /\ m.n = k
  BY Zenon, <1>2, LetterFacts, BoxIsSocket DEF Letter
<1>4. Chain(s, inbox[b], events[s], handed[s], link[s].sent)
  BY Zenon DEF Orderly, HandInv
<1>5. events'[s] = Tail(events[s]) /\ \A u \in Sockets \ {s} : events'[u] = events[u]
  BY Zenon, <1>1 DEF WakeInv
<1>6. \A u \in Sockets : Box(u)' = Box(u) /\ link'[u].sent = link[u].sent
  BY Zenon, <1>1 DEF Box
<1>7. handed \in [Sockets -> Seq(Nat)] /\ Boxed
  BY Zenon DEF Orderly
<1>8. CASE waiters[b] # <<>>
  <2>1. handed' = [handed EXCEPT ![s] = Append(@, k)] /\ inbox' = inbox
    BY Zenon, <1>8 DEF OnMessage, Hand
  <2>2. inbox[b] = <<>>
    BY Zenon, <1>3, <1>8 DEF WakeInv, NoMissedWakeup
  <2> HIDE DEF b, k, m
  <2>3. \A n \in Nat : ~ In(inbox[b], Letter(s, n))
    BY <2>2 DEF In
  <2>4. Chain(s, inbox[b], Tail(events[s]), Append(handed[s], k), link[s].sent)
    BY Zenon, <1>1, <1>2, <1>4, <2>3, ChainTypes, ChainHands
  <2>5. ASSUME NEW u \in Sockets PROVE HandInv(u)'
    <3>1. CASE u = s
      <4>1. handed'[s] = Append(handed[s], k)
        BY Zenon, <1>7, <2>1
      <4> QED
        BY Zenon, <1>5, <1>6, <2>1, <2>4, <3>1, <4>1 DEF HandInv, b
    <3>2. CASE u # s
      <4>1. handed'[u] = handed[u]
        BY Zenon, <1>7, <2>1, <3>2
      <4>2. HandInv(u)
        BY Zenon DEF Orderly
      <4> QED
        BY Zenon, <1>5, <1>6, <2>1, <3>2, <4>1, <4>2 DEF HandInv
    <3> QED
      BY Zenon, <3>1, <3>2
  <2>6. handed' \in [Sockets -> Seq(Nat)]
    <3>1. handed[s] \in Seq(Nat)
      BY Zenon, <1>7
    <3>2. Append(handed[s], k) \in Seq(Nat)
      BY <1>2, <3>1
    <3> QED
      BY Zenon, <1>7, <2>1, <3>2
  <2>7. Boxed'
    BY Zenon, <1>1, <1>7, <2>1 DEF Boxed, Box
  <2> QED
    BY Zenon, <2>5, <2>6, <2>7 DEF Orderly
<1>9. CASE waiters[b] = <<>>
  <2>1. handed' = handed /\ inbox' = [inbox EXCEPT ![b] = Append(@, m)]
    BY Zenon, <1>9 DEF OnMessage, Letter
  <2> HIDE DEF b, k
  <2>2. inbox'[b] = Append(inbox[b], m) /\ \A c \in Sockets \ {b} : inbox'[c] = inbox[c]
    BY Zenon, <1>3, <2>1 DEF WakeInv
  <2>3. inbox[b] \in Seq(Letters)
    BY Zenon, <1>3 DEF WakeInv
  <2>4. Chain(s, Append(inbox[b], m), Tail(events[s]), handed[s], link[s].sent)
    BY Zenon, <1>1, <1>2, <1>4, <2>3, ChainTypes, ChainQueues
  <2> HIDE DEF m
  <2>5. ASSUME NEW u \in Sockets PROVE HandInv(u)'
    <3>1. CASE u = s
      BY Zenon, <1>5, <1>6, <2>1, <2>2, <2>4, <3>1 DEF HandInv, b
    <3>2. CASE u # s
      <4>1. Chain(u, inbox[Box(u)], events[u], handed[u], link[u].sent)
        BY Zenon DEF Orderly, HandInv
      <4>2. CASE Box(u) = b
        <5>1. m \in Letters \ LettersOf(u)
          BY Zenon, <1>3, <3>2 DEF LettersOf
        <5>2. Chain(u, Append(inbox[b], m), events[u], handed[u], link[u].sent)
          BY Zenon, <2>3, <4>1, <4>2, <5>1, ChainElse
        <5> QED
          BY Zenon, <1>5, <1>6, <2>1, <2>2, <3>2, <4>2, <5>2 DEF HandInv
      <4>3. CASE Box(u) # b
        <5>1. inbox'[Box(u)] = inbox[Box(u)]
          BY Zenon, <2>2, <4>3, BoxIsSocket
        <5> QED
          BY Zenon, <1>5, <1>6, <2>1, <3>2, <4>1, <5>1 DEF HandInv
      <4> QED
        BY Zenon, <4>2, <4>3
    <3> QED
      BY Zenon, <3>1, <3>2
  <2>6. Boxed'
    <3> SUFFICES ASSUME NEW c \in Sockets, NEW x \in Letters, In(inbox'[c], x) PROVE Box(x.socket)' = c
      BY Zenon DEF Boxed
    <3>1. In(inbox[c], x) \/ (c = b /\ x = m)
      <4>1. CASE c # b
        BY Zenon, <2>2, <4>1
      <4>2. CASE c = b
        <5>1. In(Append(inbox[b], m), x)
          BY Zenon, <2>2, <4>2
        <5>2. In(inbox[b], x) \/ m = x
          BY Zenon, <1>3, <2>3, <5>1, InAppend
        <5> QED
          BY Zenon, <4>2, <5>2
      <4> QED
        BY Zenon, <4>1, <4>2
    <3>2. x.socket \in Sockets
      BY Zenon DEF Letters
    <3> QED
      BY Zenon, <1>3, <1>6, <1>7, <3>1, <3>2 DEF Boxed, b
  <2> QED
    BY Zenon, <1>7, <2>1, <2>5, <2>6 DEF Orderly
<1> QED
  BY Zenon, <1>8, <1>9

\* The head of a queue is handed to receive.
LEMMA TakeOrder ==
  ASSUME WakeInv, Orderly, NEW b \in Sockets, inbox[b] # <<>>, Take(b), UNCHANGED <<sdk, link, events>>
  PROVE  Orderly'
<1> DEFINE m == Head(inbox[b])
           s == m.socket
           k == m.n
<1>1. /\ handed' = [handed EXCEPT ![s] = Append(@, k)]
      /\ inbox'[b] = Tail(inbox[b]) /\ \A c \in Sockets \ {b} : inbox'[c] = inbox[c]
  BY Zenon DEF Take, Hand, WakeInv
<1>2. inbox[b] \in Seq(Letters)
  BY Zenon DEF WakeInv
<1>3. m \in Letters
  BY <1>2
<1>4. s \in Sockets /\ k \in Nat /\ m = Letter(s, k)
  BY Zenon, <1>3 DEF Letters, Letter
<1>5. handed \in [Sockets -> Seq(Nat)] /\ Boxed
  BY Zenon DEF Orderly
<1>6. \A u \in Sockets : Box(u)' = Box(u)
  BY Zenon DEF Box
<1>7. Box(s) = b
  <2>1. In(inbox[b], m)
    BY Zenon, <1>2, InTail
  <2> QED
    BY Zenon, <1>3, <1>5, <2>1 DEF Boxed
<1> HIDE DEF s, k
<1>8. ASSUME NEW u \in Sockets PROVE HandInv(u)'
  <2>1. Chain(u, inbox[Box(u)], events[u], handed[u], link[u].sent)
    BY Zenon DEF Orderly, HandInv
  <2>2. CASE u = s
    <3>1. Chain(s, Tail(inbox[b]), events[s], Append(handed[s], k), link[s].sent)
      BY Zenon, <1>2, <1>4, <1>7, <2>1, <2>2, ChainTypes, ChainTakes
    <3>2. handed'[s] = Append(handed[s], k)
      BY Zenon, <1>1, <1>4, <1>5
    <3> QED
      BY Zenon, <1>1, <1>6, <1>7, <2>2, <3>1, <3>2 DEF HandInv
  <2>3. CASE u # s
    <3>1. handed'[u] = handed[u]
      BY Zenon, <1>1, <1>5, <2>3
    <3>2. CASE Box(u) = b
      <4>1. m \notin LettersOf(u)
        BY Zenon, <2>3 DEF LettersOf, s
      <4>2. Chain(u, Tail(inbox[b]), events[u], handed[u], link[u].sent)
        BY Zenon, <1>2, <2>1, <3>2, <4>1, ChainElse
      <4> QED
        BY Zenon, <1>1, <1>6, <3>1, <3>2, <4>2 DEF HandInv
    <3>3. CASE Box(u) # b
      <4>1. inbox'[Box(u)] = inbox[Box(u)]
        BY Zenon, <1>1, <3>3, BoxIsSocket
      <4> QED
        BY Zenon, <1>6, <2>1, <3>1, <4>1 DEF HandInv
    <3> QED
      BY Zenon, <3>2, <3>3
  <2> QED
    BY Zenon, <2>2, <2>3
<1>9. Boxed'
  <2> SUFFICES ASSUME NEW c \in Sockets, NEW x \in Letters, In(inbox'[c], x) PROVE Box(x.socket)' = c
    BY Zenon DEF Boxed
  <2>1. In(inbox[c], x)
    <3>1. CASE c # b
      BY Zenon, <1>1, <3>1
    <3>2. CASE c = b
      <4>1. In(Tail(inbox[b]), x)
        BY Zenon, <1>1, <3>2
      <4> QED
        BY Zenon, <1>2, <3>2, <4>1, InTail
    <3> QED
      BY Zenon, <3>1, <3>2
  <2>2. x.socket \in Sockets
    BY Zenon DEF Letters
  <2> QED
    BY Zenon, <1>5, <1>6, <2>1, <2>2 DEF Boxed
<1>10. handed' \in [Sockets -> Seq(Nat)]
  <2>1. handed[s] \in Seq(Nat)
    BY Zenon, <1>4, <1>5
  <2>2. Append(handed[s], k) \in Seq(Nat)
    BY <1>4, <2>1
  <2> QED
    BY Zenon, <1>1, <1>4, <1>5, <2>2
<1> QED
  BY Zenon, <1>8, <1>9, <1>10 DEF Orderly

\* A call of receive takes the first message of the queue.
LEMMA ReceiveOrder == ASSUME WakeInv, Orderly, NEW r \in Receivers, Receive(r) \/ Poll(r) PROVE Orderly'
<1>1. PICK b \in Sockets : IF inbox[b] # <<>> THEN Take(b) ELSE UNCHANGED <<inbox, handed>>
  <2>1. CASE Receive(r)
    <3>1. Box(current) \in Sockets
      BY Zenon, <2>1, FirstSocket DEF WakeInv, Receive, Box
    <3>2. IF inbox[Box(current)] # <<>> THEN Take(Box(current)) ELSE UNCHANGED <<inbox, handed>>
      BY Zenon, <2>1 DEF Receive
    <3> QED
      BY Zenon, <3>1, <3>2
  <2>2. CASE Poll(r)
    BY Zenon, <2>2, FirstSocket DEF Poll
  <2> QED
    BY Zenon, <2>1, <2>2
<1>2. UNCHANGED <<sdk, link, events>>
  BY Zenon DEF Receive, Poll
<1>3. CASE inbox[b] # <<>>
  BY Zenon, <1>1, <1>2, <1>3, TakeOrder
<1>4. CASE inbox[b] = <<>>
  BY Zenon, <1>1, <1>2, <1>4, QueuesStay DEF HandInv
<1> QED
  BY Zenon, <1>3, <1>4

\* Every step keeps the order of the messages.
LEMMA OrderKept == ASSUME WakeInv, OrderInv, [SocketsNext]_sockets PROVE OrderInv'
<1> SUFFICES ASSUME ~ slipped' PROVE Orderly'
  BY Zenon DEF OrderInv
<1>1. ~ slipped
  <2>1. CASE UNCHANGED slipped
    BY Zenon, <2>1
  <2>2. ASSUME NEW r \in Receivers, Suspend(r) PROVE ~ slipped
    BY Zenon, <2>2 DEF Suspend
  <2>3. UNCHANGED slipped \/ \E r \in Receivers : Suspend(r)
    BY ZenonT(60) DEF SocketsNext, sockets, Dial, ConnectReturns, CloseClient, CloseReturns, DialEnds, Breaks, Happens,
           ServerSends, Callbacks, OnOpen, OnAnyEnd, OnEnd, OnOther, OnMessage, Callback, Receive, Poll
  <2> QED
    BY Zenon, <2>1, <2>2, <2>3
<1>2. Orderly
  BY Zenon, <1>1 DEF OrderInv
<1>3. CASE UNCHANGED sockets \/ ConnectReturns \/ CloseReturns \/ \E r \in Receivers : Suspend(r)
  <2>1. UNCHANGED <<sdk, link, events, inbox, handed>>
    BY Zenon, <1>3 DEF sockets, ConnectReturns, CloseReturns, Suspend
  <2> QED
    BY Zenon, <1>2, <2>1, QueuesStay DEF HandInv
<1>4. CASE Dial \/ CloseClient
  BY Zenon, <1>2, <1>4, DialOrder, CloseOrder
<1>5. ASSUME NEW s \in Sockets, DialEnds(s) \/ Breaks(s) \/ ServerSends(s) PROVE Orderly'
  BY Zenon, <1>2, <1>5, NetworkOrder, ServerSendsOrder
<1>6. ASSUME NEW s \in Sockets, Callbacks(s) PROVE Orderly'
  BY Zenon, <1>1, <1>2, <1>6, OtherOrder, OnMessageOrder DEF Callbacks, OnAnyEnd
<1>7. ASSUME NEW r \in Receivers, Receive(r) \/ Poll(r) PROVE Orderly'
  BY Zenon, <1>2, <1>7, ReceiveOrder
<1> QED
  BY Zenon, <1>3, <1>4, <1>5, <1>6, <1>7 DEF SocketsNext

\* The messages of a socket are handed to the calls of receive in the order
\* they came, none left out, unless one came between the two locks of Swift's
\* receive.
THEOREM SocketsHandedInOrder == SocketsSpec => []HandedInOrder
<1>1. OrderInv => HandedInOrder
  BY Zenon DEF OrderInv, Orderly, HandInv, Chain, HandedInOrder
<1>2. SocketsInit => OrderInv
  BY Zenon, OrderStart DEF OrderInv
<1>3. WakeInv /\ OrderInv /\ [SocketsNext]_sockets => OrderInv'
  BY Zenon, OrderKept
<1> QED
  BY <1>1, <1>2, <1>3, WakeInvariant, PTL DEF SocketsSpec
=============================================================================
