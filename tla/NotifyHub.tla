----------------------------- MODULE NotifyHub -----------------------------
(***************************************************************************)
(* examples/notifications: the hub, its subscribers and the broadcasts of  *)
(* the /send handlers.                                                     *)
(*                                                                         *)
(* A broadcast holds the hub's lock for reading only, so two of them share *)
(* a subscriber's Noise session and connection.  Encrypt and WriteMessage  *)
(* are two steps; the nonce of two concurrent Encrypts is a data race.     *)
(* handleClient replaces the subscriber's channels without the lock.  A    *)
(* subscriber is one connection: when it ends, what is under way is lost,  *)
(* writes to it fail or go nowhere, and handleClient returns.              *)
(***************************************************************************)
EXTENDS Naturals, Sequences

CONSTANTS
  Subscribers,
  Channels,     \* the channels notifications are sent to
  Broadcasts    \* the calls of /send, one notification each

ASSUME HubAssumption == "*" \notin Channels

VARIABLES
  hub,         \* the subscribers in the hub
  up,          \* the subscribers whose connection has not ended
  channels,    \* sub.channels
  filling,     \* channels that handleClient has still to add to the map
  nonce,       \* the next nonce of the server's cipher state
  expected,    \* the next nonce of the client's
  wire,        \* ciphertexts on their way to the client
  delivered,   \* history: the notifications the client has decrypted
  bcast,       \* the state of each broadcast
  crashed,     \* the Go runtime has ended the process
  raced,       \* history: the subscribers for whom Encrypt was called while
               \* another broadcast had a ciphertext to write to them
  owed,        \* history: the subscribers a broadcast has to reach
  wrote        \* history: the subscribers a broadcast has written to

notify == <<hub, up, channels, filling, nonce, expected, wire, delivered, bcast,
            crashed, raced, owed, wrote>>

HubInit ==
  /\ hub = {} /\ up = Subscribers
  /\ channels = [s \in Subscribers |-> {}]
  /\ filling = [s \in Subscribers |-> {}]
  /\ nonce = [s \in Subscribers |-> 0]
  /\ expected = [s \in Subscribers |-> 0]
  /\ wire = [s \in Subscribers |-> <<>>]
  /\ delivered = [s \in Subscribers |-> <<>>]
  /\ bcast = [b \in Broadcasts |-> [state |-> "new", todo |-> {}, at |-> "none", nonce |-> 0, channel |-> "none"]]
  /\ crashed = FALSE
  /\ raced = {}
  /\ owed = [b \in Broadcasts |-> {}]
  /\ wrote = [b \in Broadcasts |-> {}]

Reading == {b \in Broadcasts : bcast[b].state \in {"loop", "write"}}

Listens(s, c) == c \in channels[s] \/ "*" \in channels[s]

\* handleClient: a new subscriber listens to everything.  addSubscriber waits
\* for the lock.
Subscribe(s) ==
  /\ s \in up \ hub /\ Reading = {}
  /\ hub' = hub \cup {s}
  /\ channels' = [channels EXCEPT ![s] = {"*"}]
  /\ UNCHANGED <<filling, nonce, expected, wire, delivered, bcast, raced, owed, wrote>>

\* A broadcast owes a notification to whom it has to reach at every moment.
Forgiven == [b \in Broadcasts |->
  IF b \in Reading
  THEN {s \in owed[b] : bcast[b].channel \in channels'[s] \/ "*" \in channels'[s]}
  ELSE owed[b]]

\* handleClient, MsgSubscribe: a new map.
Resubscribe(s) ==
  /\ s \in hub /\ filling[s] = {}
  /\ channels' = [channels EXCEPT ![s] = {}]
  /\ \E chosen \in SUBSET Channels : filling' = [filling EXCEPT ![s] = chosen]
  /\ owed' = Forgiven
  /\ UNCHANGED <<hub, nonce, expected, wire, delivered, bcast, raced, wrote>>

\* handleClient, MsgSubscribe: the next channel.
AddChannel(s) ==
  \E c \in filling[s] :
    /\ channels' = [channels EXCEPT ![s] = @ \cup {c}]
    /\ filling' = [filling EXCEPT ![s] = @ \ {c}]
    /\ UNCHANGED <<hub, nonce, expected, wire, delivered, bcast, raced, owed, wrote>>

\* The connection ends, and the client reads no more than what has arrived.
Ends(s) ==
  /\ s \in hub \cap up
  /\ up' = up \ {s}
  /\ \E n \in 0 .. Len(wire[s]) : wire' = [wire EXCEPT ![s] = SubSeq(@, 1, n)]
  /\ UNCHANGED <<hub, channels, filling, nonce, expected, delivered, bcast, raced, owed, wrote>>

\* handleClient: ReadMessage fails; removeSubscriber waits for the lock.
Unsubscribe(s) ==
  /\ s \in hub \ up /\ Reading = {}
  /\ hub' = hub \ {s}
  /\ channels' = [channels EXCEPT ![s] = {}]
  /\ filling' = [filling EXCEPT ![s] = {}]
  /\ UNCHANGED <<nonce, expected, wire, delivered, bcast, raced, owed, wrote>>

\* /send: broadcast takes the lock for reading.
Broadcast(b, c) ==
  /\ bcast[b].state = "new"
  /\ bcast' = [bcast EXCEPT ![b] = [state |-> "loop", todo |-> hub, at |-> "none", nonce |-> 0, channel |-> c]]
  /\ owed' = [owed EXCEPT ![b] = {s \in hub : Listens(s, c)}]
  /\ UNCHANGED <<hub, channels, filling, nonce, expected, wire, delivered, raced, wrote>>

\* broadcast: the subscriber does not listen to the channel.
Skip(b, s) ==
  /\ bcast[b].state = "loop" /\ s \in bcast[b].todo
  /\ ~ Listens(s, bcast[b].channel)
  /\ bcast' = [bcast EXCEPT ![b].todo = @ \ {s}]
  /\ UNCHANGED <<hub, channels, filling, nonce, expected, wire, delivered, raced, owed, wrote>>

\* The broadcasts that have encrypted for s and have still to write.
Within(s) == {a \in Reading : bcast[a].at = s}

\* broadcast: Encrypt.  A concurrent Encrypt may take the same nonce.
EncryptFor(b, s) ==
  /\ bcast[b].state = "loop" /\ s \in bcast[b].todo
  /\ Listens(s, bcast[b].channel)
  /\ \E n \in {nonce[s]} \cup {bcast[a].nonce : a \in Within(s)} :
       /\ bcast' = [bcast EXCEPT ![b].state = "write", ![b].todo = @ \ {s}, ![b].at = s, ![b].nonce = n]
       /\ nonce' = [nonce EXCEPT ![s] = n + 1]
  /\ raced' = IF Within(s) = {} THEN raced ELSE raced \cup {s}
  /\ UNCHANGED <<hub, channels, filling, expected, wire, delivered, owed, wrote>>

\* Mutant: broadcast returns at the first write that fails.
WriteToGivesUp(b) ==
  LET s == bcast[b].at
  IN /\ bcast[b].state = "write"
     /\ IF s \in up
        THEN /\ wire' = [wire EXCEPT ![s] = Append(@, [nonce |-> bcast[b].nonce, note |-> b])]
             /\ wrote' = [wrote EXCEPT ![b] = @ \cup {s}]
        ELSE UNCHANGED <<wire, wrote>>
     /\ bcast' = [bcast EXCEPT ![b].state = IF s \in up THEN "loop" ELSE "sent", ![b].at = "none",
                               ![b].nonce = 0]
     /\ UNCHANGED <<hub, channels, filling, nonce, expected, delivered, raced, owed>>

\* broadcast: WriteMessage.  An error of it is passed over, and a write that
\* the end of the connection overtakes reaches nobody either.
WriteTo(b) ==
  LET s == bcast[b].at
  IN /\ bcast[b].state = "write"
     /\ IF s \in up
        THEN /\ wire' = [wire EXCEPT ![s] = Append(@, [nonce |-> bcast[b].nonce, note |-> b])]
             /\ wrote' = [wrote EXCEPT ![b] = @ \cup {s}]
        ELSE UNCHANGED <<wire, wrote>>
     /\ bcast' = [bcast EXCEPT ![b].state = "loop", ![b].at = "none", ![b].nonce = 0]
     /\ UNCHANGED <<hub, channels, filling, nonce, expected, delivered, raced, owed>>

\* broadcast: WriteMessage panics if another call is in it on the same
\* connection; the HTTP server recovers, the deferred unlock runs.
WritePanics(b) ==
  /\ bcast[b].state = "write"
  /\ \E a \in Reading \ {b} : bcast[a].state = "write" /\ bcast[a].at = bcast[b].at
  /\ bcast' = [bcast EXCEPT ![b] = [@ EXCEPT !.state = "aborted", !.at = "none", !.nonce = 0]]
  /\ UNCHANGED <<hub, channels, filling, nonce, expected, wire, delivered, raced, owed, wrote>>

\* broadcast reads the map that handleClient is filling: the runtime may end
\* the process.
MapRace(s) ==
  /\ filling[s] # {}
  /\ \E b \in Reading : s \in bcast[b].todo
  /\ crashed' = TRUE
  /\ UNCHANGED <<hub, channels, filling, nonce, expected, wire, delivered, bcast, raced, owed, wrote>>

\* broadcast returns and gives the lock back.
Broadcasted(b) ==
  /\ bcast[b].state = "loop" /\ bcast[b].todo = {}
  /\ bcast' = [bcast EXCEPT ![b].state = "sent"]
  /\ UNCHANGED <<hub, channels, filling, nonce, expected, wire, delivered, raced, owed, wrote>>

\* runClient: an undecryptable message is dropped without notice.
Notified(s) ==
  /\ wire[s] # <<>>
  /\ wire' = [wire EXCEPT ![s] = Tail(@)]
  /\ IF Head(wire[s]).nonce = expected[s]
     THEN /\ expected' = [expected EXCEPT ![s] = @ + 1]
          /\ delivered' = [delivered EXCEPT ![s] = Append(@, Head(wire[s]).note)]
     ELSE UNCHANGED <<expected, delivered>>
  /\ UNCHANGED <<hub, channels, filling, nonce, bcast, raced, owed, wrote>>

HubStep ==
  \/ \E s \in Subscribers :
       Subscribe(s) \/ Resubscribe(s) \/ AddChannel(s) \/ Unsubscribe(s) \/ Notified(s)
  \/ \E b \in Broadcasts :
       \/ \E c \in Channels : Broadcast(b, c)
       \/ \E s \in Subscribers : Skip(b, s) \/ EncryptFor(b, s)
       \/ WriteTo(b) \/ WritePanics(b) \/ Broadcasted(b)

HubNext ==
  /\ ~ crashed
  /\ \/ HubStep /\ UNCHANGED <<up, crashed>>
     \/ (\E s \in Subscribers : Ends(s)) /\ UNCHANGED crashed
     \/ (\E s \in Subscribers : MapRace(s)) /\ UNCHANGED up
=============================================================================
