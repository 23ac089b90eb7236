----------------------------- MODULE Standalone -----------------------------
(***************************************************************************)
(* The parts that no other part of the repository calls, one of them at a  *)
(* time: the handshakes of the crypto handler, the sender keys of a group, *)
(* the four example applications, and the clients of the TypeScript,       *)
(* Kotlin and Swift SDKs.  They share nothing.                             *)
(***************************************************************************)
EXTENDS CryptoHandler, SenderKeys, OrderBook, Telemetry, GameWorld, NotifyHub, SocketClients

LOCAL INSTANCE FiniteSetsExt

VARIABLE app

vars == <<app, handler, group, serving, book, store, world, notify, sockets>>

Init ==
  /\ app \in {"handshakes", "group", "orders", "telemetry", "game", "notify", "client"}
  /\ HandlerInit /\ SenderInit /\ (app # "group" => roster = {} /\ stores)
  /\ ServingInit /\ BookInit /\ StoreInit /\ WorldInit /\ HubInit
  /\ SocketsInit /\ (app # "client" => sdk = "swift")

Next ==
  /\ UNCHANGED app
  /\ \/ /\ app = "handshakes" /\ HandlerNext
        /\ UNCHANGED <<group, serving, book, store, world, notify, sockets>>
     \/ /\ app = "group" /\ SenderNext
        /\ UNCHANGED <<handler, serving, book, store, world, notify, sockets>>
     \/ /\ app = "orders" /\ BookNext
        /\ UNCHANGED <<handler, group, store, world, notify, sockets>>
     \/ /\ app = "telemetry" /\ StoreNext
        /\ UNCHANGED <<handler, group, book, world, notify, sockets>>
     \/ /\ app = "game" /\ WorldNext
        /\ UNCHANGED <<handler, group, book, store, notify, sockets>>
     \/ /\ app = "notify" /\ HubNext
        /\ UNCHANGED <<handler, group, serving, book, store, world, sockets>>
     \/ /\ app = "client" /\ SocketsNext
        /\ UNCHANGED <<handler, group, serving, book, store, world, notify>>

Spec == Init /\ [][Next]_vars

\* What an example server has acknowledged, it has.  The number in a "filled"
\* response is the place of that order in the book: two traders' orders never
\* get one number, nor swap theirs.  A telemetry reading is in the store until
\* Keep newer ones of its device have displaced it, whichever connections they
\* came from.
AcknowledgedIsKept ==
  \A p \in Peers : \A i \in 1 .. Len(seen[p]) :
    LET ack == seen[p][i] IN
    /\ app = "orders" /\ ack.status = "filled" =>
         ack.exec \in 1 .. Len(orders) /\ orders[ack.exec] = ack.order
    /\ app = "telemetry" =>
         LET d == DeviceOf[p]
             place == CHOOSE j \in 1 .. Len(added[d]) : added[d][j] = ack
         IN (\E j \in 1 .. Len(records[d]) : records[d][j] = ack) <=> Len(added[d]) - place < Keep

\* Every kill is credited once: the scores add up to the number of dead
\* players, although players attack one another (and themselves) at the same
\* time.  It holds while each connection is a player of its own.
KillsCredited ==
  app = "game" =>
    MapThenSumSet(LAMBDA p : players[p].score, Peers)
      = Cardinality({p \in Peers : runs[p] > 0 /\ ~ players[p].alive})

\* A broadcast that returns has written to every subscriber who listened to
\* its channel all the time it ran and whose connection has not ended, whatever
\* other connections ended and other subscriptions changed meanwhile.  The
\* notification is decrypted there, or is under way and will be, unless two
\* broadcasts were in that subscriber's session at once: they may part its
\* cipher states, and the client then drops all that follows.
ListenersReached ==
  \A b \in Broadcasts : bcast[b].state = "sent" =>
    \A s \in owed[b] \cap up :
      /\ s \in wrote[b]
      /\ \/ s \in raced
         \/ \E i \in 1 .. Len(delivered[s]) : delivered[s][i] = b
         \/ \E i \in 1 .. Len(wire[s]) :
              wire[s][i] = [nonce |-> expected[s] + i - 1, note |-> b]
=============================================================================
