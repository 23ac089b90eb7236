----------------------------- MODULE StreamConn -----------------------------
(***************************************************************************)
(* GRPCStreamConn and GRPCClientConn: one end of a gRPC stream as a Conn.  *)
(* It has two bounded channels and a context that Close, or the end of the *)
(* context it was made from, ends.  Its users call ReadMessage and         *)
(* WriteMessage; Feed and Drain are for a stream pump, which the code does *)
(* not contain: here any goroutine may call anything at any time.  A call  *)
(* waits in its select until a case is ready, and takes either of two that *)
(* are.  What a message says does not matter, so a channel is the number   *)
(* of messages in it.                                                      *)
(***************************************************************************)
EXTENDS Naturals

CONSTANTS
  Capacity,    \* of a channel: 16 in the code
  Goroutines   \* that use the connection

ASSUME StreamAssumption == Capacity \in Nat \ {0}

VARIABLES
  kind,            \* which of the two types
  sendCh, recvCh,
  done,            \* the context is done
  inside           \* the call in which each goroutine waits

stream == <<kind, sendCh, recvCh, done, inside>>

Operations == {"ReadMessage", "WriteMessage", "Feed", "Drain"}

StreamInit ==
  /\ kind \in {"server", "client"}
  /\ sendCh = 0 /\ recvCh = 0
  /\ done = FALSE
  /\ inside = [g \in Goroutines |-> "no"]

\* A goroutine calls an operation and comes to its select.
Call(g, op) ==
  /\ inside[g] = "no"
  /\ inside' = [inside EXCEPT ![g] = op]
  /\ UNCHANGED <<kind, sendCh, recvCh, done>>

\* The call returns.
Leaves(g, op) ==
  /\ inside[g] = op
  /\ inside' = [inside EXCEPT ![g] = "no"]
  /\ UNCHANGED <<kind, done>>

ReadMessage(g) ==
  /\ Leaves(g, "ReadMessage")
  /\ UNCHANGED sendCh
  /\ \/ recvCh > 0 /\ recvCh' = recvCh - 1
     \/ done /\ UNCHANGED recvCh

WriteMessage(g) ==
  /\ Leaves(g, "WriteMessage")
  /\ UNCHANGED recvCh
  /\ \/ sendCh < Capacity /\ sendCh' = sendCh + 1
     \/ done /\ UNCHANGED sendCh

\* Mutant: Feed sends into the channel without a select.
FeedIgnoresClose(g) ==
  /\ Leaves(g, "Feed")
  /\ UNCHANGED sendCh
  /\ recvCh < Capacity /\ recvCh' = recvCh + 1

Feed(g) ==
  /\ Leaves(g, "Feed")
  /\ UNCHANGED sendCh
  /\ \/ recvCh < Capacity /\ recvCh' = recvCh + 1
     \/ done /\ UNCHANGED recvCh

Drain(g) ==
  /\ Leaves(g, "Drain")
  /\ UNCHANGED recvCh
  /\ \/ sendCh > 0 /\ sendCh' = sendCh - 1
     \/ done /\ UNCHANGED sendCh

\* Closing twice is harmless.
Close == done' = TRUE /\ UNCHANGED <<kind, sendCh, recvCh, inside>>

\* The operations of GRPCStreamConn and of GRPCClientConn.
ServerReadMessage(g) == kind = "server" /\ ReadMessage(g)
ServerWriteMessage(g) == kind = "server" /\ WriteMessage(g)
ServerFeed(g) == kind = "server" /\ Feed(g)
ServerDrain(g) == kind = "server" /\ Drain(g)
ServerClose == kind = "server" /\ Close
ClientReadMessage(g) == kind = "client" /\ ReadMessage(g)
ClientWriteMessage(g) == kind = "client" /\ WriteMessage(g)
ClientFeed(g) == kind = "client" /\ Feed(g)
ClientDrain(g) == kind = "client" /\ Drain(g)
ClientClose == kind = "client" /\ Close

Returns(g) ==
  \/ ServerReadMessage(g) \/ ServerWriteMessage(g) \/ ServerFeed(g) \/ ServerDrain(g)
  \/ ClientReadMessage(g) \/ ClientWriteMessage(g) \/ ClientFeed(g) \/ ClientDrain(g)

StreamNext ==
  \/ \E g \in Goroutines : Returns(g) \/ \E op \in Operations : Call(g, op)
  \/ ServerClose \/ ClientClose

\* Close gets every goroutine out of the connection: a call that waits for a
\* channel that stays full or empty returns, also when all goroutines wait, and
\* so does one that comes to its select after Close.
CloseReleases == \A g \in Goroutines : (done /\ inside[g] # "no") ~> (inside[g] = "no")
=============================================================================
