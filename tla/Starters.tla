------------------------------ MODULE Starters -------------------------------
(***************************************************************************)
(* The starter packs: the session machine in the languages it was ported   *)
(* to, all given the same events, and the connections of the Node pack     *)
(* with the two programs of its echo example, on one thread each.          *)
(***************************************************************************)
EXTENDS Naturals, Sequences

CONSTANT Sends  \* messages the client of the example sends: 3 in the code

ASSUME StartersAssumption == Sends \in Nat

VARIABLES
  ported,   \* the session of each port
  result,   \* what its last transition returned
  wire,     \* what the ws library of each end has yet to report
  alive,    \* the connection is open
  queue,    \* queue
  waits,    \* the program's promise is in waiters
  isClosed, \* closed
  at,       \* where each program is
  data,     \* what the server has read
  echoes    \* what the client has read

sessions == <<ported, result>>
nodeConn == <<wire, alive, queue, waits, isClosed, at, data, echoes>>
programs == <<at, data, echoes>>
starters == <<sessions, nodeConn>>

Sides == {"client", "server"}

-----------------------------------------------------------------------------
(***************************************************************************)
(* The session machine.  A port raises an error for what its table lacks.  *)
(***************************************************************************)
Events == {"HandshakeOK", "HandshakeFail", "PacketReceived", "IdleTimeout", "ExpiryTimeout",
           "ExplicitLogout"}

To(next, destroyed) == [next |-> next, destroyed |-> destroyed, error |-> FALSE]
InvalidTransition == [next |-> "", destroyed |-> FALSE, error |-> TRUE]

\* Go leaves the next status of a destroyed session empty.
GoTransition(current, event) ==
  CASE <<current, event>> = <<"connecting", "HandshakeOK">>   -> To("active", FALSE)
    [] <<current, event>> = <<"connecting", "HandshakeFail">> -> To("", TRUE)
    [] <<current, event>> = <<"active", "PacketReceived">>    -> To("active", FALSE)
    [] <<current, event>> = <<"active", "IdleTimeout">>       -> To("sleeping", FALSE)
    [] <<current, event>> = <<"active", "ExplicitLogout">>    -> To("expired", FALSE)
    [] <<current, event>> = <<"sleeping", "PacketReceived">>  -> To("active", FALSE)
    [] <<current, event>> = <<"sleeping", "ExpiryTimeout">>   -> To("expired", FALSE)
    [] OTHER -> InvalidTransition

RustTransition(current, event) ==
  CASE current = "connecting" /\ event = "HandshakeOK"    -> To("active", FALSE)
    [] current = "connecting" /\ event = "HandshakeFail"  -> To("expired", TRUE)
    [] current = "active"     /\ event = "PacketReceived" -> To("active", FALSE)
    [] current = "active"     /\ event = "IdleTimeout"    -> To("sleeping", FALSE)
    [] current = "active"     /\ event = "ExplicitLogout" -> To("expired", FALSE)
    [] current = "sleeping"   /\ event = "PacketReceived" -> To("active", FALSE)
    [] current = "sleeping"   /\ event = "ExpiryTimeout"  -> To("expired", FALSE)
    [] OTHER -> InvalidTransition

\* The other ports look the pair up in a map.
Entry(current, event, next, destroyed) == [key |-> <<current, event>>, to |-> To(next, destroyed)]

Lookup(table, current, event) ==
  IF \E r \in table : r.key = <<current, event>>
  THEN (CHOOSE r \in table : r.key = <<current, event>>).to
  ELSE InvalidTransition

PythonTransitions ==
  {Entry("connecting", "HandshakeOK", "active", FALSE), Entry("connecting", "HandshakeFail", "expired", TRUE),
   Entry("active", "PacketReceived", "active", FALSE), Entry("active", "IdleTimeout", "sleeping", FALSE),
   Entry("active", "ExplicitLogout", "expired", FALSE),
   Entry("sleeping", "PacketReceived", "active", FALSE), Entry("sleeping", "ExpiryTimeout", "expired", FALSE)}

NodeTransitions ==
  {Entry("connecting", "HandshakeOK", "active", FALSE), Entry("connecting", "HandshakeFail", "expired", TRUE),
   Entry("active", "PacketReceived", "active", FALSE), Entry("active", "IdleTimeout", "sleeping", FALSE),
   Entry("active", "ExplicitLogout", "expired", FALSE),
   Entry("sleeping", "PacketReceived", "active", FALSE), Entry("sleeping", "ExpiryTimeout", "expired", FALSE)}

JavaTransitions ==
  {Entry("connecting", "HandshakeOK", "active", FALSE), Entry("connecting", "HandshakeFail", "expired", TRUE),
   Entry("active", "PacketReceived", "active", FALSE), Entry("active", "IdleTimeout", "sleeping", FALSE),
   Entry("active", "ExplicitLogout", "expired", FALSE),
   Entry("sleeping", "PacketReceived", "active", FALSE), Entry("sleeping", "ExpiryTimeout", "expired", FALSE)}

DotnetTransitions ==
  {Entry("connecting", "HandshakeOK", "active", FALSE), Entry("connecting", "HandshakeFail", "expired", TRUE),
   Entry("active", "PacketReceived", "active", FALSE), Entry("active", "IdleTimeout", "sleeping", FALSE),
   Entry("active", "ExplicitLogout", "expired", FALSE),
   Entry("sleeping", "PacketReceived", "active", FALSE), Entry("sleeping", "ExpiryTimeout", "expired", FALSE)}

\* Mutant: a sleeping session is not woken.
PhpTransitionsNoWake ==
  {Entry("connecting", "HandshakeOK", "active", FALSE), Entry("connecting", "HandshakeFail", "expired", TRUE),
   Entry("active", "PacketReceived", "active", FALSE), Entry("active", "IdleTimeout", "sleeping", FALSE),
   Entry("active", "ExplicitLogout", "expired", FALSE), Entry("sleeping", "ExpiryTimeout", "expired", FALSE)}

PhpTransitions ==
  {Entry("connecting", "HandshakeOK", "active", FALSE), Entry("connecting", "HandshakeFail", "expired", TRUE),
   Entry("active", "PacketReceived", "active", FALSE), Entry("active", "IdleTimeout", "sleeping", FALSE),
   Entry("active", "ExplicitLogout", "expired", FALSE),
   Entry("sleeping", "PacketReceived", "active", FALSE), Entry("sleeping", "ExpiryTimeout", "expired", FALSE)}

Ports == {"go", "rust", "python", "node", "java", "dotnet", "php"}

PortTransition(port, current, event) ==
  CASE port = "go"     -> GoTransition(current, event)
    [] port = "rust"   -> RustTransition(current, event)
    [] port = "python" -> Lookup(PythonTransitions, current, event)
    [] port = "node"   -> Lookup(NodeTransitions, current, event)
    [] port = "java"   -> Lookup(JavaTransitions, current, event)
    [] port = "dotnet" -> Lookup(DotnetTransitions, current, event)
    [] port = "php"    -> Lookup(PhpTransitions, current, event)

\* Every port gets the event; one that raises an error keeps the session.
PortsStep(event) ==
  /\ result' = [p \in Ports |-> PortTransition(p, ported[p], event)]
  /\ ported' = [p \in Ports |-> IF result'[p].error THEN ported[p] ELSE result'[p].next]
  /\ UNCHANGED nodeConn

-----------------------------------------------------------------------------
(***************************************************************************)
(* WsServerConn and WsClientConn of the Node pack, and the echo example.   *)
(***************************************************************************)
Closing == 0

StartersInit ==
  /\ ported = [p \in Ports |-> "connecting"]
  /\ result = [p \in Ports |-> To("connecting", FALSE)]
  /\ wire = [e \in Sides |-> <<>>] /\ alive = TRUE
  /\ queue = [e \in Sides |-> <<>>]
  /\ waits = [e \in Sides |-> FALSE] /\ isClosed = [e \in Sides |-> FALSE]
  /\ at = [client |-> "write", server |-> "read"]
  /\ data = Closing /\ echoes = <<>>

\* What a program does with the buffer that readMessage resolves to: the server
\* is to write it back, the client counts it and goes on.  The empty buffer
\* stands for the end of the connection.
Resolve(e, buffer) ==
  /\ at' = [at EXCEPT ![e] = CASE e = "server" -> "write"
                               [] e = "client" /\ Len(echoes) + 1 < Sends -> "write"
                               [] OTHER -> "close"]
  /\ echoes' = IF e = "client" THEN Append(echoes, buffer) ELSE echoes
  /\ data' = IF e = "server" THEN buffer ELSE data

\* readMessage: what is queued is returned although the connection is closed.
ReadMessageNode(e) ==
  /\ at[e] = "read" /\ ~ waits[e]
  /\ IF queue[e] # <<>>
     THEN Resolve(e, Head(queue[e])) /\ queue' = [queue EXCEPT ![e] = Tail(@)] /\ UNCHANGED waits
     ELSE /\ IF isClosed[e]
             THEN at' = [at EXCEPT ![e] = "failed"] /\ UNCHANGED waits
             ELSE waits' = [waits EXCEPT ![e] = TRUE] /\ UNCHANGED at
          /\ UNCHANGED <<queue, data, echoes>>
  /\ UNCHANGED <<sessions, wire, alive, isClosed>>

\* writeMessage: the client sends its next message, the server what it has
\* read.  On a connection that is no longer open the promise is rejected, or
\* the message is lost while the library does not know yet.
WriteMessageNode(e) ==
  /\ at[e] = "write"
  /\ \/ alive /\ at' = [at EXCEPT ![e] = "read"]
           /\ wire' = IF e = "client" THEN [wire EXCEPT !["server"] = Append(@, Len(echoes) + 1)]
                      ELSE [wire EXCEPT !["client"] = Append(@, data)]
     \/ ~ alive /\ ~ isClosed[e] /\ at' = [at EXCEPT ![e] = "read"] /\ UNCHANGED wire
     \/ ~ alive /\ at' = [at EXCEPT ![e] = "failed"] /\ UNCHANGED wire
  /\ UNCHANGED <<sessions, alive, queue, waits, isClosed, data, echoes>>

\* The client closes, and both ends hear of it.
CloseNode ==
  /\ at["client"] = "close"
  /\ at' = [at EXCEPT !["client"] = "done"]
  /\ alive' = FALSE
  /\ wire' = IF alive THEN [e \in Sides |-> Append(wire[e], Closing)] ELSE wire
  /\ UNCHANGED <<sessions, queue, waits, isClosed, data, echoes>>

\* The connection breaks; what was under way may be lost.
BreakNode ==
  /\ alive
  /\ alive' = FALSE
  /\ \E kept \in [Sides -> BOOLEAN] :
       wire' = [e \in Sides |-> IF kept[e] THEN Append(wire[e], Closing) ELSE <<Closing>>]
  /\ UNCHANGED <<sessions, queue, waits, isClosed, programs>>

\* The 'message' event: the waiter has it, or the queue.
OnMessageNode(e) ==
  /\ wire[e] # <<>> /\ Head(wire[e]) # Closing
  /\ wire' = [wire EXCEPT ![e] = Tail(@)]
  /\ IF waits[e]
     THEN waits' = [waits EXCEPT ![e] = FALSE] /\ Resolve(e, Head(wire[e])) /\ UNCHANGED queue
     ELSE queue' = [queue EXCEPT ![e] = Append(@, Head(wire[e]))] /\ UNCHANGED <<waits, programs>>
  /\ UNCHANGED <<sessions, alive, isClosed>>

\* Mutant: who waits is left waiting.
OnCloseForgets(e) ==
  /\ wire[e] # <<>> /\ Head(wire[e]) = Closing
  /\ wire' = [wire EXCEPT ![e] = Tail(@)]
  /\ isClosed' = [isClosed EXCEPT ![e] = TRUE]
  /\ UNCHANGED <<sessions, alive, queue, waits, programs>>

\* The 'close' event: who waits gets an empty buffer.
OnCloseNode(e) ==
  /\ wire[e] # <<>> /\ Head(wire[e]) = Closing
  /\ wire' = [wire EXCEPT ![e] = Tail(@)]
  /\ isClosed' = [isClosed EXCEPT ![e] = TRUE]
  /\ waits' = [waits EXCEPT ![e] = FALSE]
  /\ IF waits[e] THEN Resolve(e, Closing) ELSE UNCHANGED programs
  /\ UNCHANGED <<sessions, alive, queue>>

\* What a program and its event loop do by themselves.
EchoStep(e) ==
  \/ ReadMessageNode(e) \/ WriteMessageNode(e) \/ OnMessageNode(e) \/ OnCloseNode(e)
  \/ e = "client" /\ CloseNode

PortsNext == \E event \in Events : PortsStep(event)

PortsSpec == StartersInit /\ [][PortsNext]_starters

EchoNext == BreakNode \/ \E e \in Sides : EchoStep(e)

-----------------------------------------------------------------------------
\* Whatever sequence of events a session goes through, the ports refuse the
\* same ones, destroy it at the same time, and give it the same status as the
\* Go machine until it is destroyed.
PortsAgree ==
  \A p \in Ports :
    /\ result[p].error = result["go"].error /\ result[p].destroyed = result["go"].destroyed
    /\ ported["go"] # "" => ported[p] = ported["go"]

\* Wherever the connection breaks, neither program of the echo example waits
\* in readMessage for ever: the client finishes or fails, and the loop of the
\* server ends.
EchoEnds ==
  (\E e \in Sides : waits[e] \/ isClosed[e])
    ~> (at["client"] \in {"done", "failed"} /\ at["server"] = "failed")
=============================================================================
