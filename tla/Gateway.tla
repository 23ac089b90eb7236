------------------------------ MODULE Gateway ------------------------------
(***************************************************************************)
(* The server's side of the connections: the listeners of the gateway and  *)
(* handleConn, one goroutine for each connection.  Without a dispatcher    *)
(* the gateway is an echo server, as are the echo-server command and the   *)
(* starters.                                                               *)
(*                                                                         *)
(* The WebSocket listener starts the goroutine when it upgrades the        *)
(* request, that is with the client's dial.  The QUIC listener accepts a   *)
(* connection and waits for its first stream in the same loop.             *)
(***************************************************************************)
EXTENDS Link

CONSTANTS
  Dispatcher,  \* the gateway reached a dispatcher when it started
  Frames,      \* the messages that parse as a Frame with an AppMessage
  Oversize     \* the messages longer than quicMaxMsgSize

ASSUME GatewayAssumption ==
  Dispatcher \in BOOLEAN /\ Frames \subseteq Messages /\ Oversize \subseteq Messages

VARIABLES
  accepting,   \* the connection whose stream the QUIC accept loop waits for
  spc,         \* where handleConn is
  cur,         \* the message handleConn has decrypted
  ssend,       \* the next nonce the server sends with
  srecv,       \* the next nonce it expects
  handled,     \* history: the messages decrypted on each connection
  dispatched   \* history: which of them the dispatcher has accepted

gateway == <<accepting, spc, cur, ssend, srecv, handled, dispatched>>

GatewayInit ==
  /\ accepting = NoConn
  /\ spc = [k \in Conns |-> "off"]
  /\ cur = [k \in Conns |-> "none"]
  /\ ssend = [k \in Conns |-> 0] /\ srecv = [k \in Conns |-> 0]
  /\ handled = [k \in Conns |-> <<>>]
  /\ dispatched = [k \in Conns |-> {}]

Goto(k, pc) == spc' = [spc EXCEPT ![k] = pc]

(***************************************************************************)
(* The listeners.                                                          *)
(***************************************************************************)
\* UpgradeHTTP in the handler of /ws.
Upgrade(k) ==
  /\ kind = "ws"
  /\ spc[k] = "off" /\ link[k] # "none"
  /\ Goto(k, "msg1")
  /\ UNCHANGED <<network, accepting, cur, ssend, srecv, handled, dispatched>>

\* AcceptQUIC: listener.Accept returns the oldest connection.
AcceptQUIC(k) ==
  /\ kind = "quic" /\ accepting = NoConn
  /\ spc[k] = "off" /\ link[k] # "none"
  /\ \A h \in Conns : (h < k /\ link[h] # "none") => spc[h] # "off"
  /\ accepting' = k
  /\ UNCHANGED <<network, spc, cur, ssend, srecv, handled, dispatched>>

\* AcceptQUIC: conn.AcceptStream returns when the client has written.
AcceptStream ==
  /\ accepting # NoConn
  /\ ServerCanRead(accepting)
  /\ Goto(accepting, "msg1")
  /\ accepting' = NoConn
  /\ UNCHANGED <<network, cur, ssend, srecv, handled, dispatched>>

\* Mutant: the accept loop ends with the first error.
AcceptStreamFailsStop ==
  /\ accepting # NoConn
  /\ ServerReadFails(accepting)
  /\ Goto(accepting, "return")
  /\ ServerCloses(accepting)
  /\ UNCHANGED <<kind, link, faults, accepting, cur, ssend, srecv, handled, dispatched>>

\* AcceptQUIC: the connection ends first.  The accept loop continues.
AcceptStreamFails ==
  /\ accepting # NoConn
  /\ ServerReadFails(accepting)
  /\ Goto(accepting, "return")
  /\ ServerCloses(accepting)
  /\ accepting' = NoConn
  /\ UNCHANGED <<kind, link, faults, cur, ssend, srecv, handled, dispatched>>

(***************************************************************************)
(* handleConn.                                                             *)
(***************************************************************************)
\* handleConn returns: the deferred Close.
Return(k) == Goto(k, "return") /\ ServerCloses(k)

\* ServerHandshake: <- e; -> e, ee, s, es
AnswerInit(k) ==
  /\ spc[k] = "msg1"
  /\ ServerReads(k)
  /\ ServerWrites(k, Handshake("e_ee_s_es"))
  /\ Goto(k, "msg3")
  /\ UNCHANGED <<kind, link, ends, faults, accepting, cur, ssend, srecv, handled, dispatched>>

\* ServerHandshake: <- s, se
Finish(k) ==
  /\ spc[k] = "msg3"
  /\ ServerCanRead(k)
  /\ IF Head(c2s[k]) = Handshake("s_se")
     THEN ServerReads(k) /\ Goto(k, "read") /\ UNCHANGED <<ends, s2c>>
     ELSE Return(k)
  /\ UNCHANGED <<kind, link, faults, accepting, cur, ssend, srecv, handled, dispatched>>

\* The QUIC reader refuses long messages.
Refused(p) == kind = "quic" /\ p.msg \in Oversize

\* ReadMessage and Decrypt.
ReadMessage(k) ==
  /\ spc[k] = "read"
  /\ ServerCanRead(k)
  /\ LET p == Head(c2s[k])
     IN IF Decrypts(p, k, srecv[k]) /\ ~ Refused(p)
        THEN /\ ServerReads(k)
             /\ Goto(k, IF Dispatcher /\ p.msg \in Frames THEN "dispatch" ELSE "echo")
             /\ cur' = [cur EXCEPT ![k] = p.msg]
             /\ srecv' = [srecv EXCEPT ![k] = @ + 1]
             /\ handled' = [handled EXCEPT ![k] = Append(@, p.msg)]
             /\ UNCHANGED <<ends, s2c>>
        ELSE Return(k) /\ UNCHANGED <<cur, srecv, handled>>
  /\ UNCHANGED <<kind, link, faults, accepting, ssend, dispatched>>

\* ReadMessage fails, in the handshake or in the loop.
ReadFails(k) ==
  /\ spc[k] \in {"msg1", "msg3", "read"}
  /\ ServerReadFails(k)
  /\ Return(k)
  /\ UNCHANGED <<kind, link, faults, accepting, cur, ssend, srecv, handled, dispatched>>

\* Mutant: the cipher state is a copy, and its nonce stays.
ReplySameNonce(k, type) ==
  /\ ServerWrites(k, Encrypt(k, ssend[k], type, cur[k]))
  /\ Goto(k, "read")
  /\ UNCHANGED <<ssend, cur>>

\* Mutant: the loop continues without an answer.
ReplyForgotten(k, type) ==
  /\ Goto(k, "read")
  /\ UNCHANGED <<s2c, ssend, cur>>

\* Encrypt, WriteMessage and the next round of the loop.
Reply(k, type) ==
  /\ ServerWrites(k, Encrypt(k, ssend[k], type, cur[k]))
  /\ ssend' = [ssend EXCEPT ![k] = @ + 1]
  /\ cur' = [cur EXCEPT ![k] = "none"]
  /\ Goto(k, "read")

\* Mutant: the message is acknowledged whatever the dispatcher answers.
DispatchAckFirst(k) ==
  /\ spc[k] = "dispatch"
  /\ Reply(k, "ack")
  /\ \E ok \in BOOLEAN :
       dispatched' = [dispatched EXCEPT ![k] = IF ok THEN @ \cup {Len(handled[k])} ELSE @]
  /\ UNCHANGED <<kind, link, ends, c2s, faults, accepting, srecv, handled>>

\* Dispatch succeeds: an Ack.  An error of its write is ignored, and the
\* message is as lost as one written to a broken connection.
Dispatch(k) ==
  /\ spc[k] = "dispatch"
  /\ dispatched' = [dispatched EXCEPT ![k] = @ \cup {Len(handled[k])}]
  /\ Reply(k, "ack")
  /\ UNCHANGED <<kind, link, ends, c2s, faults, accepting, srecv, handled>>

\* Dispatch fails, and the gateway cannot tell whether the message is stored:
\* the message is echoed.
DispatchFails(k) ==
  /\ spc[k] = "dispatch"
  /\ Goto(k, "echo")
  /\ UNCHANGED <<network, accepting, cur, ssend, srecv, handled, dispatched>>

Echo(k) ==
  /\ spc[k] = "echo"
  /\ Reply(k, "echo")
  /\ UNCHANGED <<kind, link, ends, c2s, faults, accepting, srecv, handled, dispatched>>

WriteFailsAndReturns(k) ==
  /\ spc[k] = "echo" \/ (spc[k] = "msg1" /\ ServerCanRead(k))
  /\ WriteFails(k)
  /\ Return(k)
  /\ UNCHANGED <<kind, link, faults, accepting, cur, ssend, srecv, handled, dispatched>>

\* handleConnection of the echo server, which is all there is to it.
EchoConn(k) ==
  \/ AnswerInit(k) \/ Finish(k) \/ ReadMessage(k) \/ ReadFails(k)
  \/ Echo(k) \/ WriteFailsAndReturns(k)

HandleConn(k) == EchoConn(k) \/ Dispatch(k) \/ DispatchFails(k)

Listen == AcceptStream \/ AcceptStreamFails \/ \E k \in Conns : Upgrade(k) \/ AcceptQUIC(k)

GatewayNext == Listen \/ \E k \in Conns : HandleConn(k)
=============================================================================
