-------------------------------- MODULE Link --------------------------------
(***************************************************************************)
(* A client's transport connections to a server, as the Conn and Transport *)
(* interfaces show them, and the Noise sessions on top of them.            *)
(*                                                                         *)
(* A connection carries whole messages in order in both directions.  What  *)
(* an end has sent may be lost, from some message on, when the connection  *)
(* breaks or (QUIC) when that end closes it.  A write after that fails or  *)
(* goes nowhere; a read fails once everything that arrived has been read.  *)
(* The process of a QUIC client that stops says nothing: the connection is *)
(* "silent" until the idle timeout.                                        *)
(*                                                                         *)
(* The keys of the two directions of a connection come from its handshake. *)
(* A ciphertext is the record of the connection whose handshake made its   *)
(* key, of its nonce and of the plaintext.                                 *)
(***************************************************************************)
EXTENDS Naturals, Sequences

CONSTANTS
  Messages,   \* what the client sends
  MaxDials,   \* how many connections the client makes
  MaxFaults   \* how many connections break, dials fail and clients stop

ASSUME LinkAssumption == MaxDials \in Nat /\ MaxFaults \in Nat

Conns == 1 .. MaxDials
NoConn == 0

VARIABLES
  kind,    \* the transport the client is configured for
  link,    \* the state of the network under each connection
  ends,    \* the ends of each connection that are not closed
  c2s,     \* messages on their way to the server
  s2c,     \* messages on their way to the client
  faults

network == <<kind, link, ends, c2s, s2c, faults>>

BothEnds == {"client", "server"}

Handshake(step) == [type |-> step, key |-> NoConn, nonce |-> 0, msg |-> "none"]
Encrypt(key, nonce, type, m) == [type |-> type, key |-> key, nonce |-> nonce, msg |-> m]

\* CipherState.Decrypt succeeds: the right key and the expected nonce.
Decrypts(p, key, nonce) ==
  p.type \in {"data", "ack", "echo"} /\ p.key = key /\ p.nonce = nonce

LinkInit ==
  /\ kind \in {"ws", "quic"}
  /\ link = [k \in Conns |-> "none"]
  /\ ends = [k \in Conns |-> {}]
  /\ c2s = [k \in Conns |-> <<>>]
  /\ s2c = [k \in Conns |-> <<>>]
  /\ faults = 0

Fault == faults < MaxFaults /\ faults' = faults + 1

Whole(k) == link[k] = "up" /\ ends[k] = BothEnds

\* What a sender wrote and the receiver still gets when the sender's end goes
\* away: a prefix over QUIC, all of it over TCP.
Remains(wire) ==
  {SubSeq(wire, 1, n) : n \in IF kind = "quic" THEN 0 .. Len(wire) ELSE {Len(wire)}}

(***************************************************************************)
(* WriteMessage, ReadMessage and Close of the two ends of connection k.    *)
(***************************************************************************)
ClientWrites(k, p) ==
  /\ "client" \in ends[k]
  /\ c2s' = [c2s EXCEPT ![k] = IF Whole(k) THEN Append(@, p) ELSE @]

ServerWrites(k, p) ==
  /\ "server" \in ends[k]
  /\ s2c' = [s2c EXCEPT ![k] = IF Whole(k) THEN Append(@, p) ELSE @]

WriteFails(k) == ~ Whole(k)

ClientCanRead(k) == "client" \in ends[k] /\ s2c[k] # <<>>
ServerCanRead(k) == "server" \in ends[k] /\ c2s[k] # <<>>

ClientReads(k) == ClientCanRead(k) /\ s2c' = [s2c EXCEPT ![k] = Tail(@)]
ServerReads(k) == ServerCanRead(k) /\ c2s' = [c2s EXCEPT ![k] = Tail(@)]

ClientReadFails(k) ==
  "client" \notin ends[k] \/ (s2c[k] = <<>> /\ (link[k] = "cut" \/ "server" \notin ends[k]))
ServerReadFails(k) ==
  "server" \notin ends[k] \/ (c2s[k] = <<>> /\ (link[k] = "cut" \/ "client" \notin ends[k]))

ClientCloses(k) ==
  /\ ends' = [ends EXCEPT ![k] = @ \ {"client"}]
  /\ \E rest \in Remains(c2s[k]) :
       c2s' = [c2s EXCEPT ![k] = IF "server" \in ends[k] THEN rest ELSE <<>>]
  /\ s2c' = [s2c EXCEPT ![k] = <<>>]

ServerCloses(k) ==
  /\ ends' = [ends EXCEPT ![k] = @ \ {"server"}]
  /\ \E rest \in Remains(s2c[k]) :
       s2c' = [s2c EXCEPT ![k] = IF "client" \in ends[k] /\ link[k] # "silent" THEN rest ELSE <<>>]
  /\ c2s' = [c2s EXCEPT ![k] = <<>>]

(***************************************************************************)
(* The network.                                                            *)
(***************************************************************************)
\* The connection breaks, with what is on its way from some message on.
Cut(k) ==
  /\ link[k] = "up"
  /\ Fault
  /\ link' = [link EXCEPT ![k] = "cut"]
  /\ \E n \in 0 .. Len(c2s[k]) : c2s' = [c2s EXCEPT ![k] = SubSeq(@, 1, n)]
  /\ \E n \in 0 .. Len(s2c[k]) : s2c' = [s2c EXCEPT ![k] = SubSeq(@, 1, n)]
  /\ UNCHANGED <<kind, ends>>

\* MaxIdleTimeout of the QUIC configuration.
IdleTimeout(k) ==
  /\ link[k] = "silent"
  /\ link' = [link EXCEPT ![k] = "cut"]
  /\ UNCHANGED <<kind, ends, c2s, s2c, faults>>
=============================================================================
