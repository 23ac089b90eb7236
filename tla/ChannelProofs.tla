--------------------------- MODULE ChannelProofs ----------------------------
(***************************************************************************)
(* Proofs that the client and the gateway agree on the nonces of every     *)
(* connection, and that messages are handled and answered in the order in  *)
(* which they were sent, for any number of connections, messages, sends    *)
(* and faults.                                                             *)
(***************************************************************************)
EXTENDS Channel, TLAPS

Packets ==
  [type : {"e", "e_ee_s_es", "s_se", "data", "ack", "echo"}, key : Conns \cup {NoConn},
   nonce : Nat, msg : Messages \cup {"none"}]
Answers == [type : {"data", "ack", "echo"}, msg : Messages \cup {"none"}]

ChannelTypes ==
  /\ kind \in {"ws", "quic"}
  /\ link \in [Conns -> {"none", "up", "silent", "cut"}]
  /\ ends \in [Conns -> SUBSET BothEnds]
  /\ c2s \in [Conns -> Seq(Packets)] /\ s2c \in [Conns -> Seq(Packets)]
  /\ conn \in Conns \cup {NoConn} /\ session \in Conns \cup {NoConn}
  /\ cpc \in {"idle", "dial", "msg1", "msg2", "backoff", "panic"}
  /\ rpc \in {"idle", "read"}
  /\ rconn \in Conns \cup {NoConn} /\ rsession \in Conns \cup {NoConn}
  /\ csend \in [Conns -> Nat] /\ crecv \in [Conns -> Nat]
  /\ sent \in [Conns -> Seq(Messages)] /\ got \in [Conns -> Seq(Answers)]
  /\ accepting \in Conns \cup {NoConn}
  /\ spc \in [Conns -> {"off", "msg1", "msg3", "read", "dispatch", "echo", "return"}]
  /\ cur \in [Conns -> Messages \cup {"none"}]
  /\ ssend \in [Conns -> Nat] /\ srecv \in [Conns -> Nat]
  /\ handled \in [Conns -> Seq(Messages)]
  /\ dispatched \in [Conns -> SUBSET Nat]

(***************************************************************************)
(* What the client is to a connection: in its handshake, entitled to its   *)
(* answers, or sending on it.                                              *)
(***************************************************************************)
Shaking(k) == conn = k /\ cpc \in {"msg1", "msg2"}
Live(k) == session = k \/ (rpc = "read" /\ rconn = k /\ "client" \in ends[k])
Sending(k) == conn = k /\ session = k

\* c.conn and c.session differ only while the conn is in its handshake or after
\* the client has closed it, and Receive reads a live conn only with the session
\* of that conn.  Without this a Send or a Receive could mix two connections.
FieldsMatch ==
  /\ conn # NoConn => link[conn] # "none"
  /\ session # NoConn => link[session] # "none" /\ ~ Shaking(session)
  /\ cpc \in {"msg1", "msg2"} => conn # NoConn
  /\ conn # NoConn => Shaking(conn) \/ session = conn \/ "client" \notin ends[conn]
  /\ rpc = "read" =>
       /\ rconn # NoConn /\ link[rconn] # "none"
       /\ "client" \in ends[rconn] => rsession = rconn /\ ~ Shaking(rconn)
  /\ accepting # NoConn =>
       kind = "quic" /\ link[accepting] # "none" /\ spc[accepting] = "off"

\* Histories and counters of a connection.
Counted(k) ==
  /\ srecv[k] = Len(handled[k]) /\ Len(handled[k]) <= Len(sent[k])
  /\ \A i \in 1 .. Len(handled[k]) : handled[k][i] = sent[k][i]
  /\ crecv[k] = Len(got[k]) /\ crecv[k] <= ssend[k] /\ ssend[k] <= Len(handled[k])
  /\ \A i \in 1 .. Len(got[k]) :
       got[k][i].msg = handled[k][i] /\ (got[k][i].type = "ack" => i \in dispatched[k])
  /\ link[k] = "none" => spc[k] = "off" /\ ends[k] = {} /\ c2s[k] = <<>> /\ csend[k] = 0

\* The i-th message sent on a connection, as it is on the wire.
Datum(k, i) == Encrypt(k, i - 1, "data", sent[k][i])

\* What is on its way to the server, at each point of handleConn.
Inbound(k) ==
  /\ spc[k] \in {"off", "msg1"} => Len(c2s[k]) <= 1 /\ s2c[k] = <<>> /\ sent[k] = <<>>
  /\ spc[k] = "msg3" =>
       /\ handled[k] = <<>> /\ Len(c2s[k]) <= Len(sent[k]) + 1
       /\ \A i \in 1 .. Len(c2s[k]) :
            c2s[k][i] = IF i = 1 THEN Handshake("s_se") ELSE Datum(k, i - 1)
  /\ spc[k] \in {"read", "dispatch", "echo"} =>
       /\ srecv[k] + Len(c2s[k]) <= Len(sent[k])
       /\ \A i \in 1 .. Len(c2s[k]) : c2s[k][i] = Datum(k, srecv[k] + i)
  /\ spc[k] = "return" => c2s[k] = <<>> /\ "server" \notin ends[k]
  /\ spc[k] \in {"off", "msg1", "msg3", "read"} => ssend[k] = Len(handled[k])
  /\ spc[k] \in {"dispatch", "echo"} =>
       ssend[k] + 1 = Len(handled[k]) /\ cur[k] = handled[k][Len(handled[k])]

\* What is on its way to the client.
Answer(k, p, i) ==
  /\ p.type \in {"ack", "echo"} /\ p.key = k /\ p.nonce = i - 1 /\ p.msg = handled[k][i]
  /\ p.type = "ack" => i \in dispatched[k]

Outbound(k) ==
  /\ Shaking(k) =>
       /\ Len(s2c[k]) <= 1 /\ sent[k] = <<>> /\ csend[k] = 0
       /\ spc[k] \in {"off", "msg1", "msg3", "return"}
       /\ cpc = "msg1" => spc[k] # "msg3"
       /\ cpc = "msg1" \/ spc[k] = "msg3" => c2s[k] = <<>>
  /\ Live(k) =>
       /\ spc[k] \notin {"off", "msg1"}
       /\ crecv[k] + Len(s2c[k]) <= ssend[k]
       /\ \A i \in 1 .. Len(s2c[k]) : Answer(k, s2c[k][i], crecv[k] + i)
       /\ Whole(k) => crecv[k] + Len(s2c[k]) = ssend[k]
  /\ Sending(k) /\ Whole(k) =>
       /\ csend[k] = Len(sent[k])
       /\ spc[k] = "msg3" => Len(c2s[k]) = Len(sent[k]) + 1
       /\ spc[k] # "msg3" => srecv[k] + Len(c2s[k]) = Len(sent[k])

Agrees(k) == Counted(k) /\ Inbound(k) /\ Outbound(k)

ChannelInv == ChannelTypes /\ FieldsMatch /\ \A k \in Conns : Agrees(k)

-----------------------------------------------------------------------------
\* t is what is left of s when its end is lost.
Left(s, t) == t \in Seq(Packets) /\ Len(t) <= Len(s) /\ \A i \in 1 .. Len(t) : t[i] = s[i]

\* The arithmetic of the counters, and the end of a sequence of one packet.
LEMMA Counting ==
  /\ \A n \in Nat : \A i \in 1 .. n : (i + 1) - 1 = i /\ 0 + i = i
  /\ \A a, b \in Nat : a <= b + 1 => 0 + (a - 1) <= b
  /\ \A a, b \in Nat : a = b + 1 => 0 + (a - 1) = b
  /\ \A a, b, c \in Nat : a + b <= c => a + b <= c + 1
  /\ \A a, b, c \in Nat : a + b = c => a + (b + 1) <= c + 1
OBVIOUS

\* Nothing follows the only packet of a sequence.
LEMMA TailOfOne ==
  \A s \in Seq(Packets) : s # <<>> /\ Len(s) <= 1 => Tail(s) = <<>>
OBVIOUS

\* What a step does to the connections it is not about, and to one that it cuts
\* off: nothing is handled or answered, and what is on the wires may be lost.
Untouched(k) ==
  /\ spc'[k] = spc[k] /\ cur'[k] = cur[k] /\ ssend'[k] = ssend[k] /\ srecv'[k] = srecv[k]
  /\ handled'[k] = handled[k] /\ dispatched'[k] = dispatched[k]
  /\ crecv'[k] = crecv[k] /\ sent'[k] = sent[k] /\ got'[k] = got[k]
  /\ csend'[k] = csend[k]
       \/ (link[k] # "none" /\ ~ Shaking(k)' /\ ~ (Sending(k)' /\ Whole(k)'))

Loses(k) ==
  /\ Left(c2s[k], c2s'[k]) /\ Left(s2c[k], s2c'[k])
  /\ ends'[k] \subseteq ends[k] /\ (link'[k] = "none" => link[k] = "none")
  /\ Whole(k)' => Whole(k) /\ c2s'[k] = c2s[k] /\ s2c'[k] = s2c[k]

NothingNew(k) ==
  /\ Shaking(k)' => Shaking(k) /\ cpc' = cpc
  /\ Live(k)' => Live(k)
  /\ Sending(k)' => Sending(k)

\* Nothing is left of nothing.
LEMMA LeftOfNothing == ASSUME NEW t, Left(<<>>, t) PROVE t = <<>>
BY DEF Left

\* A connection that a step leaves alone, but for what it loses, goes on agreeing.
LEMMA KeepsAgreeing ==
  ASSUME ChannelTypes, NEW k \in Conns, Agrees(k), Untouched(k), Loses(k), NothingNew(k)
  PROVE  Agrees(k)'
<1>1. /\ c2s[k] \in Seq(Packets) /\ s2c[k] \in Seq(Packets)
      /\ ssend[k] \in Nat /\ srecv[k] \in Nat /\ crecv[k] \in Nat
      /\ handled[k] \in Seq(Messages) /\ sent[k] \in Seq(Messages)
  BY Zenon DEF ChannelTypes
<1>e. (c2s[k] = <<>> => c2s'[k] = <<>>) /\ (s2c[k] = <<>> => s2c'[k] = <<>>)
  BY Zenon, LeftOfNothing DEF Loses
<1>2. Counted(k)'
  <2>1. ends[k] = {} => ends'[k] = {}
    BY Zenon DEF Loses
  <2>2. link'[k] = "none" => csend'[k] = csend[k] /\ link[k] = "none"
    BY Zenon DEF Untouched, Loses
  <2> QED
    BY Zenon, <1>1, <1>e, <2>1, <2>2 DEF Agrees, Counted, Untouched
<1>3. Inbound(k)'
  <2>1. \A i \in Int : Datum(k, i)' = Datum(k, i)
    BY Zenon DEF Datum, Untouched
  <2>2. /\ Len(c2s'[k]) <= Len(c2s[k]) /\ Len(c2s'[k]) \in Nat /\ Len(c2s[k]) \in Nat
        /\ \A i \in 1 .. Len(c2s'[k]) : i \in 1 .. Len(c2s[k]) /\ c2s'[k][i] = c2s[k][i]
    BY <1>1 DEF Loses, Left
  <2>3. spc[k] = "msg3" => Len(c2s'[k]) <= Len(sent[k]) + 1
    BY <1>1, <2>2 DEF Agrees, Inbound
  <2>4. spc[k] = "msg3" => \A i \in 1 .. Len(c2s'[k]) :
            c2s'[k][i] = IF i = 1 THEN Handshake("s_se") ELSE Datum(k, i - 1)'
    BY <1>1, <2>1, <2>2 DEF Agrees, Inbound
  <2>5. spc[k] \in {"read", "dispatch", "echo"} =>
          /\ srecv[k] + Len(c2s'[k]) <= Len(sent[k])
          /\ \A i \in 1 .. Len(c2s'[k]) : c2s'[k][i] = Datum(k, srecv[k] + i)'
    BY <1>1, <2>2 DEF Agrees, Inbound, Untouched, Datum
  <2>6. "server" \notin ends[k] => "server" \notin ends'[k]
    BY Zenon DEF Loses
  <2>7. spc[k] \in {"off", "msg1"} => Len(c2s'[k]) <= 1
    BY <2>2 DEF Agrees, Inbound
  <2> QED
    BY Zenon, <1>e, <2>3, <2>4, <2>5, <2>6, <2>7 DEF Agrees, Inbound, Untouched
<1>4. Outbound(k)'
  <2>1. Shaking(k)' =>
          /\ Len(s2c'[k]) <= 1 /\ sent'[k] = <<>> /\ csend'[k] = 0
          /\ spc'[k] \in {"off", "msg1", "msg3", "return"}
          /\ cpc' = "msg1" => spc'[k] # "msg3"
          /\ cpc' = "msg1" \/ spc'[k] = "msg3" => c2s'[k] = <<>>
    BY <1>1, <1>e DEF Agrees, Outbound, Untouched, Loses, NothingNew, Left
  <2>2. Live(k)' =>
          /\ spc'[k] \notin {"off", "msg1"}
          /\ crecv'[k] + Len(s2c'[k]) <= ssend'[k]
          /\ \A i \in 1 .. Len(s2c'[k]) : Answer(k, s2c[k][i], crecv[k] + i)'
          /\ Whole(k)' => crecv'[k] + Len(s2c'[k]) = ssend'[k]
    <3>1. \A i \in Int : Answer(k, s2c[k][i], crecv[k] + i) /\ s2c'[k][i] = s2c[k][i]
                          => Answer(k, s2c[k][i], crecv[k] + i)'
      BY Zenon DEF Answer, Untouched
    <3>2. /\ Len(s2c'[k]) <= Len(s2c[k]) /\ Len(s2c'[k]) \in Nat /\ Len(s2c[k]) \in Nat
          /\ \A i \in 1 .. Len(s2c'[k]) : i \in 1 .. Len(s2c[k]) /\ s2c'[k][i] = s2c[k][i]
      BY <1>1 DEF Loses, Left
    <3>3. Live(k)' => Live(k) /\ (Whole(k)' => Whole(k) /\ s2c'[k] = s2c[k])
      BY Zenon DEF NothingNew, Loses
    <3>4. Live(k) => \A i \in 1 .. Len(s2c[k]) : Answer(k, s2c[k][i], crecv[k] + i)
      BY Zenon DEF Agrees, Outbound
    <3>5. Live(k)' => \A i \in 1 .. Len(s2c'[k]) : Answer(k, s2c[k][i], crecv[k] + i)'
      BY <3>1, <3>2, <3>3, <3>4
    <3>6. Live(k)' => /\ spc'[k] \notin {"off", "msg1"}
                      /\ crecv'[k] + Len(s2c'[k]) <= ssend'[k]
                      /\ Whole(k)' => crecv'[k] + Len(s2c'[k]) = ssend'[k]
      BY <1>1, <3>2, <3>3 DEF Agrees, Outbound, Untouched
    <3> QED
      BY Zenon, <3>5, <3>6
  <2>3. Sending(k)' /\ Whole(k)' =>
          /\ csend'[k] = Len(sent'[k])
          /\ spc'[k] = "msg3" => Len(c2s'[k]) = Len(sent'[k]) + 1
          /\ spc'[k] # "msg3" => srecv'[k] + Len(c2s'[k]) = Len(sent'[k])
    BY Zenon, <1>1 DEF Agrees, Outbound, Untouched, Loses, NothingNew
  <2> QED
    BY Zenon, <2>1, <2>2, <2>3 DEF Outbound
<1> QED
  BY Zenon, <1>2, <1>3, <1>4 DEF Agrees

-----------------------------------------------------------------------------
\* What is left of a wire.
LEMMA LeftOfWire ==
  ASSUME NEW s \in Seq(Packets)
  PROVE  /\ Left(s, s) /\ Left(s, <<>>)
         /\ \A n \in 0 .. Len(s) : SubSeq(s, 1, n) \in Seq(Packets) /\ Left(s, SubSeq(s, 1, n))
BY DEF Left

\* A wire that stays as it is.
LEMMA LosesNothing ==
  ASSUME ChannelTypes, NEW k \in Conns, c2s'[k] = c2s[k], s2c'[k] = s2c[k],
         ends'[k] = ends[k], link'[k] = link[k]
  PROVE  Loses(k)
BY Zenon, LeftOfWire DEF ChannelTypes, Loses, Whole

\* The sequences that may remain of a wire.
LEMMA RemainsFacts ==
  ASSUME NEW s \in Seq(Packets), NEW r \in Remains(s)
  PROVE  r \in Seq(Packets) /\ Left(s, r)
<1>1. PICK n \in 0 .. Len(s) : r = SubSeq(s, 1, n)
  BY DEF Remains
<1> QED
  BY Zenon, <1>1, LeftOfWire

\* An end of a connection goes away.
LEMMA ClientClosesFacts ==
  ASSUME ChannelTypes, NEW k \in Conns, ClientCloses(k), link' = link
  PROVE  /\ ends' \in [Conns -> SUBSET BothEnds] /\ "client" \notin ends'[k]
         /\ c2s' \in [Conns -> Seq(Packets)] /\ s2c' \in [Conns -> Seq(Packets)]
         /\ \A j \in Conns : Loses(j) /\ ends'[j] \subseteq ends[j]
<1>1. PICK rest \in Remains(c2s[k]) :
        c2s' = [c2s EXCEPT ![k] = IF "server" \in ends[k] THEN rest ELSE <<>>]
  BY Zenon DEF ClientCloses
<1>2. /\ ends' = [ends EXCEPT ![k] = @ \ {"client"}] /\ s2c' = [s2c EXCEPT ![k] = <<>>]
      /\ c2s[k] \in Seq(Packets) /\ s2c[k] \in Seq(Packets)
  BY Zenon DEF ClientCloses, ChannelTypes
<1>3. rest \in Seq(Packets) /\ Left(c2s[k], rest) /\ Left(c2s[k], <<>>) /\ Left(s2c[k], <<>>)
  BY Zenon, <1>1, <1>2, RemainsFacts, LeftOfWire
<1>4. /\ ends' \in [Conns -> SUBSET BothEnds] /\ "client" \notin ends'[k]
      /\ c2s' \in [Conns -> Seq(Packets)] /\ s2c' \in [Conns -> Seq(Packets)]
  <2>1. <<>> \in Seq(Packets)
    OBVIOUS
  <2>2. ends' \in [Conns -> SUBSET BothEnds] /\ "client" \notin ends'[k]
    BY Zenon, <1>2 DEF ChannelTypes
  <2>3. c2s' \in [Conns -> Seq(Packets)]
    BY Zenon, <1>1, <1>2, <1>3, <2>1 DEF ChannelTypes
  <2>4. s2c' \in [Conns -> Seq(Packets)]
    BY Zenon, <1>1, <1>2, <1>3, <2>1 DEF ChannelTypes
  <2> QED
    BY Zenon, <2>2, <2>3, <2>4
<1>5. Loses(k) /\ ends'[k] \subseteq ends[k]
  <2>1. ~ Whole(k)'
    BY Zenon, <1>4 DEF Whole, BothEnds
  <2>2. Left(c2s[k], c2s'[k]) /\ Left(s2c[k], s2c'[k])
    BY Zenon, <1>1, <1>2, <1>3 DEF ChannelTypes
  <2>3. ends'[k] \subseteq ends[k]
    BY Zenon, <1>2 DEF ChannelTypes
  <2> QED
    BY Zenon, <2>1, <2>2, <2>3 DEF Loses
<1>6. ASSUME NEW j \in Conns, j # k PROVE Loses(j) /\ ends'[j] \subseteq ends[j]
  BY Zenon, <1>1, <1>2, <1>6, LosesNothing DEF ChannelTypes
<1> QED
  BY Zenon, <1>4, <1>5, <1>6

\* What closing a connection on the server's side changes.
LEMMA ServerClosesFacts ==
  ASSUME ChannelTypes, NEW k \in Conns, ServerCloses(k), link' = link
  PROVE  /\ ends' \in [Conns -> SUBSET BothEnds] /\ "server" \notin ends'[k] /\ c2s'[k] = <<>>
         /\ c2s' \in [Conns -> Seq(Packets)] /\ s2c' \in [Conns -> Seq(Packets)]
         /\ \A j \in Conns : Loses(j) /\ ends'[j] \subseteq ends[j]
                             /\ ("client" \in ends'[j] <=> "client" \in ends[j])
<1>1. PICK rest \in Remains(s2c[k]) :
        s2c' = [s2c EXCEPT ![k] = IF "client" \in ends[k] /\ link[k] # "silent" THEN rest ELSE <<>>]
  BY Zenon DEF ServerCloses
<1>2. /\ ends' = [ends EXCEPT ![k] = @ \ {"server"}] /\ c2s' = [c2s EXCEPT ![k] = <<>>]
      /\ c2s[k] \in Seq(Packets) /\ s2c[k] \in Seq(Packets)
  BY Zenon DEF ServerCloses, ChannelTypes
<1>3. rest \in Seq(Packets) /\ Left(s2c[k], rest) /\ Left(s2c[k], <<>>) /\ Left(c2s[k], <<>>)
  BY Zenon, <1>1, <1>2, RemainsFacts, LeftOfWire
<1>4. /\ ends' \in [Conns -> SUBSET BothEnds] /\ "server" \notin ends'[k] /\ c2s'[k] = <<>>
      /\ c2s' \in [Conns -> Seq(Packets)] /\ s2c' \in [Conns -> Seq(Packets)]
  <2>1. <<>> \in Seq(Packets)
    OBVIOUS
  <2>2. ends' \in [Conns -> SUBSET BothEnds] /\ "server" \notin ends'[k]
    BY Zenon, <1>2 DEF ChannelTypes
  <2>3. c2s' \in [Conns -> Seq(Packets)] /\ c2s'[k] = <<>>
    BY Zenon, <1>1, <1>2, <1>3, <2>1 DEF ChannelTypes
  <2>4. s2c' \in [Conns -> Seq(Packets)]
    BY Zenon, <1>1, <1>2, <1>3, <2>1 DEF ChannelTypes
  <2> QED
    BY Zenon, <2>2, <2>3, <2>4
<1>5. Loses(k) /\ ends'[k] \subseteq ends[k] /\ ("client" \in ends'[k] <=> "client" \in ends[k])
  <2>1. ~ Whole(k)'
    BY Zenon, <1>4 DEF Whole, BothEnds
  <2>2. Left(c2s[k], c2s'[k]) /\ Left(s2c[k], s2c'[k])
    BY Zenon, <1>1, <1>2, <1>3 DEF ChannelTypes
  <2>3. ends'[k] \subseteq ends[k] /\ ("client" \in ends'[k] <=> "client" \in ends[k])
    BY Zenon, <1>2 DEF ChannelTypes
  <2> QED
    BY Zenon, <2>1, <2>2, <2>3 DEF Loses
<1>6. ASSUME NEW j \in Conns, j # k
      PROVE  Loses(j) /\ ends'[j] \subseteq ends[j] /\ ("client" \in ends'[j] <=> "client" \in ends[j])
  BY Zenon, <1>1, <1>2, <1>6, LosesNothing DEF ChannelTypes
<1> QED
  BY Zenon, <1>4, <1>5, <1>6

-----------------------------------------------------------------------------
\* A step that leaves the network, the gateway, c.conn and c.session alone and
\* does not move in or out of a handshake.
LEMMA QuietStep ==
  ASSUME ChannelInv, UNCHANGED <<kind, link, ends, c2s, s2c, conn, session, sending, gateway, crecv, got>>,
         cpc' \in {"idle", "dial", "msg1", "msg2", "backoff", "panic"},
         cpc' = cpc \/ ({cpc, cpc'} \cap {"msg1", "msg2"} = {}),
         \/ UNCHANGED <<rpc, rconn, rsession>>
         \/ ReceiveDone
         \/ Unlocked /\ conn # NoConn /\ rpc' = "read" /\ rconn' = conn /\ rsession' = session
  PROVE  ChannelInv'
<1>1. /\ UNCHANGED <<kind, link, ends, c2s, s2c, conn, session, csend, sent, crecv, got>>
      /\ UNCHANGED <<accepting, spc, cur, ssend, srecv, handled, dispatched>>
  BY Zenon DEF sending, gateway
<1>2. ChannelTypes'
  BY ZenonT(60), <1>1 DEF ChannelInv, ChannelTypes, ReceiveDone
<1>3. \A k \in Conns : Shaking(k)' => Shaking(k) /\ cpc' = cpc
  BY Zenon, <1>1 DEF Shaking
<1>4. FieldsMatch'
  BY ZenonT(60), <1>1, <1>3 DEF ChannelInv, ChannelTypes, FieldsMatch, Shaking, ReceiveDone, Unlocked
<1>5. ASSUME NEW k \in Conns PROVE Agrees(k)'
  <2>1. Live(k)' => Live(k)
    BY Zenon, <1>1 DEF ChannelInv, FieldsMatch, Live, Shaking, ReceiveDone, Unlocked
  <2>2. NothingNew(k)
    BY Zenon, <1>1, <1>3, <2>1 DEF NothingNew, Sending
  <2> QED
    BY Zenon, <1>1, <2>2, LosesNothing, KeepsAgreeing DEF ChannelInv, Untouched
<1> QED
  BY Zenon, <1>2, <1>4, <1>5 DEF ChannelInv

\* Connect, the waits of ConnectWithReconnect, a failed dial, the panic of Send,
\* and the ends of Receive that read nothing.
LEMMA WaitStep ==
  ASSUME ChannelInv, UNCHANGED gateway,
         \/ Connect \/ \E config \in Configs : ConnectWithReconnect(config)
         \/ DialFails \/ Cancel \/ Backoff \/ SendPanics \/ Receive \/ ReceiveFails
  PROVE  ChannelInv'
<1>1. CASE \/ Connect \/ \E config \in Configs : ConnectWithReconnect(config)
           \/ DialFails \/ Cancel \/ Backoff \/ SendPanics
  <2>1. UNCHANGED <<kind, link, ends, c2s, s2c, conn, session, sending, crecv, got, rpc, rconn, rsession>>
    BY Zenon, <1>1 DEF Connect, ConnectWithReconnect, Begin, DialFails, Cancel, Backoff, SendPanics, network, fields, receiving
  <2>2. {cpc, cpc'} \cap {"msg1", "msg2"} = {}
        /\ cpc' \in {"idle", "dial", "msg1", "msg2", "backoff", "panic"}
    BY Zenon, <1>1 DEF Connect, ConnectWithReconnect, Begin, DialFails, Cancel, Backoff, SendPanics, AttemptFailed, ConnectDone, Ready, Unlocked
  <2> QED
    BY Zenon, <2>1, <2>2, QuietStep
<1>2. CASE Receive \/ ReceiveFails
  <2>1. UNCHANGED <<kind, link, ends, c2s, s2c, conn, session, sending, crecv, got, cpc>>
    BY Zenon, <1>2 DEF Receive, ReceiveFails, connecting, network, fields
  <2>2. cpc' \in {"idle", "dial", "msg1", "msg2", "backoff", "panic"}
    BY Zenon, <2>1 DEF ChannelInv, ChannelTypes
  <2>3. \/ ReceiveDone
        \/ Unlocked /\ conn # NoConn /\ rpc' = "read" /\ rconn' = conn /\ rsession' = session
    BY Zenon, <1>2 DEF Receive, ReceiveFails
  <2> QED
    BY Zenon, <2>1, <2>2, <2>3, QuietStep
<1> QED
  BY Zenon, <1>1, <1>2

\* A connection nobody has dialed has been used for nothing.
LEMMA DialStep ==
  ASSUME ChannelInv, NEW k \in Conns, Dial(k), UNCHANGED gateway
  PROVE  ChannelInv'
<1>1. /\ link[k] = "none" /\ link' = [link EXCEPT ![k] = "up"] /\ ends' = [ends EXCEPT ![k] = BothEnds]
      /\ conn' = k /\ cpc' = "msg1"
      /\ UNCHANGED <<kind, c2s, s2c, session, rpc, rconn, rsession, crecv, got, csend, sent>>
      /\ UNCHANGED <<accepting, spc, cur, ssend, srecv, handled, dispatched>>
  BY Zenon DEF Dial, Undialed, receiving, sending, gateway
<1>2. ChannelTypes'
  BY Zenon, <1>1 DEF ChannelInv, ChannelTypes, BothEnds
<1>3. session # k /\ (rpc = "read" => rconn # k) /\ k # NoConn
  BY <1>1 DEF ChannelInv, FieldsMatch, Conns, NoConn
<1>4. FieldsMatch'
  <2>1. link'[k] = "up" /\ \A j \in Conns \ {k} : link'[j] = link[j] /\ ends'[j] = ends[j]
    BY Zenon, <1>1 DEF ChannelInv, ChannelTypes
  <2> QED
    BY Zenon, <1>1, <1>3, <2>1 DEF ChannelInv, ChannelTypes, FieldsMatch, Shaking
<1>5. ASSUME NEW j \in Conns, j # k PROVE Agrees(j)'
  <2>1. ends'[j] = ends[j] /\ link'[j] = link[j]
    BY Zenon, <1>1, <1>5 DEF ChannelInv, ChannelTypes
  <2>2. NothingNew(j)
    BY Zenon, <1>1, <1>5, <2>1 DEF NothingNew, Shaking, Live, Sending
  <2> QED
    BY Zenon, <1>1, <2>1, <2>2, LosesNothing, KeepsAgreeing DEF ChannelInv, Untouched
<1>6. Agrees(k)'
  <2>1. Counted(k) /\ Inbound(k)
    BY Zenon DEF ChannelInv, Agrees
  <2>2. /\ spc[k] = "off" /\ c2s[k] = <<>> /\ s2c[k] = <<>> /\ sent[k] = <<>> /\ csend[k] = 0
        /\ link'[k] = "up"
    BY Zenon, <1>1, <2>1 DEF Counted, Inbound, ChannelInv, ChannelTypes
  <2>3. Counted(k)'
    BY Zenon, <1>1, <2>1, <2>2 DEF Counted
  <2>4. Inbound(k)'
    BY Zenon, <1>1, <2>1, <2>2 DEF Inbound
  <2>5. ~ Live(k)' /\ ~ Sending(k)' /\ cpc' = "msg1"
    BY Zenon, <1>1, <1>3 DEF Live, Sending
  <2>6. Outbound(k)'
    BY <1>1, <2>2, <2>5 DEF Outbound
  <2> QED
    BY Zenon, <2>3, <2>4, <2>6 DEF Agrees
<1> QED
  BY Zenon, <1>2, <1>4, <1>5, <1>6 DEF ChannelInv

\* The first message of the handshake.
LEMMA WriteInitStep ==
  ASSUME ChannelInv, NEW k \in Conns, conn = k, WriteInit, UNCHANGED gateway
  PROVE  ChannelInv'
<1>1. /\ cpc = "msg1" /\ cpc' = "msg2"
      /\ c2s' = [c2s EXCEPT ![k] = IF Whole(k) THEN Append(@, Handshake("e")) ELSE @]
      /\ UNCHANGED <<kind, link, ends, s2c, conn, session, rpc, rconn, rsession, crecv, got, csend, sent>>
      /\ UNCHANGED <<accepting, spc, cur, ssend, srecv, handled, dispatched>>
  BY Zenon DEF WriteInit, ClientWrites, fields, receiving, sending, gateway
<1>2. k \in Conns /\ Shaking(k) /\ session # k /\ ~ Live(k)
  BY Zenon, <1>1 DEF ChannelInv, ChannelTypes, FieldsMatch, Shaking, Live
<1>3. /\ Counted(k) /\ Inbound(k) /\ Outbound(k) /\ c2s[k] = <<>> /\ sent[k] = <<>> /\ csend[k] = 0
      /\ spc[k] \in {"off", "msg1", "return"} /\ Len(s2c[k]) <= 1
  BY Zenon, <1>1, <1>2 DEF ChannelInv, Agrees, Outbound
<1>4. c2s'[k] \in {<<>>, <<Handshake("e")>>} /\ (spc[k] = "return" => c2s'[k] = <<>>)
      /\ \A j \in Conns \ {k} : c2s'[j] = c2s[j]
  BY <1>1, <1>2, <1>3 DEF ChannelInv, ChannelTypes, Inbound, Whole, BothEnds
<1>5. ChannelTypes'
  <2>1. Handshake("e") \in Packets
    BY Zenon DEF Handshake, Packets
  <2>2. c2s' \in [Conns -> Seq(Packets)]
    BY <1>1, <1>2, <1>3, <2>1 DEF ChannelInv, ChannelTypes
  <2> QED
    BY Zenon, <1>1, <2>2 DEF ChannelInv, ChannelTypes
<1>6. FieldsMatch'
  BY Zenon, <1>1, <1>2 DEF ChannelInv, FieldsMatch, Shaking
<1>7. ASSUME NEW j \in Conns, j # k PROVE Agrees(j)'
  <2>1. NothingNew(j)
    BY Zenon, <1>1, <1>7 DEF NothingNew, Shaking, Live, Sending
  <2> QED
    BY Zenon, <1>1, <1>4, <1>7, <2>1, LosesNothing, KeepsAgreeing DEF ChannelInv, Untouched
<1>8. Agrees(k)'
  <2>1. Counted(k)'
    BY Zenon, <1>1, <1>2, <1>3 DEF Counted, ChannelInv, FieldsMatch
  <2>2. Inbound(k)'
    BY <1>1, <1>3, <1>4 DEF Inbound
  <2>3. ~ Live(k)' /\ ~ Sending(k)' /\ cpc' = "msg2"
    BY Zenon, <1>1, <1>2 DEF Live, Sending
  <2>4. Outbound(k)'
    BY Zenon, <1>1, <1>3, <1>4, <2>3 DEF Outbound
  <2> QED
    BY Zenon, <2>1, <2>2, <2>4 DEF Agrees
<1> QED
  BY Zenon, <1>5, <1>6, <1>7, <1>8 DEF ChannelInv

\* The end of the handshake on the client's side.
LEMMA EstablishedStep ==
  ASSUME ChannelInv, NEW k \in Conns, conn = k, Established, UNCHANGED gateway
  PROVE  ChannelInv'
<1>1. /\ cpc = "msg2" /\ cpc' = "idle" /\ session' = k /\ s2c[k] # <<>>
      /\ s2c' = [s2c EXCEPT ![k] = Tail(@)]
      /\ c2s' = [c2s EXCEPT ![k] = IF Whole(k) THEN Append(@, Handshake("s_se")) ELSE @]
      /\ UNCHANGED <<kind, link, ends, conn, rpc, rconn, rsession, crecv, got, csend, sent>>
      /\ UNCHANGED <<accepting, spc, cur, ssend, srecv, handled, dispatched>>
  BY Zenon DEF Established, ClientWrites, ClientReads, ClientCanRead, ConnectDone, receiving, sending, gateway
<1>2. k # NoConn /\ Shaking(k) /\ session # k /\ ~ Live(k)
  BY Zenon, <1>1 DEF ChannelInv, ChannelTypes, FieldsMatch, Shaking, Live, Conns, NoConn
<1>3. /\ Counted(k) /\ Inbound(k) /\ Outbound(k) /\ sent[k] = <<>> /\ csend[k] = 0
      /\ spc[k] \in {"msg3", "return"} /\ Len(s2c[k]) <= 1 /\ c2s[k] = <<>>
  BY Zenon, <1>1, <1>2 DEF ChannelInv, Agrees, Outbound, Inbound
<1>4. /\ s2c'[k] = <<>> /\ s2c' \in [Conns -> Seq(Packets)]
      /\ \A j \in Conns \ {k} : s2c'[j] = s2c[j]
  <2>1. s2c \in [Conns -> Seq(Packets)] /\ s2c[k] \in Seq(Packets)
    BY Zenon DEF ChannelInv, ChannelTypes
  <2>2. Tail(s2c[k]) = <<>>
    BY Zenon, <1>1, <1>3, <2>1, TailOfOne
  <2>3. <<>> \in Seq(Packets)
    OBVIOUS
  <2> QED
    BY Zenon, <1>1, <2>1, <2>2, <2>3
<1>5. /\ c2s'[k] = IF Whole(k) THEN <<Handshake("s_se")>> ELSE <<>>
      /\ Whole(k) => spc[k] = "msg3"
      /\ \A j \in Conns \ {k} : c2s'[j] = c2s[j]
  BY <1>1, <1>3 DEF ChannelInv, ChannelTypes, Inbound, Whole, BothEnds
<1>6. ChannelTypes'
  <2>1. Handshake("s_se") \in Packets
    BY Zenon DEF Handshake, Packets
  <2>2. c2s' \in [Conns -> Seq(Packets)]
    BY <1>1, <1>3, <2>1 DEF ChannelInv, ChannelTypes
  <2> QED
    BY Zenon, <1>1, <1>4, <2>2 DEF ChannelInv, ChannelTypes
<1>7. FieldsMatch'
  BY Zenon, <1>1, <1>2 DEF ChannelInv, FieldsMatch, Shaking
<1>8. ASSUME NEW j \in Conns, j # k PROVE Agrees(j)'
  <2>1. NothingNew(j)
    BY Zenon, <1>1, <1>8 DEF NothingNew, Shaking, Live, Sending
  <2> QED
    BY Zenon, <1>1, <1>4, <1>5, <1>8, <2>1, LosesNothing, KeepsAgreeing DEF ChannelInv, Untouched
<1>9. Agrees(k)'
  <2>1. Counted(k)'
    BY Zenon, <1>1, <1>2, <1>3 DEF Counted, ChannelInv, FieldsMatch
  <2>2. Inbound(k)'
    BY <1>1, <1>3, <1>5 DEF Inbound
  <2>3. ~ Shaking(k)' /\ Whole(k)' = Whole(k)
    BY Zenon, <1>1 DEF Shaking, Whole
  <2>4. handled[k] = <<>> /\ ssend[k] = 0 /\ crecv[k] = 0 /\ srecv[k] = 0
    <3>1. /\ Len(handled[k]) <= Len(<<>>) /\ srecv[k] = Len(handled[k]) /\ crecv[k] <= ssend[k]
          /\ ssend[k] <= Len(handled[k])
      BY Zenon, <1>3 DEF Counted
    <3>2. handled[k] \in Seq(Messages) /\ ssend[k] \in Nat /\ crecv[k] \in Nat
      BY Zenon DEF ChannelInv, ChannelTypes
    <3> QED
      BY <3>1, <3>2
  <2>5. Outbound(k)'
    <3>1. Len(<<>>) = 0 /\ Len(<<Handshake("s_se")>>) = 0 + 1 /\ 0 + 0 = 0 /\ 0 <= 0 /\ 1 .. 0 = {}
      OBVIOUS
    <3> QED
      BY ZenonT(60), <1>1, <1>3, <1>4, <1>5, <2>3, <2>4, <3>1 DEF Outbound, Whole
  <2> QED
    BY Zenon, <2>1, <2>2, <2>5 DEF Agrees
<1> QED
  BY Zenon, <1>6, <1>7, <1>8, <1>9 DEF ChannelInv

\* The client closes its end: a failed handshake, or Close.
LEMMA HangUpStep ==
  ASSUME ChannelInv, NEW k \in Conns, conn = k, ClientCloses(k), UNCHANGED gateway,
         UNCHANGED <<kind, link, conn, session, receiving, sending>>,
         cpc' \in {"idle", "dial", "backoff"}
  PROVE  ChannelInv'
<1>1. /\ UNCHANGED <<kind, link, conn, session, rpc, rconn, rsession, crecv, got, csend, sent>>
      /\ UNCHANGED <<accepting, spc, cur, ssend, srecv, handled, dispatched>>
  BY Zenon DEF receiving, sending, gateway
<1>2. /\ ends' \in [Conns -> SUBSET BothEnds] /\ "client" \notin ends'[k]
      /\ c2s' \in [Conns -> Seq(Packets)] /\ s2c' \in [Conns -> Seq(Packets)]
      /\ \A j \in Conns : Loses(j) /\ ends'[j] \subseteq ends[j]
  BY Zenon, <1>1, ClientClosesFacts DEF ChannelInv
<1>3. ChannelTypes'
  BY ZenonT(60), <1>1, <1>2 DEF ChannelInv, ChannelTypes
<1>4. FieldsMatch'
  BY Zenon, <1>1, <1>2 DEF ChannelInv, ChannelTypes, FieldsMatch, Shaking
<1>5. ASSUME NEW j \in Conns PROVE Agrees(j)'
  <2>1. NothingNew(j)
    BY Zenon, <1>1, <1>2 DEF NothingNew, Shaking, Live, Sending
  <2> QED
    BY Zenon, <1>1, <1>2, <2>1, KeepsAgreeing DEF ChannelInv, Untouched
<1> QED
  BY Zenon, <1>3, <1>4, <1>5 DEF ChannelInv

\* A handshake that fails on the client's side closes the connection.
LEMMA HandshakeFailsStep == ASSUME ChannelInv, HandshakeFails, UNCHANGED gateway PROVE ChannelInv'
<1>1. PICK k \in Conns : k = conn
  BY Zenon DEF HandshakeFails, ChannelInv, ChannelTypes, FieldsMatch
<1>2. cpc' \in {"idle", "dial", "backoff"}
  BY Zenon DEF HandshakeFails, AttemptFailed, ConnectDone
<1>3. ClientCloses(k) /\ UNCHANGED <<kind, link, conn, session, receiving, sending>>
  BY Zenon, <1>1 DEF HandshakeFails, fields
<1> QED
  BY Zenon, <1>1, <1>2, <1>3, HangUpStep

\* The client closes its connection.
LEMMA CloseStep == ASSUME ChannelInv, Close, UNCHANGED gateway PROVE ChannelInv'
<1>1. CASE conn = NoConn
  <2>1. UNCHANGED <<kind, link, ends, c2s, s2c, conn, session, sending, crecv, got, cpc, rpc, rconn, rsession>>
    BY Zenon, <1>1 DEF Close, connecting, receiving
  <2>2. cpc' \in {"idle", "dial", "msg1", "msg2", "backoff", "panic"}
    BY Zenon, <2>1 DEF ChannelInv, ChannelTypes
  <2> QED
    BY Zenon, <2>1, <2>2, QuietStep
<1>2. CASE conn # NoConn
  <2>1. PICK k \in Conns : k = conn
    BY Zenon, <1>2 DEF ChannelInv, ChannelTypes
  <2>2. /\ ClientCloses(k) /\ UNCHANGED <<kind, link, conn, session, receiving, sending>>
        /\ cpc' \in {"idle", "dial", "backoff"}
    BY Zenon, <1>2, <2>1 DEF Close, Unlocked, connecting
  <2> QED
    BY Zenon, <2>1, <2>2, HangUpStep
<1> QED
  BY Zenon, <1>1, <1>2

\* The message goes to the wire of the session that encrypted it: a Send that
\* mixes two connections finds the conn closed.
LEMMA SendStep ==
  ASSUME ChannelInv, NEW k \in Conns, conn = k, NEW m \in Messages, Send(m), UNCHANGED gateway
  PROVE  ChannelInv'
<1>1. /\ Unlocked /\ session # NoConn /\ cpc' = cpc
      /\ csend' = [csend EXCEPT ![session] = @ + 1]
      /\ sent' = IF ~ Whole(k) THEN sent ELSE [sent EXCEPT ![k] = Append(@, m)]
      /\ UNCHANGED <<kind, link, ends, s2c, conn, session, rpc, rconn, rsession, crecv, got>>
      /\ UNCHANGED <<accepting, spc, cur, ssend, srecv, handled, dispatched>>
  BY Zenon DEF Send, Ready, WriteFails, connecting, fields, receiving, gateway
<1>2. ChannelTypes /\ FieldsMatch /\ session \in Conns /\ ~ Shaking(session) /\ ~ Shaking(k)
      /\ Agrees(k) /\ Agrees(session)
  BY Zenon, <1>1 DEF ChannelInv, ChannelTypes, FieldsMatch, Shaking, Unlocked
<1>3. CASE ~ Whole(k)
  <2>1. sent' = sent /\ c2s' = c2s
    <3>1. c2s' = c2s \/ c2s' = [c2s EXCEPT ![k] = c2s[k]]
      BY Zenon, <1>3 DEF Send, ClientWrites, WriteFails
    <3> QED
      BY Zenon, <1>1, <1>2, <1>3, <3>1 DEF ChannelTypes
  <2>2. /\ csend' \in [Conns -> Nat]
        /\ \A j \in Conns \ {session} : csend'[j] = csend[j]
    <3>1. csend \in [Conns -> Nat] /\ csend[session] \in Nat
      BY Zenon, <1>2 DEF ChannelTypes
    <3> QED
      BY <1>1, <1>2, <3>1
  <2>3. ChannelTypes'
    BY ZenonT(60), <1>1, <1>2, <2>1, <2>2 DEF ChannelTypes
  <2>4. FieldsMatch'
    BY Zenon, <1>1, <1>2, <2>1 DEF FieldsMatch, Shaking
  <2>5. ASSUME NEW j \in Conns PROVE Agrees(j)'
    <3>1. NothingNew(j)
      BY Zenon, <1>1 DEF NothingNew, Shaking, Live, Sending
    <3>2. j = session => link[j] # "none" /\ ~ Shaking(j)' /\ ~ (Sending(j)' /\ Whole(j)')
      BY Zenon, <1>1, <1>2, <1>3 DEF FieldsMatch, Shaking, Sending, Whole
    <3> QED
      BY Zenon, <1>1, <2>1, <2>2, <3>1, <3>2, LosesNothing, KeepsAgreeing DEF ChannelInv, Untouched
  <2> QED
    BY Zenon, <2>3, <2>4, <2>5 DEF ChannelInv
<1>4. CASE Whole(k)
  <2>1. session = k /\ Sending(k) /\ Live(k)
    BY <1>2, <1>4 DEF FieldsMatch, Whole, BothEnds, Sending, Live, Conns, NoConn
  <2>2. /\ csend[k] = Len(sent[k]) /\ spc[k] \notin {"off", "msg1", "return"}
        /\ spc[k] = "msg3" => Len(c2s[k]) = Len(sent[k]) + 1
        /\ spc[k] # "msg3" => srecv[k] + Len(c2s[k]) = Len(sent[k])
    BY Zenon, <1>2, <1>4, <2>1 DEF Agrees, Outbound, Inbound, Whole, BothEnds
  <2>3. /\ c2s[k] \in Seq(Packets) /\ sent[k] \in Seq(Messages) /\ handled[k] \in Seq(Messages)
        /\ csend[k] \in Nat /\ srecv[k] \in Nat
    BY Zenon, <1>2 DEF ChannelTypes
  <2>n. csend[k] \in Nat /\ srecv[k] \in Nat /\ Len(sent[k]) \in Nat /\ Len(c2s[k]) \in Nat
    BY <2>3
  <2> DEFINE p == Encrypt(k, csend[k], "data", m)
  <2>4. p \in Packets
    BY Zenon, <2>3 DEF Encrypt, Packets
  <2>5. c2s' = [c2s EXCEPT ![k] = Append(@, p)]
    BY Zenon, <1>4, <2>1 DEF Send, ClientWrites, WriteFails
  <2>6. /\ c2s'[k] = Append(c2s[k], p) /\ sent'[k] = Append(sent[k], m) /\ csend'[k] = csend[k] + 1
        /\ \A j \in Conns \ {k} : c2s'[j] = c2s[j] /\ sent'[j] = sent[j] /\ csend'[j] = csend[j]
    BY Zenon, <1>1, <1>2, <1>4, <2>1, <2>5 DEF ChannelTypes
  <2>7. /\ p = Encrypt(k, csend[k], "data", m)
        /\ Len(c2s'[k]) = Len(c2s[k]) + 1 /\ c2s'[k][Len(c2s[k]) + 1] = p
        /\ \A i \in 1 .. Len(c2s[k]) : c2s'[k][i] = c2s[k][i]
        /\ Len(sent'[k]) = Len(sent[k]) + 1 /\ sent'[k][Len(sent[k]) + 1] = m
        /\ \A i \in 1 .. Len(sent[k]) : sent'[k][i] = sent[k][i]
    BY <2>3, <2>4, <2>6
  <2>e. /\ csend'[k] = csend[k] + 1 /\ srecv'[k] = srecv[k] /\ spc'[k] = spc[k]
        /\ Len(c2s'[k]) = Len(c2s[k]) + 1 /\ Len(sent'[k]) = Len(sent[k]) + 1
    BY Zenon, <1>1, <2>6, <2>7
  <2> HIDE DEF p
  <2>8. ChannelTypes'
    <3>1. c2s' \in [Conns -> Seq(Packets)]
      BY <1>2, <2>4, <2>5 DEF ChannelTypes
    <3>2. sent' \in [Conns -> Seq(Messages)]
      BY <1>1, <1>2, <1>4 DEF ChannelTypes
    <3>3. csend \in [Conns -> Nat]
      BY Zenon, <1>2 DEF ChannelTypes
    <3>4. csend' \in [Conns -> Nat]
      BY <1>1, <2>1, <2>n, <3>3
    <3> QED
      BY ZenonT(60), <1>1, <1>2, <3>1, <3>2, <3>4 DEF ChannelTypes
  <2>9. FieldsMatch'
    BY Zenon, <1>1, <1>2 DEF FieldsMatch, Shaking
  <2>10. ASSUME NEW j \in Conns, j # k PROVE Agrees(j)'
    <3>1. NothingNew(j)
      BY Zenon, <1>1 DEF NothingNew, Shaking, Live, Sending
    <3> QED
      BY Zenon, <1>1, <2>6, <2>10, <3>1, LosesNothing, KeepsAgreeing DEF ChannelInv, Untouched
  <2>11. Counted(k)'
    <3>1. Counted(k) /\ link[k] # "none"
      BY Zenon, <1>1, <1>2, <2>1 DEF Agrees, FieldsMatch
    <3>2. Len(handled[k]) <= Len(sent'[k]) /\ \A i \in 1 .. Len(handled[k]) : handled[k][i] = sent'[k][i]
      BY <2>3, <2>7, <3>1 DEF Counted
    <3> QED
      BY Zenon, <1>1, <3>1, <3>2 DEF Counted
  <2>12. Inbound(k)'
    <3>1. CASE spc[k] = "msg3"
      <4>1. ASSUME NEW i \in 1 .. Len(c2s'[k])
            PROVE  c2s'[k][i] = IF i = 1 THEN Handshake("s_se") ELSE Datum(k, i - 1)'
        <5>1. CASE i = Len(c2s[k]) + 1
          BY <2>2, <2>3, <2>7, <3>1, <5>1 DEF Datum
        <5>2. CASE i \in 1 .. Len(c2s[k])
          <6>1. i # 1 => i - 1 \in 1 .. Len(sent[k])
            BY <2>2, <2>3, <3>1, <5>2
          <6>2. c2s[k][i] = IF i = 1 THEN Handshake("s_se") ELSE Datum(k, i - 1)
            BY Zenon, <1>2, <3>1, <5>2 DEF Agrees, Inbound
          <6>3. i # 1 => sent'[k][i - 1] = sent[k][i - 1]
            BY Zenon, <2>7, <6>1
          <6> QED
            BY Zenon, <2>7, <5>2, <6>2, <6>3 DEF Datum
        <5> QED
          BY <2>3, <2>7, <5>1, <5>2
      <4> QED
        <5>1. Len(c2s'[k]) <= Len(sent'[k]) + 1
          BY <2>2, <2>n, <2>e, <3>1
        <5>2. spc'[k] = "msg3" /\ handled'[k] = <<>> /\ ssend'[k] = Len(handled'[k])
          BY Zenon, <1>1, <1>2, <3>1 DEF Agrees, Inbound
        <5> QED
          BY Zenon, <4>1, <5>1, <5>2 DEF Inbound
    <3>2. CASE spc[k] \in {"read", "dispatch", "echo"}
      <4>1. ASSUME NEW i \in 1 .. Len(c2s'[k]) PROVE c2s'[k][i] = Datum(k, srecv[k] + i)'
        <5>1. CASE i = Len(c2s[k]) + 1
          <6>1. srecv'[k] = srecv[k]
            BY Zenon, <1>1
          <6>2. srecv'[k] + i = Len(sent[k]) + 1 /\ (srecv'[k] + i) - 1 = csend[k]
            BY <2>2, <2>n, <3>2, <5>1, <6>1
          <6>3. c2s'[k][i] = Encrypt(k, csend[k], "data", m)
            BY Zenon, <2>7, <5>1
          <6>4. sent'[k][srecv'[k] + i] = m
            BY Zenon, <2>7, <6>2
          <6> QED
            BY Zenon, <6>2, <6>3, <6>4 DEF Datum
        <5>2. CASE i \in 1 .. Len(c2s[k])
          <6>1. srecv[k] + i \in 1 .. Len(sent[k])
            BY <2>2, <2>3, <3>2, <5>2
          <6>2. c2s[k][i] = Datum(k, srecv[k] + i)
            BY Zenon, <1>2, <3>2, <5>2 DEF Agrees, Inbound
          <6>3. sent'[k][srecv[k] + i] = sent[k][srecv[k] + i]
            BY Zenon, <2>7, <6>1
          <6> QED
            BY Zenon, <2>7, <2>e, <5>2, <6>2, <6>3 DEF Datum
        <5> QED
          BY <2>3, <2>7, <5>1, <5>2
      <4>2. srecv'[k] + Len(c2s'[k]) <= Len(sent'[k]) /\ spc'[k] \in {"read", "dispatch", "echo"}
        <5>1. srecv[k] + Len(c2s[k]) = Len(sent[k]) => srecv[k] + (Len(c2s[k]) + 1) <= Len(sent[k]) + 1
          BY Zenon, <2>n, Counting
        <5> QED
          BY Zenon, <2>2, <2>e, <3>2, <5>1
      <4>3. /\ spc'[k] = "read" => ssend'[k] = Len(handled'[k])
            /\ spc'[k] \in {"dispatch", "echo"} =>
                 ssend'[k] + 1 = Len(handled'[k]) /\ cur'[k] = handled'[k][Len(handled'[k])]
        BY Zenon, <1>1, <1>2 DEF Agrees, Inbound
      <4> QED
        BY Zenon, <4>1, <4>2, <4>3 DEF Inbound
    <3> QED
      BY Zenon, <1>2, <2>2, <3>1, <3>2 DEF ChannelTypes
  <2>13. Outbound(k)'
    <3>1. ~ Shaking(k)' /\ (Live(k)' <=> Live(k)) /\ (Whole(k)' <=> Whole(k))
      BY Zenon, <1>1, <1>2 DEF Shaking, Live, Whole
    <3>2. \A i : Answer(k, s2c[k][i], crecv[k] + i)' <=> Answer(k, s2c[k][i], crecv[k] + i)
      BY Zenon, <1>1 DEF Answer
    <3>3. Live(k)' => \A i \in 1 .. Len(s2c'[k]) : Answer(k, s2c[k][i], crecv[k] + i)'
      BY Zenon, <1>1, <1>2, <3>1, <3>2 DEF Agrees, Outbound
    <3>4. Live(k)' => /\ spc'[k] \notin {"off", "msg1"}
                      /\ crecv'[k] + Len(s2c'[k]) <= ssend'[k]
                      /\ Whole(k)' => crecv'[k] + Len(s2c'[k]) = ssend'[k]
      BY Zenon, <1>1, <1>2, <3>1 DEF Agrees, Outbound
    <3>5. /\ csend'[k] = Len(sent'[k])
          /\ spc'[k] = "msg3" => Len(c2s'[k]) = Len(sent'[k]) + 1
          /\ spc'[k] # "msg3" => srecv'[k] + Len(c2s'[k]) = Len(sent'[k])
      <4>1. /\ csend'[k] = Len(sent'[k])
            /\ spc'[k] = "msg3" => Len(c2s'[k]) = Len(sent'[k]) + 1
        BY Zenon, <2>2, <2>e
      <4>2. srecv[k] + (Len(c2s[k]) + 1) = (srecv[k] + Len(c2s[k])) + 1
        BY <2>n
      <4> QED
        BY Zenon, <2>2, <2>e, <4>1, <4>2
    <3> QED
      BY Zenon, <3>1, <3>3, <3>4, <3>5 DEF Outbound
  <2> QED
    BY Zenon, <2>8, <2>9, <2>10, <2>11, <2>12, <2>13 DEF Agrees, ChannelInv
<1> QED
  BY Zenon, <1>3, <1>4

\* The numbers of a connection.
LEMMA Numbers ==
  ASSUME ChannelTypes, NEW k \in Conns
  PROVE  /\ csend[k] \in Nat /\ crecv[k] \in Nat /\ ssend[k] \in Nat /\ srecv[k] \in Nat
         /\ Len(c2s[k]) \in Nat /\ Len(s2c[k]) \in Nat
         /\ Len(sent[k]) \in Nat /\ Len(handled[k]) \in Nat /\ Len(got[k]) \in Nat
<1>1. csend[k] \in Nat /\ crecv[k] \in Nat /\ ssend[k] \in Nat /\ srecv[k] \in Nat
  BY Zenon DEF ChannelTypes
<1>2. /\ c2s[k] \in Seq(Packets) /\ s2c[k] \in Seq(Packets)
      /\ sent[k] \in Seq(Messages) /\ handled[k] \in Seq(Messages) /\ got[k] \in Seq(Answers)
  BY Zenon DEF ChannelTypes
<1> QED
  BY <1>1, <1>2

\* Reading takes the first message from a wire.
LEMMA TailFacts ==
  ASSUME NEW S, NEW s \in Seq(S), s # <<>>
  PROVE  /\ Tail(s) \in Seq(S) /\ Head(s) \in S /\ Head(s) = s[1] /\ 1 \in 1 .. Len(s)
         /\ Len(Tail(s)) = Len(s) - 1
         /\ \A i \in 1 .. Len(Tail(s)) : i + 1 \in 1 .. Len(s) /\ Tail(s)[i] = s[i + 1]
OBVIOUS

\* An element is added at the end.
LEMMA AppendFacts ==
  ASSUME NEW S, NEW s \in Seq(S), NEW e \in S
  PROVE  /\ Append(s, e) \in Seq(S) /\ Len(Append(s, e)) = Len(s) + 1
         /\ Append(s, e)[Len(s) + 1] = e
         /\ \A i \in 1 .. Len(s) : Append(s, e)[i] = s[i]
OBVIOUS

\* The next answer of a live connection decrypts.
LEMMA ReceiveReadsStep ==
  ASSUME ChannelInv, NEW k \in Conns, rconn = k, ReceiveReads, UNCHANGED gateway
  PROVE  ChannelInv'
<1> DEFINE p == s2c[k][1]
           a == [type |-> p.type, msg |-> p.msg]
<1>1. /\ rpc = "read" /\ "client" \in ends[k] /\ s2c[k] # <<>>
      /\ s2c' = [s2c EXCEPT ![k] = Tail(@)]
      /\ rpc' = "idle" /\ rconn' = NoConn /\ rsession' = NoConn
      /\ UNCHANGED <<kind, link, ends, c2s, conn, session, cpc, csend, sent>>
      /\ UNCHANGED <<accepting, spc, cur, ssend, srecv, handled, dispatched>>
  BY Zenon DEF ReceiveReads, ClientReads, ClientCanRead, ReceiveDone, connecting, fields, sending, gateway
<1>2. ChannelTypes /\ FieldsMatch /\ Counted(k) /\ Inbound(k) /\ Outbound(k)
  BY Zenon DEF ChannelInv, Agrees
<1>3. rsession = k /\ ~ Shaking(k) /\ Live(k) /\ link[k] # "none"
  BY Zenon, <1>1, <1>2 DEF FieldsMatch, Live
<1>4. /\ Tail(s2c[k]) \in Seq(Packets) /\ p \in Packets /\ Head(s2c[k]) = p /\ 1 \in 1 .. Len(s2c[k])
      /\ Len(Tail(s2c[k])) = Len(s2c[k]) - 1
      /\ \A i \in 1 .. Len(Tail(s2c[k])) : i + 1 \in 1 .. Len(s2c[k]) /\ Tail(s2c[k])[i] = s2c[k][i + 1]
  <2>1. s2c[k] \in Seq(Packets)
    BY Zenon, <1>2 DEF ChannelTypes
  <2> QED
    BY Zenon, <1>1, <2>1, TailFacts
<1>5. Answer(k, p, crecv[k] + 1)
  BY Zenon, <1>2, <1>3, <1>4 DEF Outbound
<1>6. Decrypts(p, k, crecv[k])
  BY <1>2, <1>5, Numbers DEF Answer, Decrypts
<1>7. crecv' = [crecv EXCEPT ![k] = @ + 1] /\ got' = [got EXCEPT ![k] = Append(@, a)]
  BY Zenon, <1>3, <1>4, <1>6 DEF ReceiveReads
<1>8. p.type \in {"ack", "echo"} /\ p.msg \in Messages \cup {"none"} /\ a \in Answers
      /\ a.type = p.type /\ a.msg = p.msg
  <2>1. p.type \in {"ack", "echo"}
    BY Zenon, <1>5 DEF Answer
  <2>2. p.msg \in Messages \cup {"none"}
    BY Zenon, <1>4 DEF Packets
  <2> QED
    BY Zenon, <2>1, <2>2 DEF Answers
<1> HIDE DEF p, a
<1>9. /\ s2c'[k] = Tail(s2c[k]) /\ crecv'[k] = crecv[k] + 1
      /\ got'[k] = Append(got[k], a) /\ got[k] \in Seq(Answers)
      /\ \A j \in Conns \ {k} : s2c'[j] = s2c[j] /\ crecv'[j] = crecv[j] /\ got'[j] = got[j]
  BY Zenon, <1>1, <1>2, <1>7 DEF ChannelTypes
<1>10. /\ Len(got'[k]) = Len(got[k]) + 1 /\ got'[k][Len(got[k]) + 1] = a
       /\ \A i \in 1 .. Len(got[k]) : got'[k][i] = got[k][i]
       /\ got'[k] \in Seq(Answers)
  BY <1>8, <1>9, AppendFacts
<1>r. crecv[k] \in Nat /\ crecv'[k] = crecv[k] + 1
  BY Zenon, <1>2, <1>9, Numbers
<1>w. Len(s2c[k]) \in Nat /\ 1 <= Len(s2c[k]) /\ Len(s2c'[k]) = Len(s2c[k]) - 1
  BY <1>2, <1>4, <1>9, Numbers
<1>n. ssend[k] \in Nat /\ Len(got[k]) \in Nat /\ Len(handled[k]) \in Nat
  BY Zenon, <1>2, Numbers
<1>11. ChannelTypes'
  <2>1. crecv' \in [Conns -> Nat]
    <3>1. crecv \in [Conns -> Nat]
      BY Zenon, <1>2 DEF ChannelTypes
    <3> QED
      BY <1>7, <1>r, <3>1
  <2>2. s2c' \in [Conns -> Seq(Packets)] /\ got' \in [Conns -> Seq(Answers)]
    BY Zenon, <1>1, <1>2, <1>4, <1>7, <1>9, <1>10 DEF ChannelTypes
  <2> QED
    BY Zenon, <1>1, <1>2, <2>1, <2>2 DEF ChannelTypes
<1>12. FieldsMatch'
  BY Zenon, <1>1, <1>2 DEF FieldsMatch, Shaking
<1>13. ASSUME NEW j \in Conns, j # k PROVE Agrees(j)'
  <2>1. NothingNew(j)
    BY Zenon, <1>1 DEF NothingNew, Shaking, Live, Sending
  <2> QED
    BY Zenon, <1>1, <1>9, <1>13, <2>1, LosesNothing, KeepsAgreeing DEF ChannelInv, Untouched
<1>14. Counted(k)'
  <2>1. /\ crecv[k] = Len(got[k]) /\ crecv[k] + Len(s2c[k]) <= ssend[k] /\ ssend[k] <= Len(handled[k])
    BY Zenon, <1>2, <1>3 DEF Counted, Outbound
  <2>2. crecv'[k] = Len(got'[k]) /\ crecv'[k] <= ssend[k]
    <3>1. crecv'[k] = Len(got'[k])
      BY Zenon, <1>10, <1>r, <2>1
    <3>2. crecv[k] + 1 <= ssend[k]
      <4>1. crecv[k] \in Nat /\ ssend[k] \in Nat /\ Len(s2c[k]) \in Nat /\ 1 <= Len(s2c[k])
        BY Zenon, <1>n, <1>r, <1>w
      <4>2. crecv[k] + Len(s2c[k]) <= ssend[k]
        BY Zenon, <2>1
      <4> QED
        BY <4>1, <4>2
    <3> QED
      BY Zenon, <1>r, <3>1, <3>2
  <2>3. ASSUME NEW i \in 1 .. Len(got'[k])
        PROVE  got'[k][i].msg = handled[k][i] /\ (got'[k][i].type = "ack" => i \in dispatched[k])
    <3>1. CASE i = Len(got[k]) + 1
      BY Zenon, <1>5, <1>8, <1>10, <2>1, <3>1 DEF Answer
    <3>2. CASE i \in 1 .. Len(got[k])
      BY Zenon, <1>2, <1>10, <3>2 DEF Counted
    <3> QED
      BY <1>2, <1>10, <3>1, <3>2, Numbers
  <2> QED
    BY Zenon, <1>1, <1>2, <1>3, <2>2, <2>3 DEF Counted
<1>15. Inbound(k)'
  <2>1. spc[k] \notin {"off", "msg1"}
    BY Zenon, <1>2, <1>3 DEF Outbound
  <2> QED
    BY Zenon, <1>1, <1>2, <2>1 DEF Inbound, Datum
<1>16. Outbound(k)'
  <2>1. ~ Shaking(k)' /\ (Whole(k)' <=> Whole(k)) /\ (Sending(k)' <=> Sending(k))
    BY Zenon, <1>1, <1>3 DEF Shaking, Whole, Sending
  <2>2. /\ spc'[k] \notin {"off", "msg1"}
        /\ crecv'[k] + Len(s2c'[k]) <= ssend'[k]
        /\ Whole(k)' => crecv'[k] + Len(s2c'[k]) = ssend'[k]
    <3>1. /\ spc[k] \notin {"off", "msg1"} /\ crecv[k] + Len(s2c[k]) <= ssend[k]
          /\ Whole(k) => crecv[k] + Len(s2c[k]) = ssend[k]
      BY Zenon, <1>2, <1>3 DEF Outbound
    <3>2. crecv'[k] + Len(s2c'[k]) = crecv[k] + Len(s2c[k])
      BY <1>r, <1>w
    <3> QED
      BY Zenon, <1>1, <2>1, <3>1, <3>2
  <2>3. ASSUME NEW i \in 1 .. Len(s2c'[k]) PROVE Answer(k, s2c[k][i], crecv[k] + i)'
    <3>1. i + 1 \in 1 .. Len(s2c[k]) /\ s2c'[k][i] = s2c[k][i + 1]
      BY Zenon, <1>4, <1>9
    <3>2. crecv'[k] + i = crecv[k] + (i + 1)
      BY <1>r
    <3>3. Answer(k, s2c[k][i + 1], crecv[k] + (i + 1))
      BY Zenon, <1>2, <1>3, <3>1 DEF Outbound
    <3> QED
      BY Zenon, <1>1, <3>1, <3>2, <3>3 DEF Answer
  <2>4. Sending(k)' /\ Whole(k)' =>
          /\ csend'[k] = Len(sent'[k])
          /\ spc'[k] = "msg3" => Len(c2s'[k]) = Len(sent'[k]) + 1
          /\ spc'[k] # "msg3" => srecv'[k] + Len(c2s'[k]) = Len(sent'[k])
    BY Zenon, <1>1, <1>2, <2>1 DEF Outbound
  <2> QED
    BY Zenon, <2>1, <2>2, <2>3, <2>4 DEF Outbound
<1> QED
  BY Zenon, <1>11, <1>12, <1>13, <1>14, <1>15, <1>16 DEF Agrees, ChannelInv

\* The process of the client is replaced: nothing of it is left.
LEMMA RestartStep == ASSUME ChannelInv, Restart, UNCHANGED gateway PROVE ChannelInv'
<1> DEFINE open == {k \in Conns : link[k] = "up" /\ "client" \in ends[k]}
<1>1. /\ conn' = NoConn /\ session' = NoConn /\ cpc' = "idle"
      /\ rpc' = "idle" /\ rconn' = NoConn /\ rsession' = NoConn
      /\ ends' = [k \in Conns |-> IF k \in open /\ kind = "ws" THEN ends[k] \ {"client"} ELSE ends[k]]
      /\ link' = [k \in Conns |-> IF k \in open /\ kind = "quic" THEN "silent" ELSE link[k]]
      /\ UNCHANGED <<kind, c2s, s2c, csend, crecv, sent, got>>
      /\ UNCHANGED <<accepting, spc, cur, ssend, srecv, handled, dispatched>>
  BY Zenon DEF Restart, ConnectDone, ReceiveDone, gateway
<1>2. ASSUME NEW k \in Conns
      PROVE  /\ ends'[k] \in {ends[k], ends[k] \ {"client"}} /\ link'[k] \in {link[k], "silent"}
             /\ link'[k] = "none" <=> link[k] = "none"
             /\ ~ Whole(k)'
  BY Zenon, <1>1 DEF ChannelInv, ChannelTypes, Whole, BothEnds
<1>3. ChannelTypes'
  BY Zenon, <1>1 DEF ChannelInv, ChannelTypes
<1>4. FieldsMatch'
  BY Zenon, <1>1, <1>2 DEF ChannelInv, ChannelTypes, FieldsMatch
<1>5. ASSUME NEW k \in Conns PROVE Agrees(k)'
  <2>1. NothingNew(k)
    BY <1>1 DEF NothingNew, Shaking, Live, Sending, Conns, NoConn
  <2>2. Loses(k)
    <3>1. Left(c2s[k], c2s[k]) /\ Left(s2c[k], s2c[k])
      BY Zenon, LeftOfWire DEF ChannelInv, ChannelTypes
    <3> QED
      BY Zenon, <1>1, <1>2, <3>1 DEF Loses
  <2> QED
    BY Zenon, <1>1, <2>1, <2>2, KeepsAgreeing DEF ChannelInv, Untouched
<1> QED
  BY Zenon, <1>3, <1>4, <1>5 DEF ChannelInv

-----------------------------------------------------------------------------
\* A step of handleConn for one connection leaves the others alone.
Elsewhere(k) ==
  /\ UNCHANGED <<client, kind, link>>
  /\ \A j \in Conns \ {k} :
       /\ spc'[j] = spc[j] /\ cur'[j] = cur[j] /\ ssend'[j] = ssend[j] /\ srecv'[j] = srecv[j]
       /\ handled'[j] = handled[j] /\ dispatched'[j] = dispatched[j]
       /\ c2s'[j] = c2s[j] /\ s2c'[j] = s2c[j] /\ ends'[j] = ends[j]

\* The variables of the client, one by one.
LEMMA ClientSame ==
  ASSUME UNCHANGED client
  PROVE  UNCHANGED <<conn, session, closed, cpc, rpc, rconn, rsession, csend, crecv, sent, got>>
BY Zenon DEF client, fields, connecting, receiving, sending

\* The gateway's step about one connection leaves the others agreeing.
LEMMA OthersAgree ==
  ASSUME ChannelInv, NEW k \in Conns, Elsewhere(k), NEW j \in Conns, j # k
  PROVE  Agrees(j)'
<1>1. UNCHANGED <<conn, session, cpc, rpc, rconn, rsession, csend, crecv, sent, got, kind, link>>
  BY Zenon, ClientSame DEF Elsewhere
<1>2. /\ spc'[j] = spc[j] /\ cur'[j] = cur[j] /\ ssend'[j] = ssend[j] /\ srecv'[j] = srecv[j]
      /\ handled'[j] = handled[j] /\ dispatched'[j] = dispatched[j]
      /\ c2s'[j] = c2s[j] /\ s2c'[j] = s2c[j] /\ ends'[j] = ends[j]
  BY Zenon DEF Elsewhere
<1>3. NothingNew(j)
  BY Zenon, <1>1, <1>2 DEF NothingNew, Shaking, Live, Sending
<1>4. Untouched(j)
  BY Zenon, <1>1, <1>2 DEF Untouched
<1> QED
  BY Zenon, <1>1, <1>2, <1>3, <1>4, LosesNothing, KeepsAgreeing DEF ChannelInv

\* FieldsMatch is about the client, and about the connection the accept loop
\* waits for.
LEMMA ServerKeepsFields ==
  ASSUME ChannelInv, NEW k \in Conns, UNCHANGED <<client, kind, link>>,
         \A j \in Conns : "client" \in ends'[j] <=> "client" \in ends[j],
         \/ accepting' = NoConn
         \/ accepting' = accepting /\ \A j \in Conns : spc[j] = "off" => spc'[j] = "off"
  PROVE  FieldsMatch'
<1>1. UNCHANGED <<conn, session, cpc, rpc, rconn, rsession, kind, link>>
  BY Zenon, ClientSame
<1> QED
  BY Zenon, <1>1 DEF ChannelInv, ChannelTypes, FieldsMatch, Shaking

\* The goroutine of a connection starts.
LEMMA StartStep ==
  ASSUME ChannelInv, NEW k \in Conns, spc[k] = "off", link[k] # "none", Goto(k, "msg1"),
         accepting' = NoConn \/ (accepting' = accepting /\ accepting # k),
         UNCHANGED <<network, cur, ssend, srecv, handled, dispatched, client>>
  PROVE  ChannelInv'
<1>1. /\ spc' = [spc EXCEPT ![k] = "msg1"]
      /\ UNCHANGED <<kind, link, ends, c2s, s2c, cur, ssend, srecv, handled, dispatched>>
      /\ UNCHANGED <<conn, session, cpc, rpc, rconn, rsession, csend, crecv, sent, got>>
  BY Zenon, ClientSame DEF Goto, network
<1>2. ChannelTypes'
  BY ZenonT(60), <1>1 DEF ChannelInv, ChannelTypes
<1>3. spc'[k] = "msg1" /\ \A j \in Conns \ {k} : spc'[j] = spc[j]
  BY Zenon, <1>1 DEF ChannelInv, ChannelTypes
<1>4. FieldsMatch'
  BY <1>1, <1>3 DEF ChannelInv, ChannelTypes, FieldsMatch, Shaking
<1>5. Elsewhere(k)
  BY Zenon, <1>1, <1>3 DEF Elsewhere
<1>6. Agrees(k)'
  <2>1. Counted(k) /\ Inbound(k) /\ Outbound(k)
    BY Zenon DEF ChannelInv, Agrees
  <2>2. Counted(k)'
    BY Zenon, <1>1, <1>3, <2>1 DEF Counted
  <2>3. Inbound(k)'
    BY Zenon, <1>1, <1>3, <2>1 DEF Inbound
  <2>4. ~ Live(k)' /\ ~ Sending(k)' /\ (Shaking(k)' <=> Shaking(k)) /\ cpc' = cpc
    BY Zenon, <1>1, <2>1 DEF Outbound, Live, Sending, Shaking
  <2>5. Outbound(k)'
    BY Zenon, <1>1, <1>3, <2>1, <2>4 DEF Outbound
  <2> QED
    BY Zenon, <2>2, <2>3, <2>5 DEF Agrees
<1> QED
  BY Zenon, <1>2, <1>4, <1>5, <1>6, OthersAgree DEF ChannelInv

\* The listeners accept a connection.
LEMMA ListenStep ==
  ASSUME ChannelInv, NEW k \in Conns, UNCHANGED client,
         Upgrade(k) \/ AcceptQUIC(k) \/ (accepting = k /\ AcceptStream)
  PROVE  ChannelInv'
<1>1. CASE Upgrade(k) /\ accepting # k
  BY Zenon, <1>1, StartStep DEF Upgrade
<1>2. CASE Upgrade(k) /\ accepting = k
  <2>1. FALSE
    BY <1>2 DEF Upgrade, ChannelInv, FieldsMatch, Conns, NoConn
  <2> QED
    BY Zenon, <2>1
<1>3. CASE AcceptQUIC(k)
  <2>1. /\ accepting' = k /\ spc[k] = "off" /\ link[k] # "none" /\ kind = "quic"
        /\ UNCHANGED <<kind, link, ends, c2s, s2c, spc, cur, ssend, srecv, handled, dispatched>>
        /\ UNCHANGED <<conn, session, cpc, rpc, rconn, rsession, csend, crecv, sent, got>>
    BY Zenon, <1>3, ClientSame DEF AcceptQUIC, network
  <2>2. ChannelTypes'
    BY ZenonT(60), <2>1 DEF ChannelInv, ChannelTypes
  <2>3. FieldsMatch'
    BY Zenon, <2>1 DEF ChannelInv, ChannelTypes, FieldsMatch, Shaking
  <2>4. ASSUME NEW j \in Conns PROVE Agrees(j)'
    <3>1. NothingNew(j) /\ Untouched(j)
      BY Zenon, <2>1 DEF NothingNew, Untouched, Shaking, Live, Sending
    <3> QED
      BY Zenon, <2>1, <3>1, LosesNothing, KeepsAgreeing DEF ChannelInv
  <2> QED
    BY Zenon, <2>2, <2>3, <2>4 DEF ChannelInv
<1>4. CASE accepting = k /\ AcceptStream
  <2>1. spc[k] = "off" /\ link[k] # "none"
    BY Zenon, <1>4 DEF AcceptStream, ChannelInv, FieldsMatch
  <2> QED
    BY Zenon, <1>4, <2>1, StartStep DEF AcceptStream
<1> QED
  BY Zenon, <1>1, <1>2, <1>3, <1>4

\* handleConn returns, or its connection is given up before it starts.
LEMMA ReturnStep ==
  ASSUME ChannelInv, NEW k \in Conns, link[k] # "none", Return(k),
         accepting' = NoConn \/ (accepting' = accepting /\ spc[k] # "off"),
         UNCHANGED <<kind, link, cur, ssend, srecv, handled, dispatched, client>>
  PROVE  ChannelInv'
<1>1. /\ spc' = [spc EXCEPT ![k] = "return"] /\ ServerCloses(k)
      /\ UNCHANGED <<kind, link, cur, ssend, srecv, handled, dispatched>>
      /\ UNCHANGED <<conn, session, cpc, rpc, rconn, rsession, csend, crecv, sent, got>>
  BY Zenon, ClientSame DEF Return, Goto
<1>2. ChannelTypes /\ Counted(k) /\ Inbound(k) /\ Outbound(k)
  BY Zenon DEF ChannelInv, Agrees
<1>3. /\ ends' \in [Conns -> SUBSET BothEnds] /\ "server" \notin ends'[k] /\ c2s'[k] = <<>>
      /\ c2s' \in [Conns -> Seq(Packets)] /\ s2c' \in [Conns -> Seq(Packets)]
      /\ \A j \in Conns : Loses(j) /\ ends'[j] \subseteq ends[j]
                          /\ ("client" \in ends'[j] <=> "client" \in ends[j])
  BY Zenon, <1>1, <1>2, ServerClosesFacts
<1>4. spc'[k] = "return" /\ \A j \in Conns \ {k} : spc'[j] = spc[j]
  BY Zenon, <1>1, <1>2 DEF ChannelTypes
<1>5. ChannelTypes'
  BY ZenonT(60), <1>1, <1>2, <1>3 DEF ChannelTypes
<1>6. FieldsMatch'
  <2>1. accepting' = NoConn \/ (accepting' = accepting /\ \A j \in Conns : spc[j] = "off" => spc'[j] = "off")
    BY Zenon, <1>4
  <2> QED
    BY Zenon, <1>1, <1>3, <2>1, ServerKeepsFields
<1>7. ASSUME NEW j \in Conns, j # k PROVE Agrees(j)'
  <2>1. NothingNew(j)
    BY Zenon, <1>1, <1>3 DEF NothingNew, Shaking, Live, Sending
  <2>2. Untouched(j)
    BY Zenon, <1>1, <1>4, <1>7 DEF Untouched
  <2> QED
    BY Zenon, <1>2, <1>3, <2>1, <2>2, KeepsAgreeing DEF ChannelInv
<1>8. Counted(k)'
  BY Zenon, <1>1, <1>2 DEF Counted
<1>9. Inbound(k)'
  BY Zenon, <1>3, <1>4 DEF Inbound
<1>10. Outbound(k)'
  <2>1. ~ Whole(k)' /\ (Live(k)' => Live(k)) /\ (Shaking(k)' => Shaking(k)) /\ cpc' = cpc
    BY Zenon, <1>1, <1>3 DEF Whole, BothEnds, Live, Shaking
  <2>2. /\ Len(s2c'[k]) <= Len(s2c[k]) /\ Len(s2c'[k]) \in Nat /\ Len(s2c[k]) \in Nat
        /\ \A i \in 1 .. Len(s2c'[k]) : i \in 1 .. Len(s2c[k]) /\ s2c'[k][i] = s2c[k][i]
    <3>1. s2c[k] \in Seq(Packets)
      BY Zenon, <1>2 DEF ChannelTypes
    <3> QED
      BY <1>3, <3>1 DEF Loses, Left
  <2>3. Live(k)' => crecv'[k] + Len(s2c'[k]) <= ssend'[k]
    <3>1. crecv[k] \in Nat /\ ssend[k] \in Nat
      BY Zenon, <1>2, Numbers
    <3>2. Live(k) => crecv[k] + Len(s2c[k]) <= ssend[k]
      BY Zenon, <1>2 DEF Outbound
    <3> QED
      BY <1>1, <2>1, <2>2, <3>1, <3>2
  <2>4. Live(k)' => \A i \in 1 .. Len(s2c'[k]) : Answer(k, s2c[k][i], crecv[k] + i)'
    <3>1. \A i \in Int : Answer(k, s2c[k][i], crecv[k] + i) /\ s2c'[k][i] = s2c[k][i]
                          => Answer(k, s2c[k][i], crecv[k] + i)'
      BY Zenon, <1>1 DEF Answer
    <3>2. Live(k) => \A i \in 1 .. Len(s2c[k]) : Answer(k, s2c[k][i], crecv[k] + i)
      BY Zenon, <1>2 DEF Outbound
    <3> QED
      BY <2>1, <2>2, <3>1, <3>2
  <2>5. Shaking(k)' => Len(s2c'[k]) <= 1 /\ sent'[k] = <<>> /\ csend'[k] = 0
    <3>1. Shaking(k) => Len(s2c[k]) <= 1 /\ sent[k] = <<>> /\ csend[k] = 0
      BY Zenon, <1>2 DEF Outbound
    <3>2. Shaking(k) => Len(s2c'[k]) <= 1
      BY <2>2, <3>1
    <3> QED
      BY Zenon, <1>1, <2>1, <3>1, <3>2
  <2> QED
    BY Zenon, <1>3, <1>4, <2>1, <2>3, <2>4, <2>5 DEF Outbound
<1> QED
  BY Zenon, <1>5, <1>6, <1>7, <1>8, <1>9, <1>10 DEF Agrees, ChannelInv

\* The ways to return.
LEMMA EndStep ==
  ASSUME ChannelInv, NEW k \in Conns, UNCHANGED client,
         ReadFails(k) \/ WriteFailsAndReturns(k) \/ (accepting = k /\ AcceptStreamFails)
  PROVE  ChannelInv'
<1>1. CASE ReadFails(k) \/ WriteFailsAndReturns(k)
  <2>1. spc[k] # "off" /\ Return(k) /\ accepting' = accepting
        /\ UNCHANGED <<kind, link, cur, ssend, srecv, handled, dispatched>>
    BY Zenon, <1>1 DEF ReadFails, WriteFailsAndReturns
  <2>2. link[k] # "none"
    BY Zenon, <2>1 DEF ChannelInv, Agrees, Counted
  <2> QED
    BY Zenon, <2>1, <2>2, ReturnStep
<1>2. CASE accepting = k /\ AcceptStreamFails
  <2>1. link[k] # "none"
    BY Zenon, <1>2 DEF AcceptStreamFails, ChannelInv, FieldsMatch
  <2>2. Return(k) /\ accepting' = NoConn
        /\ UNCHANGED <<kind, link, cur, ssend, srecv, handled, dispatched>>
    BY Zenon, <1>2 DEF AcceptStreamFails, Return
  <2> QED
    BY Zenon, <2>1, <2>2, ReturnStep
<1> QED
  BY Zenon, <1>1, <1>2

\* The server's part of the handshake.
LEMMA AnswerInitStep ==
  ASSUME ChannelInv, NEW k \in Conns, AnswerInit(k), UNCHANGED client
  PROVE  ChannelInv'
<1> DEFINE h == Handshake("e_ee_s_es")
<1>1. /\ spc[k] = "msg1" /\ spc' = [spc EXCEPT ![k] = "msg3"] /\ c2s[k] # <<>>
      /\ c2s' = [c2s EXCEPT ![k] = Tail(@)]
      /\ s2c' = [s2c EXCEPT ![k] = IF Whole(k) THEN Append(@, h) ELSE @]
      /\ UNCHANGED <<kind, link, ends, accepting, cur, ssend, srecv, handled, dispatched>>
      /\ UNCHANGED <<conn, session, cpc, rpc, rconn, rsession, csend, crecv, sent, got>>
  BY Zenon, ClientSame DEF AnswerInit, ServerReads, ServerCanRead, ServerWrites, Goto
<1>2. ChannelTypes /\ Counted(k) /\ Inbound(k) /\ Outbound(k) /\ h \in Packets
  BY Zenon DEF ChannelInv, Agrees, Handshake, Packets
<1> HIDE DEF h
<1>3. s2c[k] = <<>> /\ sent[k] = <<>> /\ Len(c2s[k]) <= 1 /\ c2s[k] \in Seq(Packets)
  BY Zenon, <1>1, <1>2 DEF Inbound, ChannelTypes
<1>4. Tail(c2s[k]) = <<>>
  BY Zenon, <1>1, <1>3, TailOfOne
<1>5. /\ spc'[k] = "msg3" /\ c2s'[k] = <<>> /\ Len(s2c'[k]) <= 1
      /\ \A j \in Conns \ {k} : spc'[j] = spc[j] /\ c2s'[j] = c2s[j] /\ s2c'[j] = s2c[j]
  <2>1. spc'[k] = "msg3" /\ \A j \in Conns \ {k} : spc'[j] = spc[j]
    BY Zenon, <1>1, <1>2 DEF ChannelTypes
  <2>2. c2s'[k] = <<>> /\ \A j \in Conns \ {k} : c2s'[j] = c2s[j]
    BY Zenon, <1>1, <1>2, <1>4 DEF ChannelTypes
  <2>3. \A j \in Conns \ {k} : s2c'[j] = s2c[j]
    BY Zenon, <1>1, <1>2 DEF ChannelTypes
  <2>4. s2c'[k] = IF Whole(k) THEN Append(<<>>, h) ELSE <<>>
    BY Zenon, <1>1, <1>2, <1>3 DEF ChannelTypes
  <2> QED
    BY <2>1, <2>2, <2>3, <2>4
<1>6. ChannelTypes'
  <2>1. c2s' \in [Conns -> Seq(Packets)]
    BY <1>1, <1>2, <1>4 DEF ChannelTypes
  <2>2. s2c' \in [Conns -> Seq(Packets)]
    BY <1>1, <1>2, <1>3 DEF ChannelTypes
  <2> QED
    BY ZenonT(60), <1>1, <1>2, <2>1, <2>2 DEF ChannelTypes
<1>7. FieldsMatch'
  BY Zenon, <1>1, <1>5, ServerKeepsFields
<1>8. ASSUME NEW j \in Conns, j # k PROVE Agrees(j)'
  BY Zenon, <1>1, <1>5, <1>8, OthersAgree DEF Elsewhere
<1>9. Counted(k)'
  BY Zenon, <1>1, <1>2 DEF Counted
<1>10. handled[k] = <<>> /\ ssend[k] = 0
  <2>1. handled[k] \in Seq(Messages) /\ Len(handled[k]) <= 0 /\ ssend[k] = Len(handled[k])
    BY Zenon, <1>1, <1>2, <1>3 DEF ChannelTypes, Counted, Inbound
  <2> QED
    BY <2>1
<1>11. Inbound(k)'
  BY <1>1, <1>3, <1>5, <1>10 DEF Inbound
<1>12. Outbound(k)'
  <2>1. ~ Live(k)' /\ ~ Sending(k)' /\ (Shaking(k)' => Shaking(k) /\ cpc' = "msg2")
    BY Zenon, <1>1, <1>2 DEF Outbound, Live, Sending, Shaking
  <2> QED
    BY Zenon, <1>1, <1>2, <1>5, <2>1 DEF Outbound
<1> QED
  BY Zenon, <1>6, <1>7, <1>8, <1>9, <1>11, <1>12 DEF Agrees, ChannelInv

\* The last message of the handshake is the first thing on the wire.
LEMMA FinishStep ==
  ASSUME ChannelInv, NEW k \in Conns, Finish(k), UNCHANGED client
  PROVE  ChannelInv'
<1>1. spc[k] = "msg3" /\ c2s[k] # <<>>
  BY Zenon DEF Finish, ServerCanRead
<1>2. ChannelTypes /\ Counted(k) /\ Inbound(k) /\ Outbound(k) /\ c2s[k] \in Seq(Packets)
  BY Zenon DEF ChannelInv, ChannelTypes, Agrees
<1>3. /\ Tail(c2s[k]) \in Seq(Packets) /\ Head(c2s[k]) = c2s[k][1] /\ 1 \in 1 .. Len(c2s[k])
      /\ Len(Tail(c2s[k])) = Len(c2s[k]) - 1
      /\ \A i \in 1 .. Len(Tail(c2s[k])) : i + 1 \in 1 .. Len(c2s[k]) /\ Tail(c2s[k])[i] = c2s[k][i + 1]
  BY Zenon, <1>1, <1>2, TailFacts
<1>4. Head(c2s[k]) = Handshake("s_se")
  BY Zenon, <1>1, <1>2, <1>3 DEF Inbound
<1>5. /\ spc' = [spc EXCEPT ![k] = "read"] /\ c2s' = [c2s EXCEPT ![k] = Tail(@)]
      /\ UNCHANGED <<kind, link, ends, s2c, accepting, cur, ssend, srecv, handled, dispatched>>
      /\ UNCHANGED <<conn, session, cpc, rpc, rconn, rsession, csend, crecv, sent, got>>
  BY Zenon, <1>4, ClientSame DEF Finish, ServerReads, Goto
<1>6. /\ spc'[k] = "read" /\ c2s'[k] = Tail(c2s[k])
      /\ \A j \in Conns \ {k} : spc'[j] = spc[j] /\ c2s'[j] = c2s[j]
  BY Zenon, <1>2, <1>5 DEF ChannelTypes
<1>7. ChannelTypes'
  <2>1. c2s' \in [Conns -> Seq(Packets)]
    BY Zenon, <1>2, <1>3, <1>5 DEF ChannelTypes
  <2> QED
    BY ZenonT(60), <1>2, <1>5, <2>1 DEF ChannelTypes
<1>8. FieldsMatch'
  BY Zenon, <1>1, <1>5, <1>6, ServerKeepsFields
<1>9. ASSUME NEW j \in Conns, j # k PROVE Agrees(j)'
  BY Zenon, <1>5, <1>6, <1>9, OthersAgree DEF Elsewhere
<1>10. Counted(k)'
  <2>1. link[k] # "none"
    BY Zenon, <1>1, <1>2 DEF Counted
  <2> QED
    BY Zenon, <1>2, <1>5, <2>1 DEF Counted
<1>11. srecv[k] = 0 /\ ssend[k] = 0 /\ handled[k] = <<>>
  BY Zenon, <1>1, <1>2 DEF Counted, Inbound
<1>12. Len(c2s'[k]) = Len(c2s[k]) - 1 /\ Len(c2s[k]) \in Nat /\ Len(sent[k]) \in Nat
  BY Zenon, <1>2, <1>3, <1>6, Numbers
<1>13. Inbound(k)'
  <2>1. ASSUME NEW i \in 1 .. Len(c2s'[k]) PROVE c2s'[k][i] = Datum(k, srecv[k] + i)'
    <3>1. c2s'[k][i] = c2s[k][i + 1] /\ i + 1 \in 1 .. Len(c2s[k]) /\ i + 1 # 1
      BY <1>3, <1>6
    <3>2. c2s'[k][i] = Datum(k, (i + 1) - 1)
      BY Zenon, <1>1, <1>2, <3>1 DEF Inbound
    <3>0. Len(c2s'[k]) \in Nat
      BY <1>3, <1>6
    <3>3. (i + 1) - 1 = i /\ srecv'[k] + i = i
      BY Zenon, <1>5, <1>11, <3>0, Counting
    <3>4. Datum(k, srecv[k] + i)' = Datum(k, i)
      BY Zenon, <1>5, <3>3 DEF Datum
    <3> QED
      BY Zenon, <3>2, <3>3, <3>4
  <2>2. srecv'[k] + Len(c2s'[k]) <= Len(sent'[k])
    <3>1. Len(c2s[k]) <= Len(sent[k]) + 1
      BY Zenon, <1>1, <1>2 DEF Inbound
    <3> QED
      BY Zenon, <1>5, <1>11, <1>12, <3>1, Counting
  <2>3. ssend'[k] = Len(handled'[k])
    BY Zenon, <1>1, <1>2, <1>5 DEF Inbound
  <2> QED
    BY Zenon, <1>6, <2>1, <2>2, <2>3 DEF Inbound
<1>14. Outbound(k)'
  <2>1. ~ Shaking(k)' /\ (Live(k)' <=> Live(k)) /\ (Whole(k)' <=> Whole(k)) /\ (Sending(k)' <=> Sending(k))
    BY Zenon, <1>1, <1>2, <1>5 DEF Outbound, Shaking, Live, Whole, Sending
  <2>2. Live(k)' => /\ spc'[k] \notin {"off", "msg1"}
                    /\ crecv'[k] + Len(s2c'[k]) <= ssend'[k]
                    /\ Whole(k)' => crecv'[k] + Len(s2c'[k]) = ssend'[k]
    BY Zenon, <1>2, <1>5, <1>6, <2>1 DEF Outbound
  <2>3. Live(k)' => \A i \in 1 .. Len(s2c'[k]) : Answer(k, s2c[k][i], crecv[k] + i)'
    <3>1. \A i : Answer(k, s2c[k][i], crecv[k] + i)' <=> Answer(k, s2c[k][i], crecv[k] + i)
      BY Zenon, <1>5 DEF Answer
    <3> QED
      BY Zenon, <1>2, <1>5, <2>1, <3>1 DEF Outbound
  <2>4. Sending(k)' /\ Whole(k)' => /\ csend'[k] = Len(sent'[k])
                                    /\ srecv'[k] + Len(c2s'[k]) = Len(sent'[k])
    <3>1. Sending(k) /\ Whole(k) => csend[k] = Len(sent[k]) /\ Len(c2s[k]) = Len(sent[k]) + 1
      BY Zenon, <1>1, <1>2 DEF Outbound
    <3> QED
      BY Zenon, <1>5, <1>11, <1>12, <2>1, <3>1, Counting
  <2> QED
    BY Zenon, <1>6, <2>1, <2>2, <2>3, <2>4 DEF Outbound
<1> QED
  BY Zenon, <1>7, <1>8, <1>9, <1>10, <1>13, <1>14 DEF Agrees, ChannelInv

\* The next message of the connection decrypts.
LEMMA ReadMessageStep ==
  ASSUME ChannelInv, NEW k \in Conns, ReadMessage(k), UNCHANGED client
  PROVE  ChannelInv'
<1> DEFINE p == c2s[k][1]
           m == sent[k][srecv[k] + 1]
<1>1. spc[k] = "read" /\ c2s[k] # <<>> /\ UNCHANGED <<kind, link, accepting, ssend, dispatched>>
  BY Zenon DEF ReadMessage, ServerCanRead
<1>2. ChannelTypes /\ Counted(k) /\ Inbound(k) /\ Outbound(k) /\ c2s[k] \in Seq(Packets)
  BY Zenon DEF ChannelInv, ChannelTypes, Agrees
<1>3. /\ Tail(c2s[k]) \in Seq(Packets) /\ Head(c2s[k]) = c2s[k][1] /\ 1 \in 1 .. Len(c2s[k])
      /\ Len(Tail(c2s[k])) = Len(c2s[k]) - 1
      /\ \A i \in 1 .. Len(Tail(c2s[k])) : i + 1 \in 1 .. Len(c2s[k]) /\ Tail(c2s[k])[i] = c2s[k][i + 1]
  BY Zenon, <1>1, <1>2, TailFacts
<1>4. link[k] # "none" /\ spc[k] # "off"
  BY Zenon, <1>1, <1>2 DEF Counted
<1>5. CASE ~ (Decrypts(p, k, srecv[k]) /\ ~ Refused(p))
  <2>1. Return(k) /\ UNCHANGED <<cur, srecv, handled>>
    BY Zenon, <1>3, <1>5 DEF ReadMessage
  <2> QED
    BY Zenon, <1>1, <1>4, <2>1, ReturnStep
<1>6. CASE Decrypts(p, k, srecv[k]) /\ ~ Refused(p)
  <2> DEFINE to == IF Dispatcher /\ p.msg \in Frames THEN "dispatch" ELSE "echo"
  <2>1. /\ c2s' = [c2s EXCEPT ![k] = Tail(@)] /\ spc' = [spc EXCEPT ![k] = to]
        /\ cur' = [cur EXCEPT ![k] = p.msg] /\ srecv' = [srecv EXCEPT ![k] = @ + 1]
        /\ handled' = [handled EXCEPT ![k] = Append(@, p.msg)]
        /\ UNCHANGED <<ends, s2c>>
        /\ UNCHANGED <<conn, session, cpc, rpc, rconn, rsession, csend, crecv, sent, got>>
    BY Zenon, <1>3, <1>6, ClientSame DEF ReadMessage, ServerReads, Goto
  <2>2. srecv[k] \in Nat /\ Len(c2s[k]) \in Nat /\ Len(sent[k]) \in Nat /\ Len(handled[k]) \in Nat
    BY Zenon, <1>2, Numbers
  <2>3. srecv[k] + Len(c2s[k]) <= Len(sent[k]) /\ srecv[k] = Len(handled[k]) /\ ssend[k] = Len(handled[k])
    BY Zenon, <1>1, <1>2 DEF Inbound, Counted
  <2>4. srecv[k] + 1 \in 1 .. Len(sent[k])
    <3>1. srecv[k] \in Nat /\ Len(c2s[k]) \in Nat /\ Len(sent[k]) \in Nat /\ 1 \in 1 .. Len(c2s[k])
      BY Zenon, <1>3, <2>2
    <3>2. srecv[k] + Len(c2s[k]) <= Len(sent[k])
      BY Zenon, <2>3
    <3> QED
      BY <3>1, <3>2
  <2>5. m \in Messages /\ sent[k] \in Seq(Messages) /\ handled[k] \in Seq(Messages)
    BY <1>2, <2>4 DEF ChannelTypes
  <2>6. p = Datum(k, srecv[k] + 1)
    BY Zenon, <1>1, <1>2, <1>3 DEF Inbound
  <2>7. p.msg = m
    BY <2>6 DEF Datum, Encrypt
  <2>8. to \in {"dispatch", "echo"}
    BY Zenon
  <2> HIDE DEF p, m, to
  <2>9. /\ c2s'[k] = Tail(c2s[k]) /\ spc'[k] = to /\ cur'[k] = m /\ srecv'[k] = srecv[k] + 1
        /\ handled'[k] = Append(handled[k], m)
        /\ \A j \in Conns \ {k} : /\ c2s'[j] = c2s[j] /\ spc'[j] = spc[j] /\ cur'[j] = cur[j]
                                  /\ srecv'[j] = srecv[j] /\ handled'[j] = handled[j]
    BY Zenon, <1>2, <2>1, <2>7 DEF ChannelTypes
  <2>10. /\ Append(handled[k], m) \in Seq(Messages)
         /\ Len(handled'[k]) = Len(handled[k]) + 1 /\ handled'[k][Len(handled[k]) + 1] = m
         /\ \A i \in 1 .. Len(handled[k]) : handled'[k][i] = handled[k][i]
    <3>1. /\ Append(handled[k], m) \in Seq(Messages) /\ Len(Append(handled[k], m)) = Len(handled[k]) + 1
          /\ Append(handled[k], m)[Len(handled[k]) + 1] = m
          /\ \A i \in 1 .. Len(handled[k]) : Append(handled[k], m)[i] = handled[k][i]
      BY <2>5, AppendFacts
    <3> QED
      BY Zenon, <2>9, <3>1
  <2>11. ChannelTypes'
    <3>1. c2s' \in [Conns -> Seq(Packets)] /\ handled' \in [Conns -> Seq(Messages)]
      BY Zenon, <1>2, <1>3, <2>1, <2>7, <2>10 DEF ChannelTypes
    <3>2. srecv \in [Conns -> Nat] /\ srecv[k] \in Nat
      BY Zenon, <1>2, <2>2 DEF ChannelTypes
    <3>3. srecv' \in [Conns -> Nat]
      BY <2>1, <3>2
    <3>4. cur' \in [Conns -> Messages \cup {"none"}]
          /\ spc' \in [Conns -> {"off", "msg1", "msg3", "read", "dispatch", "echo", "return"}]
      BY Zenon, <1>2, <2>1, <2>5, <2>7, <2>8 DEF ChannelTypes
    <3> QED
      BY ZenonT(60), <1>1, <1>2, <2>1, <3>1, <3>3, <3>4 DEF ChannelTypes
  <2>12. FieldsMatch'
    BY Zenon, <1>1, <2>1, <2>9, ServerKeepsFields
  <2>13. ASSUME NEW j \in Conns, j # k PROVE Agrees(j)'
    BY Zenon, <1>1, <2>1, <2>9, <2>13, OthersAgree DEF Elsewhere
  <2>14. Counted(k)'
    <3>1. srecv'[k] = Len(handled'[k])
      BY Zenon, <2>3, <2>9, <2>10
    <3>2. Len(handled'[k]) <= Len(sent'[k])
      BY <2>1, <2>2, <2>3, <2>4, <2>10
    <3>3. ASSUME NEW i \in 1 .. Len(handled'[k]) PROVE handled'[k][i] = sent'[k][i]
      <4>1. CASE i = Len(handled[k]) + 1
        BY Zenon, <2>1, <2>3, <2>10, <4>1 DEF m
      <4>2. CASE i \in 1 .. Len(handled[k])
        BY Zenon, <1>2, <2>1, <2>10, <4>2 DEF Counted
      <4> QED
        BY <2>2, <2>10, <4>1, <4>2
    <3>4. ssend'[k] <= Len(handled'[k])
      BY <1>1, <2>2, <2>3, <2>10
    <3>5. ASSUME NEW i \in 1 .. Len(got'[k])
          PROVE  got'[k][i].msg = handled'[k][i] /\ (got'[k][i].type = "ack" => i \in dispatched'[k])
      <4>1. i \in 1 .. Len(handled[k]) /\ i \in 1 .. Len(got[k]) /\ got' = got
        <5>1. crecv[k] = Len(got[k]) /\ crecv[k] <= ssend[k] /\ got' = got
          BY Zenon, <1>2, <2>1 DEF Counted
        <5>2. Len(got[k]) <= Len(handled[k]) /\ Len(got[k]) \in Nat
          BY Zenon, <1>2, <2>3, <5>1, Numbers
        <5> QED
          BY <2>2, <5>1, <5>2
      <4> QED
        BY Zenon, <1>1, <1>2, <2>10, <4>1 DEF Counted
    <3>6. crecv'[k] = Len(got'[k]) /\ crecv'[k] <= ssend'[k]
      BY Zenon, <1>1, <1>2, <2>1 DEF Counted
    <3> QED
      BY Zenon, <1>1, <1>4, <3>1, <3>2, <3>3, <3>4, <3>5, <3>6 DEF Counted
  <2>15. Len(c2s'[k]) = Len(c2s[k]) - 1
    BY Zenon, <1>3, <2>9
  <2>16. srecv'[k] + Len(c2s'[k]) = srecv[k] + Len(c2s[k])
    BY <2>2, <2>9, <2>15
  <2>17. Inbound(k)'
    <3>1. ASSUME NEW i \in 1 .. Len(c2s'[k]) PROVE c2s'[k][i] = Datum(k, srecv[k] + i)'
      <4>1. c2s'[k][i] = c2s[k][i + 1] /\ i + 1 \in 1 .. Len(c2s[k])
        BY Zenon, <1>3, <2>9
      <4>2. c2s[k][i + 1] = Datum(k, srecv[k] + (i + 1))
        BY Zenon, <1>1, <1>2, <4>1 DEF Inbound
      <4>3. srecv'[k] + i = srecv[k] + (i + 1)
        <5>1. srecv'[k] = srecv[k] + 1 /\ srecv[k] \in Nat
          BY Zenon, <2>2, <2>9
        <5> QED
          BY <5>1
      <4> QED
        BY Zenon, <2>1, <4>1, <4>2, <4>3 DEF Datum
    <3>2. srecv'[k] + Len(c2s'[k]) <= Len(sent'[k])
      BY Zenon, <2>1, <2>3, <2>16
    <3>3. ssend'[k] + 1 = Len(handled'[k]) /\ cur'[k] = handled'[k][Len(handled'[k])]
      BY Zenon, <1>1, <2>2, <2>3, <2>9, <2>10
    <3> QED
      BY Zenon, <2>8, <2>9, <3>1, <3>2, <3>3 DEF Inbound
  <2>18. Outbound(k)'
    <3>1. ~ Shaking(k)' /\ (Live(k)' <=> Live(k)) /\ (Whole(k)' <=> Whole(k)) /\ (Sending(k)' <=> Sending(k))
      BY Zenon, <1>1, <1>2, <2>1 DEF Outbound, Shaking, Live, Whole, Sending
    <3>2. Live(k)' => /\ spc'[k] \notin {"off", "msg1"}
                      /\ crecv'[k] + Len(s2c'[k]) <= ssend'[k]
                      /\ Whole(k)' => crecv'[k] + Len(s2c'[k]) = ssend'[k]
      BY Zenon, <1>1, <1>2, <2>1, <2>8, <2>9, <3>1 DEF Outbound
    <3>3. Live(k)' => \A i \in 1 .. Len(s2c'[k]) : Answer(k, s2c[k][i], crecv[k] + i)'
      <4>1. SUFFICES ASSUME Live(k), NEW i \in 1 .. Len(s2c[k]) PROVE Answer(k, s2c[k][i], crecv[k] + i)'
        BY Zenon, <2>1, <3>1
      <4>2. Answer(k, s2c[k][i], crecv[k] + i)
        BY Zenon, <1>2, <4>1 DEF Outbound
      <4>3. crecv[k] + i \in 1 .. Len(handled[k])
        <5>1. crecv[k] + Len(s2c[k]) <= Len(handled[k])
          BY Zenon, <1>2, <2>3, <4>1 DEF Outbound
        <5>2. crecv[k] \in Nat /\ Len(s2c[k]) \in Nat
          BY Zenon, <1>2, Numbers
        <5> QED
          BY <2>2, <5>1, <5>2
      <4> QED
        BY Zenon, <1>1, <2>1, <2>10, <4>2, <4>3 DEF Answer
    <3>4. Sending(k)' /\ Whole(k)' => /\ csend'[k] = Len(sent'[k])
                                      /\ srecv'[k] + Len(c2s'[k]) = Len(sent'[k])
      BY Zenon, <1>1, <1>2, <2>1, <2>16, <3>1 DEF Outbound
    <3> QED
      BY Zenon, <2>8, <2>9, <3>1, <3>2, <3>3, <3>4 DEF Outbound
  <2> QED
    BY Zenon, <2>11, <2>12, <2>13, <2>14, <2>17, <2>18 DEF Agrees, ChannelInv
<1> QED
  BY Zenon, <1>5, <1>6

\* The number of an answer.
LEMMA OneMore ==
  ASSUME NEW a \in Nat, NEW b \in Nat, NEW n \in Nat, a <= b, b + 1 = n
  PROVE  a <= b + 1 /\ b + 1 <= n
OBVIOUS

\* An answer is written for the message that was read last.
LEMMA ReplyStep ==
  ASSUME ChannelInv, NEW k \in Conns, spc[k] \in {"dispatch", "echo"}, NEW type \in {"ack", "echo"},
         Reply(k, type), dispatched' \in [Conns -> SUBSET Nat],
         \A j \in Conns \ {k} : dispatched'[j] = dispatched[j],
         dispatched[k] \subseteq dispatched'[k], type = "ack" => Len(handled[k]) \in dispatched'[k],
         UNCHANGED <<kind, link, ends, c2s, accepting, srecv, handled, client>>
  PROVE  ChannelInv'
<1> DEFINE p == Encrypt(k, ssend[k], type, cur[k])
<1>1. /\ s2c' = [s2c EXCEPT ![k] = IF Whole(k) THEN Append(@, p) ELSE @]
      /\ ssend' = [ssend EXCEPT ![k] = @ + 1] /\ cur' = [cur EXCEPT ![k] = "none"]
      /\ spc' = [spc EXCEPT ![k] = "read"]
      /\ UNCHANGED <<kind, link, ends, c2s, accepting, srecv, handled>>
      /\ UNCHANGED <<conn, session, cpc, rpc, rconn, rsession, csend, crecv, sent, got>>
  BY Zenon, ClientSame DEF Reply, ServerWrites, Goto
<1>2. ChannelTypes /\ Counted(k) /\ Inbound(k) /\ Outbound(k) /\ s2c[k] \in Seq(Packets)
  BY Zenon DEF ChannelInv, ChannelTypes, Agrees
<1>3. /\ ssend[k] \in Nat /\ crecv[k] \in Nat /\ Len(s2c[k]) \in Nat /\ Len(handled[k]) \in Nat
  BY Zenon, <1>2, Numbers
<1>4. ssend[k] + 1 = Len(handled[k]) /\ cur[k] = handled[k][Len(handled[k])] /\ cur[k] \in Messages \cup {"none"}
  BY Zenon, <1>2 DEF Inbound, ChannelTypes
<1>5. p \in Packets /\ p.type = type /\ p.key = k /\ p.nonce = ssend[k] /\ p.msg = cur[k]
  BY Zenon, <1>3, <1>4 DEF Encrypt, Packets
<1> HIDE DEF p
<1>6. /\ spc'[k] = "read" /\ ssend'[k] = ssend[k] + 1
      /\ s2c'[k] = IF Whole(k) THEN Append(s2c[k], p) ELSE s2c[k]
      /\ \A j \in Conns \ {k} : /\ spc'[j] = spc[j] /\ ssend'[j] = ssend[j] /\ cur'[j] = cur[j]
                                /\ s2c'[j] = s2c[j]
  BY Zenon, <1>1, <1>2 DEF ChannelTypes
<1>7. /\ Append(s2c[k], p) \in Seq(Packets) /\ Len(Append(s2c[k], p)) = Len(s2c[k]) + 1
      /\ Append(s2c[k], p)[Len(s2c[k]) + 1] = p
      /\ \A i \in 1 .. Len(s2c[k]) : Append(s2c[k], p)[i] = s2c[k][i]
  BY <1>2, <1>5, AppendFacts
<1>8. ChannelTypes'
  <2>1. s2c' \in [Conns -> Seq(Packets)]
    BY Zenon, <1>1, <1>2, <1>7 DEF ChannelTypes
  <2>2. ssend \in [Conns -> Nat]
    BY Zenon, <1>2 DEF ChannelTypes
  <2>3. ssend' \in [Conns -> Nat]
    BY <1>1, <1>3, <2>2
  <2> QED
    BY ZenonT(60), <1>1, <1>2, <2>1, <2>3 DEF ChannelTypes
<1>9. FieldsMatch'
  BY Zenon, <1>1, <1>6, ServerKeepsFields
<1>10. ASSUME NEW j \in Conns, j # k PROVE Agrees(j)'
  BY Zenon, <1>1, <1>6, <1>10, OthersAgree DEF Elsewhere
<1>11. Counted(k)'
  <2>1. link[k] # "none"
    BY Zenon, <1>2 DEF Counted
  <2>2. crecv'[k] <= ssend'[k] /\ ssend'[k] <= Len(handled'[k])
    <3>1. crecv[k] <= ssend[k] /\ crecv' = crecv /\ handled' = handled
      BY Zenon, <1>1, <1>2 DEF Counted
    <3>2. crecv[k] <= ssend[k] + 1 /\ ssend[k] + 1 <= Len(handled[k])
      BY Zenon, <1>3, <1>4, <3>1, OneMore
    <3> QED
      BY Zenon, <1>6, <3>1, <3>2
  <2> QED
    BY Zenon, <1>1, <1>2, <2>1, <2>2 DEF Counted
<1>12. Inbound(k)'
  <2>1. ssend'[k] = Len(handled'[k])
    BY Zenon, <1>1, <1>4, <1>6
  <2>2. srecv'[k] + Len(c2s'[k]) <= Len(sent'[k])
    BY Zenon, <1>1, <1>2 DEF Inbound
  <2>3. \A i \in 1 .. Len(c2s'[k]) : c2s'[k][i] = Datum(k, srecv[k] + i)'
    BY Zenon, <1>1, <1>2 DEF Inbound, Datum
  <2> QED
    BY Zenon, <1>6, <2>1, <2>2, <2>3 DEF Inbound
<1>13. Outbound(k)'
  <2>1. ~ Shaking(k)' /\ (Live(k)' <=> Live(k)) /\ (Whole(k)' <=> Whole(k)) /\ (Sending(k)' <=> Sending(k))
    BY Zenon, <1>1, <1>2 DEF Outbound, Shaking, Live, Whole, Sending
  <2>2. Sending(k)' /\ Whole(k)' => /\ csend'[k] = Len(sent'[k])
                                    /\ srecv'[k] + Len(c2s'[k]) = Len(sent'[k])
    BY Zenon, <1>1, <1>2, <2>1 DEF Outbound
  <2>3. \A q, i : Answer(k, q, i) => /\ q.type \in {"ack", "echo"} /\ q.key = k /\ q.nonce = i - 1
                                     /\ q.msg = handled'[k][i] /\ (q.type = "ack" => i \in dispatched'[k])
    BY Zenon, <1>1 DEF Answer
  <2>4. Live(k) => /\ crecv[k] + Len(s2c[k]) <= ssend[k]
                   /\ Whole(k) => crecv[k] + Len(s2c[k]) = ssend[k]
                   /\ \A i \in 1 .. Len(s2c[k]) : Answer(k, s2c[k][i], crecv[k] + i)
    BY Zenon, <1>2 DEF Outbound
  <2>5. CASE ~ Whole(k)
    <3>1. s2c'[k] = s2c[k] /\ crecv'[k] = crecv[k]
      BY Zenon, <1>1, <1>6, <2>5
    <3>2. Live(k)' => crecv'[k] + Len(s2c'[k]) <= ssend'[k]
      <4>1. Live(k)' => crecv[k] + Len(s2c[k]) <= ssend[k]
        BY Zenon, <2>1, <2>4
      <4>2. ssend'[k] = ssend[k] + 1
        BY Zenon, <1>6
      <4> QED
        <5>1. crecv[k] + Len(s2c[k]) <= ssend[k] => crecv[k] + Len(s2c[k]) <= ssend[k] + 1
          BY Zenon, <1>3, Counting
        <5> QED
          BY Zenon, <3>1, <4>1, <4>2, <5>1
    <3>3. ASSUME Live(k)', NEW i \in 1 .. Len(s2c'[k]) PROVE Answer(k, s2c[k][i], crecv[k] + i)'
      BY Zenon, <2>1, <2>3, <2>4, <3>1, <3>3 DEF Answer
    <3> QED
      BY Zenon, <1>6, <2>1, <2>2, <2>5, <3>2, <3>3 DEF Outbound
  <2>6. CASE Whole(k)
    <3>1. s2c'[k] = Append(s2c[k], p) /\ crecv'[k] = crecv[k]
      BY Zenon, <1>1, <1>6, <2>6
    <3>2. Live(k)' => crecv'[k] + Len(s2c'[k]) = ssend'[k] /\ crecv'[k] + Len(s2c'[k]) <= ssend'[k]
      <4>1. Live(k) => crecv[k] + Len(s2c[k]) = ssend[k]
        BY Zenon, <2>4, <2>6
      <4>2. Len(s2c'[k]) = Len(s2c[k]) + 1 /\ crecv'[k] = crecv[k] /\ ssend'[k] = ssend[k] + 1
        BY Zenon, <1>6, <1>7, <3>1
      <4>3. crecv[k] + (Len(s2c[k]) + 1) = (crecv[k] + Len(s2c[k])) + 1 /\ ssend[k] + 1 <= ssend[k] + 1
        BY <1>3
      <4> QED
        BY Zenon, <2>1, <4>1, <4>2, <4>3
    <3>3. ASSUME Live(k)', NEW i \in 1 .. Len(s2c'[k]) PROVE Answer(k, s2c[k][i], crecv[k] + i)'
      <4>1. CASE i = Len(s2c[k]) + 1
        <5>1. s2c'[k][i] = p
          BY Zenon, <1>7, <3>1, <4>1
        <5>2. crecv'[k] + i = Len(handled[k]) /\ (crecv'[k] + i) - 1 = ssend[k]
          <6>1. crecv[k] + Len(s2c[k]) = ssend[k]
            BY Zenon, <2>1, <2>4, <2>6, <3>3
          <6>2. ssend[k] + 1 = Len(handled[k]) /\ crecv'[k] = crecv[k]
            BY Zenon, <1>4, <3>1
          <6>3. crecv[k] + i = ssend[k] + 1
            BY <1>3, <4>1, <6>1
          <6> QED
            BY <1>3, <6>2, <6>3
        <5> QED
          BY Zenon, <1>1, <1>4, <1>5, <5>1, <5>2 DEF Answer
      <4>2. CASE i \in 1 .. Len(s2c[k])
        <5>1. s2c'[k][i] = s2c[k][i]
          BY Zenon, <1>7, <3>1, <4>2
        <5> QED
          BY Zenon, <2>1, <2>3, <2>4, <3>1, <3>3, <4>2, <5>1 DEF Answer
      <4>3. Len(s2c'[k]) = Len(s2c[k]) + 1
        BY Zenon, <1>7, <3>1
      <4>4. i = Len(s2c[k]) + 1 \/ i \in 1 .. Len(s2c[k])
        BY <1>3, <4>3
      <4> QED
        BY Zenon, <4>1, <4>2, <4>4
    <3> QED
      BY Zenon, <1>6, <2>1, <2>2, <3>2, <3>3 DEF Outbound
  <2> QED
    BY Zenon, <2>5, <2>6
<1> QED
  BY Zenon, <1>8, <1>9, <1>10, <1>11, <1>12, <1>13 DEF Agrees, ChannelInv

\* The dispatcher has answered, or the message is echoed.
LEMMA AnswerStep ==
  ASSUME ChannelInv, NEW k \in Conns, UNCHANGED client, Dispatch(k) \/ Echo(k)
  PROVE  ChannelInv'
<1>1. dispatched \in [Conns -> SUBSET Nat] /\ Len(handled[k]) \in Nat
  BY Zenon, Numbers DEF ChannelInv, ChannelTypes
<1>2. CASE Dispatch(k)
  <2>1. dispatched' = [dispatched EXCEPT ![k] = @ \cup {Len(handled[k])}]
    BY Zenon, <1>2 DEF Dispatch
  <2>2. /\ dispatched' \in [Conns -> SUBSET Nat] /\ dispatched'[k] = dispatched[k] \cup {Len(handled[k])}
        /\ \A j \in Conns \ {k} : dispatched'[j] = dispatched[j]
    BY Zenon, <1>1, <2>1
  <2> QED
    BY Zenon, <1>2, <2>2, ReplyStep DEF Dispatch
<1>3. CASE Echo(k)
  BY Zenon, <1>1, <1>3, ReplyStep DEF Echo
<1> QED
  BY Zenon, <1>2, <1>3

\* The gateway goes on to echo a message that the dispatcher has refused.
LEMMA DispatchFailsStep ==
  ASSUME ChannelInv, NEW k \in Conns, UNCHANGED client, DispatchFails(k)
  PROVE  ChannelInv'
<1>1. /\ spc[k] = "dispatch" /\ spc' = [spc EXCEPT ![k] = "echo"]
      /\ UNCHANGED <<kind, link, ends, c2s, s2c, accepting, cur, ssend, srecv, handled, dispatched>>
      /\ UNCHANGED <<conn, session, cpc, rpc, rconn, rsession, csend, crecv, sent, got>>
  BY Zenon, ClientSame DEF DispatchFails, Goto, network
<1>2. ChannelTypes /\ Counted(k) /\ Inbound(k) /\ Outbound(k)
  BY Zenon DEF ChannelInv, Agrees
<1>3. ChannelTypes'
  BY ZenonT(60), <1>1, <1>2 DEF ChannelTypes
<1>4. spc'[k] = "echo" /\ \A j \in Conns \ {k} : spc'[j] = spc[j]
  BY Zenon, <1>1, <1>2 DEF ChannelTypes
<1>5. FieldsMatch'
  BY Zenon, <1>1, <1>4, ServerKeepsFields
<1>6. ASSUME NEW j \in Conns, j # k PROVE Agrees(j)'
  BY Zenon, <1>1, <1>4, <1>6, OthersAgree DEF Elsewhere
<1>7. Counted(k)'
  <2>1. link[k] # "none"
    BY Zenon, <1>1, <1>2 DEF Counted
  <2> QED
    BY Zenon, <1>1, <1>2, <2>1 DEF Counted
<1>8. Inbound(k)'
  BY Zenon, <1>1, <1>2, <1>4 DEF Inbound, Datum
<1>9. Outbound(k)'
  <2>1. ~ Shaking(k)' /\ (Live(k)' <=> Live(k)) /\ (Whole(k)' <=> Whole(k)) /\ (Sending(k)' <=> Sending(k))
    BY Zenon, <1>1, <1>2 DEF Outbound, Shaking, Live, Whole, Sending
  <2>2. \A i : Answer(k, s2c[k][i], crecv[k] + i)' <=> Answer(k, s2c[k][i], crecv[k] + i)
    BY Zenon, <1>1 DEF Answer
  <2>3. Live(k)' => \A i \in 1 .. Len(s2c'[k]) : Answer(k, s2c[k][i], crecv[k] + i)'
    BY Zenon, <1>1, <1>2, <2>1, <2>2 DEF Outbound
  <2>4. Live(k)' => /\ crecv'[k] + Len(s2c'[k]) <= ssend'[k]
                    /\ Whole(k)' => crecv'[k] + Len(s2c'[k]) = ssend'[k]
    BY Zenon, <1>1, <1>2, <2>1 DEF Outbound
  <2>5. Sending(k)' /\ Whole(k)' => /\ csend'[k] = Len(sent'[k])
                                    /\ srecv'[k] + Len(c2s'[k]) = Len(sent'[k])
    BY Zenon, <1>1, <1>2, <2>1 DEF Outbound
  <2> QED
    BY Zenon, <1>4, <2>1, <2>3, <2>4, <2>5 DEF Outbound
<1> QED
  BY Zenon, <1>3, <1>5, <1>6, <1>7, <1>8, <1>9 DEF Agrees, ChannelInv

-----------------------------------------------------------------------------
\* The network breaks a connection.
LEMMA NetworkStep ==
  ASSUME ChannelInv, NEW k \in Conns, Cut(k) \/ IdleTimeout(k), UNCHANGED <<client, gateway>>
  PROVE  ChannelInv'
<1>1. /\ link[k] # "none" /\ link' = [link EXCEPT ![k] = "cut"] /\ UNCHANGED <<kind, ends>>
      /\ UNCHANGED <<conn, session, cpc, rpc, rconn, rsession, csend, crecv, sent, got>>
      /\ UNCHANGED <<accepting, spc, cur, ssend, srecv, handled, dispatched>>
  BY Zenon, ClientSame DEF Cut, IdleTimeout, gateway
<1>2. ChannelTypes /\ FieldsMatch /\ c2s[k] \in Seq(Packets) /\ s2c[k] \in Seq(Packets)
  BY Zenon DEF ChannelInv, ChannelTypes
<1>3. /\ \E n \in 0 .. Len(c2s[k]) : c2s' = [c2s EXCEPT ![k] = SubSeq(@, 1, n)] \/ c2s' = c2s
      /\ \E n \in 0 .. Len(s2c[k]) : s2c' = [s2c EXCEPT ![k] = SubSeq(@, 1, n)] \/ s2c' = s2c
  <2>1. 0 \in 0 .. Len(c2s[k]) /\ 0 \in 0 .. Len(s2c[k])
    BY <1>2
  <2> QED
    BY Zenon, <2>1 DEF Cut, IdleTimeout
<1>4. /\ c2s' \in [Conns -> Seq(Packets)] /\ Left(c2s[k], c2s'[k])
      /\ \A j \in Conns \ {k} : c2s'[j] = c2s[j]
  <2>1. PICK n \in 0 .. Len(c2s[k]) : c2s' = [c2s EXCEPT ![k] = SubSeq(@, 1, n)] \/ c2s' = c2s
    BY Zenon, <1>3
  <2>2. SubSeq(c2s[k], 1, n) \in Seq(Packets) /\ Left(c2s[k], SubSeq(c2s[k], 1, n)) /\ Left(c2s[k], c2s[k])
    BY Zenon, <1>2, LeftOfWire
  <2>3. c2s \in [Conns -> Seq(Packets)]
    BY Zenon, <1>2 DEF ChannelTypes
  <2>4. CASE c2s' = c2s
    BY Zenon, <2>2, <2>3, <2>4
  <2>5. CASE c2s' = [c2s EXCEPT ![k] = SubSeq(@, 1, n)]
    BY Zenon, <2>2, <2>3, <2>5
  <2> QED
    BY Zenon, <2>1, <2>4, <2>5
<1>5. /\ s2c' \in [Conns -> Seq(Packets)] /\ Left(s2c[k], s2c'[k])
      /\ \A j \in Conns \ {k} : s2c'[j] = s2c[j]
  <2>1. PICK n \in 0 .. Len(s2c[k]) : s2c' = [s2c EXCEPT ![k] = SubSeq(@, 1, n)] \/ s2c' = s2c
    BY Zenon, <1>3
  <2>2. SubSeq(s2c[k], 1, n) \in Seq(Packets) /\ Left(s2c[k], SubSeq(s2c[k], 1, n)) /\ Left(s2c[k], s2c[k])
    BY Zenon, <1>2, LeftOfWire
  <2>3. s2c \in [Conns -> Seq(Packets)]
    BY Zenon, <1>2 DEF ChannelTypes
  <2>4. CASE s2c' = s2c
    BY Zenon, <2>2, <2>3, <2>4
  <2>5. CASE s2c' = [s2c EXCEPT ![k] = SubSeq(@, 1, n)]
    BY Zenon, <2>2, <2>3, <2>5
  <2> QED
    BY Zenon, <2>1, <2>4, <2>5
<1>6. link'[k] = "cut" /\ \A j \in Conns \ {k} : link'[j] = link[j]
  BY Zenon, <1>1, <1>2 DEF ChannelTypes
<1>7. ChannelTypes'
  BY ZenonT(60), <1>1, <1>2, <1>4, <1>5 DEF ChannelTypes
<1>8. FieldsMatch'
  BY ZenonT(60), <1>1, <1>2, <1>6 DEF ChannelTypes, FieldsMatch, Shaking
<1>9. ASSUME NEW j \in Conns PROVE Agrees(j)'
  <2>1. NothingNew(j) /\ Untouched(j)
    BY Zenon, <1>1 DEF NothingNew, Untouched, Shaking, Live, Sending
  <2>2. CASE j = k
    <3>1. Loses(k)
      BY Zenon, <1>1, <1>4, <1>5, <1>6 DEF Loses, Whole
    <3> QED
      BY Zenon, <2>1, <2>2, <3>1, KeepsAgreeing DEF ChannelInv
  <2>3. CASE j # k
    <3>1. Loses(j)
      BY Zenon, <1>1, <1>2, <1>4, <1>5, <1>6, <2>3, LosesNothing
    <3> QED
      BY Zenon, <2>1, <3>1, KeepsAgreeing DEF ChannelInv
  <2> QED
    BY Zenon, <2>2, <2>3
<1> QED
  BY Zenon, <1>7, <1>8, <1>9 DEF ChannelInv

-----------------------------------------------------------------------------
\* No connection is open in the beginning.
LEMMA ChannelStarts == Init => ChannelInv
<1> SUFFICES ASSUME Init PROVE ChannelInv
  BY Zenon
<1> USE DEF Init, LinkInit, ClientInit, GatewayInit
<1>1. ChannelTypes
  BY DEF ChannelTypes
<1>2. FieldsMatch
  BY Zenon DEF FieldsMatch
<1>3. ASSUME NEW k \in Conns PROVE Agrees(k)
  <2>1. Counted(k) /\ Inbound(k)
    BY DEF Counted, Inbound
  <2>2. k # NoConn
    BY DEF Conns, NoConn
  <2>3. Outbound(k)
    BY Zenon, <2>2 DEF Outbound, Shaking, Live, Sending
  <2> QED
    BY Zenon, <2>1, <2>3 DEF Agrees
<1> QED
  BY Zenon, <1>1, <1>2, <1>3 DEF ChannelInv

\* Every step of the client keeps the invariant.
LEMMA ClientStep == ASSUME ChannelInv, ClientNext, UNCHANGED gateway PROVE ChannelInv'
<1>1. CASE \/ Connect \/ \E config \in Configs : ConnectWithReconnect(config)
           \/ DialFails \/ Cancel \/ Backoff \/ SendPanics \/ Receive \/ ReceiveFails
  BY Zenon, <1>1, WaitStep
<1>2. ASSUME NEW k \in Conns, Dial(k) PROVE ChannelInv'
  BY Zenon, <1>2, DialStep
<1>3. CASE WriteInit
  <2>1. PICK k \in Conns : k = conn
    BY Zenon, <1>3 DEF WriteInit, ChannelInv, ChannelTypes, FieldsMatch
  <2> QED
    BY Zenon, <1>3, <2>1, WriteInitStep
<1>4. CASE Established
  <2>1. PICK k \in Conns : k = conn
    BY Zenon, <1>4 DEF Established, ChannelInv, ChannelTypes, FieldsMatch
  <2> QED
    BY Zenon, <1>4, <2>1, EstablishedStep
<1>5. CASE HandshakeFails
  BY Zenon, <1>5, HandshakeFailsStep
<1>6. ASSUME NEW m \in Messages, Send(m) PROVE ChannelInv'
  <2>1. PICK k \in Conns : k = conn
    BY Zenon, <1>6 DEF Send, Ready, ChannelInv, ChannelTypes
  <2> QED
    BY Zenon, <1>6, <2>1, SendStep
<1>7. CASE ReceiveReads
  <2>1. PICK k \in Conns : k = rconn
    BY Zenon, <1>7 DEF ReceiveReads, ChannelInv, ChannelTypes, FieldsMatch
  <2> QED
    BY Zenon, <1>7, <2>1, ReceiveReadsStep
<1>8. CASE Close
  BY Zenon, <1>8, CloseStep
<1>9. CASE Restart
  BY Zenon, <1>9, RestartStep
<1> QED
  BY Zenon, <1>1, <1>2, <1>3, <1>4, <1>5, <1>6, <1>7, <1>8, <1>9 DEF ClientNext, ConnectStep, ReceiveStep

\* Every step of the gateway keeps the invariant.
LEMMA GatewayStep == ASSUME ChannelInv, GatewayNext, UNCHANGED client PROVE ChannelInv'
<1>1. ASSUME NEW k \in Conns, Upgrade(k) \/ AcceptQUIC(k) PROVE ChannelInv'
  BY Zenon, <1>1, ListenStep
<1>2. CASE AcceptStream \/ AcceptStreamFails
  <2>1. PICK k \in Conns : k = accepting
    BY Zenon, <1>2 DEF AcceptStream, AcceptStreamFails, ChannelInv, ChannelTypes
  <2> QED
    BY Zenon, <1>2, <2>1, ListenStep, EndStep
<1>3. ASSUME NEW k \in Conns, HandleConn(k) PROVE ChannelInv'
  <2>1. CASE AnswerInit(k)
    BY Zenon, <2>1, AnswerInitStep
  <2>2. CASE Finish(k)
    BY Zenon, <2>2, FinishStep
  <2>3. CASE ReadMessage(k)
    BY Zenon, <2>3, ReadMessageStep
  <2>4. CASE ReadFails(k) \/ WriteFailsAndReturns(k)
    BY Zenon, <2>4, EndStep
  <2>5. CASE Echo(k) \/ Dispatch(k)
    BY Zenon, <2>5, AnswerStep
  <2>6. CASE DispatchFails(k)
    BY Zenon, <2>6, DispatchFailsStep
  <2> QED
    BY Zenon, <1>3, <2>1, <2>2, <2>3, <2>4, <2>5, <2>6 DEF HandleConn, EchoConn
<1> QED
  BY Zenon, <1>1, <1>2, <1>3 DEF GatewayNext, Listen

\* Every step of the two and of the network keeps the invariant.
LEMMA ChannelStep == ASSUME ChannelInv, [Next]_vars PROVE ChannelInv'
<1>1. CASE ClientNext /\ UNCHANGED gateway
  BY Zenon, <1>1, ClientStep
<1>2. CASE GatewayNext /\ UNCHANGED client
  BY Zenon, <1>2, GatewayStep
<1>3. CASE NetworkNext /\ UNCHANGED <<client, gateway>>
  BY Zenon, <1>3, NetworkStep DEF NetworkNext
<1>4. CASE UNCHANGED vars
  <2>1. UNCHANGED <<network, client, gateway>>
    BY Zenon, <1>4 DEF vars
  <2>2. /\ UNCHANGED <<kind, link, ends, c2s, s2c, conn, session, sending, gateway, crecv, got>>
        /\ UNCHANGED <<cpc, rpc, rconn, rsession>>
    BY Zenon, <2>1, ClientSame DEF network, client
  <2>3. cpc' \in {"idle", "dial", "msg1", "msg2", "backoff", "panic"}
    BY Zenon, <2>2 DEF ChannelInv, ChannelTypes
  <2> QED
    BY Zenon, <2>2, <2>3, QuietStep
<1> QED
  BY Zenon, <1>1, <1>2, <1>3, <1>4 DEF Next

\* A prefix, element by element and as a sequence.
LEMMA PrefixFacts ==
  ASSUME NEW S, NEW s \in Seq(S), NEW t \in Seq(S), Len(s) <= Len(t),
         \A i \in 1 .. Len(s) : s[i] = t[i]
  PROVE  s = SubSeq(t, 1, Len(s))
OBVIOUS

\* Client and gateway agree on what is on the wires of every connection.
THEOREM ChannelSafe == Spec => []ChannelInv
<1>1. ChannelInv /\ [Next]_vars => ChannelInv'
  BY Zenon, ChannelStep
<1> QED
  BY <1>1, ChannelStarts, PTL DEF Spec

\* The gateway handles a prefix of what the client has sent on the connection,
\* Receive returns the answers to it in the same order and skips none, and an
\* Ack is for a message the dispatcher has: for any number of connections and
\* any interleaving of Send, Receive, Connect, Close and restarts.
THEOREM ChannelAnswersInOrder == Spec => []AnswersInOrder
<1>1. ASSUME ChannelInv PROVE AnswersInOrder
  <2> SUFFICES ASSUME NEW k \in Conns
               PROVE  /\ Len(handled[k]) <= Len(sent[k])
                      /\ handled[k] = SubSeq(sent[k], 1, Len(handled[k]))
                      /\ \A i \in 1 .. Len(got[k]) :
                           /\ i <= Len(handled[k]) /\ got[k][i].msg = handled[k][i]
                           /\ got[k][i].type = "ack" => i \in dispatched[k]
    BY Zenon DEF AnswersInOrder
  <2>1. Counted(k) /\ handled[k] \in Seq(Messages) /\ sent[k] \in Seq(Messages)
    BY Zenon, <1>1 DEF ChannelInv, ChannelTypes, Agrees
  <2>2. Len(handled[k]) <= Len(sent[k]) /\ \A i \in 1 .. Len(handled[k]) : handled[k][i] = sent[k][i]
    BY Zenon, <2>1 DEF Counted
  <2>3. handled[k] = SubSeq(sent[k], 1, Len(handled[k]))
    BY Zenon, <2>1, <2>2, PrefixFacts
  <2>4. Len(got[k]) <= Len(handled[k])
    <3>1. Len(got[k]) <= ssend[k] /\ ssend[k] <= Len(handled[k])
      BY Zenon, <2>1 DEF Counted
    <3>2. Len(got[k]) \in Nat /\ ssend[k] \in Nat /\ Len(handled[k]) \in Nat
      BY Zenon, <1>1, Numbers DEF ChannelInv
    <3> QED
      BY <3>1, <3>2
  <2>5. Len(got[k]) \in Nat /\ Len(handled[k]) \in Nat
    BY Zenon, <1>1, Numbers DEF ChannelInv
  <2>6. \A i \in 1 .. Len(got[k]) : i <= Len(handled[k])
    BY <2>4, <2>5
  <2> QED
    BY Zenon, <2>1, <2>2, <2>3, <2>6 DEF Counted
<1> QED
  BY <1>1, ChannelSafe, PTL

\* No end of a connection waits for a nonce that the other one has passed: every
\* message on its way decrypts when it arrives.
THEOREM ChannelNoncesAgree == Spec => []NoncesAgree
<1>1. ASSUME ChannelInv PROVE NoncesAgree
  <2>1. ASSUME NEW k \in Conns, spc[k] = "read", NEW i \in 1 .. Len(c2s[k])
        PROVE  Decrypts(c2s[k][i], k, srecv[k] + i - 1)
    <3>1. c2s[k][i] = Datum(k, srecv[k] + i)
      BY Zenon, <1>1, <2>1 DEF ChannelInv, Agrees, Inbound
    <3>2. srecv[k] \in Nat /\ Len(c2s[k]) \in Nat
      BY Zenon, <1>1, Numbers DEF ChannelInv
    <3>3. (srecv[k] + i) - 1 = srecv[k] + i - 1
      BY <3>2
    <3> QED
      BY <3>1, <3>3 DEF Datum, Encrypt, Decrypts
  <2>2. ASSUME NEW k \in Conns, session = k, NEW i \in 1 .. Len(s2c[k])
        PROVE  Decrypts(s2c[k][i], k, crecv[k] + i - 1)
    <3>1. Answer(k, s2c[k][i], crecv[k] + i)
      BY Zenon, <1>1, <2>2 DEF ChannelInv, Agrees, Outbound, Live
    <3>2. crecv[k] \in Nat /\ Len(s2c[k]) \in Nat
      BY Zenon, <1>1, Numbers DEF ChannelInv
    <3>3. (crecv[k] + i) - 1 = crecv[k] + i - 1
      BY <3>2
    <3> QED
      BY Zenon, <3>1, <3>3 DEF Answer, Decrypts
  <2> QED
    BY Zenon, <2>1, <2>2 DEF NoncesAgree
<1> QED
  BY <1>1, ChannelSafe, PTL
=============================================================================
