------------------------------- MODULE Client -------------------------------
(***************************************************************************)
(* The Go client SDK: Connect, ConnectWithReconnect, Send, Receive and     *)
(* Close of Client.  The mutex is held from the dial to the end of the     *)
(* handshake, and free while ConnectWithReconnect waits; a goroutine of    *)
(* the application calls Receive, others call the rest.                    *)
(***************************************************************************)
EXTENDS Link

CONSTANTS
  Configs,       \* the ReconnectConfigs of clients: delays in seconds, 0 attempts for no limit
  MaxSends       \* how often Send is called

ASSUME ClientAssumption ==
  /\ Configs \subseteq [initial : Nat, max : Nat, multiplier : Nat \ {0}, attempts : Nat]
  /\ MaxSends \in Nat

DefaultReconnectConfig == [initial |-> 1, max |-> 30, multiplier |-> 2, attempts |-> 0]

\* A call of Connect itself is a loop of one attempt.
NoReconnect == [initial |-> 0, max |-> 0, multiplier |-> 1, attempts |-> 1]

VARIABLES
  conn,      \* c.conn
  session,   \* c.session: the connection whose handshake made it
  closed,    \* c.closed
  cpc,       \* where the call of Connect is
  cfg,       \* the ReconnectConfig of the call
  attempt,   \* failed attempts of the call
  delay,     \* the delay of its next wait
  rpc,       \* where Receive is
  rconn,     \* the conn that Receive has read
  rsession,  \* the session that Receive has read
  csend,     \* the nonces of the sessions: the next one the client sends with
  crecv,     \* and the next one it expects
  sent,      \* history: the messages sent on each connection
  got        \* history: the answers received on each connection

fields == <<conn, session, closed>>
connecting == <<cpc, cfg, attempt, delay>>
receiving == <<rpc, rconn, rsession, crecv, got>>
sending == <<csend, sent>>
client == <<fields, connecting, receiving, sending>>

ClientInit ==
  /\ conn = NoConn /\ session = NoConn /\ closed = FALSE
  /\ cpc = "idle" /\ cfg = NoReconnect /\ attempt = 0 /\ delay = 0
  /\ rpc = "idle" /\ rconn = NoConn /\ rsession = NoConn
  /\ csend = [k \in Conns |-> 0] /\ crecv = [k \in Conns |-> 0]
  /\ sent = [k \in Conns |-> <<>>]
  /\ got = [k \in Conns |-> <<>>]

Undialed == {k \in Conns : link[k] = "none"}
Unlocked == cpc \in {"idle", "backoff"}

(***************************************************************************)
(* Connect and ConnectWithReconnect.                                       *)
(***************************************************************************)
Begin(config) ==
  /\ cpc = "idle" /\ Undialed # {}
  /\ cpc' = "dial" /\ cfg' = config /\ delay' = config.initial
  /\ UNCHANGED <<network, fields, attempt, receiving, sending>>

Connect == Begin(NoReconnect)

\* Without an InitialDelay the whole configuration is the default one.
ConnectWithReconnect(config) == Begin(IF config.initial = 0 THEN DefaultReconnectConfig ELSE config)

\* dial succeeds; c.conn is assigned, and the old conn is not closed.
Dial(k) ==
  /\ cpc = "dial"
  /\ k \in Undialed /\ \A h \in Undialed : k <= h
  /\ link' = [link EXCEPT ![k] = "up"]
  /\ ends' = [ends EXCEPT ![k] = BothEnds]
  /\ conn' = k
  /\ cpc' = "msg1"
  /\ UNCHANGED <<kind, c2s, s2c, faults, session, closed, cfg, attempt, delay,
                 receiving, sending>>

\* The call returns; its variables are gone.
ConnectDone == cpc' = "idle" /\ cfg' = NoReconnect /\ attempt' = 0 /\ delay' = 0

\* Connect returns an error; the loop ends or waits.
AttemptFailed ==
  IF cfg.attempts > 0 /\ attempt + 1 >= cfg.attempts
  THEN ConnectDone
  ELSE cpc' = "backoff" /\ attempt' = attempt + 1 /\ UNCHANGED <<cfg, delay>>

DialFails ==
  /\ cpc = "dial"
  /\ Fault
  /\ AttemptFailed
  /\ UNCHANGED <<kind, link, ends, c2s, s2c, fields, receiving, sending>>

\* clientHandshake: -> e
WriteInit ==
  /\ cpc = "msg1"
  /\ ClientWrites(conn, Handshake("e"))
  /\ cpc' = "msg2"
  /\ UNCHANGED <<kind, link, ends, s2c, faults, fields, cfg, attempt, delay,
                 receiving, sending>>

\* clientHandshake: <- e, ee, s, es; -> s, se; and the end of Connect.
Established ==
  /\ cpc = "msg2"
  /\ ClientCanRead(conn) /\ Head(s2c[conn]) = Handshake("e_ee_s_es")
  /\ ClientReads(conn)
  /\ ClientWrites(conn, Handshake("s_se"))
  /\ session' = conn
  /\ closed' = FALSE
  /\ ConnectDone
  /\ UNCHANGED <<kind, link, ends, faults, conn, receiving, sending>>

\* clientHandshake fails: the connection is closed, c.conn stays, and so do
\* c.session and c.closed.
HandshakeFails ==
  /\ \/ cpc = "msg1" /\ WriteFails(conn)
     \/ cpc = "msg2" /\ (ClientReadFails(conn) \/ (ClientCanRead(conn) /\ WriteFails(conn)))
  /\ ClientCloses(conn)
  /\ AttemptFailed
  /\ UNCHANGED <<kind, link, faults, fields, receiving, sending>>

\* Mutant: the cap is applied before the multiplication.
BackoffLateCap ==
  /\ cpc = "backoff" /\ Undialed # {}
  /\ cpc' = "dial"
  /\ delay' = (IF delay > cfg.max THEN cfg.max ELSE delay) * cfg.multiplier
  /\ UNCHANGED <<network, fields, cfg, attempt, receiving, sending>>

\* The wait of the loop is over.
Backoff ==
  /\ cpc = "backoff" /\ Undialed # {}
  /\ cpc' = "dial"
  /\ delay' = IF delay * cfg.multiplier > cfg.max THEN cfg.max ELSE delay * cfg.multiplier
  /\ UNCHANGED <<network, fields, cfg, attempt, receiving, sending>>

\* The context of the loop is cancelled during the wait.
Cancel ==
  /\ cpc = "backoff"
  /\ ConnectDone
  /\ UNCHANGED <<network, fields, receiving, sending>>

\* NextDelay without the jitter.
NextDelay(n, config) ==
  LET uncapped == config.initial * config.multiplier^n
  IN IF uncapped > config.max THEN config.max ELSE uncapped

(***************************************************************************)
(* Send, Receive, Close.                                                   *)
(***************************************************************************)
Sends == LET total[k \in 0 .. MaxDials] == IF k = 0 THEN 0 ELSE csend[k] + total[k - 1]
         IN total[MaxDials]

\* The guard of Send.
Ready == Unlocked /\ ~ closed /\ conn # NoConn /\ Sends < MaxSends

\* Send: the message is encrypted with c.session and written to c.conn.
Send(m) ==
  /\ Ready /\ session # NoConn
  /\ \/ ClientWrites(conn, Encrypt(session, csend[session], "data", m))
     \/ WriteFails(conn) /\ UNCHANGED c2s
  /\ csend' = [csend EXCEPT ![session] = @ + 1]
  /\ sent' = IF WriteFails(conn) THEN sent ELSE [sent EXCEPT ![conn] = Append(@, m)]
  /\ UNCHANGED <<kind, link, ends, s2c, faults, fields, connecting, receiving>>

\* Send when c.conn is set and c.session is nil: the first handshake failed.
SendPanics ==
  /\ Ready /\ session = NoConn
  /\ cpc' = "panic"
  /\ UNCHANGED <<network, fields, cfg, attempt, delay, receiving, sending>>

\* Receive: conn and session are read under the mutex.
Receive ==
  /\ rpc = "idle" /\ Unlocked /\ conn # NoConn
  /\ rpc' = "read" /\ rconn' = conn /\ rsession' = session
  /\ UNCHANGED <<network, fields, connecting, sending, crecv, got>>

ReceiveDone == rpc' = "idle" /\ rconn' = NoConn /\ rsession' = NoConn

\* Receive: ReadMessage and Decrypt.
ReceiveReads ==
  /\ rpc = "read" /\ cpc # "panic"
  /\ ClientReads(rconn)
  /\ LET p == Head(s2c[rconn])
     IN IF Decrypts(p, rsession, crecv[rsession])
        THEN /\ crecv' = [crecv EXCEPT ![rsession] = @ + 1]
             /\ got' = [got EXCEPT ![rconn] = Append(@, [type |-> p.type, msg |-> p.msg])]
        ELSE UNCHANGED <<crecv, got>>
  /\ ReceiveDone
  /\ UNCHANGED <<kind, link, ends, c2s, faults, fields, connecting, sending>>

ReceiveFails ==
  /\ rpc = "read" /\ cpc # "panic"
  /\ ClientReadFails(rconn)
  /\ ReceiveDone
  /\ UNCHANGED <<network, fields, connecting, sending, crecv, got>>

Close ==
  /\ Unlocked
  /\ ~ closed
  /\ closed' = TRUE
  /\ IF conn = NoConn THEN UNCHANGED <<ends, c2s, s2c>> ELSE ClientCloses(conn)
  /\ UNCHANGED <<kind, link, faults, conn, session, connecting, receiving, sending>>

\* The process of the client stops and another one starts.  The kernel closes
\* its TCP connections; the QUIC ones fall silent.
Restart ==
  /\ Fault
  /\ conn' = NoConn /\ session' = NoConn /\ closed' = FALSE
  /\ ConnectDone
  /\ ReceiveDone
  /\ LET open == {k \in Conns : link[k] = "up" /\ "client" \in ends[k]}
     IN /\ ends' = [k \in Conns |-> IF k \in open /\ kind = "ws" THEN ends[k] \ {"client"} ELSE ends[k]]
        /\ link' = [k \in Conns |-> IF k \in open /\ kind = "quic" THEN "silent" ELSE link[k]]
  /\ UNCHANGED <<kind, c2s, s2c, csend, crecv, sent, got>>

ConnectStep == (\E k \in Conns : Dial(k)) \/ WriteInit \/ Established \/ HandshakeFails \/ Backoff
ReceiveStep == Receive \/ ReceiveReads \/ ReceiveFails

ClientNext ==
  \/ Connect
  \/ \E config \in Configs : ConnectWithReconnect(config)
  \/ ConnectStep
  \/ DialFails \/ Cancel
  \/ \E m \in Messages : Send(m)
  \/ SendPanics
  \/ ReceiveStep
  \/ Close
  \/ Restart
=============================================================================
