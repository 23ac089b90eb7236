------------------------------ MODULE Channel ------------------------------
(***************************************************************************)
(* A client of the Go SDK, its connections and the gateway together.       *)
(***************************************************************************)
EXTENDS Client, Gateway, Integers

vars == <<network, client, gateway>>

Init == LinkInit /\ ClientInit /\ GatewayInit

NetworkNext == \E k \in Conns : Cut(k) \/ IdleTimeout(k)

Next ==
  \/ ClientNext /\ UNCHANGED gateway
  \/ GatewayNext /\ UNCHANGED client
  \/ NetworkNext /\ UNCHANGED <<client, gateway>>

Spec == Init /\ [][Next]_vars

\* The goroutines run, the timers fire, and the application keeps calling
\* Receive.  Nothing makes the application connect, send or close.
Fairness ==
  /\ WF_vars(ConnectStep /\ UNCHANGED gateway)
  /\ WF_vars(ReceiveStep /\ UNCHANGED gateway)
  /\ WF_vars(Listen /\ UNCHANGED client)
  /\ \A k \in Conns : WF_vars(HandleConn(k) /\ UNCHANGED client)
  /\ WF_vars((\E k \in Conns : IdleTimeout(k)) /\ UNCHANGED <<client, gateway>>)

FairSpec == Spec /\ Fairness

\* What the gateway handles on a connection is a prefix of what the client sent
\* on it, although Send takes c.session and c.conn from different calls of
\* Connect.  The answers Receive returns are those of these messages, in the
\* same order, none skipped; an Ack says that the dispatcher has the message.
AnswersInOrder ==
  \A k \in Conns :
    /\ Len(handled[k]) <= Len(sent[k])
    /\ handled[k] = SubSeq(sent[k], 1, Len(handled[k]))
    /\ \A i \in 1 .. Len(got[k]) :
         /\ i <= Len(handled[k]) /\ got[k][i].msg = handled[k][i]
         /\ got[k][i].type = "ack" => i \in dispatched[k]

\* A message of the connection decrypts at the other end when it arrives: no
\* end waits for a nonce that the other one has passed.
NoncesAgree ==
  \A k \in Conns :
    /\ spc[k] = "read" =>
         \A i \in 1 .. Len(c2s[k]) : Decrypts(c2s[k][i], k, srecv[k] + i - 1)
    /\ (session = k /\ "client" \in ends[k]) =>
         \A i \in 1 .. Len(s2c[k]) : Decrypts(s2c[k][i], k, crecv[k] + i - 1)

\* ConnectWithReconnect keeps a running delay and NextDelay computes it from
\* the number of the attempt.  The first wait is InitialDelay, above MaxDelay
\* too; each one after it is what NextDelay says, whatever fails in between and
\* however long the delay has been at its cap.  There are no more attempts than
\* MaxAttempts.
DelayIsNextDelay ==
  /\ cpc = "backoff" =>
       delay = IF attempt = 1 THEN cfg.initial ELSE NextDelay(attempt - 1, cfg)
  /\ cfg.attempts > 0 => attempt < cfg.attempts

\* Connect gives the mutex back: no server keeps a client in its handshake for
\* ever, not even when the accept loop waits for a client that is gone.
ConnectReturns == (cpc \in {"msg1", "msg2"}) ~> (cpc \notin {"msg1", "msg2"})

\* What the client has sent is answered, unless the connection breaks, an end
\* closes it or the client connects anew.  Connect does not close the connection
\* it replaces: a call of Receive that is still reading that one gets nothing.
SentIsAnswered ==
  \A k \in Conns :
    (Len(got[k]) < Len(sent[k]))
      ~> (Len(got[k]) = Len(sent[k]) \/ ~ Whole(k) \/ conn # k \/ cpc = "panic"
            \/ (rpc = "read" /\ rconn # k))
=============================================================================
