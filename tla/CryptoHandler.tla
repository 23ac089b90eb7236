---------------------------- MODULE CryptoHandler ----------------------------
(***************************************************************************)
(* The handshakes of the crypto handler.  Noise XX has three messages, 0   *)
(* and 2 of the initiator and 1 of the responder.  The server keeps one    *)
(* side of a handshake between calls of ProcessHandshake; the mutex guards *)
(* the map and not the state, so that calls for one handshake may overlap: *)
(* a call goes on from the index it found when it entered the library.     *)
(*                                                                         *)
(* The peer is the other side.  It brings each of its messages to a call,  *)
(* and may bring it again when it has not seen the answer.                 *)
(***************************************************************************)
EXTENDS Naturals

CONSTANTS
  Handshakes,   \* state IDs
  Processes     \* calls of ProcessHandshake

VARIABLES
  handshakes,  \* the keys of the server's map
  role,        \* the server's role in each handshake
  index,       \* the next message in the server's state
  proc,        \* the calls of ProcessHandshake
  peer,        \* the next message in the peer's state
  answers,     \* how often the server has written each message
  states,      \* history: how many crypto states a handshake has given
  brought,     \* history: the messages that were brought to a call
  repeated,    \* history: handshakes for which a message was brought again
  overlapped   \* history: handshakes with two calls at a time

handler ==
  <<handshakes, role, index, proc, peer, answers, states, brought, repeated, overlapped>>
history == <<states, brought, repeated, overlapped>>

NoMessage == 3   \* no index of a message
Writer(i) == IF i = 1 THEN "responder" ELSE "initiator"

HandlerInit ==
  /\ handshakes = {}
  /\ role = [h \in Handshakes |-> "none"]
  /\ index = [h \in Handshakes |-> 0]
  /\ proc = [c \in Processes |-> [pc |-> "new"]]
  /\ peer = [h \in Handshakes |-> 0]
  /\ answers = [h \in Handshakes |-> [i \in 0 .. 2 |-> 0]]
  /\ states = [h \in Handshakes |-> 0]
  /\ brought = [h \in Handshakes |-> {}]
  /\ repeated = {} /\ overlapped = {}

InitiateHandshake(h, r) ==
  /\ role[h] = "none"
  /\ handshakes' = handshakes \cup {h}
  /\ role' = [role EXCEPT ![h] = r]
  /\ UNCHANGED <<index, proc, peer, answers, history>>

\* The peer writes its next message, or reads the server's.
PeerSteps(h) ==
  /\ role[h] # "none" /\ peer[h] <= 2
  /\ Writer(peer[h]) = role[h] => answers[h][peer[h]] > 0
  /\ peer' = [peer EXCEPT ![h] = @ + 1]
  /\ UNCHANGED <<handshakes, role, index, proc, answers, history>>

\* What the peer can bring: nothing, for the server to begin, and the
\* messages it has written.
Brings(h) ==
  IF role[h] = "none" THEN {}
  ELSE (IF role[h] = "initiator" THEN {NoMessage} ELSE {})
         \cup {i \in 0 .. 2 : i < peer[h] /\ Writer(i) # role[h]}

Busy(h) == {c \in Processes : proc[c].pc \in {"read", "reading", "write", "writing"} /\ proc[c].id = h}

\* ProcessHandshake: the look-up under the mutex.
ProcessHandshake(c, h, msg) ==
  /\ proc[c].pc = "new"
  /\ proc' = [proc EXCEPT ![c] =
       [pc |-> IF h \notin handshakes THEN "not found" ELSE IF msg = NoMessage THEN "write" ELSE "read",
        id |-> h, msg |-> msg, index |-> 0]]
  /\ repeated' = IF msg \in brought[h] THEN repeated \cup {h} ELSE repeated
  /\ brought' = [brought EXCEPT ![h] = @ \cup {msg}]
  /\ overlapped' = IF Busy(h) # {} THEN overlapped \cup {h} ELSE overlapped
  /\ UNCHANGED <<handshakes, role, index, peer, answers, states>>

At(c, pc, i) == proc' = [proc EXCEPT ![c].pc = pc, ![c].index = i]

\* hs.ReadMessage or hs.WriteMessage is entered: whose turn it is.
Enter(c, pc, next, mine) ==
  /\ proc[c].pc = pc
  /\ LET i == index[proc[c].id]
     IN At(c, IF i <= 2 /\ mine[i] THEN next ELSE "refused", i)
  /\ UNCHANGED <<handshakes, role, index, peer, answers, history>>

\* hs.ReadMessage: the message must be the one that is next, and be made for
\* the state the server is in.  After overlapping calls it may not be.
EnterRead(c) ==
  Enter(c, "read", "reading", [i \in 0 .. 2 |-> Writer(i) # role[proc[c].id] /\ proc[c].msg = i])

EnterWrite(c) ==
  Enter(c, "write", "writing", [i \in 0 .. 2 |-> Writer(i) = role[proc[c].id]])

\* The library returns the cipher states with the last message.
Splits(i) == i = 2

\* The state is deleted, and the caller gets a crypto state, when the
\* handshake is complete.
Complete(h, i) ==
  /\ handshakes' = IF Splits(i) THEN handshakes \ {h} ELSE handshakes
  /\ states' = [states EXCEPT ![h] = @ + (IF Splits(i) THEN 1 ELSE 0)]

\* ProcessHandshake: the message has been read.
Read(c) ==
  LET h == proc[c].id i == proc[c].index
  IN /\ proc[c].pc = "reading"
     /\ index' = [index EXCEPT ![h] = i + 1]
     /\ Complete(h, i)
     /\ At(c, IF Splits(i) THEN "done" ELSE "write", i)
     /\ UNCHANGED <<role, peer, answers, brought, repeated, overlapped>>

\* After an overlap the keys of the two sides may differ.
ReadFails(c) ==
  /\ proc[c].pc = "reading" /\ proc[c].id \in overlapped
  /\ At(c, "refused", proc[c].index)
  /\ UNCHANGED <<handshakes, role, index, peer, answers, history>>

\* Mutant: the state does not go on.
WriteStays(c) ==
  LET h == proc[c].id i == proc[c].index
  IN /\ proc[c].pc = "writing"
     /\ answers' = [answers EXCEPT ![h][i] = @ + 1]
     /\ Complete(h, i)
     /\ At(c, "done", i)
     /\ UNCHANGED <<role, index, peer, brought, repeated, overlapped>>

\* ProcessHandshake: the answer has been written.
Write(c) ==
  LET h == proc[c].id i == proc[c].index
  IN /\ proc[c].pc = "writing"
     /\ index' = [index EXCEPT ![h] = i + 1]
     /\ answers' = [answers EXCEPT ![h][i] = @ + 1]
     /\ Complete(h, i)
     /\ At(c, "done", i)
     /\ UNCHANGED <<role, peer, brought, repeated, overlapped>>

HandlerNext ==
  \/ \E h \in Handshakes :
       \/ \E r \in {"initiator", "responder"} : InitiateHandshake(h, r)
       \/ PeerSteps(h)
       \/ \E c \in Processes, msg \in Brings(h) : ProcessHandshake(c, h, msg)
  \/ \E c \in Processes : EnterRead(c) \/ EnterWrite(c) \/ Read(c) \/ ReadFails(c) \/ Write(c)

HandlerSpec == HandlerInit /\ [][HandlerNext]_handler

\* Unless two calls for it overlap, a handshake of ProcessHandshake runs as if
\* it were one exchange, however often the peer brings a message again: each of
\* its messages is written once, one crypto state is given, and that when the
\* peer has come as far (the responder has the peer's last message, the
\* initiator its only one).  A peer that brings every message once and waits
\* for the answer is never refused, and its handshake is always found.
OneExchange ==
  /\ \A h \in Handshakes \ overlapped :
       /\ \A i \in 0 .. 2 : answers[h][i] <= 1
       /\ states[h] <= 1
       /\ states[h] > 0 => peer[h] >= IF role[h] = "responder" THEN 3 ELSE 2
  /\ \A c \in Processes :
       proc[c].pc \in {"refused", "not found"} => proc[c].id \in repeated \cup overlapped
=============================================================================
