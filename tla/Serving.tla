------------------------------ MODULE Serving ------------------------------
(***************************************************************************)
(* The loop shared by the example servers, the Go starter and their        *)
(* clients.  A client connects (dial and Noise handshake), then sends its  *)
(* requests one at a time and waits for the reply to each.  A goroutine of *)
(* the server reads the request, does the work and writes the reply.  When *)
(* the connection breaks, the handler returns and the client exits; it may *)
(* be started again, with its first request.                               *)
(***************************************************************************)
EXTENDS Naturals, Sequences

CONSTANTS
  Peers,     \* the clients
  Requests,  \* how many requests a client sends
  MaxRuns    \* how often a client is started

ASSUME ServingAssumption == Requests \in Nat /\ MaxRuns \in Nat

VARIABLES
  phase,   \* where the exchange of a client and its handler is
  round,   \* the number of the client's request
  runs,    \* how often the client was started
  reply,   \* what the handler is to write, or has written
  seen     \* history: the replies each client has read

serving == <<phase, round, runs, reply, seen>>

None == [none |-> TRUE]

ServingInit ==
  /\ phase = [p \in Peers |-> "off"]
  /\ round = [p \in Peers |-> 0]
  /\ runs = [p \in Peers |-> 0]
  /\ reply = [p \in Peers |-> None]
  /\ seen = [p \in Peers |-> <<>>]

\* The client dials and both ends finish the handshake.
Join(p) ==
  /\ phase[p] = "off" /\ runs[p] < MaxRuns
  /\ phase' = [phase EXCEPT ![p] = "idle"]
  /\ round' = [round EXCEPT ![p] = 1]
  /\ runs' = [runs EXCEPT ![p] = @ + 1]
  /\ UNCHANGED <<reply, seen>>

Request(p) ==
  /\ phase[p] = "idle" /\ round[p] <= Requests
  /\ phase' = [phase EXCEPT ![p] = "sent"]
  /\ UNCHANGED <<round, runs, reply, seen>>

\* The handler has read the request and moves on, with r to reply.
Work(p, from, to, r) ==
  /\ phase[p] = from
  /\ phase' = [phase EXCEPT ![p] = to]
  /\ reply' = [reply EXCEPT ![p] = r]
  /\ UNCHANGED <<round, runs, seen>>

\* A frame or payload that does not decode, or (but in the game, which answers
\* it) a frame of another type: the handler continues without a reply, and the
\* client waits for one.
Ignore(p) == Work(p, "sent", "ignored", None)

\* The client reads the reply that the handler has written.
Answered(p) ==
  /\ phase[p] = "done"
  /\ phase' = [phase EXCEPT ![p] = "idle"]
  /\ round' = [round EXCEPT ![p] = @ + 1]
  /\ seen' = [seen EXCEPT ![p] = Append(@, reply[p])]
  /\ reply' = [reply EXCEPT ![p] = None]
  /\ UNCHANGED runs

\* The connection breaks, or the client has finished and closes it.
Leave(p) ==
  /\ phase[p] # "off"
  /\ phase' = [phase EXCEPT ![p] = "off"]
  /\ reply' = [reply EXCEPT ![p] = None]
  /\ UNCHANGED <<round, runs, seen>>

ClientStep(p) == Request(p) \/ Ignore(p) \/ Answered(p) \/ Leave(p)
=============================================================================
