------------------------------ MODULE Runtime ------------------------------
(***************************************************************************)
(* What the services rest on: the processes they run in, two parts of the  *)
(* transport library (the connections over a gRPC stream and the           *)
(* connection pool), the functions that route a message, and the starter   *)
(* packs.  The parts share nothing.                                        *)
(***************************************************************************)
EXTENDS StreamConn, ConnPool, Process, Routing, Starters

VARIABLE part

\* The message of the parts that have none.
NoMessage == [body |-> "other", set |-> FALSE, type |-> CHOOSE t \in CommandTypes : TRUE,
              sender |-> NoId, recipient |-> NoId, group |-> NoId]

vars == <<part, stream, pool, process, message, starters>>

Init ==
  /\ part \in {"stream", "pool", "process", "routing", "ports", "echo"}
  /\ StreamInit /\ PoolInit /\ ProcessInit /\ RoutingInit /\ StartersInit
  /\ part # "stream" => kind = "server"
  /\ part # "process" => program = "crypto"
  /\ part # "routing" => msg = NoMessage

Next ==
  /\ UNCHANGED part
  /\ \/ part = "stream" /\ StreamNext /\ UNCHANGED <<pool, process, message, starters>>
     \/ part = "pool" /\ PoolNext /\ UNCHANGED <<stream, process, message, starters>>
     \/ part = "process" /\ ProcessNext /\ UNCHANGED <<stream, pool, message, starters>>
     \/ part = "routing" /\ RoutingNext /\ UNCHANGED <<stream, pool, process, starters>>
     \/ part = "ports" /\ PortsNext /\ UNCHANGED <<stream, pool, process, message>>
     \/ part = "echo" /\ EchoNext /\ UNCHANGED <<stream, pool, process, message>>

InStream(A) == part = "stream" /\ A /\ UNCHANGED <<part, pool, process, message, starters>>
InProcess(A) == part = "process" /\ A /\ UNCHANGED <<part, stream, pool, message, starters>>
InEcho(A) == part = "echo" /\ A /\ UNCHANGED <<part, stream, pool, process, message>>

\* A goroutine runs when a case of its select is ready; nobody has to call
\* anything.  The goroutines of a process run; its handlers and the database
\* answer.  The event loops of Node run.
Fairness ==
  /\ \A g \in Goroutines : WF_vars(InStream(Returns(g)))
  /\ WF_vars(InProcess(MainSteps))
  /\ WF_vars(InProcess(Watch \/ Cancels \/ GracefulStop \/ Stopped \/ CancelsLast))
  /\ WF_vars(InProcess(Fetched \/ Sent))
  /\ \A c \in Calls : WF_vars(InProcess(Answer(c)))
  /\ \A e \in Sides : WF_vars(InEcho(EchoStep(e)))

Spec == Init /\ [][Next]_vars /\ Fairness
=============================================================================
