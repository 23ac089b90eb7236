------------------------------ MODULE Process ------------------------------
(***************************************************************************)
(* The life of a service's process: what main opens and in which order,    *)
(* the goroutine that waits for a signal, the calls in flight and, in the  *)
(* dispatcher, the relay.  A call is one of gRPC, a message a consumer     *)
(* handles or, in the gateway, a connection.                               *)
(*                                                                         *)
(* main is a sequence of steps.  A step that opens something leaves a      *)
(* deferred call that closes it; main ends by running them, last one       *)
(* first.  logger.Fatal and a signal nobody watches end the process where  *)
(* it stands.                                                              *)
(***************************************************************************)
EXTENDS Naturals, Sequences

CONSTANTS
  Calls,
  MaxFailures   \* steps of main, or calls of Serve, that fail

ASSUME ProcessAssumption == MaxFailures \in Nat

VARIABLES
  program,    \* which main
  pc,         \* its next step
  up,         \* the steps done
  defers,     \* what is to be closed, the last one opened last
  closed,
  serving,    \* inside Serve or Run
  stopper,    \* the goroutine that waits for the signal
  signal,
  cancelled,  \* the context
  call,
  relay,
  ended,      \* how the process has ended
  failures

process ==
  <<program, pc, up, defers, closed, serving, stopper, signal, cancelled, call, relay, ended, failures>>

Opens(r, onError) == [does |-> r, onError |-> onError, deferred |-> TRUE]
Does(s, onError) == [does |-> s, onError |-> onError, deferred |-> FALSE]
Goes(s) == Does(s, "cannot")

\* The beginning of every main.
Observed ==
  <<Opens("logger", "fatal"), Opens("context", "cannot"), Opens("tracer", "warn"), Opens("meter", "fatal")>>

DispatcherMain ==
  Observed \o
  <<Opens("pool", "fatal"), Does("tables", "fatal"), Opens("producer", "fatal"), Goes("relay"),
    Does("listener", "fatal"), Goes("stopper"), Goes("serve")>>

SessionManagerMain ==
  Observed \o
  <<Does("redis", "fatal"), Opens("pool", "fatal"), Does("tables", "fatal"),
    Does("listener", "fatal"), Goes("stopper"), Goes("serve")>>

CryptoHandlerMain ==
  Observed \o <<Does("keys", "fatal"), Does("listener", "fatal"), Goes("stopper"), Goes("serve")>>

MediaServiceMain ==
  Observed \o
  <<Opens("pool", "fatal"), Does("tables", "fatal"), Does("bucket", "fatal"),
    Does("listener", "fatal"), Goes("stopper"), Goes("serve")>>

CommandServiceMain ==
  Observed \o
  <<Opens("pool", "fatal"), Does("tables", "fatal"), Opens("consumer", "fatal"),
    Goes("stopper"), Goes("run")>>

SyncServiceMain ==
  Observed \o
  <<Opens("pool", "fatal"), Does("tables", "fatal"), Opens("consumer", "fatal"),
    Opens("admin", "fatal"), Does("topics", "warn"), Goes("stopper"), Goes("run")>>

\* The gateway watches for the signal in main itself.
GatewayMain ==
  Observed \o
  <<Does("metrics", "fatal"), Does("keys", "fatal"), Does("dispatcher", "warn"),
    Goes("listeners"), Goes("notify"), Goes("wait")>>

Main ==
  [dispatcher |-> DispatcherMain, sessions |-> SessionManagerMain, crypto |-> CryptoHandlerMain,
   media |-> MediaServiceMain, commands |-> CommandServiceMain, sync |-> SyncServiceMain,
   gateway |-> GatewayMain]

ProcessInit ==
  /\ program \in DOMAIN Main
  /\ pc = 1 /\ up = {} /\ defers = <<>> /\ closed = {} /\ serving = FALSE
  /\ stopper = "off" /\ signal = FALSE /\ cancelled = FALSE
  /\ call = [c \in Calls |-> "new"]
  /\ relay = "off" /\ ended = "no" /\ failures = 0

Alive == ended = "no"
Here == Main[program][pc]
At(s) == Alive /\ pc <= Len(Main[program]) /\ Here.does = s
Running == {c \in Calls : call[c] = "running"}
Returned == Alive /\ pc > Len(Main[program])

\* A step of main that succeeds and does not block.
Step ==
  /\ Alive /\ pc <= Len(Main[program]) /\ Here.does \notin {"serve", "run", "wait"}
  /\ pc' = pc + 1
  /\ up' = up \cup {Here.does}
  /\ defers' = IF Here.deferred THEN Append(defers, Here.does) ELSE defers
  /\ relay' = IF Here.does = "relay" THEN "idle" ELSE relay
  /\ stopper' = CASE Here.does = "stopper" -> "started"
                  [] Here.does = "notify" -> "watching"
                  [] OTHER -> stopper
  /\ UNCHANGED <<program, closed, serving, signal, cancelled, call, ended, failures>>

\* A step that fails: logger.Fatal, or main goes on without it.
StepFails ==
  /\ Alive /\ pc <= Len(Main[program]) /\ Here.onError # "cannot"
  /\ failures < MaxFailures
  /\ failures' = failures + 1
  /\ IF Here.onError = "fatal"
     THEN ended' = "fatal" /\ UNCHANGED pc
     ELSE pc' = pc + 1 /\ UNCHANGED ended
  /\ UNCHANGED <<program, up, defers, closed, serving, stopper, signal, cancelled, call, relay>>

\* srv.Serve is called; a server that was stopped before refuses.
Serve ==
  /\ At("serve") /\ ~ serving
  /\ IF stopper \in {"off", "started", "watching"}
     THEN serving' = TRUE /\ UNCHANGED ended
     ELSE ended' = "fatal" /\ UNCHANGED serving
  /\ UNCHANGED <<program, pc, up, defers, closed, stopper, signal, cancelled, call, relay, failures>>

\* The listener breaks: Serve returns the error.
ServeFails ==
  /\ At("serve") /\ serving /\ stopper # "stopping" /\ failures < MaxFailures
  /\ failures' = failures + 1
  /\ ended' = "fatal"
  /\ UNCHANGED <<program, pc, up, defers, closed, serving, stopper, signal, cancelled, call, relay>>

Return ==
  /\ pc' = pc + 1
  /\ serving' = FALSE
  /\ UNCHANGED <<program, up, defers, closed, stopper, signal, cancelled, call, relay, ended, failures>>

\* Mutant: Serve returns as soon as GracefulStop is called.
ServeReturnsAtOnce == At("serve") /\ serving /\ stopper \in {"stopping", "stopped", "over"} /\ Return

\* Serve returns when GracefulStop has returned.
ServeReturns == At("serve") /\ serving /\ stopper \in {"stopped", "over"} /\ Return

\* svc.Run: the sync service consumes only what DiscoverTopics has found.
Consumes == program = "sync" => "topics" \in up

Run ==
  /\ At("run") /\ ~ serving
  /\ serving' = TRUE
  /\ UNCHANGED <<program, pc, up, defers, closed, stopper, signal, cancelled, call, relay, ended, failures>>

\* svc.Run returns when the context is cancelled and Consume has let the
\* handlers finish, or at once when there are no topics.
RunReturns ==
  /\ At("run") /\ serving
  /\ Consumes => cancelled /\ Running = {}
  /\ Return

\* The gateway's main gets the signal: it cancels the context and returns.
WaitReturns ==
  /\ At("wait") /\ signal
  /\ cancelled' = TRUE
  /\ pc' = pc + 1
  /\ UNCHANGED <<program, up, defers, closed, serving, stopper, signal, call, relay, ended, failures>>

\* A consumer may still handle what it has fetched when the context is
\* cancelled.
Accepts ==
  CASE program = "gateway" -> "listeners" \in up
    [] program \in {"commands", "sync"} -> serving /\ Consumes
    [] OTHER -> serving /\ stopper \in {"off", "started", "watching"}

Accept(c) ==
  /\ Alive /\ Accepts /\ call[c] = "new"
  /\ call' = [call EXCEPT ![c] = "running"]
  /\ UNCHANGED <<program, pc, up, defers, closed, serving, stopper, signal, cancelled, relay, ended, failures>>

Answer(c) ==
  /\ Alive /\ call[c] = "running"
  /\ call' = [call EXCEPT ![c] = "answered"]
  /\ UNCHANGED <<program, pc, up, defers, closed, serving, stopper, signal, cancelled, relay, ended, failures>>

\* SIGINT or SIGTERM: without signal.Notify it kills the process.
Signal ==
  /\ Alive /\ ~ signal
  /\ signal' = TRUE
  /\ ended' = IF stopper \in {"off", "started"} THEN "killed" ELSE ended
  /\ UNCHANGED <<program, pc, up, defers, closed, serving, stopper, cancelled, call, relay, failures>>

Stopper(from, to) ==
  /\ Alive /\ stopper = from
  /\ stopper' = to
  /\ UNCHANGED <<program, pc, up, defers, closed, serving, signal, call, relay, ended, failures>>

\* The goroutine reaches signal.Notify.
Watch == Stopper("started", "watching") /\ UNCHANGED cancelled

\* Mutant: the consumers' context is left to the deferred cancel.
CancelsLater == program \in {"commands", "sync"} /\ signal /\ Stopper("watching", "over") /\ UNCHANGED cancelled

\* The services with a consumer only cancel the context.
Cancels == program \in {"commands", "sync"} /\ signal /\ Stopper("watching", "over") /\ cancelled' = TRUE

\* The gRPC services: GracefulStop, which takes no more calls and waits for
\* those in flight; then cancel.
GracefulStop == "listener" \in up /\ signal /\ Stopper("watching", "stopping") /\ UNCHANGED cancelled
Stopped == Running = {} /\ Stopper("stopping", "stopped") /\ UNCHANGED cancelled
CancelsLast == Stopper("stopped", "over") /\ cancelled' = TRUE

\* The deferred calls; that of the context is cancel.  A closed pool gives no
\* connections, and pool.Close returns when the relay has given its own back.
CloseDeferred ==
  /\ Returned /\ defers # <<>>
  /\ "pool" \in closed => relay # "fetch"
  /\ LET r == defers[Len(defers)]
     IN /\ closed' = closed \cup {r}
        /\ cancelled' = (cancelled \/ r = "context")
  /\ defers' = SubSeq(defers, 1, Len(defers) - 1)
  /\ UNCHANGED <<program, pc, up, serving, stopper, signal, call, relay, ended, failures>>

Exit ==
  /\ Returned /\ defers = <<>>
  /\ ended' = "clean"
  /\ UNCHANGED <<program, pc, up, defers, closed, serving, stopper, signal, cancelled, call, relay, failures>>

\* The relay: a tick and FetchPending, which fails at once on a closed pool or
\* a cancelled context; Send, which on a closed producer fails or panics; the
\* end of the context.
Relay(from, to) ==
  /\ Alive /\ relay = from
  /\ relay' = to
  /\ UNCHANGED <<program, pc, up, defers, closed, serving, stopper, signal, cancelled, call, failures>>

Tick == Relay("idle", IF "pool" \in closed \/ cancelled THEN "idle" ELSE "fetch") /\ UNCHANGED ended
Fetched == Relay("fetch", "send") /\ UNCHANGED ended

Sent ==
  /\ Relay("send", "idle")
  /\ ended' \in IF "producer" \in closed THEN {"no", "panic"} ELSE {"no"}
RelayStops == cancelled /\ Relay("idle", "over") /\ UNCHANGED ended

ProcessNext ==
  \/ Step \/ StepFails \/ Serve \/ ServeFails \/ ServeReturns \/ Run \/ RunReturns \/ WaitReturns
  \/ \E c \in Calls : Accept(c) \/ Answer(c)
  \/ Signal \/ Watch \/ Cancels \/ GracefulStop \/ Stopped \/ CancelsLast
  \/ CloseDeferred \/ Exit \/ Tick \/ Fetched \/ Sent \/ RelayStops

ProcessSpec == ProcessInit /\ [][ProcessNext]_process

\* What the goroutine of main does.
MainSteps ==
  \/ Step \/ Serve \/ ServeReturns \/ Run \/ RunReturns \/ WaitReturns \/ CloseDeferred \/ Exit

Needs ==
  [dispatcher |-> {"pool", "tables"}, sessions |-> {"redis", "pool", "tables"}, crypto |-> {"keys"},
   media |-> {"pool", "tables", "bucket"}, commands |-> {"pool", "tables", "consumer"},
   sync |-> {"pool", "tables", "consumer"}, gateway |-> {"keys"}]

\* While a call is in flight what its handler uses is there: main has opened
\* it before it serves, and closes it only when the last call is answered,
\* whenever the signal comes.  A process that runs to the end of main, or that
\* the relay's panic ends on the way, leaves no call unanswered; the gateway,
\* which waits for no connection, is the exception.
UsedWhileOpen ==
  Running # {} =>
    /\ Alive => Needs[program] \subseteq up /\ Needs[program] \cap closed = {}
    /\ ended \in {"clean", "panic"} => program = "gateway"

\* After a signal the process ends, in whatever step it was.
SignalEnds == signal ~> ~ Alive
=============================================================================
