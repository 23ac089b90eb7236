---------------------------- MODULE RuntimeProofs ----------------------------
(***************************************************************************)
(* Proofs about what the services rest on.  A connection pool of any       *)
(* capacity never exceeds it, and Best returns a best connection, in       *)
(* whatever order it visits the map and whatever the connections are.  A   *)
(* message of any users and groups is stored as it was sent, and the       *)
(* messages of a conversation share a partition.  The ports of the session *)
(* machine agree on every sequence of events.  No call is cut off from     *)
(* what it uses by the end of its process, for any number of calls.        *)
(***************************************************************************)
EXTENDS ConnPool, Process, Routing, Starters, TLAPS

(***************************************************************************)
(* The life of a process.                                                  *)
(***************************************************************************)
Servers == {"dispatcher", "sessions", "crypto", "media"}
Consumers == {"commands", "sync"}
Closable == {"logger", "context", "tracer", "meter", "pool", "producer", "consumer", "admin"}

\* What the proof needs to know of a main: only its last step blocks, serving
\* in the servers and consuming in the consumers; what the handlers need is
\* there by then, or in the gateway before the listeners, and a step that
\* fails is not passed over if it is needed; keys are never closed.
Shape(p, L) ==
  /\ Len(L) \in Nat \ {0}
  /\ L[Len(L)].onError = "cannot"
  /\ L[Len(L)].does =
       IF p \in Servers THEN "serve" ELSE IF p \in Consumers THEN "run" ELSE "wait"
  /\ \A i \in 1 .. Len(L) :
       /\ L[i].onError \in {"fatal", "warn", "cannot"}
       /\ L[i].deferred => L[i].does \in Closable
       /\ i # Len(L) => L[i].does \notin {"serve", "run", "wait"}
       /\ L[i].does = "listener" => p \in Servers
       /\ p = "gateway" /\ L[i].does = "listeners" =>
            \E j \in 1 .. i - 1 : L[j].does = "keys" /\ L[j].onError # "warn"
  /\ p # "gateway" =>
       \A x \in Needs[p] : \E j \in 1 .. Len(L) - 1 : L[j].does = x /\ L[j].onError # "warn"

\* Calls run only while main serves, or in the gateway once it listens.
CallsInv ==
  /\ program # "gateway" /\ Running # {} => serving
  /\ program \in Servers /\ stopper \in {"stopped", "over"} => Running = {}
  /\ ~ Consumes => Running = {}
  /\ program = "gateway" /\ Running # {} => "listeners" \in up

\* What main has done, has yet to close and has closed.
MainInv ==
  /\ program \in DOMAIN Main
  /\ pc \in Nat \ {0}
  /\ defers \in Seq(Closable)
  /\ closed \subseteq Closable
  /\ pc <= Len(Main[program]) => closed = {} /\ ended \notin {"clean", "panic"}
  /\ serving => pc = Len(Main[program]) /\ program # "gateway"
  /\ \A i \in 1 .. Len(Main[program]) - 1 :
       i < pc /\ Main[program][i].onError # "warn" => Main[program][i].does \in up
  /\ \A x \in up : \E i \in 1 .. Len(Main[program]) : i < pc /\ Main[program][i].does = x

ProcessInv == MainInv /\ CallsInv

StepNames ==
  { "admin", "bucket", "consumer", "context", "dispatcher", "keys", "listener", "listeners",
    "logger", "meter", "metrics", "notify", "pool", "producer", "redis", "relay", "run",
    "serve", "stopper", "tables", "topics", "tracer", "wait"}

MainStep == [does : StepNames, onError : {"fatal", "warn", "cannot"}, deferred : BOOLEAN]

\* The steps of a main that begins as all do.
LEMMA StepTypes ==
  ASSUME NEW x \in StepNames, NEW e \in {"fatal", "warn", "cannot"}
  PROVE  Opens(x, e) \in MainStep /\ Does(x, e) \in MainStep /\ Goes(x) \in MainStep
BY Zenon DEF Opens, Does, Goes, MainStep

\* The steps of a concatenated list.
LEMMA Concatenated ==
  ASSUME NEW S, NEW a \in Seq(S), NEW b \in Seq(S)
  PROVE  /\ Len(a \o b) = Len(a) + Len(b)
         /\ \A i \in 1 .. Len(a) + Len(b) : (a \o b)[i] = IF i <= Len(a) THEN a[i] ELSE b[i - Len(a)]
OBVIOUS

\* The steps of a main that begins with logger, context, tracer and meter.
LEMMA Prefixed ==
  ASSUME NEW t \in Seq(MainStep), NEW L, L = Observed \o t
  PROVE  /\ Len(L) = 4 + Len(t)
         /\ L[1] = Opens("logger", "fatal") /\ L[2] = Opens("context", "cannot")
         /\ L[3] = Opens("tracer", "warn") /\ L[4] = Opens("meter", "fatal")
         /\ \A i \in 1 .. Len(t) : L[4 + i] = t[i]
<1>0. /\ Observed[1] = Opens("logger", "fatal") /\ Observed[2] = Opens("context", "cannot")
      /\ Observed[3] = Opens("tracer", "warn") /\ Observed[4] = Opens("meter", "fatal")
  BY Zenon DEF Observed
<1>1. Observed \in Seq(MainStep) /\ Len(Observed) = 4
  <2>1. Observed[1] \in MainStep /\ Observed[2] \in MainStep /\ Observed[3] \in MainStep /\ Observed[4] \in MainStep
    BY Zenon, <1>0, StepTypes DEF StepNames
  <2> QED
    BY <2>1 DEF Observed
<1>3. /\ Len(L) = 4 + Len(t)
      /\ \A i \in 1 .. Len(L) : L[i] = IF i <= 4 THEN Observed[i] ELSE t[i - 4]
  <2>1. /\ Len(Observed \o t) = Len(Observed) + Len(t)
        /\ \A i \in 1 .. Len(Observed) + Len(t) :
             (Observed \o t)[i] = IF i <= Len(Observed) THEN Observed[i] ELSE t[i - Len(Observed)]
    BY Zenon, <1>1, Concatenated
  <2> QED
    BY Zenon, <1>1, <2>1
<1>4. Len(t) \in Nat
  OBVIOUS
<1>5. \A i \in 1 .. Len(t) : 4 + i \in 1 .. Len(L) /\ ~ (4 + i <= 4) /\ (4 + i) - 4 = i
  BY <1>3, <1>4
<1> QED
  BY <1>0, <1>3, <1>4, <1>5

\* The main of the dispatcher has the shape.
LEMMA DispatcherShape == Shape("dispatcher", DispatcherMain)
<1> DEFINE L == DispatcherMain
           t == <<Opens("pool", "fatal"), Does("tables", "fatal"), Opens("producer", "fatal"), Goes("relay"),
             Does("listener", "fatal"), Goes("stopper"), Goes("serve")>>
<1>1. t \in Seq(MainStep)
  BY StepTypes DEF StepNames
<1>2. Len(t) = 7
  BY Zenon
<1>3. /\ Len(L) = 4 + Len(t) /\ L[1] = Opens("logger", "fatal") /\ L[2] = Opens("context", "cannot")
      /\ L[3] = Opens("tracer", "warn") /\ L[4] = Opens("meter", "fatal")
      /\ \A i \in 1 .. Len(t) : L[4 + i] = t[i]
  <2>1. L = Observed \o t
    BY Zenon DEF DispatcherMain
  <2> HIDE DEF L, t
  <2> QED
    BY Zenon, <1>1, <2>1, Prefixed
<1> HIDE DEF L
<1>4. /\ L[5] = Opens("pool", "fatal") /\ L[6] = Does("tables", "fatal") /\ L[7] = Opens("producer", "fatal")
      /\ L[8] = Goes("relay") /\ L[9] = Does("listener", "fatal") /\ L[10] = Goes("stopper")
      /\ L[11] = Goes("serve")
  BY <1>2, <1>3
<1>5. /\ Len(L) = 11 /\ L[1] = Opens("logger", "fatal") /\ L[2] = Opens("context", "cannot")
      /\ L[3] = Opens("tracer", "warn") /\ L[4] = Opens("meter", "fatal")
  BY <1>2, <1>3
<1> HIDE DEF t
<1>6. Shape("dispatcher", L)
  BY <1>4, <1>5 DEF Shape, Opens, Does, Goes, Needs, Servers, Consumers, Closable
<1> QED
  BY Zenon, <1>6 DEF L

\* The main of the session manager has the shape.
LEMMA SessionManagerShape == Shape("sessions", SessionManagerMain)
<1> DEFINE L == SessionManagerMain
           t == <<Does("redis", "fatal"), Opens("pool", "fatal"), Does("tables", "fatal"),
             Does("listener", "fatal"), Goes("stopper"), Goes("serve")>>
<1>1. t \in Seq(MainStep)
  BY StepTypes DEF StepNames
<1>2. Len(t) = 6
  BY Zenon
<1>3. /\ Len(L) = 4 + Len(t) /\ L[1] = Opens("logger", "fatal") /\ L[2] = Opens("context", "cannot")
      /\ L[3] = Opens("tracer", "warn") /\ L[4] = Opens("meter", "fatal")
      /\ \A i \in 1 .. Len(t) : L[4 + i] = t[i]
  <2>1. L = Observed \o t
    BY Zenon DEF SessionManagerMain
  <2> HIDE DEF L, t
  <2> QED
    BY Zenon, <1>1, <2>1, Prefixed
<1> HIDE DEF L
<1>4. /\ L[5] = Does("redis", "fatal") /\ L[6] = Opens("pool", "fatal") /\ L[7] = Does("tables", "fatal")
      /\ L[8] = Does("listener", "fatal") /\ L[9] = Goes("stopper") /\ L[10] = Goes("serve")
  BY <1>2, <1>3
<1>5. /\ Len(L) = 10 /\ L[1] = Opens("logger", "fatal") /\ L[2] = Opens("context", "cannot")
      /\ L[3] = Opens("tracer", "warn") /\ L[4] = Opens("meter", "fatal")
  BY <1>2, <1>3
<1> HIDE DEF t
<1>6. Shape("sessions", L)
  BY <1>4, <1>5 DEF Shape, Opens, Does, Goes, Needs, Servers, Consumers, Closable
<1> QED
  BY Zenon, <1>6 DEF L

\* The main of the crypto handler has the shape.
LEMMA CryptoHandlerShape == Shape("crypto", CryptoHandlerMain)
<1> DEFINE L == CryptoHandlerMain
           t == <<Does("keys", "fatal"), Does("listener", "fatal"), Goes("stopper"), Goes("serve")>>
<1>1. t \in Seq(MainStep)
  BY StepTypes DEF StepNames
<1>2. Len(t) = 4
  BY Zenon
<1>3. /\ Len(L) = 4 + Len(t) /\ L[1] = Opens("logger", "fatal") /\ L[2] = Opens("context", "cannot")
      /\ L[3] = Opens("tracer", "warn") /\ L[4] = Opens("meter", "fatal")
      /\ \A i \in 1 .. Len(t) : L[4 + i] = t[i]
  <2>1. L = Observed \o t
    BY Zenon DEF CryptoHandlerMain
  <2> HIDE DEF L, t
  <2> QED
    BY Zenon, <1>1, <2>1, Prefixed
<1> HIDE DEF L
<1>4. /\ L[5] = Does("keys", "fatal") /\ L[6] = Does("listener", "fatal") /\ L[7] = Goes("stopper")
      /\ L[8] = Goes("serve")
  BY <1>2, <1>3
<1>5. /\ Len(L) = 8 /\ L[1] = Opens("logger", "fatal") /\ L[2] = Opens("context", "cannot")
      /\ L[3] = Opens("tracer", "warn") /\ L[4] = Opens("meter", "fatal")
  BY <1>2, <1>3
<1> HIDE DEF t
<1>6. Shape("crypto", L)
  BY <1>4, <1>5 DEF Shape, Opens, Does, Goes, Needs, Servers, Consumers, Closable
<1> QED
  BY Zenon, <1>6 DEF L

\* The main of the media service has the shape.
LEMMA MediaServiceShape == Shape("media", MediaServiceMain)
<1> DEFINE L == MediaServiceMain
           t == <<Opens("pool", "fatal"), Does("tables", "fatal"), Does("bucket", "fatal"),
             Does("listener", "fatal"), Goes("stopper"), Goes("serve")>>
<1>1. t \in Seq(MainStep)
  BY StepTypes DEF StepNames
<1>2. Len(t) = 6
  BY Zenon
<1>3. /\ Len(L) = 4 + Len(t) /\ L[1] = Opens("logger", "fatal") /\ L[2] = Opens("context", "cannot")
      /\ L[3] = Opens("tracer", "warn") /\ L[4] = Opens("meter", "fatal")
      /\ \A i \in 1 .. Len(t) : L[4 + i] = t[i]
  <2>1. L = Observed \o t
    BY Zenon DEF MediaServiceMain
  <2> HIDE DEF L, t
  <2> QED
    BY Zenon, <1>1, <2>1, Prefixed
<1> HIDE DEF L
<1>4. /\ L[5] = Opens("pool", "fatal") /\ L[6] = Does("tables", "fatal") /\ L[7] = Does("bucket", "fatal")
      /\ L[8] = Does("listener", "fatal") /\ L[9] = Goes("stopper") /\ L[10] = Goes("serve")
  BY <1>2, <1>3
<1>5. /\ Len(L) = 10 /\ L[1] = Opens("logger", "fatal") /\ L[2] = Opens("context", "cannot")
      /\ L[3] = Opens("tracer", "warn") /\ L[4] = Opens("meter", "fatal")
  BY <1>2, <1>3
<1> HIDE DEF t
<1>6. Shape("media", L)
  BY <1>4, <1>5 DEF Shape, Opens, Does, Goes, Needs, Servers, Consumers, Closable
<1> QED
  BY Zenon, <1>6 DEF L

\* The main of the command service has the shape.
LEMMA CommandServiceShape == Shape("commands", CommandServiceMain)
<1> DEFINE L == CommandServiceMain
           t == <<Opens("pool", "fatal"), Does("tables", "fatal"), Opens("consumer", "fatal"),
             Goes("stopper"), Goes("run")>>
<1>1. t \in Seq(MainStep)
  BY StepTypes DEF StepNames
<1>2. Len(t) = 5
  BY Zenon
<1>3. /\ Len(L) = 4 + Len(t) /\ L[1] = Opens("logger", "fatal") /\ L[2] = Opens("context", "cannot")
      /\ L[3] = Opens("tracer", "warn") /\ L[4] = Opens("meter", "fatal")
      /\ \A i \in 1 .. Len(t) : L[4 + i] = t[i]
  <2>1. L = Observed \o t
    BY Zenon DEF CommandServiceMain
  <2> HIDE DEF L, t
  <2> QED
    BY Zenon, <1>1, <2>1, Prefixed
<1> HIDE DEF L
<1>4. /\ L[5] = Opens("pool", "fatal") /\ L[6] = Does("tables", "fatal") /\ L[7] = Opens("consumer", "fatal")
      /\ L[8] = Goes("stopper") /\ L[9] = Goes("run")
  BY <1>2, <1>3
<1>5. /\ Len(L) = 9 /\ L[1] = Opens("logger", "fatal") /\ L[2] = Opens("context", "cannot")
      /\ L[3] = Opens("tracer", "warn") /\ L[4] = Opens("meter", "fatal")
  BY <1>2, <1>3
<1> HIDE DEF t
<1>6. Shape("commands", L)
  BY <1>4, <1>5 DEF Shape, Opens, Does, Goes, Needs, Servers, Consumers, Closable
<1> QED
  BY Zenon, <1>6 DEF L

\* The main of the sync service has the shape.
LEMMA SyncServiceShape == Shape("sync", SyncServiceMain)
<1> DEFINE L == SyncServiceMain
           t == <<Opens("pool", "fatal"), Does("tables", "fatal"), Opens("consumer", "fatal"),
             Opens("admin", "fatal"), Does("topics", "warn"), Goes("stopper"), Goes("run")>>
<1>1. t \in Seq(MainStep)
  BY StepTypes DEF StepNames
<1>2. Len(t) = 7
  BY Zenon
<1>3. /\ Len(L) = 4 + Len(t) /\ L[1] = Opens("logger", "fatal") /\ L[2] = Opens("context", "cannot")
      /\ L[3] = Opens("tracer", "warn") /\ L[4] = Opens("meter", "fatal")
      /\ \A i \in 1 .. Len(t) : L[4 + i] = t[i]
  <2>1. L = Observed \o t
    BY Zenon DEF SyncServiceMain
  <2> HIDE DEF L, t
  <2> QED
    BY Zenon, <1>1, <2>1, Prefixed
<1> HIDE DEF L
<1>4. /\ L[5] = Opens("pool", "fatal") /\ L[6] = Does("tables", "fatal") /\ L[7] = Opens("consumer", "fatal")
      /\ L[8] = Opens("admin", "fatal") /\ L[9] = Does("topics", "warn") /\ L[10] = Goes("stopper")
      /\ L[11] = Goes("run")
  BY <1>2, <1>3
<1>5. /\ Len(L) = 11 /\ L[1] = Opens("logger", "fatal") /\ L[2] = Opens("context", "cannot")
      /\ L[3] = Opens("tracer", "warn") /\ L[4] = Opens("meter", "fatal")
  BY <1>2, <1>3
<1> HIDE DEF t
<1>6. Shape("sync", L)
  BY <1>4, <1>5 DEF Shape, Opens, Does, Goes, Needs, Servers, Consumers, Closable
<1> QED
  BY Zenon, <1>6 DEF L

\* The main of the gateway has the shape.
LEMMA GatewayShape == Shape("gateway", GatewayMain)
<1> DEFINE L == GatewayMain
           t == <<Does("metrics", "fatal"), Does("keys", "fatal"), Does("dispatcher", "warn"),
             Goes("listeners"), Goes("notify"), Goes("wait")>>
<1>1. t \in Seq(MainStep)
  BY StepTypes DEF StepNames
<1>2. Len(t) = 6
  BY Zenon
<1>3. /\ Len(L) = 4 + Len(t) /\ L[1] = Opens("logger", "fatal") /\ L[2] = Opens("context", "cannot")
      /\ L[3] = Opens("tracer", "warn") /\ L[4] = Opens("meter", "fatal")
      /\ \A i \in 1 .. Len(t) : L[4 + i] = t[i]
  <2>1. L = Observed \o t
    BY Zenon DEF GatewayMain
  <2> HIDE DEF L, t
  <2> QED
    BY Zenon, <1>1, <2>1, Prefixed
<1> HIDE DEF L
<1>4. /\ L[5] = Does("metrics", "fatal") /\ L[6] = Does("keys", "fatal") /\ L[7] = Does("dispatcher", "warn")
      /\ L[8] = Goes("listeners") /\ L[9] = Goes("notify") /\ L[10] = Goes("wait")
  BY <1>2, <1>3
<1>5. /\ Len(L) = 10 /\ L[1] = Opens("logger", "fatal") /\ L[2] = Opens("context", "cannot")
      /\ L[3] = Opens("tracer", "warn") /\ L[4] = Opens("meter", "fatal")
  BY <1>2, <1>3
<1> HIDE DEF t
<1>6. Shape("gateway", L)
  BY <1>4, <1>5 DEF Shape, Opens, Does, Goes, Needs, Servers, Consumers, Closable
<1> QED
  BY Zenon, <1>6 DEF L

\* Every main has the shape.
LEMMA MainShape ==
  ASSUME NEW p \in DOMAIN Main
  PROVE  Shape(p, Main[p])
BY DispatcherShape, SessionManagerShape, CryptoHandlerShape, MediaServiceShape, CommandServiceShape,
   SyncServiceShape, GatewayShape DEF Main

\* The programs that have a main.
LEMMA MainNames ==
  DOMAIN Main = Servers \cup Consumers \cup {"gateway"}
BY Zenon DEF Main, Servers, Consumers

\* The main of the process, by name: its steps do not change.
LEMMA TheMain ==
  ASSUME MainInv
  PROVE  /\ Len(Main[program]) \in Nat \ {0} /\ pc \in Nat \ {0}
         /\ Shape(program, Main[program])
         /\ At("serve") => pc = Len(Main[program]) /\ program \in Servers
         /\ At("run") => pc = Len(Main[program]) /\ program \in Consumers
         /\ At("wait") => pc = Len(Main[program]) /\ program = "gateway"
<1>1. program \in DOMAIN Main /\ pc \in Nat \ {0}
  BY Zenon DEF MainInv
<1>2. Shape(program, Main[program])
  BY Zenon, <1>1, MainShape
<1>3. Len(Main[program]) \in Nat \ {0}
  BY Zenon, <1>2 DEF Shape
<1>4. ASSUME NEW s \in {"serve", "run", "wait"}, At(s)
      PROVE  pc = Len(Main[program])
  BY <1>1, <1>2, <1>3, <1>4 DEF At, Here, Shape
<1>5. ASSUME NEW s \in {"serve", "run", "wait"}, At(s)
      PROVE  s = IF program \in Servers THEN "serve" ELSE IF program \in Consumers THEN "run" ELSE "wait"
  BY Zenon, <1>2, <1>4, <1>5 DEF At, Here, Shape
<1> QED
  BY Zenon, <1>1, <1>2, <1>3, <1>4, <1>5, MainNames

\* A step of main that does not block: the process serves nobody yet.
LEMMA StepKeeps ==
  ASSUME ProcessInv, Step
  PROVE  ProcessInv'
<1> DEFINE L == Main[program]
<1>1. /\ Len(L) \in Nat \ {0} /\ pc \in Nat \ {0} /\ Shape(program, L) /\ MainInv
  BY Zenon, TheMain DEF ProcessInv
<1>2. /\ pc <= Len(L) /\ L[pc].does \notin {"serve", "run", "wait"} /\ Alive
      /\ pc' = pc + 1 /\ up' = up \cup {L[pc].does}
      /\ defers' = (IF L[pc].deferred THEN Append(defers, L[pc].does) ELSE defers)
      /\ UNCHANGED <<program, closed, serving, call, ended>>
  BY Zenon DEF Step, Here
<1>3. pc \in 1 .. Len(L) - 1
  <2>1. pc # Len(L)
    BY Zenon, <1>1, <1>2 DEF Shape
  <2> QED
    BY <1>1, <1>2, <2>1
<1>4. closed = {} /\ ~ serving
  BY <1>1, <1>2, <1>3 DEF MainInv
<1>5. defers' \in Seq(Closable)
  <2>1. L[pc].deferred => L[pc].does \in Closable
    BY <1>1, <1>3 DEF Shape
  <2>2. defers \in Seq(Closable)
    BY Zenon, <1>1 DEF MainInv
  <2>3. \A x \in Closable : Append(defers, x) \in Seq(Closable)
    BY <2>2
  <2> QED
    BY Zenon, <1>2, <2>1, <2>2, <2>3
<1>6. ASSUME NEW i \in 1 .. Len(L) - 1, i < pc', L[i].onError # "warn" PROVE L[i].does \in up'
  <2>1. i < pc \/ i = pc
    BY <1>1, <1>2, <1>6
  <2> QED
    BY Zenon, <1>1, <1>2, <1>6, <2>1 DEF MainInv
<1>7. ASSUME NEW x \in up' PROVE \E i \in 1 .. Len(L) : i < pc' /\ L[i].does = x
  <2>1. CASE x \in up
    <3>1. PICK i \in 1 .. Len(L) : i < pc /\ L[i].does = x
      BY Zenon, <1>1, <2>1 DEF MainInv
    <3>2. i < pc'
      BY <1>1, <1>2, <3>1
    <3> QED
      BY Zenon, <3>1, <3>2
  <2>2. CASE x = L[pc].does
    BY <1>1, <1>2, <1>3, <2>2
  <2> QED
    BY Zenon, <1>2, <2>1, <2>2
<1>8. MainInv'
  <2>1. program' = program /\ ended' = "no" /\ pc' \in Nat \ {0} /\ closed' = {} /\ ~ serving'
    BY <1>1, <1>2, <1>4 DEF Alive
  <2>2. program \in DOMAIN Main
    BY Zenon, <1>1 DEF MainInv
  <2> HIDE DEF L
  <2>3. Main[program'] = L
    BY Zenon, <2>1 DEF L
  <2> QED
    BY Zenon, <1>5, <1>6, <1>7, <2>1, <2>2, <2>3 DEF MainInv
<1>9. CallsInv'
  <2>1. Running' = Running /\ up \subseteq up' /\ program' = program
    BY Zenon, <1>2 DEF Running
  <2>2. CASE program = "gateway"
    BY Zenon, <2>1, <2>2 DEF ProcessInv, CallsInv, Consumes, Servers
  <2>3. CASE program # "gateway"
    <3>1. Running = {}
      BY Zenon, <1>4, <2>3 DEF ProcessInv, CallsInv
    <3> QED
      BY Zenon, <2>1, <2>3, <3>1 DEF CallsInv
  <2> QED
    BY Zenon, <2>2, <2>3
<1> QED
  BY Zenon, <1>8, <1>9 DEF ProcessInv

\* Main stands where it is; the process may end.
LEMMA MainStands ==
  ASSUME MainInv, UNCHANGED <<program, pc, up, defers, closed>>,
         serving' => serving \/ (pc = Len(Main[program]) /\ program # "gateway"),
         ended' \in {"clean", "panic"} => ended' = ended \/ pc > Len(Main[program])
  PROVE  MainInv'
<1>1. Len(Main[program]) \in Nat /\ pc \in Nat
  BY Zenon, TheMain
<1>2. pc <= Len(Main[program]) => ended' \notin {"clean", "panic"}
  BY <1>1 DEF MainInv
<1>3. /\ program' = program /\ pc' = pc /\ up' = up /\ defers' = defers /\ closed' = closed
      /\ serving' => pc = Len(Main[program]) /\ program # "gateway"
  BY Zenon DEF MainInv
<1> QED
  BY Zenon, <1>2, <1>3 DEF MainInv

\* Main leaves its last step, or passes over one that failed.
LEMMA MainAdvances ==
  ASSUME MainInv, UNCHANGED <<program, up, defers, closed, ended>>, pc' = pc + 1, ~ serving', Alive,
         pc = Len(Main[program]) \/ (pc <= Len(Main[program]) /\ Main[program][pc].onError = "warn")
  PROVE  MainInv'
<1> DEFINE L == Main[program]
<1>1. Len(L) \in Nat /\ pc \in Nat /\ program \in DOMAIN Main /\ pc' \in Nat \ {0} /\ pc <= Len(L)
  BY TheMain DEF MainInv
<1>2. closed = {} /\ defers \in Seq(Closable) /\ ended = "no"
  BY Zenon, <1>1 DEF MainInv, Alive
<1>3. ASSUME NEW i \in 1 .. Len(L) - 1, i < pc', L[i].onError # "warn" PROVE L[i].does \in up
  <2>1. i < pc
    BY <1>1, <1>3
  <2> QED
    BY Zenon, <1>3, <2>1 DEF MainInv
<1>4. ASSUME NEW x \in up PROVE \E i \in 1 .. Len(L) : i < pc' /\ L[i].does = x
  <2>1. PICK i \in 1 .. Len(L) : i < pc /\ L[i].does = x
    BY Zenon DEF MainInv
  <2>2. i < pc'
    BY <1>1, <2>1
  <2> QED
    BY Zenon, <2>1, <2>2
<1> HIDE DEF L
<1>5. Main[program'] = L /\ program' = program /\ up' = up /\ closed' = closed /\ defers' = defers /\ ended' = ended
  BY Zenon DEF L
<1> QED
  BY Zenon, <1>1, <1>2, <1>3, <1>4, <1>5 DEF MainInv

\* A step that fails ends the process or is passed over.
LEMMA StepFailsKeeps ==
  ASSUME ProcessInv, StepFails
  PROVE  ProcessInv'
<1> DEFINE L == Main[program]
<1>1. /\ Len(L) \in Nat \ {0} /\ pc \in Nat \ {0} /\ Shape(program, L) /\ MainInv
  BY Zenon, TheMain DEF ProcessInv
<1>2. /\ Alive /\ pc <= Len(L) /\ L[pc].onError # "cannot"
      /\ UNCHANGED <<program, up, defers, closed, serving, stopper, call>>
      /\ (ended' = "fatal" /\ pc' = pc) \/ (L[pc].onError # "fatal" /\ pc' = pc + 1 /\ ended' = ended)
  BY Zenon DEF StepFails, Here
<1>3. pc # Len(L) /\ ~ serving
  BY Zenon, <1>1, <1>2 DEF Shape, MainInv
<1>4. L[pc].onError \in {"fatal", "warn", "cannot"}
  BY <1>1, <1>2 DEF Shape
<1>5. MainInv'
  <2>1. CASE ended' = "fatal" /\ pc' = pc
    BY Zenon, <1>1, <1>2, <2>1, MainStands
  <2>2. CASE L[pc].onError # "fatal" /\ pc' = pc + 1 /\ ended' = ended
    BY Zenon, <1>1, <1>2, <1>3, <1>4, <2>2, MainAdvances
  <2> QED
    BY Zenon, <1>2, <2>1, <2>2
<1>6. CallsInv'
  BY Zenon, <1>2 DEF ProcessInv, CallsInv, Running, Consumes
<1> QED
  BY Zenon, <1>5, <1>6 DEF ProcessInv

\* main serves or consumes once all that its calls need is there.
LEMMA ServeKeeps ==
  ASSUME ProcessInv, Serve \/ ServeFails \/ Run
  PROVE  ProcessInv'
<1>1. /\ UNCHANGED <<program, pc, up, defers, closed, stopper, call>>
      /\ ended' = ended \/ ended' = "fatal"
      /\ (serving' = serving \/ (serving' /\ (At("serve") \/ At("run"))))
  BY Zenon DEF Serve, ServeFails, Run
<1>2. MainInv'
  <2>1. At("serve") \/ At("run") => pc = Len(Main[program]) /\ program # "gateway"
    BY Zenon, TheMain DEF ProcessInv, Servers, Consumers
  <2> QED
    BY <1>1, <2>1, MainStands DEF ProcessInv
<1>3. CallsInv'
  BY <1>1 DEF ProcessInv, CallsInv, Running, Consumes
<1> QED
  BY Zenon, <1>2, <1>3 DEF ProcessInv

\* Serve and Run return when no call is running.
LEMMA ReturnKeeps ==
  ASSUME ProcessInv, ServeReturns \/ RunReturns \/ WaitReturns
  PROVE  ProcessInv'
<1>1. /\ UNCHANGED <<program, up, defers, closed, stopper, call, ended>>
      /\ pc' = pc + 1 /\ Alive /\ serving' \in {FALSE, serving}
  BY Zenon DEF ServeReturns, RunReturns, WaitReturns, Return, At
<1>2. pc = Len(Main[program])
  BY Zenon, TheMain DEF ProcessInv, ServeReturns, RunReturns, WaitReturns
<1>3. ~ serving' /\ (program # "gateway" => Running = {})
  <2>1. CASE ServeReturns
    <3>1. program \in Servers /\ stopper \in {"stopped", "over"} /\ ~ serving'
      BY Zenon, <2>1, TheMain DEF ProcessInv, ServeReturns, Return
    <3> QED
      BY Zenon, <3>1 DEF ProcessInv, CallsInv
  <2>2. CASE RunReturns
    <3>1. (Consumes => Running = {}) /\ ~ serving'
      BY Zenon, <2>2 DEF RunReturns, Return
    <3> QED
      BY Zenon, <3>1 DEF ProcessInv, CallsInv
  <2>3. CASE WaitReturns
    <3>1. program = "gateway" /\ serving' = serving
      BY Zenon, <2>3, TheMain DEF ProcessInv, WaitReturns
    <3> QED
      BY Zenon, <3>1 DEF ProcessInv, MainInv
  <2> QED
    BY Zenon, <2>1, <2>2, <2>3
<1>4. MainInv'
  BY Zenon, <1>1, <1>2, <1>3, MainAdvances DEF ProcessInv
<1>5. CallsInv'
  BY Zenon, <1>1, <1>3 DEF ProcessInv, CallsInv, Running, Consumes
<1> QED
  BY Zenon, <1>4, <1>5 DEF ProcessInv

\* A call comes in or is answered.
LEMMA CallKeeps ==
  ASSUME ProcessInv, NEW c \in Calls, Accept(c) \/ Answer(c)
  PROVE  ProcessInv'
<1>1. UNCHANGED <<program, pc, up, defers, closed, serving, stopper, ended>>
  BY Zenon DEF Accept, Answer
<1>2. MainInv'
  BY Zenon, <1>1, MainStands DEF ProcessInv
<1>3. CASE Answer(c)
  <2>1. Running' \subseteq Running
    <3>1. \A d \in Calls : call'[d] = "running" => call[d] = "running"
      BY <1>3 DEF Answer
    <3> QED
      BY Zenon, <3>1 DEF Running
  <2>2. Running' = {} \/ Running # {}
    BY Zenon, <2>1
  <2> QED
    BY Zenon, <1>1, <1>2, <2>1, <2>2 DEF ProcessInv, CallsInv, Consumes
<1>4. CASE Accept(c)
  <2>1. Accepts /\ program \in Servers \cup Consumers \cup {"gateway"}
    BY Zenon, <1>4, MainNames DEF Accept, ProcessInv, MainInv
  <2>2. CASE program = "gateway"
    <3>1. "listeners" \in up
      BY Zenon, <2>1, <2>2 DEF Accepts
    <3> QED
      BY Zenon, <1>1, <1>2, <2>2, <3>1 DEF ProcessInv, CallsInv, Servers, Consumes
  <2>3. CASE program \in Consumers
    <3>1. serving /\ Consumes
      BY Zenon, <2>1, <2>3 DEF Accepts, Consumers
    <3> QED
      BY Zenon, <1>1, <1>2, <2>3, <3>1 DEF ProcessInv, CallsInv, Servers, Consumers, Consumes
  <2>4. CASE program \in Servers
    <3>1. serving /\ stopper \in {"off", "started", "watching"}
      BY Zenon, <2>1, <2>4 DEF Accepts, Servers
    <3> QED
      BY Zenon, <1>1, <1>2, <2>4, <3>1 DEF ProcessInv, CallsInv, Servers, Consumes
  <2> QED
    BY Zenon, <2>1, <2>2, <2>3, <2>4
<1> QED
  BY Zenon, <1>3, <1>4

\* The signal, and the goroutine that waits for it.
LEMMA StopperKeeps ==
  ASSUME ProcessInv, Signal \/ Watch \/ Cancels \/ GracefulStop \/ Stopped \/ CancelsLast
  PROVE  ProcessInv'
<1>1. /\ UNCHANGED <<program, pc, up, defers, closed, serving, call>>
      /\ ended' = ended \/ ended' = "killed"
  BY Zenon DEF Signal, Watch, Cancels, GracefulStop, Stopped, CancelsLast, Stopper
<1>2. MainInv'
  BY Zenon, <1>1, MainStands DEF ProcessInv
<1>3. program \in Servers /\ stopper' \in {"stopped", "over"} => Running = {}
  BY Zenon DEF ProcessInv, CallsInv, Signal, Watch, Cancels, GracefulStop, Stopped, CancelsLast, Stopper, Servers
<1>4. CallsInv'
  BY Zenon, <1>1, <1>3 DEF ProcessInv, CallsInv, Running, Consumes
<1> QED
  BY Zenon, <1>2, <1>4 DEF ProcessInv

\* The deferred calls, when main has returned.
LEMMA CloseKeeps ==
  ASSUME ProcessInv, CloseDeferred
  PROVE  ProcessInv'
<1> DEFINE r == defers[Len(defers)]
<1>1. /\ pc > Len(Main[program]) /\ defers # <<>> /\ closed' = closed \cup {r}
      /\ defers' = SubSeq(defers, 1, Len(defers) - 1)
      /\ UNCHANGED <<program, pc, up, serving, stopper, call, ended>>
  BY Zenon DEF CloseDeferred, Returned
<1>2. defers \in Seq(Closable) /\ closed \subseteq Closable /\ program \in DOMAIN Main
      /\ Len(Main[program]) \in Nat /\ pc \in Nat \ {0}
  BY Zenon, TheMain DEF ProcessInv, MainInv
<1>3. Len(defers) \in Nat \ {0}
  BY <1>1, <1>2
<1>4. r \in Closable
  BY <1>2, <1>3
<1>5. defers' \in Seq(Closable)
  <2>1. \A i \in 1 .. Len(defers) - 1 : defers[i] \in Closable
    BY <1>2, <1>3
  <2> QED
    BY <1>1, <1>2, <1>3, <2>1
<1> HIDE DEF r
<1>6. ~ (pc <= Len(Main[program])) /\ ~ serving
  BY <1>1, <1>2 DEF ProcessInv, MainInv
<1>7. MainInv'
  BY Zenon, <1>1, <1>2, <1>4, <1>5, <1>6 DEF ProcessInv, MainInv
<1>8. CallsInv'
  BY Zenon, <1>1 DEF ProcessInv, CallsInv, Running, Consumes
<1> QED
  BY Zenon, <1>7, <1>8 DEF ProcessInv

\* The end of main, and the relay.
LEMMA RelayKeeps ==
  ASSUME ProcessInv, Exit \/ Tick \/ Fetched \/ Sent \/ RelayStops
  PROVE  ProcessInv'
<1>1. /\ UNCHANGED <<program, pc, up, defers, closed, serving, stopper, call>>
      /\ \/ ended' = ended \/ ended' = "no"
         \/ ended' = "clean" /\ pc > Len(Main[program])
         \/ ended' = "panic" /\ "producer" \in closed
  BY Zenon DEF Exit, Tick, Fetched, Sent, RelayStops, Relay, Returned
<1>2. "producer" \in closed => pc > Len(Main[program])
  BY TheMain DEF ProcessInv, MainInv
<1>3. MainInv'
  BY Zenon, <1>1, <1>2, MainStands DEF ProcessInv
<1>4. CallsInv'
  BY Zenon, <1>1 DEF ProcessInv, CallsInv, Running, Consumes
<1> QED
  BY Zenon, <1>3, <1>4 DEF ProcessInv

\* Every step of a process keeps the invariant.
LEMMA ProcessStep ==
  ASSUME ProcessInv, [ProcessNext]_process
  PROVE  ProcessInv'
<1>1. CASE UNCHANGED process
  <2>1. MainInv'
    BY Zenon, <1>1, MainStands DEF process, ProcessInv
  <2> QED
    BY Zenon, <1>1, <2>1 DEF process, ProcessInv, CallsInv, Running, Consumes
<1> QED
  BY Zenon, <1>1, StepKeeps, StepFailsKeeps, ServeKeeps, ReturnKeeps, CallKeeps, StopperKeeps, CloseKeeps, RelayKeeps
     DEF ProcessNext

\* A process begins with nothing open and no call.
LEMMA ProcessStarts == ProcessInit => ProcessInv
<1> SUFFICES ASSUME ProcessInit PROVE ProcessInv
  BY Zenon
<1>1. /\ program \in DOMAIN Main /\ pc = 1 /\ up = {} /\ defers = <<>> /\ closed = {} /\ ~ serving
      /\ ended = "no" /\ Running = {}
  BY Zenon DEF ProcessInit, Running
<1>2. Len(Main[program]) \in Nat
  BY Zenon, <1>1, MainShape DEF Shape
<1>3. MainInv
  BY <1>1, <1>2 DEF MainInv
<1> QED
  BY Zenon, <1>1, <1>3 DEF ProcessInv, CallsInv

\* While a call is in flight the pool, the tables, the keys and whatever else
\* its handler uses have been opened by main and not been closed, whenever the
\* signal comes; a process that runs to the end of main, or that the relay's
\* panic ends on the way, leaves no call unanswered, except in the gateway.
THEOREM ProcessUsedWhileOpen == ProcessSpec => []UsedWhileOpen
<1>1. ASSUME ProcessInv, Running # {}
      PROVE  /\ Alive => Needs[program] \subseteq up /\ Needs[program] \cap closed = {}
             /\ ended \in {"clean", "panic"} => program = "gateway"
  <2> DEFINE L == Main[program]
  <2>1. Len(L) \in Nat \ {0} /\ pc \in Nat \ {0} /\ Shape(program, L)
    BY Zenon, <1>1, TheMain DEF ProcessInv
  <2>2. CASE program = "gateway"
    <3>1. PICK i \in 1 .. Len(L) : i < pc /\ L[i].does = "listeners"
      BY Zenon, <1>1, <2>2 DEF ProcessInv, CallsInv, MainInv
    <3>2. PICK j \in 1 .. i - 1 : L[j].does = "keys" /\ L[j].onError # "warn"
      BY Zenon, <2>1, <2>2, <3>1 DEF Shape
    <3>3. j \in 1 .. Len(L) - 1 /\ j < pc
      BY <2>1, <3>1, <3>2
    <3>4. "keys" \in up
      BY Zenon, <1>1, <3>2, <3>3 DEF ProcessInv, MainInv
    <3>5. "keys" \notin closed
      BY Zenon, <1>1 DEF ProcessInv, MainInv, Closable
    <3> QED
      BY Zenon, <2>2, <3>4, <3>5 DEF Needs
  <2>3. CASE program # "gateway"
    <3>1. serving /\ pc = Len(L) /\ closed = {} /\ ended \notin {"clean", "panic"}
      BY <1>1, <2>1, <2>3 DEF ProcessInv, CallsInv, MainInv
    <3>2. ASSUME NEW x \in Needs[program] PROVE x \in up
      <4>1. PICK j \in 1 .. Len(L) - 1 : L[j].does = x /\ L[j].onError # "warn"
        BY Zenon, <2>1, <2>3 DEF Shape
      <4>2. j < pc
        BY <2>1, <3>1, <4>1
      <4> QED
        BY Zenon, <1>1, <4>1, <4>2 DEF ProcessInv, MainInv
    <3> QED
      BY Zenon, <3>1, <3>2
  <2> QED
    BY Zenon, <2>2, <2>3
<1>2. ProcessInv => UsedWhileOpen
  BY Zenon, <1>1 DEF UsedWhileOpen
<1> QED
  BY <1>2, ProcessStarts, ProcessStep, PTL DEF ProcessSpec

-----------------------------------------------------------------------------
(***************************************************************************)
(* The ports of the session machine.                                       *)
(***************************************************************************)
Statuses == {"connecting", "active", "sleeping", "expired"}

\* A destroyed session is "" to the Go machine and "expired" to the others.
PortsInv ==
  /\ ported \in [Ports -> Statuses \cup {""}]
  /\ \/ \A p \in Ports : ported[p] = ported["go"] /\ ported[p] # ""
     \/ ported["go"] = "" /\ \A p \in Ports \ {"go"} : ported[p] = "expired"
  /\ PortsAgree

\* The fields of an inbox entry.
LEMMA EntryFields ==
  ASSUME NEW a, NEW b, NEW n, NEW d, NEW r, r = Entry(a, b, n, d)
  PROVE  r.to = To(n, d) /\ r.key[1] = a /\ r.key[2] = b
BY Zenon DEF Entry

\* The map of a port has the cases of the Rust function.
LEMMA TableIsRust ==
  ASSUME NEW c \in Statuses, NEW e \in Events
  PROVE  Lookup(PythonTransitions, c, e) = RustTransition(c, e)
<1> DEFINE T == PythonTransitions
<1>1. ASSUME NEW r \in T, r.key = <<c, e>> PROVE r.to = RustTransition(c, e)
  <2>1. \/ r = Entry("connecting", "HandshakeOK", "active", FALSE)
        \/ r = Entry("connecting", "HandshakeFail", "expired", TRUE)
        \/ r = Entry("active", "PacketReceived", "active", FALSE)
        \/ r = Entry("active", "IdleTimeout", "sleeping", FALSE)
        \/ r = Entry("active", "ExplicitLogout", "expired", FALSE)
        \/ r = Entry("sleeping", "PacketReceived", "active", FALSE)
        \/ r = Entry("sleeping", "ExpiryTimeout", "expired", FALSE)
    BY Zenon DEF PythonTransitions
  <2>2. \/ c = "connecting" /\ e = "HandshakeOK" /\ r.to = To("active", FALSE)
        \/ c = "connecting" /\ e = "HandshakeFail" /\ r.to = To("expired", TRUE)
        \/ c = "active" /\ e = "PacketReceived" /\ r.to = To("active", FALSE)
        \/ c = "active" /\ e = "IdleTimeout" /\ r.to = To("sleeping", FALSE)
        \/ c = "active" /\ e = "ExplicitLogout" /\ r.to = To("expired", FALSE)
        \/ c = "sleeping" /\ e = "PacketReceived" /\ r.to = To("active", FALSE)
        \/ c = "sleeping" /\ e = "ExpiryTimeout" /\ r.to = To("expired", FALSE)
    <3>1. c = r.key[1] /\ e = r.key[2]
      BY <1>1
    <3>2. \A a, b, n, d : r = Entry(a, b, n, d) => r.to = To(n, d) /\ r.key[1] = a /\ r.key[2] = b
      BY EntryFields
    <3> QED
      BY ZenonT(60), <2>1, <3>1, <3>2
  <2> QED
    BY Zenon, <2>2 DEF RustTransition
<1>2. CASE \E r \in T : r.key = <<c, e>>
  <2>1. (CHOOSE r \in T : r.key = <<c, e>>).to = RustTransition(c, e)
    <3> HIDE DEF T
    <3> QED
      BY Zenon, <1>1, <1>2
  <2> QED
    BY Zenon, <1>2, <2>1 DEF Lookup
<1>3. CASE ~ \E r \in T : r.key = <<c, e>>
  <2>1. /\ <<c, e>> # <<"connecting", "HandshakeOK">> /\ <<c, e>> # <<"connecting", "HandshakeFail">>
        /\ <<c, e>> # <<"active", "PacketReceived">> /\ <<c, e>> # <<"active", "IdleTimeout">>
        /\ <<c, e>> # <<"active", "ExplicitLogout">>
        /\ <<c, e>> # <<"sleeping", "PacketReceived">> /\ <<c, e>> # <<"sleeping", "ExpiryTimeout">>
    BY Zenon, <1>3 DEF PythonTransitions, Entry
  <2>2. RustTransition(c, e) = InvalidTransition
    BY Zenon, <2>1 DEF RustTransition
  <2> QED
    BY Zenon, <1>3, <2>2 DEF Lookup
<1> QED
  BY Zenon, <1>2, <1>3

\* Go and Rust give the same, but for the status of a destroyed session.
LEMMA GoIsRust ==
  ASSUME NEW c \in Statuses, NEW e \in Events
  PROVE  LET g == GoTransition(c, e)
             r == RustTransition(c, e)
         IN  /\ g.error = r.error /\ g.destroyed = r.destroyed
             /\ r.error \/ (g.next = r.next /\ g.next \in Statuses) \/ (g.next = "" /\ r.next = "expired")
BY Zenon DEF GoTransition, RustTransition, To, InvalidTransition, Statuses, Events

\* A session that is over takes no event.
LEMMA OverTakesNothing ==
  ASSUME NEW e \in Events
  PROVE  /\ RustTransition("expired", e) = InvalidTransition
         /\ GoTransition("", e) = InvalidTransition
BY Zenon DEF GoTransition, RustTransition

\* Every port but the Go machine does what the Rust function does.
LEMMA PortIsRust ==
  ASSUME NEW p \in Ports \ {"go"}, NEW c \in Statuses, NEW e \in Events
  PROVE  PortTransition(p, c, e) = RustTransition(c, e)
<1>1. /\ NodeTransitions = PythonTransitions /\ JavaTransitions = PythonTransitions
      /\ DotnetTransitions = PythonTransitions /\ PhpTransitions = PythonTransitions
  BY Zenon DEF PythonTransitions, NodeTransitions, JavaTransitions, DotnetTransitions, PhpTransitions
<1> QED
  BY Zenon, <1>1, TableIsRust DEF PortTransition, Ports

\* The ports of the session machine refuse the same events, destroy a session
\* at the same time and give it the same status until then, whatever the
\* sequence of events.
THEOREM PortsAlwaysAgree == PortsSpec => []PortsAgree
<1>1. StartersInit => PortsInv
  BY DEF StartersInit, PortsInv, PortsAgree, Ports, Statuses, To
<1>2. ASSUME PortsInv, [PortsNext]_starters PROVE PortsInv'
  <2>1. CASE UNCHANGED starters
    BY Zenon, <1>2, <2>1 DEF starters, sessions, PortsInv, PortsAgree
  <2>2. ASSUME NEW e \in Events, PortsStep(e) PROVE PortsInv'
    <3>1. ASSUME NEW p \in Ports
          PROVE  /\ result'[p] = PortTransition(p, ported[p], e)
                 /\ ported'[p] = IF result'[p].error THEN ported[p] ELSE result'[p].next
      BY Zenon, <2>2 DEF PortsStep
    <3>2. "go" \in Ports /\ result'["go"] = GoTransition(ported["go"], e)
      BY Zenon, <3>1 DEF Ports, PortTransition
    <3>3. CASE \A p \in Ports : ported[p] = ported["go"] /\ ported[p] # ""
      <4> DEFINE c == ported["go"]
      <4>1. c \in Statuses
        BY Zenon, <1>2, <3>2, <3>3 DEF PortsInv
      <4>2. \A p \in Ports \ {"go"} : result'[p] = RustTransition(c, e)
        BY ZenonT(60), <3>1, <3>3, <4>1, PortIsRust
      <4>3. result'["go"] = GoTransition(c, e)
        BY Zenon, <3>2
      <4>4. LET g == GoTransition(c, e)
                x == RustTransition(c, e)
            IN  /\ g.error = x.error /\ g.destroyed = x.destroyed
                /\ x.error \/ (g.next = x.next /\ g.next \in Statuses) \/ (g.next = "" /\ x.next = "expired")
        BY Zenon, <4>1, GoIsRust
      <4>5. \A p \in Ports : /\ result'[p].error = result'["go"].error
                             /\ result'[p].destroyed = result'["go"].destroyed
        BY Zenon, <4>2, <4>3, <4>4
      <4>6. CASE result'["go"].error
        <5>1. \A p \in Ports : ported'[p] = c
          BY Zenon, <3>1, <3>2, <3>3, <4>5, <4>6
        <5> HIDE DEF c
        <5> QED
          BY ZenonT(60), <2>2, <3>2, <4>1, <4>5, <5>1 DEF PortsInv, PortsAgree, PortsStep, Statuses
      <4>7. CASE ~ result'["go"].error
        <5>1. \A p \in Ports : ported'[p] = result'[p].next
          BY Zenon, <3>1, <4>5, <4>7
        <5>2. \/ \A p \in Ports : ported'[p] = ported'["go"] /\ ported'[p] \in Statuses
              \/ ported'["go"] = "" /\ \A p \in Ports \ {"go"} : ported'[p] = "expired"
          BY Zenon, <3>2, <4>2, <4>3, <4>4, <4>5, <4>7, <5>1
        <5> QED
          BY ZenonT(60), <2>2, <3>2, <4>5, <5>2 DEF PortsInv, PortsAgree, PortsStep, Statuses
      <4> QED
        BY Zenon, <4>6, <4>7
    <3>4. CASE ported["go"] = "" /\ \A p \in Ports \ {"go"} : ported[p] = "expired"
      <4>1. \A p \in Ports : result'[p] = InvalidTransition
        <5>1. "expired" \in Statuses
          BY Zenon DEF Statuses
        <5>2. \A p \in Ports \ {"go"} : result'[p] = InvalidTransition
          BY ZenonT(60), <3>1, <3>4, <5>1, PortIsRust, OverTakesNothing
        <5>3. result'["go"] = InvalidTransition
          BY Zenon, <3>2, <3>4, OverTakesNothing
        <5> QED
          BY Zenon, <5>2, <5>3
      <4>2. \A p \in Ports : ported'[p] = ported[p] /\ result'[p].error = result'["go"].error
                             /\ result'[p].destroyed = result'["go"].destroyed
        <5>1. InvalidTransition.error
          BY Zenon DEF InvalidTransition
        <5> QED
          BY Zenon, <3>1, <3>2, <4>1, <5>1
      <4> QED
        <5>1. ported' \in [Ports -> Statuses \cup {""}]
          BY Zenon, <1>2, <2>2, <4>2 DEF PortsInv, PortsStep
        <5> QED
          BY Zenon, <3>2, <3>4, <4>2, <5>1 DEF PortsInv, PortsAgree
    <3> QED
      BY Zenon, <1>2, <3>3, <3>4 DEF PortsInv
  <2> QED
    BY Zenon, <1>2, <2>1, <2>2 DEF PortsNext
<1>3. PortsInv => PortsAgree
  BY Zenon DEF PortsInv
<1> QED
  BY <1>1, <1>2, <1>3, PTL DEF PortsSpec

-----------------------------------------------------------------------------
(***************************************************************************)
(* Routing.                                                                *)
(***************************************************************************)
\* Only a message with a route leaves the dispatcher, and the row is made of it.
RoutingInv ==
  /\ msg \in AppMessages
  /\ stage \in {"new", "refused", "queued", "skipped", "rejected", "stored"}
  /\ stage = "queued" => RouteMessage(msg) # NoRoute
  /\ RowMatchesMessage

\* The routes of the chat messages, the only ones with a sender in the row.
LEMMA ChatRoute ==
  ASSUME NEW m \in AppMessages, IsChat(m)
  PROVE  RouteMessage(m) =
           IF m.group # NoId THEN Route(Topic("group-", m.group), <<"group_id", m.group>>)
           ELSE IF m.recipient # NoId THEN Route(Topic("user-", m.recipient), <<"recipient_id", m.recipient>>)
           ELSE NoRoute
BY Zenon DEF RouteMessage, routeChat, IsChat, AppMessages

\* The fields of a route.
LEMMA RouteFields ==
  /\ \A t, k : Route(t, k).topic = t /\ Route(t, k).key = k
  /\ \A x, i : Topic(x, i)[1] = x /\ Topic(x, i)[2] = i
BY Zenon DEF Route, Topic

\* The sync handler stores a row for the message.
LEMMA StoreKeeps ==
  ASSUME msg \in AppMessages, RouteMessage(msg) # NoRoute, Store
  PROVE  RowMatchesMessage'
<1>1. /\ IsChat(msg) /\ msg.sender # NoId /\ msg' = msg /\ stage' = "stored"
      /\ extractRecipientID(msg, topic) # NoId
      /\ row' = [user |-> extractRecipientID(msg, topic),
                 conversation |-> extractConversationID(msg, topic), sender |-> msg.sender]
  BY Zenon DEF Store, Move, extractSenderID
<1>2. /\ msg.group # NoId => topic = Topic("group-", msg.group)
      /\ msg.group = NoId => topic = Topic("user-", msg.recipient)
  <2>1. /\ msg.group # NoId =>
             RouteMessage(msg) = Route(Topic("group-", msg.group), <<"group_id", msg.group>>)
        /\ msg.group = NoId =>
             RouteMessage(msg) = Route(Topic("user-", msg.recipient), <<"recipient_id", msg.recipient>>)
    BY Zenon, <1>1, ChatRoute
  <2> QED
    BY <2>1 DEF topic, Route
<1>3. extractRecipientID(msg, topic) = msg.recipient
  BY <1>1, <1>2, RouteFields DEF extractRecipientID
<1>4. extractConversationID(msg, topic) = topic[2]
  BY <1>1, <1>2, RouteFields DEF extractConversationID
<1>5. topic' = topic
  BY Zenon, <1>1 DEF topic
<1> QED
  BY Zenon, <1>1, <1>2, <1>3, <1>4, <1>5 DEF RowMatchesMessage

\* A row goes into the inbox of the recipient the sender named, under the
\* conversation both sides know, whichever of the topics RouteMessage has
\* chosen; nothing on its way refuses, skips or rejects a direct chat message.
THEOREM RoutingRowMatchesMessage == RoutingSpec => []RowMatchesMessage
<1>1. RoutingInit => RoutingInv
  BY Zenon DEF RoutingInit, RoutingInv, RowMatchesMessage
<1>2. ASSUME RoutingInv, [RoutingNext]_message PROVE RoutingInv'
  <2> DEFINE direct == IsChat(msg) /\ msg.sender # NoId /\ msg.recipient # NoId /\ msg.group = NoId
  <2>1. ASSUME direct
        PROVE  /\ RouteMessage(msg) # NoRoute /\ extractRecipientID(msg, topic) # NoId
               /\ extractSenderID(msg) # NoId
    <3>1. RouteMessage(msg) # NoRoute
      <4>1. RouteMessage(msg) = Route(Topic("user-", msg.recipient), <<"recipient_id", msg.recipient>>)
        BY Zenon, <1>2, <2>1, ChatRoute DEF RoutingInv
      <4> QED
        BY <4>1 DEF Route, Topic, NoRoute, Static
    <3> QED
      BY Zenon, <2>1, <3>1 DEF extractRecipientID, extractSenderID
  <2>2. CASE UNCHANGED message
    BY Zenon, <1>2, <2>2 DEF message, RoutingInv, RowMatchesMessage, topic
  <2>3. CASE Refuse \/ Enqueue \/ Skip \/ Reject
    <3>1. /\ msg' = msg /\ stage' \in {"refused", "queued", "skipped", "rejected"}
          /\ (stage' = "queued" => RouteMessage(msg) # NoRoute) /\ (direct => stage' = "queued")
      BY Zenon, <2>1, <2>3 DEF Refuse, Enqueue, Skip, Reject, Move
    <3> QED
      BY Zenon, <1>2, <3>1 DEF RoutingInv, RowMatchesMessage
  <2>4. CASE Store
    <3>1. RowMatchesMessage' /\ msg' = msg /\ stage' = "stored"
      BY Zenon, <1>2, <2>4, StoreKeeps DEF RoutingInv, Store, Move
    <3> QED
      BY Zenon, <1>2, <3>1 DEF RoutingInv
  <2> QED
    BY Zenon, <1>2, <2>2, <2>3, <2>4 DEF RoutingNext
<1>3. RoutingInv => RowMatchesMessage
  BY Zenon DEF RoutingInv
<1> QED
  BY <1>1, <1>2, <1>3, PTL DEF RoutingSpec

\* All chat messages of one conversation that RouteMessage accepts have the
\* same topic and the same partition key.
THEOREM RoutingConversationInOnePartition == RoutingSpec => []ConversationInOnePartition
<1>1. RoutingInit => msg \in AppMessages
  BY Zenon DEF RoutingInit
<1>2. msg \in AppMessages /\ [RoutingNext]_message => (msg \in AppMessages)'
  BY Zenon DEF RoutingNext, Refuse, Enqueue, Skip, Reject, Store, Move, message
<1>3. ASSUME NEW n \in AppMessages, NEW m \in AppMessages, IsChat(n), IsChat(m),
             RouteMessage(n) # NoRoute, RouteMessage(m) # NoRoute,
             extractConversationID(m, RouteMessage(m).topic) = extractConversationID(n, RouteMessage(n).topic)
      PROVE  RouteMessage(m) = RouteMessage(n)
  <2>1. /\ m.group \in Groups \cup {NoId} /\ n.group \in Groups \cup {NoId}
        /\ m.recipient \in Users \cup {NoId} /\ n.recipient \in Users \cup {NoId}
    BY Zenon DEF AppMessages
  <2>2. (IF m.group # NoId THEN m.group ELSE m.recipient) = (IF n.group # NoId THEN n.group ELSE n.recipient)
    BY Zenon, <1>3 DEF extractConversationID
  <2>3. (m.group = NoId => m.recipient # NoId) /\ (n.group = NoId => n.recipient # NoId)
    BY Zenon, <1>3, ChatRoute
  <2>4. m.group = n.group /\ (m.group = NoId => m.recipient = n.recipient)
    BY Zenon, <2>1, <2>2, <2>3, RouterAssumption
  <2> QED
    BY Zenon, <1>3, <2>4, ChatRoute
<1>4. msg \in AppMessages => ConversationInOnePartition
  BY Zenon, <1>3 DEF ConversationInOnePartition
<1> QED
  BY <1>1, <1>2, <1>4, PTL DEF RoutingSpec

-----------------------------------------------------------------------------
(***************************************************************************)
(* The connection pool.                                                    *)
(***************************************************************************)
INSTANCE FiniteSetTheorems

\* Entry i does not come after entry j.
NotBetter(i, j) ==
  \/ seqOf[i] < seqOf[j]
  \/ seqOf[i] = seqOf[j] /\ transportPriority[TypeOf[i]] <= transportPriority[TypeOf[j]]

\* While Best ranges over the map, its choice is as good as all it has
\* visited; before it has visited one it has all of the map to visit.
BestSoFar ==
  /\ best # NoConn => \A i \in conns \ rest : NotBetter(i, best)
  /\ best = NoConn => rest \in {{}, conns}

PoolInv == PoolTypeOK /\ PoolBounded /\ BestSoFar

-----------------------------------------------------------------------------
\* Packet numbers and priorities can be compared.
LEMMA Comparable ==
  ASSUME PoolTypeOK, NEW i \in Ids
  PROVE  seqOf[i] \in Nat /\ transportPriority[TypeOf[i]] \in Nat
<1>1. seqOf[i] \in 0 .. MaxSeq /\ MaxSeq \in Nat
  BY Zenon, PoolAssumption DEF PoolTypeOK
<1>2. TypeOf[i] \in Types
  BY Zenon, PoolAssumption
<1>3. transportPriority[TypeOf[i]] \in {1, 2, 3}
  BY Zenon, <1>2 DEF transportPriority, Types
<1> QED
  BY <1>1, <1>3

\* One of two entries is better, or the first is not.
LEMMA BetterOrNot ==
  ASSUME PoolTypeOK, NEW i \in Ids, NEW j \in Ids
  PROVE  Better(i, j) \/ NotBetter(i, j)
BY Comparable DEF Better, NotBetter

\* What is better than the choice is as good as all the choice is as good as.
LEMMA BetterThanAll ==
  ASSUME PoolTypeOK, NEW i \in Ids, NEW j \in Ids, NEW k \in Ids,
         Better(i, j), NotBetter(k, j)
  PROVE  NotBetter(k, i)
BY Comparable DEF Better, NotBetter

\* A new pool.
LEMMA PoolStarts == PoolInit => PoolInv
<1> SUFFICES ASSUME PoolInit PROVE PoolInv
  BY Zenon
<1>1. PoolTypeOK
  BY PoolAssumption, FS_EmptySet DEF PoolInit, PoolTypeOK
<1>2. PoolBounded
  BY PoolAssumption, FS_EmptySet DEF PoolInit, PoolBounded, maxConns, DefaultMaxConns
<1> QED
  BY Zenon, <1>1, <1>2 DEF PoolInit, PoolInv, BestSoFar

\* Add.
LEMMA AddKeeps == ASSUME PoolInv, NEW i \in Ids, Add(i) PROVE PoolInv'
<1>1. rest = {} /\ best = NoConn /\ rest' = {} /\ best' = NoConn
  BY Zenon DEF Add, Ranging
<1>2. IsFiniteSet(conns) /\ conns \subseteq Ids /\ conns' = conns \cup {i}
  BY Zenon DEF PoolInv, PoolTypeOK, Add
<1>3. IsFiniteSet(conns') /\ Cardinality(conns') \in {Cardinality(conns), Cardinality(conns) + 1}
  BY Zenon, <1>2, FS_AddElement
<1>4. PoolTypeOK'
  BY <1>1, <1>2, <1>3, PoolAssumption DEF PoolInv, PoolTypeOK, Add
<1>5. PoolBounded'
  <2>1. Cardinality(conns) \in Nat /\ Cardinality(conns) < maxConns
    BY Zenon, <1>2, FS_CardinalityType DEF Add
  <2>2. maxConns \in Nat /\ maxConns' = maxConns
    BY Zenon, PoolAssumption DEF maxConns, DefaultMaxConns
  <2> QED
    BY <1>3, <2>1, <2>2 DEF PoolBounded
<1> QED
  BY Zenon, <1>1, <1>4, <1>5 DEF PoolInv, BestSoFar

\* Remove.
LEMMA RemoveKeeps == ASSUME PoolInv, NEW i \in Ids, Remove(i) PROVE PoolInv'
<1>1. rest = {} /\ best = NoConn /\ rest' = {} /\ best' = NoConn
  BY Zenon DEF Remove, Ranging
<1>2. IsFiniteSet(conns) /\ conns \subseteq Ids /\ conns' = conns \ {i}
  BY Zenon DEF PoolInv, PoolTypeOK, Remove
<1>3. IsFiniteSet(conns') /\ Cardinality(conns') \in Nat /\ Cardinality(conns') <= Cardinality(conns)
  BY Zenon, <1>2, FS_Subset, FS_CardinalityType, conns' \subseteq conns
<1>4. PoolTypeOK'
  BY Zenon, <1>1, <1>2, <1>3 DEF PoolInv, PoolTypeOK, Remove
<1>5. PoolBounded'
  <2>1. Cardinality(conns) \in Nat /\ Cardinality(conns) <= maxConns
    BY Zenon, <1>2, FS_CardinalityType DEF PoolInv, PoolBounded
  <2>2. maxConns \in Nat
    BY Zenon, PoolAssumption DEF maxConns, DefaultMaxConns
  <2> QED
    BY <1>3, <2>1, <2>2 DEF PoolBounded
<1> QED
  BY Zenon, <1>1, <1>4, <1>5 DEF PoolInv, BestSoFar

\* UpdateSeq, which the lock keeps apart from Best.
LEMMA UpdateSeqKeeps ==
  ASSUME PoolInv, NEW i \in Ids, NEW n \in 0 .. MaxSeq, UpdateSeq(i, n)
  PROVE  PoolInv'
<1>1. rest = {} /\ best = NoConn /\ rest' = {} /\ best' = NoConn
  BY Zenon DEF UpdateSeq, Ranging
<1>2. PoolTypeOK'
  BY Zenon, <1>1 DEF PoolInv, PoolTypeOK, UpdateSeq
<1>3. PoolBounded'
  BY Zenon DEF PoolInv, PoolBounded, UpdateSeq
<1> QED
  BY Zenon, <1>1, <1>2, <1>3 DEF PoolInv, BestSoFar

\* Best takes the lock, and returns.
LEMMA BestStartsKeeps == ASSUME PoolInv, BestStarts PROVE PoolInv'
BY Zenon DEF PoolInv, PoolTypeOK, PoolBounded, BestSoFar, BestStarts, Ranging

\* Best returns what it has chosen after its last visit.
LEMMA BestReturnsKeeps == ASSUME PoolInv, BestReturns PROVE PoolInv'
BY Zenon DEF PoolInv, PoolTypeOK, PoolBounded, BestSoFar, BestReturns

\* Best visits an entry.
LEMMA BestVisitsKeeps == ASSUME PoolInv, NEW i \in Ids, BestVisits(i) PROVE PoolInv'
<1>1. /\ PoolTypeOK /\ i \in rest /\ rest \subseteq conns /\ conns \subseteq Ids
      /\ rest' = rest \ {i} /\ conns' = conns /\ seqOf' = seqOf
      /\ best' = IF best = NoConn \/ Better(i, best) THEN i ELSE best
  BY Zenon DEF PoolInv, PoolTypeOK, BestVisits
<1>2. i # NoConn
  BY Zenon, PoolAssumption
<1>3. PoolTypeOK'
  BY Zenon, <1>1 DEF PoolInv, PoolTypeOK, BestVisits
<1>4. ASSUME NEW k \in conns \ rest' PROVE NotBetter(k, best')
  <2>1. NotBetter(i, i)
    BY <1>1, Comparable DEF NotBetter
  <2>2. CASE best = NoConn
    <3>1. rest = conns
      BY Zenon, <1>1, <2>2 DEF PoolInv, BestSoFar
    <3> QED
      BY Zenon, <1>1, <2>1, <2>2, <3>1
  <2>3. CASE best # NoConn
    <3>1. best \in Ids /\ k \in Ids
      BY Zenon, <1>1, <2>3 DEF PoolTypeOK
    <3>2. k # i => NotBetter(k, best)
      BY Zenon, <1>1, <2>3 DEF PoolInv, BestSoFar
    <3>3. CASE Better(i, best)
      BY Zenon, <1>1, <2>1, <3>1, <3>2, <3>3, BetterThanAll
    <3>4. CASE ~ Better(i, best)
      BY Zenon, <1>1, <2>3, <3>1, <3>2, <3>4, BetterOrNot
    <3> QED
      BY Zenon, <3>3, <3>4
  <2> QED
    BY Zenon, <2>2, <2>3
<1>5. best' # NoConn
  BY Zenon, <1>1, <1>2
<1>6. BestSoFar'
  BY Zenon, <1>1, <1>4, <1>5 DEF BestSoFar, NotBetter
<1> QED
  BY Zenon, <1>1, <1>3, <1>6 DEF PoolInv, PoolBounded

-----------------------------------------------------------------------------
\* The invariant holds: every operation of the pool keeps it.
THEOREM PoolInvariant == PoolSpec => []PoolInv
<1>1. ASSUME PoolInv, [PoolNext]_pool PROVE PoolInv'
  <2>1. CASE UNCHANGED pool
    BY Zenon, <1>1, <2>1 DEF pool, PoolInv, PoolTypeOK, PoolBounded, BestSoFar, NotBetter
  <2>2. ASSUME NEW i \in Ids, Add(i) PROVE PoolInv'
    BY Zenon, <1>1, <2>2, AddKeeps
  <2>3. ASSUME NEW i \in Ids, Remove(i) PROVE PoolInv'
    BY Zenon, <1>1, <2>3, RemoveKeeps
  <2>4. ASSUME NEW i \in Ids, NEW n \in 0 .. MaxSeq, UpdateSeq(i, n) PROVE PoolInv'
    BY Zenon, <1>1, <2>4, UpdateSeqKeeps
  <2>5. CASE BestStarts
    BY Zenon, <1>1, <2>5, BestStartsKeeps
  <2>6. ASSUME NEW i \in Ids, BestVisits(i) PROVE PoolInv'
    BY Zenon, <1>1, <2>6, BestVisitsKeeps
  <2>7. CASE BestReturns
    BY Zenon, <1>1, <2>7, BestReturnsKeeps
  <2> QED
    BY Zenon, <1>1, <2>1, <2>2, <2>3, <2>4, <2>5, <2>6, <2>7 DEF PoolNext
<1> QED
  BY <1>1, PoolStarts, PTL DEF PoolSpec

\* The map, the numbers and the variables of Best have their types; Best ranges
\* over connections of the pool.
THEOREM PoolTyped == PoolSpec => []PoolTypeOK
BY PoolInvariant, PTL DEF PoolInv

\* Add never takes a pool beyond its capacity, the default one included.
THEOREM PoolStaysBounded == PoolSpec => []PoolBounded
BY PoolInvariant, PTL DEF PoolInv

\* What Best returns is a best connection, whatever the order of the map.
THEOREM PoolBestIsBest == PoolSpec => []BestIsBest
<1>1. PoolInv => BestIsBest
  BY Zenon DEF PoolInv, BestSoFar, BestIsBest, NotBetter
<1> QED
  BY <1>1, PoolInvariant, PTL
==============================================================================
