----------------------------- MODULE Components -----------------------------
(***************************************************************************)
(* The resources of a process and the registry of their shutdown functions *)
(* (internal/env/components.go).  Goroutines make clients, servers and     *)
(* consumers; what several of them need is made once, under a sync.Once.   *)
(* Each puts its shutdown function at the head of a list, read and         *)
(* written without a lock, and CloseComponents runs the list.  Servers and *)
(* consumers handle requests that use what was made before them.           *)
(***************************************************************************)
EXTENDS Naturals, Sequences

CONSTANTS
    Thread,     \* goroutines; each makes one resource and stands for it
    Programs    \* what they make: a set of functions from Thread to Kind

Clients   == {"redis", "sqlx", "gorm", "grpcConn"}
Servers   == {"http", "grpc"}
Consumers == {"kafka", "rocketmq"}
Senders   == {"kafkaSend", "rocketMQSend"}
Kind      == Clients \cup Servers \cup Consumers \cup Senders \cup {"registration"}

\* What is made under a sync.Once: the access logger, the etcd client and
\* the producers of one Kafka and one RocketMQ cluster.
Shared == {"accessLogger", "etcdClient", "kafkaProducer", "rocketMQProducer"}

Resource == Shared \cup Thread

ASSUME ComponentsAssumption ==
    /\ Thread \cap Shared = {}
    /\ Programs \subseteq [Thread -> Kind]

VARIABLES
    kind,           \* what each goroutine makes
    pc,             \* where it is
    todo,           \* the shared resources it has yet to see made
    read,           \* the list it read in AddShutdownFunc
    made,           \* the state of each sync.Once
    shutdownFuncs,  \* appShutdownFuncs, as the resources they close
    open,           \* resources that have to be closed
    serving,        \* servers and consumers that accept requests
    busy,           \* those with a request that is being handled
    uses,           \* the resources its requests use
    phase,          \* of the process
    toRun,          \* what CloseComponents has yet to run
    ran,            \* what it has run
    lost,           \* history: written over by a concurrent AddShutdownFunc
    late,           \* history: added after CloseComponents took the list
    leaked          \* history: opened by a call that failed, and not closed

registry == <<read, shutdownFuncs, lost, late>>
requests == <<serving, busy, uses>>
closing  == <<phase, toRun, ran>>
vars == <<kind, pc, todo, made, open, leaked, registry, requests, closing>>

Elems(s) == {s[i] : i \in DOMAIN s}
Alive    == phase \in {"running", "closing"}

\* The shared resource that t is making, or t itself.
Item(t) == IF todo[t] = <<>> THEN t ELSE Head(todo[t])

\* The sync.Once's on the way of each call, in the order in which it meets them:
\* every one logs first, and the log registers its shutdown function.
Needs(k) ==
    CASE k \in {"kafka", "kafkaSend"}       -> <<"accessLogger", "kafkaProducer">>
      [] k \in {"rocketmq", "rocketMQSend"} -> <<"accessLogger", "rocketMQProducer">>
      [] k \in {"grpcConn", "registration"} -> <<"accessLogger", "etcdClient">>
      [] OTHER -> <<"accessLogger">>

\* GetEtcdClient is nil when etcd is not configured or did not answer.
EtcdClientIsNil == made["etcdClient"] = "nil"

Init ==
    /\ kind \in Programs
    /\ pc = [t \in Thread |-> "idle"] /\ todo = [t \in Thread |-> <<>>]
    /\ read = [t \in Thread |-> <<>>]
    /\ made = [o \in Shared |-> "no"]
    /\ shutdownFuncs = <<>> /\ open = {}
    /\ serving = {} /\ busy = {} /\ uses = [t \in Thread |-> {}]
    /\ phase = "running" /\ toRun = <<>> /\ ran = {}
    /\ lost = {} /\ late = {} /\ leaked = {}

Goto(t, label) == pc' = [pc EXCEPT ![t] = label]

-----------------------------------------------------------------------------
(***************************************************************************)
(* Calls and sync.Once.                                                    *)
(***************************************************************************)

\* A goroutine calls its function.  Requests use the clients that were there
\* by then.  A registration is started by StartGrpcServer.
Call(t) ==
    /\ Alive /\ pc[t] = "idle"
    /\ kind[t] = "registration" =>
         \E s \in Thread : kind[s] = "grpc" /\ (pc[s] \in {"read", "write", "listen", "done"}
                                              \/ s \in Elems(shutdownFuncs) \cup lost \cup ran)
    /\ todo' = [todo EXCEPT ![t] = Needs(kind[t])]
    /\ uses' = [uses EXCEPT ![t] = {c \in Thread : kind[c] \in Clients /\ pc[c] = "done"}]
    /\ Goto(t, "once")
    /\ UNCHANGED <<kind, made, open, leaked, registry, serving, busy, closing>>

\* The first caller of a sync.Once runs its function; the others wait for it.
OnceRuns(t) ==
    /\ Alive /\ pc[t] = "once" /\ todo[t] # <<>> /\ made[Head(todo[t])] = "no"
    /\ made' = [made EXCEPT ![Head(todo[t])] = "making"]
    /\ Goto(t, "init")
    /\ UNCHANGED <<kind, todo, open, leaked, registry, requests, closing>>

OnceDone(t) ==
    /\ Alive /\ pc[t] = "once" /\ todo[t] # <<>> /\ made[Head(todo[t])] \in {"done", "nil"}
    /\ todo' = [todo EXCEPT ![t] = Tail(@)]
    /\ UNCHANGED <<kind, pc, made, open, leaked, registry, requests, closing>>

Init1(t, o) == Alive /\ pc[t] = "init" /\ Head(todo[t]) = o

\* Mutant: a function that failed does not count as done.
NotMadeYet(t) ==
    /\ made' = [made EXCEPT ![Head(todo[t])] = "failed"]
    /\ Goto(t, "once")
    /\ UNCHANGED <<kind, todo, open, leaked, registry, requests, closing>>

\* The function of the sync.Once ends without AddShutdownFunc; it is done.
NotMade(t) ==
    /\ made' = [made EXCEPT ![Head(todo[t])] = "nil"]
    /\ Goto(t, "once")
    /\ UNCHANGED <<kind, todo, open, leaked, registry, requests, closing>>

\* A resource is there, and its maker goes on to AddShutdownFunc.
Made(t) ==
    /\ open' = open \cup {Item(t)}
    /\ Goto(t, "read")
    /\ UNCHANGED <<kind, todo, made, leaked, registry, requests, closing>>

loadLogConfig(t) == Init1(t, "accessLogger") /\ Made(t)

\* Not configured, connected, or not after three tries: then the deferred
\* AddShutdownFunc adds the function of a client that is nil.
initEtcdClient(t) ==
    /\ Init1(t, "etcdClient")
    /\ \/ NotMade(t)
       \/ Made(t)
       \/ /\ Goto(t, "read")
          /\ UNCHANGED <<kind, todo, made, open, leaked, registry, requests, closing>>

\* A cluster whose producer cannot be made is skipped.
initProducers(t) == Init1(t, "kafkaProducer") /\ (NotMade(t) \/ Made(t))

\* Of the topics' clusters the first that starts gets the only producer.
initRocketMQProducers(t) == Init1(t, "rocketMQProducer") /\ (NotMade(t) \/ Made(t))

-----------------------------------------------------------------------------
(***************************************************************************)
(* The functions themselves, once all they need is made.                   *)
(***************************************************************************)

Body(t, k) == Alive /\ pc[t] = "once" /\ todo[t] = <<>> /\ kind[t] = k

\* The function returns an error, or logs one.
Fails(t) ==
    /\ Goto(t, "failed")
    /\ UNCHANGED <<kind, todo, made, open, leaked, registry, requests, closing>>

\* It returns an error, and what it opened stays open.
FailsOpen(t) ==
    /\ Goto(t, "failed")
    /\ open' = open \cup {t} /\ leaked' = leaked \cup {t}
    /\ UNCHANGED <<kind, todo, made, registry, requests, closing>>

\* A panic where nothing recovers, as by a method of the nil etcd client.
Crashes(t) ==
    /\ Goto(t, "failed") /\ phase' = "crashed"
    /\ UNCHANGED <<kind, todo, made, open, leaked, registry, requests, toRun, ran>>

\* The client library may call back with messages as soon as it has started.
MadeAndServing(t, label) ==
    /\ Goto(t, label)
    /\ open' = open \cup {t} /\ serving' = serving \cup {t}
    /\ UNCHANGED <<kind, todo, made, leaked, registry, busy, uses, closing>>

GetRedisClient(t) == Body(t, "redis") /\ (Fails(t) \/ Made(t))

\* After a Ping that fails the database is not closed.
GetSqlxDB(t) == Body(t, "sqlx") /\ (Fails(t) \/ FailsOpen(t) \/ Made(t))

\* Three tries; one that got as far as DB() and failed there is not closed.  The model
\* has the database of the last try only: one that an earlier try left open, before a
\* try that succeeded, is not a resource of its own.
GetGorm(t) == Body(t, "gorm") /\ (Fails(t) \/ FailsOpen(t) \/ Made(t))

\* The dependency must be declared; Build reads etcd, and the dial may time out.
GetGrpcClientConn(t) ==
    /\ Body(t, "grpcConn")
    /\ \/ Fails(t)
       \/ EtcdClientIsNil /\ Crashes(t)
       \/ "etcdClient" \in open /\ Made(t)

\* The consumer loop runs before the function waits for its set-up.  A topic that is
\* not configured is nil, which crashes the goroutine of either consumer.
StartKafkaConsumer(t) ==
    Body(t, "kafka") /\ (Fails(t) \/ Crashes(t) \/ MadeAndServing(t, "setup"))

SetupReady(t) ==
    /\ Alive /\ pc[t] = "setup"
    /\ Goto(t, "read")
    /\ UNCHANGED <<kind, todo, made, open, leaked, registry, requests, closing>>

StartRocketMQConsumer(t) ==
    Body(t, "rocketmq") /\ (Fails(t) \/ Crashes(t) \/ MadeAndServing(t, "read"))

\* A message is sent by a producer that is there; a nil one panics, and the
\* panic becomes an error.
Send(t, producer) ==
    \/ Fails(t)
    \/ /\ producer \in open
       /\ Goto(t, "done")
       /\ UNCHANGED <<kind, todo, made, open, leaked, registry, requests, closing>>

SendKafkaMessage(t)    == Body(t, "kafkaSend") /\ Send(t, "kafkaProducer")
SendRocketMQMessage(t) == Body(t, "rocketMQSend") /\ Send(t, "rocketMQProducer")

\* An http server adds its shutdown function before it listens.
StartHttpServer(t) ==
    /\ Body(t, "http")
    /\ Goto(t, "read")
    /\ UNCHANGED <<kind, todo, made, open, leaked, registry, requests, closing>>

\* So does a grpc server, when it is configured, and starts the registration.
StartGrpcServer(t) ==
    /\ Body(t, "grpc")
    /\ \/ Fails(t)
       \/ /\ Goto(t, "read")
          /\ UNCHANGED <<kind, todo, made, open, leaked, registry, requests, closing>>

\* ListenAndServe and Serve return at once when the server was shut down before.
ListenAndServe(t) ==
    /\ Alive /\ pc[t] = "listen"
    /\ \/ Goto(t, "failed") /\ UNCHANGED <<open, serving>>
       \/ /\ t \notin ran
          /\ Goto(t, "done")
          /\ open' = open \cup {t} /\ serving' = serving \cup {t}
    /\ UNCHANGED <<kind, todo, made, leaked, registry, busy, uses, closing>>

\* Start of serviceRegister: the first doRegister, and then unregister is added.
Start(t) ==
    /\ Body(t, "registration")
    /\ \/ EtcdClientIsNil /\ Crashes(t)
       \/ ~EtcdClientIsNil /\ Fails(t)
       \/ "etcdClient" \in open /\ Made(t)

-----------------------------------------------------------------------------
(***************************************************************************)
(* AddShutdownFunc: the list is read, and a new one written.               *)
(***************************************************************************)

ReadShutdownFuncs(t) ==
    /\ Alive /\ pc[t] = "read"
    /\ read' = [read EXCEPT ![t] = shutdownFuncs]
    /\ Goto(t, "write")
    /\ UNCHANGED <<kind, todo, made, open, leaked, shutdownFuncs, lost, late, requests, closing>>

\* Mutant: the function is appended.
Appended(f, list) == Append(list, f)

Prepended(f, list) == <<f>> \o list

\* The caller of AddShutdownFunc is through: a sync.Once is done, a server
\* goes on to listen, another function returns.
WriteShutdownFuncs(t) ==
    /\ Alive /\ pc[t] = "write"
    /\ shutdownFuncs' = Prepended(Item(t), read[t])
    /\ read' = [read EXCEPT ![t] = <<>>]
    /\ lost' = lost \cup (Elems(shutdownFuncs) \ Elems(read[t]))
    /\ late' = IF phase = "closing" THEN late \cup {Item(t)} ELSE late
    /\ IF todo[t] # <<>>
       THEN Goto(t, "once")
            /\ made' = [made EXCEPT ![Head(todo[t])] = IF Head(todo[t]) \in open THEN "done" ELSE "nil"]
       ELSE Goto(t, IF kind[t] \in Servers THEN "listen" ELSE "done") /\ UNCHANGED made
    /\ UNCHANGED <<kind, todo, open, leaked, requests, closing>>

-----------------------------------------------------------------------------
(***************************************************************************)
(* Requests, and the end of the process.                                   *)
(***************************************************************************)

RequestBegins(t) ==
    /\ Alive /\ t \in serving \ busy
    /\ busy' = busy \cup {t}
    /\ UNCHANGED <<kind, pc, todo, made, open, leaked, registry, serving, uses, closing>>

RequestEnds(t) ==
    /\ Alive /\ t \in busy
    /\ busy' = busy \ {t}
    /\ UNCHANGED <<kind, pc, todo, made, open, leaked, registry, serving, uses, closing>>

\* Close, or WaitClose after its signal; the range evaluates the list once.  A process
\* calls one of the two, and once: a second call would run the list again.
CloseComponents ==
    /\ phase = "running"
    /\ phase' = "closing" /\ toRun' = shutdownFuncs
    /\ UNCHANGED <<kind, pc, todo, made, open, leaked, registry, requests, ran>>

\* Mutant: the Kafka consumer is waited for, and not cancelled.
StopAcceptingHttpGrpc ==
    /\ phase = "closing" /\ toRun # <<>> /\ Head(toRun) \in serving
    /\ kind[Head(toRun)] # "kafka"
    /\ serving' = serving \ {Head(toRun)}
    /\ UNCHANGED <<kind, pc, todo, made, open, leaked, registry, busy, uses, closing>>

\* Shutdown, GracefulStop and the cancelled consumer first accept nothing more.
StopAccepting ==
    /\ phase = "closing" /\ toRun # <<>> /\ Head(toRun) \in serving
    /\ serving' = serving \ {Head(toRun)}
    /\ UNCHANGED <<kind, pc, todo, made, open, leaked, registry, busy, uses, closing>>

\* Mutant: GracefulStop and close do not wait for requests.
StopsAtOnce(t) == TRUE

\* GracefulStop and the Kafka consumer's close wait for the requests under way;
\* Shutdown gives them 5 seconds, and RocketMQ's Shutdown does not wait.
MayStop(t) == kind[t] \in {"grpc", "kafka"} => t \notin busy

\* Mutant: a panic ends the loop over the functions.
invokeUnrecovered(c) ==
    IF c = "etcdClient" /\ c \notin open THEN <<>> ELSE Tail(toRun)

\* An error is collected and a panic recovered: the loop goes on.
invokeShutdownFunc(c) == Tail(toRun)

RunShutdownFunc ==
    /\ phase = "closing" /\ toRun # <<>>
    /\ LET c == Head(toRun)
       IN  /\ c \notin serving
           /\ c \in Thread => MayStop(c)
           /\ open' = open \ {c}
           /\ ran' = ran \cup {c}
           /\ toRun' = invokeShutdownFunc(c)
    /\ UNCHANGED <<kind, pc, todo, made, leaked, registry, requests, phase>>

\* The errors are logged and the system log closed; the process ends.
doClose ==
    /\ phase = "closing" /\ toRun = <<>>
    /\ phase' = "closed"
    /\ UNCHANGED <<kind, pc, todo, made, open, leaked, registry, requests, toRun, ran>>

Ended == ~Alive /\ UNCHANGED vars

-----------------------------------------------------------------------------
Makes(t) ==
    \/ Call(t) \/ OnceRuns(t) \/ OnceDone(t)
    \/ loadLogConfig(t) \/ initEtcdClient(t)
    \/ initProducers(t) \/ initRocketMQProducers(t)
    \/ GetRedisClient(t) \/ GetSqlxDB(t) \/ GetGorm(t) \/ GetGrpcClientConn(t)
    \/ StartKafkaConsumer(t) \/ SetupReady(t) \/ StartRocketMQConsumer(t)
    \/ SendKafkaMessage(t) \/ SendRocketMQMessage(t)
    \/ StartHttpServer(t) \/ StartGrpcServer(t) \/ Start(t) \/ ListenAndServe(t)
    \/ ReadShutdownFuncs(t) \/ WriteShutdownFuncs(t)

Closes == CloseComponents \/ StopAccepting \/ RunShutdownFunc \/ doClose

Next ==
    \/ \E t \in Thread : Makes(t) \/ RequestBegins(t) \/ RequestEnds(t)
    \/ Closes
    \/ Ended

Safe == Init /\ [][Next]_vars

\* The closing goroutine runs, and handlers return.
Spec ==
    /\ Safe
    /\ WF_vars(StopAccepting) /\ WF_vars(RunShutdownFunc) /\ WF_vars(doClose)
    /\ \A t \in Thread : WF_vars(RequestEnds(t))

-----------------------------------------------------------------------------
TypeOK ==
    /\ kind \in [Thread -> Kind]
    /\ pc \in [Thread -> {"idle", "once", "init", "setup", "read", "write",
                          "listen", "done", "failed"}]
    /\ todo \in [Thread -> Seq(Shared)]
    /\ read \in [Thread -> Seq(Resource)]
    /\ made \in [Shared -> {"no", "making", "done", "nil"}]
    /\ shutdownFuncs \in Seq(Resource) /\ toRun \in Seq(Resource)
    /\ open \subseteq Resource /\ ran \subseteq Resource
    /\ lost \subseteq Resource /\ late \subseteq Resource /\ leaked \subseteq Thread
    /\ serving \subseteq Thread /\ busy \subseteq Thread
    /\ uses \in [Thread -> SUBSET Thread]
    /\ phase \in {"running", "closing", "closed", "crashed"}

\* What a resource relies on when its shutdown function runs.
DependsOn(c) ==
    IF c \in Thread THEN Elems(Needs(kind[c])) \cup uses[c]
    ELSE {"accessLogger"} \ {c}

\* AddShutdownFunc adds in reverse order ("逆序添加shutdownFunc"): no shutdown
\* function comes after one of something it relies on, whatever goroutines add
\* functions at once and whichever of them get lost.  None is in the list twice, and
\* the loop of a CloseComponents runs none again.
ReverseOrder ==
    /\ \A i, j \in DOMAIN shutdownFuncs :
        /\ shutdownFuncs[j] \in DependsOn(shutdownFuncs[i]) => i < j
        /\ shutdownFuncs[j] = shutdownFuncs[i] => i = j
    /\ ran \cap Elems(toRun) = {}

\* Nothing keeps what the requests of t use open: a consumer handles messages before its
\* shutdown function is added (consumer.go:130-135), a function that is lost or late does not
\* run at all, and those of http and RocketMQ end with requests under way.
Unguarded(t) ==
    \/ pc[t] \in {"setup", "read", "write"}
    \/ t \in lost \cup late
    \/ t \in ran /\ kind[t] \in {"http", "rocketmq"}

\* A request finds what it uses open, but for these cases (components.go:19-34): the
\* shutdown function of a grpc server or a Kafka consumer waits for its requests
\* (grpc/server.go:55-60, consumer.go:135-144), so that these have none once it has run.
RequestsFindResourcesOpen ==
    \A t \in busy :
        /\ ran \cap DependsOn(t) # {} => Unguarded(t)
        /\ kind[t] \in {"grpc", "kafka"} => t \notin ran

\* When the process ends in order, only these are open: what a failed call left
\* open, what was not added yet or too late, and what a concurrent
\* AddShutdownFunc wrote over.
ClosedUnlessLost ==
    phase = "closed" =>
        \A c \in open : \/ c \in leaked \cup lost \cup late
                        \/ \E t \in Thread : Item(t) = c /\ pc[t] \in {"setup", "read", "write"}

\* Once the closing began it comes to an end, unless the process crashes.
CloseReturns == (phase = "closing") ~> ~Alive
=============================================================================
